---------------------------- MODULE BatchWriter ----------------------------
(***************************************************************************)
(* The persistence pipeline behind the commit pipeline: admission tokens,  *)
(* encoder threads, the writer thread that stores published commits in     *)
(* version order, callers that wait for a version to be stored, and the    *)
(* shutdown that drains it all.                                            *)
(*                                                                         *)
(* A commit batch is its publication version.  The contents of a batch are *)
(* left out: the writer hands a batch to the storage engine as one atomic  *)
(* write.  A commit's rows and the sequences it carries are modelled in    *)
(* CommitPipeline and BatchContents.                                       *)
(***************************************************************************)
EXTENDS Integers, Sequences, FiniteSets

CONSTANTS
  Committer,              \* threads that commit transactions
  Encoder,                \* encoder threads
  Waiter,                 \* calls of wait_for_version and snapshot
  Stopper,                \* calls of MoorDB::stop
  ENCODE_QUEUE_CAPACITY,  \* 1000 in the code; also the number of tokens
  WRITER_QUEUE_CAPACITY,  \* 64 in the code
  MaxVersion,             \* bound: commits that may be published
  MayFail                 \* whether encoding or storing may fail

ASSUME BatchAssumption ==
  /\ IsFiniteSet(Committer)
  /\ IsFiniteSet(Encoder) /\ Encoder # {}
  /\ ENCODE_QUEUE_CAPACITY \in Nat \ {0}
  /\ WRITER_QUEUE_CAPACITY \in Nat \ {0}
  /\ MaxVersion \in Nat
  /\ MayFail \in BOOLEAN

VARIABLES
  published,   \* version of the published root
  tokens,      \* admission tokens that are free
  committer,   \* each committer: what it does, and the version it published
  encQ,        \* encoder channel
  encoder,     \* each encoder thread
  wrQ,         \* writer channel
  writer,      \* the writer thread
  closed,      \* whether it has dropped its end of the writer channel
  waiting,     \* waiting_batches: version |-> encoded successfully
  waiters,     \* barrier_waiters and snapshot_waiters
  request,     \* each call: its progress, the version it asks for, what it is
  stored,      \* versions in storage, in the order they were written
  completed,   \* completed_version
  kill,        \* kill_switch
  workers,     \* WorkerState: the shutdown's progress and result
  stop,        \* each call of MoorDB::stop and the version it must see stored
  fatal        \* a commit could not be handed over (report_persistence_failure)

commitVars == <<published, tokens, committer, fatal>>
encVars == <<encQ, encoder>>
writerVars == <<wrQ, writer, closed, waiting, stored, completed>>
waitVars == <<waiters, request>>
stopVars == <<kill, workers, stop>>

vars == <<commitVars, encVars, writerVars, waitVars, stopVars>>

Stop == 0   \* EncoderMsg::Stop; versions start at 1

Version == 1..MaxVersion

WriterMsg == [kind : {"commit"}, version : Version, ok : BOOLEAN]
               \cup [kind : {"wait"}, waiter : Waiter]

CommitMsg(v, ok) == [kind |-> "commit", version |-> v, ok |-> ok]
WaitMsg(w) == [kind |-> "wait", waiter |-> w]

next_version == completed + 1

EncodersAlive == \E e \in Encoder : encoder[e].pc \in {"recv", "send"}

-----------------------------------------------------------------------------
\* A committing thread

\* CommitAdmissionGate::acquire
Admit(c) ==
  /\ committer[c].pc = "idle"
  /\ published < MaxVersion
  /\ tokens > 0
  /\ tokens' = tokens - 1
  /\ committer' = [committer EXCEPT ![c].pc = "admitted"]
  /\ UNCHANGED <<published, fatal, encVars, writerVars, waitVars, stopVars>>

\* The commit loses its rebase: the token is dropped with it
GiveUp(c) ==
  /\ committer[c].pc = "admitted"
  /\ tokens' = tokens + 1
  /\ committer' = [committer EXCEPT ![c].pc = "idle"]
  /\ UNCHANGED <<published, fatal, encVars, writerVars, waitVars, stopVars>>

\* Mutant: the token is dropped with the prepared commit
Publish_ReleasesToken(c) ==
  /\ committer[c].pc = "admitted"
  /\ published < MaxVersion
  /\ published' = published + 1
  /\ tokens' = tokens + 1
  /\ committer' = [committer EXCEPT ![c] = [pc |-> "published", version |-> published + 1]]
  /\ UNCHANGED <<fatal, encVars, writerVars, waitVars, stopVars>>

\* The CAS that publishes the root; nothing orders the enqueues that follow
Publish(c) ==
  /\ committer[c].pc = "admitted"
  /\ published < MaxVersion
  /\ published' = published + 1
  /\ committer' = [committer EXCEPT ![c] = [pc |-> "published", version |-> published + 1]]
  /\ UNCHANGED <<tokens, fatal, encVars, writerVars, waitVars, stopVars>>

Done(c) == committer' = [committer EXCEPT ![c] = [pc |-> "idle", version |-> 0]]

Enqueue(c) ==
  /\ committer[c].pc = "published"
  /\ EncodersAlive
  /\ Len(encQ) < ENCODE_QUEUE_CAPACITY
  /\ encQ' = Append(encQ, committer[c].version)
  /\ Done(c)
  /\ UNCHANGED <<published, tokens, fatal, encoder, writerVars, waitVars, stopVars>>

\* working_sets_to_batch fails, the channel is full, or no encoder is left:
\* the commit stays published and the process is told to shut down
EnqueueFails(c) ==
  /\ committer[c].pc = "published"
  /\ MayFail \/ ~EncodersAlive \/ Len(encQ) >= ENCODE_QUEUE_CAPACITY
  /\ fatal' = TRUE
  /\ tokens' = tokens + 1
  /\ Done(c)
  /\ UNCHANGED <<published, encVars, writerVars, waitVars, stopVars>>

-----------------------------------------------------------------------------
\* An encoder thread

EncoderTake(e) ==
  /\ encoder[e].pc = "recv"
  /\ encQ # <<>>
  /\ encQ' = Tail(encQ)
  /\ IF Head(encQ) = Stop
       THEN /\ encoder' = [encoder EXCEPT ![e].pc = "stopped"]
            /\ UNCHANGED tokens
       ELSE /\ encoder' = [encoder EXCEPT ![e] = [pc |-> "send", version |-> Head(encQ)]]
            /\ tokens' = tokens + 1
  /\ UNCHANGED <<published, committer, fatal, writerVars, waitVars, stopVars>>

\* Mutant: a batch that cannot be encoded is dropped
EncoderSend_Drops(e) ==
  /\ encoder[e].pc = "send"
  /\ ~closed
  /\ Len(wrQ) < WRITER_QUEUE_CAPACITY
  /\ wrQ' = Append(wrQ, CommitMsg(encoder[e].version, TRUE)) \/ (MayFail /\ wrQ' = wrQ)
  /\ encoder' = [encoder EXCEPT ![e] = [pc |-> "recv", version |-> 0]]
  /\ UNCHANGED <<commitVars, encQ, writer, closed, waiting, stored, completed, waitVars, stopVars>>

\* Encoding ends well or not, and the result goes to the writer
EncoderSend(e) ==
  /\ encoder[e].pc = "send"
  /\ ~closed
  /\ Len(wrQ) < WRITER_QUEUE_CAPACITY
  /\ \E ok \in {TRUE, ~MayFail} : wrQ' = Append(wrQ, CommitMsg(encoder[e].version, ok))
  /\ encoder' = [encoder EXCEPT ![e] = [pc |-> "recv", version |-> 0]]
  /\ UNCHANGED <<commitVars, encQ, writer, closed, waiting, stored, completed, waitVars, stopVars>>

EncoderFails(e) ==
  /\ encoder[e].pc = "send"
  /\ closed
  /\ encoder' = [encoder EXCEPT ![e] = [pc |-> "failed", version |-> 0]]
  /\ UNCHANGED <<commitVars, encQ, writerVars, waitVars, stopVars>>

-----------------------------------------------------------------------------
\* Callers that wait for storage

\* wait_for_version and snapshot, of the version published when they are called
Ask(w) ==
  /\ request[w].pc = "idle"
  /\ \E snapshot \in BOOLEAN :
       request' = [request EXCEPT ![w] = [pc |-> "sending", through |-> published,
                                          snapshot |-> snapshot]]
  /\ UNCHANGED <<commitVars, encVars, writerVars, waiters, stopVars>>

SendRequest(w) ==
  /\ request[w].pc = "sending"
  /\ IF ~closed
       THEN /\ Len(wrQ) < WRITER_QUEUE_CAPACITY
            /\ wrQ' = Append(wrQ, WaitMsg(w))
            /\ request' = [request EXCEPT ![w].pc = "sent"]
       ELSE /\ request' = [request EXCEPT ![w].pc = "error"]
            /\ UNCHANGED wrQ
  /\ UNCHANGED <<commitVars, encVars, writer, closed, waiting, stored, completed, waiters, stopVars>>

\* recv_timeout of snapshot; the writer's later reply goes nowhere
Timeout(w) ==
  /\ request[w].snapshot
  /\ request[w].pc = "sent"
  /\ request' = [request EXCEPT ![w].pc = "error"]
  /\ UNCHANGED <<commitVars, encVars, writerVars, waiters, stopVars>>

\* Replies to those callers in W that still listen
Reply(W, answer) ==
  request' = [w \in Waiter |->
    IF w \in W /\ request[w].pc = "sent"
      THEN [request[w] EXCEPT !.pc = answer]
      ELSE request[w]]

-----------------------------------------------------------------------------
\* The writer thread

\* fail_waiters, or the reply channels dropped with the writer's state
WriterEnds(how) ==
  /\ writer' = how
  /\ Reply(waiters, "error")
  /\ waiters' = {}

\* handle_message: a batch that is older or already there is an error
HandleCommit ==
  /\ writer = "recv"
  /\ wrQ # <<>>
  /\ Head(wrQ).kind = "commit"
  /\ wrQ' = Tail(wrQ)
  /\ LET v == Head(wrQ).version IN
       IF v < next_version \/ v \in DOMAIN waiting
         THEN WriterEnds("failed") /\ UNCHANGED waiting
         ELSE /\ waiting' = [x \in DOMAIN waiting \cup {v} |->
                               IF x = v THEN Head(wrQ).ok ELSE waiting[x]]
              /\ writer' = "persist"
              /\ UNCHANGED <<waiters, request>>
  /\ UNCHANGED <<commitVars, encVars, closed, stored, completed, stopVars>>

\* Mutant: answers while the version asked for is still waiting
HandleWait_Early ==
  /\ writer = "recv"
  /\ wrQ # <<>>
  /\ Head(wrQ).kind = "wait"
  /\ wrQ' = Tail(wrQ)
  /\ LET w == Head(wrQ).waiter IN
       IF request[w].through <= next_version
         THEN Reply({w}, "ok") /\ UNCHANGED waiters
         ELSE waiters' = waiters \cup {w} /\ UNCHANGED request
  /\ UNCHANGED <<commitVars, encVars, writer, closed, waiting, stored, completed, stopVars>>

\* Mutant: a request for the version stored last is parked
HandleWait_Strict ==
  /\ writer = "recv"
  /\ wrQ # <<>>
  /\ Head(wrQ).kind = "wait"
  /\ wrQ' = Tail(wrQ)
  /\ LET w == Head(wrQ).waiter IN
       IF request[w].through < completed
         THEN Reply({w}, "ok") /\ UNCHANGED waiters
         ELSE waiters' = waiters \cup {w} /\ UNCHANGED request
  /\ UNCHANGED <<commitVars, encVars, writer, closed, waiting, stored, completed, stopVars>>

HandleWait ==
  /\ writer = "recv"
  /\ wrQ # <<>>
  /\ Head(wrQ).kind = "wait"
  /\ wrQ' = Tail(wrQ)
  /\ LET w == Head(wrQ).waiter IN
       IF request[w].through <= completed
         THEN Reply({w}, "ok") /\ UNCHANGED waiters
         ELSE waiters' = waiters \cup {w} /\ UNCHANGED request
  /\ UNCHANGED <<commitVars, encVars, writer, closed, waiting, stored, completed, stopVars>>

\* The batch that persist_ready looks for
NextBatch == next_version

Ready == NextBatch \in DOMAIN waiting

\* Mutant: one batch for every message received
Persist_Single ==
  /\ writer = "persist"
  /\ Ready
  /\ waiting[NextBatch]
  /\ stored' = Append(stored, NextBatch)
  /\ completed' = NextBatch
  /\ waiting' = [x \in DOMAIN waiting \ {NextBatch} |-> waiting[x]]
  /\ LET W == {w \in waiters : request[w].through <= NextBatch} IN
       Reply(W, "ok") /\ waiters' = waiters \ W
  /\ writer' = "recv"
  /\ UNCHANGED <<commitVars, encVars, wrQ, closed, stopVars>>

\* One round of persist_ready: prepare, commit and complete one batch, and
\* reply to everyone it satisfies
Persist ==
  /\ writer = "persist"
  /\ Ready
  /\ waiting[NextBatch]
  /\ stored' = Append(stored, NextBatch)
  /\ completed' = NextBatch
  /\ waiting' = [x \in DOMAIN waiting \ {NextBatch} |-> waiting[x]]
  /\ LET W == {w \in waiters : request[w].through <= NextBatch} IN
       Reply(W, "ok") /\ waiters' = waiters \ W
  /\ UNCHANGED <<commitVars, encVars, wrQ, writer, closed, stopVars>>

\* The batch could not be encoded, or the storage engine reports an error,
\* after which the batch may or may not be stored
PersistFails ==
  /\ writer = "persist"
  /\ Ready
  /\ MayFail \/ ~waiting[NextBatch]
  /\ \/ UNCHANGED stored
     \/ waiting[NextBatch] /\ stored' = Append(stored, NextBatch)
  /\ waiting' = [x \in DOMAIN waiting \ {NextBatch} |-> waiting[x]]
  /\ WriterEnds("failed")
  /\ UNCHANGED <<commitVars, encVars, wrQ, closed, completed, stopVars>>

PersistDone ==
  /\ writer = "persist"
  /\ ~Ready
  /\ writer' = "recv"
  /\ UNCHANGED <<commitVars, encVars, wrQ, closed, waiting, stored, completed, waitVars, stopVars>>

\* The writer's end of the channel is dropped; what is left in it is lost
WriterExits ==
  /\ writer \in {"stopped", "failed"}
  /\ ~closed
  /\ closed' = TRUE
  /\ UNCHANGED <<commitVars, encVars, wrQ, writer, waiting, stored, completed, waitVars, stopVars>>

\* The kill switch is seen with an empty channel: a gap is an error
WriterStops ==
  /\ writer = "recv"
  /\ kill
  /\ wrQ = <<>>
  /\ WriterEnds(IF DOMAIN waiting = {} THEN "stopped" ELSE "failed")
  /\ UNCHANGED <<commitVars, encVars, wrQ, closed, waiting, stored, completed, stopVars>>

-----------------------------------------------------------------------------
\* MoorDB::stop and Workers::stop

\* A call of MoorDB::stop notes what is published
StopCall(s) ==
  /\ stop[s].pc = "idle"
  /\ stop' = [stop EXCEPT ![s] = [pc |-> "called", through |-> published]]
  /\ UNCHANGED <<commitVars, encVars, writerVars, waitVars, kill, workers>>

\* The first caller takes the workers; the others wait for its result
StopBegin ==
  /\ workers.pc = "running"
  /\ \E s \in Stopper : stop[s].pc = "called"
  /\ workers' = [workers EXCEPT !.pc = "stopping"]
  /\ UNCHANGED <<commitVars, encVars, writerVars, waitVars, kill, stop>>

\* Mutant: one Stop for all encoders
StopSend_Once ==
  /\ workers.pc = "stopping"
  /\ workers.sent < Cardinality(Encoder)
  /\ IF workers.sent = 0 /\ EncodersAlive
       THEN Len(encQ) < ENCODE_QUEUE_CAPACITY /\ encQ' = Append(encQ, Stop)
       ELSE UNCHANGED encQ
  /\ workers' = [workers EXCEPT !.sent = @ + 1]
  /\ UNCHANGED <<commitVars, encoder, writerVars, waitVars, kill, stop>>

\* One Stop for every encoder; a send to a channel without receivers is ignored
StopSend ==
  /\ workers.pc = "stopping"
  /\ workers.sent < Cardinality(Encoder)
  /\ IF EncodersAlive
       THEN Len(encQ) < ENCODE_QUEUE_CAPACITY /\ encQ' = Append(encQ, Stop)
       ELSE UNCHANGED encQ
  /\ workers' = [workers EXCEPT !.sent = @ + 1]
  /\ UNCHANGED <<commitVars, encoder, writerVars, waitVars, kill, stop>>

\* Mutant: the writer is told to stop before the encoders have finished
StopJoinEncoders_Early ==
  /\ workers.pc = "stopping"
  /\ workers.sent = Cardinality(Encoder)
  /\ kill' = TRUE
  /\ workers' = [workers EXCEPT !.pc = "draining"]
  /\ UNCHANGED <<commitVars, encVars, writerVars, waitVars, stop>>

\* Every encoder has sent its output before the writer is told to drain
StopJoinEncoders ==
  /\ workers.pc = "stopping"
  /\ workers.sent = Cardinality(Encoder)
  /\ ~EncodersAlive
  /\ kill' = TRUE
  /\ workers' = [workers EXCEPT !.pc = "draining"]
  /\ UNCHANGED <<commitVars, encVars, writerVars, waitVars, stop>>

\* The first error of a worker is the result of the shutdown
StopJoinWriter ==
  /\ workers.pc = "draining"
  /\ closed
  /\ workers' = [workers EXCEPT !.pc = "stopped",
                   !.ok = writer = "stopped" /\ \A e \in Encoder : encoder[e].pc = "stopped"]
  /\ UNCHANGED <<commitVars, encVars, writerVars, waitVars, kill, stop>>

\* Mutant: a clean shutdown of the workers is taken for complete storage
StopReturn_NoCheck(s) ==
  /\ stop[s].pc = "called"
  /\ workers.pc = "stopped"
  /\ stop' = [stop EXCEPT ![s].pc = IF workers.ok THEN "ok" ELSE "error"]
  /\ UNCHANGED <<commitVars, encVars, writerVars, waitVars, kill, workers>>

StopReturn(s) ==
  /\ stop[s].pc = "called"
  /\ workers.pc = "stopped"
  /\ stop' = [stop EXCEPT ![s].pc =
                 IF workers.ok /\ completed >= stop[s].through THEN "ok" ELSE "error"]
  /\ UNCHANGED <<commitVars, encVars, writerVars, waitVars, kill, workers>>

-----------------------------------------------------------------------------
Init ==
  /\ published = 0
  /\ tokens = ENCODE_QUEUE_CAPACITY
  /\ committer = [c \in Committer |-> [pc |-> "idle", version |-> 0]]
  /\ encQ = <<>>
  /\ encoder = [e \in Encoder |-> [pc |-> "recv", version |-> 0]]
  /\ wrQ = <<>>
  /\ writer = "recv"
  /\ closed = FALSE
  /\ waiting = [v \in {} |-> FALSE]
  /\ waiters = {}
  /\ request = [w \in Waiter |-> [pc |-> "idle", through |-> 0, snapshot |-> FALSE]]
  /\ stored = <<>>
  /\ completed = 0
  /\ kill = FALSE
  /\ workers = [pc |-> "running", sent |-> 0, ok |-> FALSE]
  /\ stop = [s \in Stopper |-> [pc |-> "idle", through |-> 0]]
  /\ fatal = FALSE

CommitterStep(c) == Admit(c) \/ GiveUp(c) \/ Publish(c) \/ Enqueue(c) \/ EnqueueFails(c)
EncoderStep(e) == EncoderTake(e) \/ EncoderSend(e) \/ EncoderFails(e)
WaiterStep(w) == Ask(w) \/ SendRequest(w) \/ Timeout(w)
WriterStep == HandleCommit \/ HandleWait \/ Persist \/ PersistFails \/ PersistDone
              \/ WriterStops \/ WriterExits
ShutdownStep == StopBegin \/ StopSend \/ StopJoinEncoders \/ StopJoinWriter

Next ==
  \/ \E c \in Committer : CommitterStep(c)
  \/ \E e \in Encoder : EncoderStep(e)
  \/ \E w \in Waiter : WaiterStep(w)
  \/ WriterStep
  \/ ShutdownStep
  \/ \E s \in Stopper : StopCall(s) \/ StopReturn(s)

Spec == Init /\ [][Next]_vars

\* Every thread that can take a step takes one: operating-system threads.
\* A channel serves blocked senders in turn, so a sender that keeps finding
\* room gets its turn.  Nothing makes a task commit, ask or stop.
Fairness ==
  /\ \A c \in Committer : WF_vars(Enqueue(c) \/ EnqueueFails(c))
  /\ \A e \in Encoder : WF_vars(EncoderTake(e) \/ EncoderFails(e)) /\ SF_vars(EncoderSend(e))
  /\ \A w \in Waiter : SF_vars(SendRequest(w)) /\ WF_vars(Timeout(w))
  /\ WF_vars(WriterStep)
  /\ WF_vars(StopBegin) /\ SF_vars(StopSend)
  /\ WF_vars(StopJoinEncoders) /\ WF_vars(StopJoinWriter)
  /\ \A s \in Stopper : WF_vars(StopReturn(s))

FairSpec == Spec /\ Fairness
-----------------------------------------------------------------------------
Request ==
  [pc : {"idle", "sending", "sent", "ok", "error"}, through : 0..MaxVersion, snapshot : BOOLEAN]

CommitTypes ==
  /\ published \in 0..MaxVersion
  /\ tokens \in Nat
  /\ committer \in [Committer -> [pc : {"idle", "admitted", "published"}, version : 0..MaxVersion]]
  /\ fatal \in BOOLEAN

EncTypes ==
  /\ encQ \in Seq(0..MaxVersion) /\ Len(encQ) <= ENCODE_QUEUE_CAPACITY
  /\ encoder \in [Encoder -> [pc : {"recv", "send", "stopped", "failed"}, version : 0..MaxVersion]]
  /\ \A e \in Encoder : encoder[e].pc = "send" => encoder[e].version # 0

WriterTypes ==
  /\ wrQ \in Seq(WriterMsg) /\ Len(wrQ) <= WRITER_QUEUE_CAPACITY
  /\ writer \in {"recv", "persist", "stopped", "failed"}
  /\ closed \in BOOLEAN
  /\ DOMAIN waiting \subseteq Version /\ \A v \in DOMAIN waiting : waiting[v] \in BOOLEAN
  /\ stored \in Seq(Version)
  /\ completed \in 0..MaxVersion

WaitTypes ==
  /\ waiters \subseteq Waiter
  /\ request \in [Waiter -> Request]

StopTypes ==
  /\ kill \in BOOLEAN
  /\ workers \in [pc : {"running", "stopping", "draining", "stopped"},
                  sent : 0..Cardinality(Encoder), ok : BOOLEAN]
  /\ stop \in [Stopper -> [pc : {"idle", "called", "ok", "error"}, through : 0..MaxVersion]]

\* Types and bounds of the pipeline's state: the channels keep to their
\* capacities, whoever sends.
TypeOK == CommitTypes /\ EncTypes /\ WriterTypes /\ WaitTypes /\ StopTypes

\* A crash at any instant leaves a prefix of the published history: whatever
\* order encoders deliver batches in, storage receives 1, 2, 3, ... and never
\* a commit without the ones published before it.
StoredInOrder ==
  /\ \A i \in 1..Len(stored) : stored[i] = i
  /\ completed <= Len(stored) /\ Len(stored) <= published

CommitMsgsIn(q) == {i \in 1..Len(q) : q[i] # Stop}

\* Every admission token is free, with a committer, or with a queued batch:
\* lost rebases, failed handovers and dequeues all give theirs back, once.
TokenBalance ==
  tokens + Cardinality({c \in Committer : committer[c].pc # "idle"})
         + Cardinality(CommitMsgsIn(encQ)) = ENCODE_QUEUE_CAPACITY

\* "queue full after admission was reserved" never happens to a commit while
\* nobody stops the database: a token is room in the encoder channel.
AdmittedHasRoom ==
  \A c \in Committer : committer[c].pc = "published" /\ workers.pc = "running" =>
    Len(encQ) < ENCODE_QUEUE_CAPACITY

\* The places where the batch of version v can be
At(v) ==
  {<<"committer", c>> : c \in {c \in Committer : committer[c] = [pc |-> "published", version |-> v]}}
  \cup {<<"encQ", i>> : i \in {i \in 1..Len(encQ) : encQ[i] = v}}
  \cup {<<"encoder", e>> : e \in {e \in Encoder : encoder[e] = [pc |-> "send", version |-> v]}}
  \cup {<<"wrQ", i>> : i \in {i \in 1..Len(wrQ) : wrQ[i].kind = "commit" /\ wrQ[i].version = v}}
  \cup {<<"waiting", x>> : x \in DOMAIN waiting \cap {v}}
  \cup {<<"stored", i>> : i \in {i \in 1..Len(stored) : stored[i] = v}}

\* A published commit is in one place on its way to storage, never in two, and
\* it is gone only if its handover failed or the writer has failed: both end
\* the process.
EachVersionOnce ==
  \A v \in 1..published :
    /\ Cardinality(At(v)) <= 1
    /\ At(v) = {} => fatal \/ writer = "failed"

\* stop succeeds only if everything published when it was called is stored,
\* even for a call that finds the workers stopped and commits still racing.
StopHonest == \A s \in Stopper : stop[s].pc = "ok" => Len(stored) >= stop[s].through

\* stop drains: unless something failed it reports an error only if some published
\* commit had not reached the encoders in time.
StopDrains ==
  \A s \in Stopper : stop[s].pc = "error" =>
    \/ fatal \/ writer = "failed"
    \/ \E c \in Committer : committer[c].pc = "published"
    \/ CommitMsgsIn(encQ) # {}

\* Every published commit is stored, unless something failed or stop came.
PublishedIsStored ==
  \A v \in Version :
    published >= v ~> completed >= v \/ fatal \/ writer = "failed" \/ workers.pc # "running"

\* A caller that waits for a version is answered; wait_for_version, which has
\* no timeout, unless the writer has ended or a commit was not handed over.
RequestAnswered ==
  \A w \in Waiter :
    request[w].pc = "sending" ~>
      \/ request[w].pc \in {"ok", "error"}
      \/ ~request[w].snapshot /\ (fatal \/ ~(writer \in {"recv", "persist"}))

\* Every call of stop returns, whatever else is going on.
StopReturns == \A s \in Stopper : stop[s].pc = "called" ~> stop[s].pc \in {"ok", "error"}

\* The persistence pipeline implements the abstract promise: storage is a
\* growing prefix, and nobody is told otherwise.
DP == INSTANCE DurablePrefix WITH
        disk <- Len(stored),
        asked <- [w \in Waiter |-> request[w].through],
        told <- {w \in Waiter : request[w].pc = "ok"}

ImplementsDurablePrefix == DP!Spec

-----------------------------------------------------------------------------
\* The inductive invariant behind the theorems of BatchWriterProofs

\* Nothing is on its way to storage that was not published
FlightPublished ==
  /\ \A c \in Committer : committer[c].pc = "published" =>
                            committer[c].version # 0 /\ committer[c].version <= published
  /\ \A i \in 1..Len(encQ) : encQ[i] <= published
  /\ \A e \in Encoder : encoder[e].pc = "send" => encoder[e].version <= published
  /\ \A i \in 1..Len(wrQ) : wrQ[i].kind = "commit" => wrQ[i].version <= published
  /\ \A v \in DOMAIN waiting : v <= published

\* A writer that has not failed knows exactly what is stored
WriterCurrent == writer # "failed" => completed = Len(stored)

PersistInv == TypeOK /\ FlightPublished /\ WriterCurrent /\ StoredInOrder /\ StopHonest

\* Where a version can be on its way
WithCommitter(v) == \E c \in Committer : committer[c].pc = "published" /\ committer[c].version = v
InEncQ(v) == \E i \in 1..Len(encQ) : encQ[i] = v
WithEncoder(v) == \E e \in Encoder : encoder[e].pc = "send" /\ encoder[e].version = v
InWrQ(v) == \E i \in 1..Len(wrQ) : wrQ[i].kind = "commit" /\ wrQ[i].version = v

\* No two threads and no two messages carry one version
CommittersApart ==
  \A c, d \in Committer : committer[c].pc = "published" /\ committer[d].pc = "published"
                           /\ committer[c].version = committer[d].version => c = d
QueuedApart == \A i, j \in 1..Len(encQ) : encQ[i] = encQ[j] /\ encQ[i] # Stop => i = j
EncodersApart ==
  \A e, f \in Encoder : encoder[e].pc = "send" /\ encoder[f].pc = "send"
                         /\ encoder[e].version = encoder[f].version => e = f
SentApart ==
  \A i, j \in 1..Len(wrQ) : wrQ[i].kind = "commit" /\ wrQ[j].kind = "commit"
                             /\ wrQ[i].version = wrQ[j].version => i = j
NoneTwice == CommittersApart /\ QueuedApart /\ EncodersApart /\ SentApart

\* A version is in one stage of the pipeline, or stored
OneStage(v) ==
  /\ WithCommitter(v) => ~InEncQ(v) /\ ~WithEncoder(v) /\ ~InWrQ(v)
  /\ InEncQ(v) => ~WithEncoder(v) /\ ~InWrQ(v)
  /\ WithEncoder(v) => ~InWrQ(v)
  /\ v \in DOMAIN waiting \/ v <= Len(stored) =>
       ~WithCommitter(v) /\ ~InEncQ(v) /\ ~WithEncoder(v) /\ ~InWrQ(v)
  /\ v \in DOMAIN waiting => v > Len(stored)

\* A version that is nowhere was lost by a failure that ends the process
Traceable(v) ==
  \/ WithCommitter(v) \/ InEncQ(v) \/ WithEncoder(v) \/ InWrQ(v)
  \/ v \in DOMAIN waiting \/ v <= Len(stored)
  \/ fatal \/ writer = "failed"

\* The order of a shutdown: encoders end, then the writer drains, then callers
\* are answered; an encoder only fails after the writer
ShutdownOrder ==
  /\ workers.pc = "running" => \A i \in 1..Len(encQ) : encQ[i] # Stop
  /\ kill <=> workers.pc \in {"draining", "stopped"}
  /\ kill => ~EncodersAlive
  /\ \A e \in Encoder : encoder[e].pc = "failed" => writer = "failed"
  /\ writer = "stopped" =>
       /\ kill /\ DOMAIN waiting = {}
       /\ \A i \in 1..Len(wrQ) : wrQ[i].kind # "commit"
  /\ closed => writer \in {"stopped", "failed"}
  /\ workers.pc = "stopped" => closed /\ (workers.ok <=> writer = "stopped")
  /\ \A s \in Stopper :
       /\ stop[s].through <= published
       /\ stop[s].pc = "error" => workers.pc = "stopped"

FlowInv ==
  /\ PersistInv /\ TokenBalance /\ NoneTwice /\ ShutdownOrder /\ StopDrains
  /\ \A v \in Version : OneStage(v) /\ (v <= published => Traceable(v))

=============================================================================
