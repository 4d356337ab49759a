------------------------- MODULE BatchWriterProofs -------------------------
(***************************************************************************)
(* Proofs about the persistence pipeline, for any number of threads, any   *)
(* queue capacities and any number of commits, failures allowed.           *)
(***************************************************************************)
EXTENDS BatchWriter, FunctionTheorems, FiniteSetTheorems, TLAPS

-----------------------------------------------------------------------------
\* The actions by the thread that takes them, as one disjunction
LEMMA StepCases ==
  ASSUME [Next]_vars
  PROVE  \/ \E c \in Committer : Admit(c) \/ GiveUp(c) \/ Publish(c) \/ Enqueue(c) \/ EnqueueFails(c)
         \/ \E e \in Encoder : EncoderTake(e) \/ EncoderSend(e) \/ EncoderFails(e)
         \/ \E w \in Waiter : Ask(w) \/ SendRequest(w) \/ Timeout(w)
         \/ HandleCommit \/ HandleWait \/ Persist \/ PersistFails \/ PersistDone
         \/ WriterStops \/ WriterExits
         \/ StopBegin \/ StopSend \/ StopJoinEncoders \/ StopJoinWriter
         \/ \E s \in Stopper : StopCall(s) \/ StopReturn(s)
         \/ UNCHANGED vars
BY DEF Next, CommitterStep, EncoderStep, WaiterStep, WriterStep, ShutdownStep

\* The elements of a sequence over a set are in the set
LEMMA SeqElements ==
  ASSUME NEW S, NEW q \in Seq(S)
  PROVE  \A i \in 1..Len(q) : q[i] \in S
OBVIOUS

\* A reply changes the progress of requests and nothing else of them
LEMMA ReplyFrame ==
  ASSUME TypeOK, NEW W, NEW answer \in {"ok", "error"}, Reply(W, answer)
  PROVE  /\ request' \in [Waiter -> Request]
         /\ \A w \in Waiter :
              /\ request'[w].through = request[w].through
              /\ request'[w].pc # request[w].pc => w \in W /\ request'[w].pc = answer
BY DEF TypeOK, WaitTypes, Request, Reply

\* What an action of one group of variables leaves alone keeps its types
LEMMA TypeFrame ==
  /\ CommitTypes /\ UNCHANGED commitVars => CommitTypes'
  /\ EncTypes /\ UNCHANGED encVars => EncTypes'
  /\ WriterTypes /\ UNCHANGED writerVars => WriterTypes'
  /\ WaitTypes /\ UNCHANGED waitVars => WaitTypes'
  /\ StopTypes /\ UNCHANGED stopVars => StopTypes'
<1>1. CommitTypes /\ UNCHANGED commitVars => CommitTypes'  BY DEF CommitTypes, commitVars
<1>2. EncTypes /\ UNCHANGED encVars => EncTypes'           BY DEF EncTypes, encVars
<1>3. WriterTypes /\ UNCHANGED writerVars => WriterTypes'
  BY DEF WriterTypes, writerVars, WriterMsg, Version
<1>4. WaitTypes /\ UNCHANGED waitVars => WaitTypes'        BY DEF WaitTypes, waitVars
<1>5. StopTypes /\ UNCHANGED stopVars => StopTypes'        BY DEF StopTypes, stopVars
<1> QED BY <1>1, <1>2, <1>3, <1>4, <1>5

\* Every action keeps the types and the bounds of the channels
LEMMA TypeStep ==
  ASSUME TypeOK, [Next]_vars
  PROVE  TypeOK'
<1> USE BatchAssumption, TypeFrame
<1>0. CommitTypes /\ EncTypes /\ WriterTypes /\ WaitTypes /\ StopTypes
  BY DEF TypeOK
<1>1. ASSUME NEW c \in Committer, Admit(c) PROVE TypeOK'
  <2>1. CommitTypes'  BY <1>0, <1>1 DEF Admit, CommitTypes
  <2> QED BY <1>0, <1>1, <2>1 DEF Admit, TypeOK
<1>2. ASSUME NEW c \in Committer, GiveUp(c) PROVE TypeOK'
  <2>1. CommitTypes'  BY <1>0, <1>2 DEF GiveUp, CommitTypes
  <2> QED BY <1>0, <1>2, <2>1 DEF GiveUp, TypeOK
<1>3. ASSUME NEW c \in Committer, Publish(c) PROVE TypeOK'
  <2>1. CommitTypes'  BY <1>0, <1>3 DEF Publish, CommitTypes
  <2> QED BY <1>0, <1>3, <2>1 DEF Publish, TypeOK
<1>4. ASSUME NEW c \in Committer, Enqueue(c) PROVE TypeOK'
  <2>1. CommitTypes'  BY <1>0, <1>4 DEF Enqueue, Done, CommitTypes
  <2>2. EncTypes'     BY <1>0, <1>4 DEF Enqueue, EncTypes, CommitTypes
  <2> QED BY <1>0, <1>4, <2>1, <2>2 DEF Enqueue, TypeOK
<1>5. ASSUME NEW c \in Committer, EnqueueFails(c) PROVE TypeOK'
  <2>1. CommitTypes'  BY <1>0, <1>5 DEF EnqueueFails, Done, CommitTypes
  <2> QED BY <1>0, <1>5, <2>1 DEF EnqueueFails, TypeOK
<1>6. ASSUME NEW e \in Encoder, EncoderTake(e) PROVE TypeOK'
  <2>1. CommitTypes'  BY <1>0, <1>6 DEF EncoderTake, CommitTypes
  <2>2. Head(encQ) \in 0..MaxVersion /\ Tail(encQ) \in Seq(0..MaxVersion)
        /\ Len(Tail(encQ)) <= ENCODE_QUEUE_CAPACITY
    BY <1>0, <1>6 DEF EncoderTake, EncTypes
  <2>3. EncTypes'
    <3>1. CASE Head(encQ) = Stop
      BY <1>0, <1>6, <2>2, <3>1 DEF EncoderTake, EncTypes
    <3>2. CASE Head(encQ) # Stop
      <4>1. encoder' = [encoder EXCEPT ![e] = [pc |-> "send", version |-> Head(encQ)]]
            /\ encQ' = Tail(encQ) /\ Head(encQ) # 0
        BY <1>6, <3>2 DEF EncoderTake, Stop
      <4> QED BY <1>0, <2>2, <4>1 DEF EncTypes
    <3> QED BY <3>1, <3>2
  <2> QED BY <1>0, <1>6, <2>1, <2>3 DEF EncoderTake, TypeOK
<1>7. ASSUME NEW e \in Encoder, EncoderSend(e) PROVE TypeOK'
  <2>1. EncTypes'     BY <1>0, <1>7 DEF EncoderSend, EncTypes
  <2>2. \A ok \in BOOLEAN : CommitMsg(encoder[e].version, ok) \in WriterMsg
    BY <1>0, <1>7 DEF EncoderSend, EncTypes, CommitMsg, WriterMsg, Version
  <2>3. PICK ok \in BOOLEAN : wrQ' = Append(wrQ, CommitMsg(encoder[e].version, ok))
    BY <1>7, Zenon DEF EncoderSend
  <2>4. wrQ' \in Seq(WriterMsg) /\ Len(wrQ') <= WRITER_QUEUE_CAPACITY
    BY <1>0, <1>7, <2>2, <2>3 DEF EncoderSend, WriterTypes
  <2>5. WriterTypes'  BY <1>0, <1>7, <2>4 DEF EncoderSend, WriterTypes
  <2> QED BY <1>0, <1>7, <2>1, <2>5 DEF EncoderSend, TypeOK
<1>8. ASSUME NEW e \in Encoder, EncoderFails(e) PROVE TypeOK'
  <2>1. EncTypes'     BY <1>0, <1>8 DEF EncoderFails, EncTypes
  <2> QED BY <1>0, <1>8, <2>1 DEF EncoderFails, TypeOK
<1>9. ASSUME NEW w \in Waiter, Ask(w) PROVE TypeOK'
  <2>1. WaitTypes'    BY <1>0, <1>9 DEF Ask, WaitTypes, Request, CommitTypes
  <2> QED BY <1>0, <1>9, <2>1 DEF Ask, TypeOK
<1>10. ASSUME NEW w \in Waiter, SendRequest(w) PROVE TypeOK'
  <2>1. WaitTypes'    BY <1>0, <1>10 DEF SendRequest, WaitTypes, Request
  <2>2. WaitMsg(w) \in WriterMsg  BY DEF WaitMsg, WriterMsg
  <2>3. WriterTypes'
    <3>1. CASE closed
      BY <1>0, <1>10, <3>1 DEF SendRequest, WriterTypes
    <3>2. CASE ~closed
      <4>1. wrQ' = Append(wrQ, WaitMsg(w)) /\ Len(wrQ) < WRITER_QUEUE_CAPACITY
        BY <1>10, <3>2 DEF SendRequest
      <4>2. wrQ' \in Seq(WriterMsg) /\ Len(wrQ') <= WRITER_QUEUE_CAPACITY
        BY <1>0, <2>2, <4>1 DEF WriterTypes
      <4> QED BY <1>0, <1>10, <4>2 DEF SendRequest, WriterTypes
    <3> QED BY <3>1, <3>2
  <2> QED BY <1>0, <1>10, <2>1, <2>3 DEF SendRequest, TypeOK
<1>11. ASSUME NEW w \in Waiter, Timeout(w) PROVE TypeOK'
  <2>1. WaitTypes'    BY <1>0, <1>11 DEF Timeout, WaitTypes, Request
  <2> QED BY <1>0, <1>11, <2>1 DEF Timeout, TypeOK
<1>12. CASE HandleCommit
  <2>1. Head(wrQ) \in WriterMsg /\ Tail(wrQ) \in Seq(WriterMsg) /\ Len(Tail(wrQ)) <= Len(wrQ)
    BY <1>0, <1>12 DEF HandleCommit, WriterTypes
  <2>2. Head(wrQ).version \in Version /\ Head(wrQ).ok \in BOOLEAN
    BY <2>1, <1>12 DEF HandleCommit, WriterMsg
  <2>3. WriterTypes'
    BY <1>0, <1>12, <2>1, <2>2 DEF HandleCommit, WriterEnds, WriterTypes
  <2>4. WaitTypes'    BY <1>0, <1>12, ReplyFrame DEF HandleCommit, WriterEnds, WaitTypes
  <2> QED BY <1>0, <1>12, <2>3, <2>4 DEF HandleCommit, TypeOK
<1>13. CASE HandleWait
  <2>1. Head(wrQ) \in WriterMsg /\ Tail(wrQ) \in Seq(WriterMsg) /\ Len(Tail(wrQ)) <= Len(wrQ)
    BY <1>0, <1>13 DEF HandleWait, WriterTypes
  <2>2. Head(wrQ).waiter \in Waiter
    BY <2>1, <1>13 DEF HandleWait, WriterMsg
  <2>3. WriterTypes'  BY <1>0, <1>13, <2>1 DEF HandleWait, WriterTypes
  <2>4. WaitTypes'    BY <1>0, <1>13, <2>2, ReplyFrame DEF HandleWait, WaitTypes
  <2> QED BY <1>0, <1>13, <2>3, <2>4 DEF HandleWait, TypeOK
<1>14. CASE Persist
  <2>1. NextBatch \in Version  BY <1>0, <1>14 DEF Persist, Ready, WriterTypes
  <2>2. WriterTypes'  BY <1>0, <1>14, <2>1 DEF Persist, WriterTypes, Version
  <2>3. WaitTypes'    BY <1>0, <1>14, ReplyFrame DEF Persist, WaitTypes
  <2> QED BY <1>0, <1>14, <2>2, <2>3 DEF Persist, TypeOK
<1>15. CASE PersistFails
  <2>1. NextBatch \in Version  BY <1>0, <1>15 DEF PersistFails, Ready, WriterTypes
  <2>2. WriterTypes'
    BY <1>0, <1>15, <2>1 DEF PersistFails, WriterEnds, WriterTypes
  <2>3. WaitTypes'    BY <1>0, <1>15, ReplyFrame DEF PersistFails, WriterEnds, WaitTypes
  <2> QED BY <1>0, <1>15, <2>2, <2>3 DEF PersistFails, TypeOK
<1>16. CASE PersistDone
  <2>1. WriterTypes'  BY <1>0, <1>16 DEF PersistDone, WriterTypes
  <2> QED BY <1>0, <1>16, <2>1 DEF PersistDone, TypeOK
<1>17. CASE WriterStops
  <2>1. WriterTypes'  BY <1>0, <1>17 DEF WriterStops, WriterEnds, WriterTypes
  <2>2. WaitTypes'    BY <1>0, <1>17, ReplyFrame DEF WriterStops, WriterEnds, WaitTypes
  <2> QED BY <1>0, <1>17, <2>1, <2>2 DEF WriterStops, TypeOK
<1>18. CASE WriterExits
  <2>1. WriterTypes'  BY <1>0, <1>18 DEF WriterExits, WriterTypes
  <2> QED BY <1>0, <1>18, <2>1 DEF WriterExits, TypeOK
<1>19. CASE StopBegin
  <2>1. StopTypes'    BY <1>0, <1>19 DEF StopBegin, StopTypes
  <2> QED BY <1>0, <1>19, <2>1 DEF StopBegin, TypeOK
<1>20. CASE StopSend
  <2>1. Cardinality(Encoder) \in Nat  BY FS_CardinalityType
  <2>2. StopTypes'    BY <1>0, <1>20, <2>1 DEF StopSend, StopTypes
  <2>3. EncTypes'
    <3>1. CASE EncodersAlive
      <4>1. encQ' = Append(encQ, 0) /\ Len(encQ) < ENCODE_QUEUE_CAPACITY /\ encoder' = encoder
        BY <1>20, <3>1 DEF StopSend, Stop
      <4>2. 0 \in 0..MaxVersion  OBVIOUS
      <4> QED BY <1>0, <4>1, <4>2 DEF EncTypes
    <3>2. CASE ~EncodersAlive
      BY <1>0, <1>20, <3>2 DEF StopSend, EncTypes
    <3> QED BY <3>1, <3>2
  <2> QED BY <1>0, <1>20, <2>2, <2>3 DEF StopSend, TypeOK
<1>21. CASE StopJoinEncoders
  <2>1. StopTypes'    BY <1>0, <1>21 DEF StopJoinEncoders, StopTypes
  <2> QED BY <1>0, <1>21, <2>1 DEF StopJoinEncoders, TypeOK
<1>22. CASE StopJoinWriter
  <2>1. StopTypes'    BY <1>0, <1>22 DEF StopJoinWriter, StopTypes
  <2> QED BY <1>0, <1>22, <2>1 DEF StopJoinWriter, TypeOK
<1>23. ASSUME NEW s \in Stopper, StopCall(s) PROVE TypeOK'
  <2>1. StopTypes'    BY <1>0, <1>23 DEF StopCall, StopTypes, CommitTypes
  <2> QED BY <1>0, <1>23, <2>1 DEF StopCall, TypeOK
<1>24. ASSUME NEW s \in Stopper, StopReturn(s) PROVE TypeOK'
  <2>1. StopTypes'    BY <1>0, <1>24 DEF StopReturn, StopTypes
  <2> QED BY <1>0, <1>24, <2>1 DEF StopReturn, TypeOK
<1>25. CASE UNCHANGED vars
  BY <1>0, <1>25 DEF vars, TypeOK
<1> QED BY <1>1, <1>2, <1>3, <1>4, <1>5, <1>6, <1>7, <1>8, <1>9, <1>10, <1>11, <1>12, <1>13,
           <1>14, <1>15, <1>16, <1>17, <1>18, <1>19, <1>20, <1>21, <1>22, <1>23, <1>24, <1>25,
           StepCases
-----------------------------------------------------------------------------
\* Nothing but a published version is ever handed on
LEMMA FlightStep ==
  ASSUME TypeOK, FlightPublished, [Next]_vars
  PROVE  FlightPublished'
<1> USE DEF FlightPublished, commitVars, encVars, writerVars, waitVars, stopVars
<1>0. CommitTypes /\ EncTypes /\ WriterTypes  BY DEF TypeOK
<1>1. ASSUME NEW c \in Committer, Admit(c) \/ GiveUp(c) PROVE FlightPublished'
  BY <1>0, <1>1 DEF Admit, GiveUp, CommitTypes
<1>2. ASSUME NEW c \in Committer, Publish(c) PROVE FlightPublished'
  <2>1. /\ published' = published + 1 /\ published \in 0..MaxVersion
        /\ committer' = [committer EXCEPT ![c] = [pc |-> "published", version |-> published + 1]]
        /\ encQ' = encQ /\ encoder' = encoder /\ wrQ' = wrQ /\ waiting' = waiting
    BY <1>0, <1>2 DEF Publish, CommitTypes
  <2>2. \A d \in Committer : committer'[d].pc = "published" =>
                              committer'[d].version # 0 /\ committer'[d].version <= published'
    BY <1>0, <2>1 DEF CommitTypes
  <2>3. \A i \in 1..Len(encQ) : encQ[i] <= published'
    <3>0. encQ \in Seq(0..MaxVersion)
      BY <1>0 DEF EncTypes
    <3>1. \A i \in 1..Len(encQ) : encQ[i] \in 0..MaxVersion
      BY <3>0, SeqElements, Zenon
    <3> QED BY <2>1, <3>1, BatchAssumption
  <2>4. \A e \in Encoder : encoder[e].pc = "send" => encoder[e].version <= published'
    <3>1. \A e \in Encoder : encoder[e].version \in 0..MaxVersion
      BY <1>0 DEF EncTypes
    <3> QED BY <2>1, <3>1, BatchAssumption
  <2>5. \A i \in 1..Len(wrQ) : wrQ[i].kind = "commit" => wrQ[i].version <= published'
    <3> SUFFICES ASSUME NEW i \in 1..Len(wrQ), wrQ[i].kind = "commit"
                 PROVE  wrQ[i].version <= published'
      OBVIOUS
    <3>1. wrQ[i] \in WriterMsg  BY <1>0 DEF WriterTypes
    <3>2. wrQ[i].version \in Version  BY <3>1 DEF WriterMsg
    <3> QED BY <2>1, <3>2 DEF Version
  <2>6. \A v \in DOMAIN waiting : v <= published'
    BY <1>0, <2>1 DEF WriterTypes, Version
  <2> QED BY <2>1, <2>2, <2>3, <2>4, <2>5, <2>6
<1>3. ASSUME NEW c \in Committer, Enqueue(c) PROVE FlightPublished'
  BY <1>0, <1>3 DEF Enqueue, Done, CommitTypes, EncTypes
<1>4. ASSUME NEW c \in Committer, EnqueueFails(c) PROVE FlightPublished'
  BY <1>0, <1>4 DEF EnqueueFails, Done, CommitTypes
<1>5. ASSUME NEW e \in Encoder, EncoderTake(e) PROVE FlightPublished'
  <2>1. Head(encQ) <= published /\ \A i \in 1..Len(Tail(encQ)) : Tail(encQ)[i] <= published
    BY <1>0, <1>5 DEF EncoderTake, EncTypes
  <2>2. \A d \in Encoder : encoder'[d].pc = "send" => encoder'[d].version <= published
    <3>1. CASE Head(encQ) = Stop
      BY <1>0, <1>5, <3>1 DEF EncoderTake, EncTypes
    <3>2. CASE Head(encQ) # Stop
      <4>1. encoder' = [encoder EXCEPT ![e] = [pc |-> "send", version |-> Head(encQ)]]
        BY <1>5, <3>2 DEF EncoderTake
      <4> QED BY <1>0, <2>1, <4>1 DEF EncTypes
    <3> QED BY <3>1, <3>2
  <2> QED BY <1>5, <2>1, <2>2 DEF EncoderTake
<1>6. ASSUME NEW e \in Encoder, EncoderSend(e) PROVE FlightPublished'
  BY <1>0, <1>6 DEF EncoderSend, EncTypes, WriterTypes, CommitMsg
<1>7. ASSUME NEW e \in Encoder, EncoderFails(e) PROVE FlightPublished'
  BY <1>0, <1>7 DEF EncoderFails, EncTypes
<1>8. ASSUME NEW w \in Waiter, Ask(w) \/ Timeout(w) PROVE FlightPublished'
  BY <1>0, <1>8 DEF Ask, Timeout
<1>9. ASSUME NEW w \in Waiter, SendRequest(w) PROVE FlightPublished'
  BY <1>0, <1>9 DEF SendRequest, WaitMsg, WriterTypes
<1>10. CASE HandleCommit
  <2>1. \A i \in 1..Len(Tail(wrQ)) : Tail(wrQ)[i].kind = "commit" =>
                                        Tail(wrQ)[i].version <= published
    BY <1>0, <1>10 DEF HandleCommit, WriterTypes
  <2>2. Head(wrQ).version <= published
    BY <1>0, <1>10 DEF HandleCommit, WriterTypes
  <2>3. DOMAIN waiting' \subseteq DOMAIN waiting \cup {Head(wrQ).version}
    BY <1>10 DEF HandleCommit
  <2> QED BY <1>10, <2>1, <2>2, <2>3 DEF HandleCommit
<1>11. CASE HandleWait
  BY <1>0, <1>11 DEF HandleWait, WriterTypes
<1>12. CASE Persist \/ PersistFails
  BY <1>0, <1>12 DEF Persist, PersistFails, WriterEnds
<1>13. CASE PersistDone \/ WriterStops \/ WriterExits
  BY <1>0, <1>13 DEF PersistDone, WriterStops, WriterExits, WriterEnds
<1>14. CASE StopSend
  BY <1>0, <1>14 DEF StopSend, Stop, EncTypes, CommitTypes
<1>15. CASE StopBegin \/ StopJoinEncoders \/ StopJoinWriter
  BY <1>0, <1>15 DEF StopBegin, StopJoinEncoders, StopJoinWriter
<1>16. ASSUME NEW s \in Stopper, StopCall(s) \/ StopReturn(s) PROVE FlightPublished'
  BY <1>0, <1>16 DEF StopCall, StopReturn
<1>17. CASE UNCHANGED vars
  BY <1>17 DEF vars
<1> QED BY <1>1, <1>2, <1>3, <1>4, <1>5, <1>6, <1>7, <1>8, <1>9, <1>10, <1>11, <1>12, <1>13,
           <1>14, <1>15, <1>16, <1>17, StepCases

\* Only Persist and PersistFails touch storage, and both while the writer is
\* still going: everything else keeps it, and keeps a failed writer failed.
LEMMA StorageFrame ==
  ASSUME [Next]_vars
  PROVE  \/ Persist \/ PersistFails
         \/ /\ UNCHANGED <<stored, completed>>
            /\ writer' # "failed" => writer # "failed"
<1> USE DEF commitVars, encVars, writerVars, waitVars, stopVars
<1>1. ASSUME NEW c \in Committer,
             Admit(c) \/ GiveUp(c) \/ Publish(c) \/ Enqueue(c) \/ EnqueueFails(c)
      PROVE  UNCHANGED <<stored, completed, writer>>
  BY <1>1 DEF Admit, GiveUp, Publish, Enqueue, EnqueueFails
<1>2. ASSUME NEW e \in Encoder, EncoderTake(e) \/ EncoderSend(e) \/ EncoderFails(e)
      PROVE  UNCHANGED <<stored, completed, writer>>
  BY <1>2 DEF EncoderTake, EncoderSend, EncoderFails
<1>3. ASSUME NEW w \in Waiter, Ask(w) \/ SendRequest(w) \/ Timeout(w)
      PROVE  UNCHANGED <<stored, completed, writer>>
  BY <1>3 DEF Ask, SendRequest, Timeout
<1>4. CASE HandleCommit \/ HandleWait \/ PersistDone \/ WriterStops \/ WriterExits
  BY <1>4 DEF HandleCommit, HandleWait, PersistDone, WriterStops, WriterExits
<1>5. CASE StopBegin \/ StopSend \/ StopJoinEncoders \/ StopJoinWriter
  BY <1>5 DEF StopBegin, StopSend, StopJoinEncoders, StopJoinWriter
<1>6. ASSUME NEW s \in Stopper, StopCall(s) \/ StopReturn(s)
      PROVE  UNCHANGED <<stored, completed, writer>>
  BY <1>6 DEF StopCall, StopReturn
<1>7. CASE UNCHANGED vars
  BY <1>7 DEF vars
<1> QED BY <1>1, <1>2, <1>3, <1>4, <1>5, <1>6, <1>7, StepCases

\* The published version never goes back
LEMMA PublishedGrows ==
  ASSUME TypeOK, [Next]_vars
  PROVE  published' \in Nat /\ published <= published'
<1> USE DEF commitVars, encVars, writerVars, waitVars, stopVars
<1>0. published \in Nat  BY BatchAssumption DEF TypeOK, CommitTypes
<1>1. ASSUME NEW c \in Committer,
             Admit(c) \/ GiveUp(c) \/ Publish(c) \/ Enqueue(c) \/ EnqueueFails(c)
      PROVE  published' \in {published, published + 1}
  BY <1>1 DEF Admit, GiveUp, Publish, Enqueue, EnqueueFails
<1>2. ASSUME NEW e \in Encoder, EncoderTake(e) \/ EncoderSend(e) \/ EncoderFails(e)
      PROVE  published' = published
  BY <1>2 DEF EncoderTake, EncoderSend, EncoderFails
<1>3. ASSUME NEW w \in Waiter, Ask(w) \/ SendRequest(w) \/ Timeout(w)
      PROVE  published' = published
  BY <1>3 DEF Ask, SendRequest, Timeout
<1>4. CASE HandleCommit \/ HandleWait \/ Persist \/ PersistFails \/ PersistDone
           \/ WriterStops \/ WriterExits
  BY <1>0, <1>4 DEF HandleCommit, HandleWait, Persist, PersistFails, PersistDone, WriterStops,
                    WriterExits
<1>5. CASE StopBegin \/ StopSend \/ StopJoinEncoders \/ StopJoinWriter
  BY <1>0, <1>5 DEF StopBegin, StopSend, StopJoinEncoders, StopJoinWriter
<1>6. ASSUME NEW s \in Stopper, StopCall(s) \/ StopReturn(s)
      PROVE  published' = published
  BY <1>6 DEF StopCall, StopReturn
<1>7. CASE UNCHANGED vars
  BY <1>0, <1>7 DEF vars
<1> QED BY <1>0, <1>1, <1>2, <1>3, <1>4, <1>5, <1>6, <1>7, StepCases

\* The next batch extends storage by exactly the next version
LEMMA NextExtends ==
  ASSUME TypeOK, FlightPublished, WriterCurrent, StoredInOrder, writer = "persist", Ready
  PROVE  /\ NextBatch = Len(stored) + 1 /\ NextBatch \in Version /\ NextBatch <= published
         /\ Append(stored, NextBatch) \in Seq(Version)
         /\ Len(Append(stored, NextBatch)) = Len(stored) + 1
         /\ \A i \in 1..(Len(stored) + 1) : Append(stored, NextBatch)[i] = i
<1>1. stored \in Seq(Version) /\ NextBatch \in Version
  BY DEF TypeOK, WriterTypes, Ready
<1>2. NextBatch = Len(stored) + 1 /\ NextBatch <= published
  BY DEF WriterCurrent, NextBatch, next_version, Ready, FlightPublished
<1> QED BY <1>1, <1>2 DEF StoredInOrder

\* Storage stays a prefix, and a writer that has not failed knows how long it is
LEMMA OrderStep ==
  ASSUME TypeOK, FlightPublished, WriterCurrent, StoredInOrder, [Next]_vars
  PROVE  WriterCurrent' /\ StoredInOrder'
<1>0. stored \in Seq(Version) /\ completed \in Nat /\ published \in Nat /\ Len(stored) \in Nat
  BY BatchAssumption DEF TypeOK, WriterTypes, CommitTypes
<1>1. CASE Persist
  <2>1. stored' = Append(stored, NextBatch) /\ completed' = NextBatch /\ published' = published
    BY <1>1 DEF Persist, commitVars
  <2> QED BY <1>0, <1>1, <2>1, NextExtends DEF Persist, WriterCurrent, StoredInOrder
<1>2. CASE PersistFails
  <2>1. completed' = completed /\ published' = published /\ writer' = "failed"
        /\ (stored' = stored \/ stored' = Append(stored, NextBatch))
    BY <1>2 DEF PersistFails, WriterEnds, commitVars
  <2> QED BY <1>0, <1>2, <2>1, NextExtends DEF PersistFails, WriterCurrent, StoredInOrder
<1>3. CASE UNCHANGED <<stored, completed>> /\ (writer' # "failed" => writer # "failed")
  BY <1>0, <1>3, PublishedGrows DEF WriterCurrent, StoredInOrder
<1> QED BY <1>1, <1>2, <1>3, StorageFrame
\* A stop that has succeeded stays right
LEMMA StopStep ==
  ASSUME TypeOK, FlightPublished, WriterCurrent, StoredInOrder, StopHonest, [Next]_vars
  PROVE  StopHonest'
<1> USE DEF commitVars, encVars, writerVars, waitVars, stopVars
<1>0. stored \in Seq(Version) /\ completed \in Nat /\ Len(stored) \in Nat
      /\ stop \in [Stopper -> [pc : {"idle", "called", "ok", "error"}, through : 0..MaxVersion]]
  BY BatchAssumption DEF TypeOK, WriterTypes, StopTypes
<1>1. Len(stored') \in Nat /\ Len(stored) <= Len(stored')
  <2>1. CASE Persist
    BY <1>0, <2>1, NextExtends DEF Persist
  <2>2. CASE PersistFails
    BY <1>0, <2>2, NextExtends DEF PersistFails
  <2>3. CASE UNCHANGED stored
    BY <1>0, <2>3
  <2> QED BY <2>1, <2>2, <2>3, StorageFrame
<1>2. CASE UNCHANGED stop
  BY <1>0, <1>1, <1>2, BatchAssumption DEF StopHonest
<1>3. ASSUME NEW s \in Stopper, StopCall(s) PROVE StopHonest'
  BY <1>0, <1>3 DEF StopCall, StopHonest
<1>4. ASSUME NEW s \in Stopper, StopReturn(s) PROVE StopHonest'
  BY <1>0, <1>4, BatchAssumption DEF StopReturn, StopHonest, StoredInOrder
<1>5. ASSUME NEW c \in Committer,
             Admit(c) \/ GiveUp(c) \/ Publish(c) \/ Enqueue(c) \/ EnqueueFails(c)
      PROVE  UNCHANGED stop
  BY <1>5 DEF Admit, GiveUp, Publish, Enqueue, EnqueueFails
<1>6. ASSUME NEW e \in Encoder, EncoderTake(e) \/ EncoderSend(e) \/ EncoderFails(e)
      PROVE  UNCHANGED stop
  BY <1>6 DEF EncoderTake, EncoderSend, EncoderFails
<1>7. ASSUME NEW w \in Waiter, Ask(w) \/ SendRequest(w) \/ Timeout(w) PROVE UNCHANGED stop
  BY <1>7 DEF Ask, SendRequest, Timeout
<1>8. HandleCommit \/ HandleWait \/ Persist \/ PersistFails \/ PersistDone
        \/ WriterStops \/ WriterExits => UNCHANGED stop
  BY DEF HandleCommit, HandleWait, Persist, PersistFails, PersistDone, WriterStops, WriterExits
<1>9. StopBegin \/ StopSend \/ StopJoinEncoders \/ StopJoinWriter => UNCHANGED stop
  BY DEF StopBegin, StopSend, StopJoinEncoders, StopJoinWriter
<1>10. UNCHANGED vars => UNCHANGED stop
  BY DEF vars
<1> QED BY <1>2, <1>3, <1>4, <1>5, <1>6, <1>7, <1>8, <1>9, <1>10, StepCases

\* The empty pipeline satisfies the invariant
LEMMA PersistInit == Init => PersistInv
<1> SUFFICES ASSUME Init PROVE PersistInv
  OBVIOUS
<1>1. Cardinality(Encoder) \in Nat  BY BatchAssumption, FS_CardinalityType
<1>2. TypeOK
  <2>1. fatal \in BOOLEAN /\ closed \in BOOLEAN /\ kill \in BOOLEAN /\ workers.ok \in BOOLEAN
    BY Zenon DEF Init
  <2>2. CommitTypes  BY <2>1, BatchAssumption DEF Init, CommitTypes
  <2>3. EncTypes     BY BatchAssumption DEF Init, EncTypes
  <2>4. WriterTypes  BY <2>1, BatchAssumption DEF Init, WriterTypes
  <2>5. WaitTypes    BY BatchAssumption DEF Init, WaitTypes, Request
  <2>6. StopTypes    BY <1>1, <2>1, BatchAssumption DEF Init, StopTypes
  <2> QED BY <2>2, <2>3, <2>4, <2>5, <2>6 DEF TypeOK
<1>3. FlightPublished /\ WriterCurrent /\ StoredInOrder /\ StopHonest
  BY DEF Init, FlightPublished, WriterCurrent, StoredInOrder, StopHonest
<1> QED BY <1>2, <1>3 DEF PersistInv

\* The inductive invariant: types, only published versions in flight, and a
\* writer that knows what is stored.
THEOREM PersistInvariance == Spec => []PersistInv
<1>1. PersistInv /\ [Next]_vars => PersistInv'
  BY TypeStep, FlightStep, OrderStep, StopStep DEF PersistInv
<1> QED BY <1>1, PersistInit, PTL DEF Spec

\* Types and channel bounds hold for every number of threads and capacity.
THEOREM PersistTypes == Spec => []TypeOK
<1>1. PersistInv => TypeOK  BY DEF PersistInv
<1> QED BY <1>1, PersistInvariance, PTL

\* Storage is a prefix of the published history at every instant, whatever
\* order the encoders deliver batches in and wherever encoding or storing fails.
THEOREM PrefixStored == Spec => []StoredInOrder
<1>1. PersistInv => StoredInOrder  BY DEF PersistInv
<1> QED BY <1>1, PersistInvariance, PTL

\* No call of stop, early or late, succeeds before its version is stored.
THEOREM StopIsHonest == Spec => []StopHonest
<1>1. PersistInv => StopHonest  BY DEF PersistInv
<1> QED BY <1>1, PersistInvariance, PTL
-----------------------------------------------------------------------------
\* Refinement of DurablePrefix: what callers asked for and what they were told
Asked == [w \in Waiter |-> request[w].through]
Told == {w \in Waiter : request[w].pc = "ok"}

\* Replies change nothing that was asked; only a yes tells anybody anything
LEMMA RepliesTold ==
  ASSUME TypeOK, NEW W, NEW answer \in {"ok", "error"}, Reply(W, answer)
  PROVE  /\ Asked' = Asked
         /\ answer = "error" => Told' = Told
         /\ Told \subseteq Told' /\ Told' \ Told \subseteq W
<1> USE DEF Asked, Told
<1>1. \A w \in Waiter : request'[w] =
        IF w \in W /\ request[w].pc = "sent" THEN [request[w] EXCEPT !.pc = answer] ELSE request[w]
  BY DEF Reply
<1>2. \A w \in Waiter : request[w] \in Request
  BY DEF TypeOK, WaitTypes
<1>3. \A w \in Waiter :
        /\ request'[w].through = request[w].through
        /\ request[w].pc = "ok" => request'[w].pc = "ok"
        /\ request'[w].pc = "ok" /\ request[w].pc # "ok" => answer = "ok" /\ w \in W
  BY <1>1, <1>2 DEF Request
<1> QED BY <1>3

\* Every step is a step of DurablePrefix or changes nothing that it shows
LEMMA PrefixStep ==
  ASSUME PersistInv, [Next]_vars
  PROVE  DP!Next \/ UNCHANGED <<published, Len(stored), Asked, Told>>
<1> USE DEF commitVars, encVars, writerVars, waitVars, stopVars
<1>0. /\ TypeOK /\ FlightPublished /\ WriterCurrent /\ StoredInOrder
      /\ Len(stored) \in Nat /\ published \in Nat /\ completed \in Nat
      /\ request \in [Waiter -> Request]
  BY BatchAssumption DEF PersistInv, TypeOK, CommitTypes, WriterTypes, WaitTypes
<1>1. ASSUME UNCHANGED <<published, stored, request>>
      PROVE  UNCHANGED <<published, Len(stored), Asked, Told>>
  BY <1>1 DEF Asked, Told
<1>2. ASSUME NEW c \in Committer, Publish(c) PROVE DP!Next
  <2>1. published' = published + 1 /\ UNCHANGED <<stored, request>>
    BY <1>2 DEF Publish
  <2> QED BY <2>1 DEF DP!Next, DP!Publish
<1>3. ASSUME NEW c \in Committer, Admit(c) \/ GiveUp(c) \/ Enqueue(c) \/ EnqueueFails(c)
      PROVE  UNCHANGED <<published, stored, request>>
  BY <1>3 DEF Admit, GiveUp, Enqueue, EnqueueFails
<1>4. ASSUME NEW e \in Encoder, EncoderTake(e) \/ EncoderSend(e) \/ EncoderFails(e)
      PROVE  UNCHANGED <<published, stored, request>>
  BY <1>4 DEF EncoderTake, EncoderSend, EncoderFails
<1>5. ASSUME NEW w \in Waiter, Ask(w) PROVE DP!Next
  <2>1. /\ UNCHANGED <<published, stored>> /\ request[w].pc = "idle"
        /\ \E snapshot \in BOOLEAN :
             request' = [request EXCEPT ![w] = [pc |-> "sending", through |-> published,
                                                snapshot |-> snapshot]]
    BY <1>5 DEF Ask
  <2>a. PICK kind \in BOOLEAN :
          request' = [request EXCEPT ![w] = [pc |-> "sending", through |-> published,
                                             snapshot |-> kind]]
    BY <2>1
  <2>b. \A x \in Waiter : x # w => request'[x] = request[x]
    BY <1>0, <2>a
  <2>c. request'[w].pc = "sending" /\ request'[w].through = published
    BY <1>0, <2>a
  <2>2. w \notin Told /\ Told' = Told /\ Asked' = [Asked EXCEPT ![w] = published]
    BY <1>0, <2>1, <2>b, <2>c DEF Told, Asked
  <2> QED BY <2>1, <2>2 DEF DP!Next, DP!Ask, Told, Asked
<1>6. ASSUME NEW w \in Waiter, SendRequest(w) \/ Timeout(w)
      PROVE  UNCHANGED <<published, Len(stored), Asked, Told>>
  <2>1. /\ UNCHANGED <<published, stored>> /\ request[w].pc \in {"sending", "sent"}
        /\ \E pc \in {"sent", "error"} : request' = [request EXCEPT ![w].pc = pc]
    BY <1>6 DEF SendRequest, Timeout
  <2> QED BY <1>0, <2>1 DEF Told, Asked
<1>7. CASE HandleCommit
  <2>1. UNCHANGED <<published, stored>> /\ (UNCHANGED request \/ Reply(waiters, "error"))
    BY <1>7 DEF HandleCommit, WriterEnds
  <2> QED BY <1>0, <1>1, <2>1, RepliesTold
<1>8. CASE HandleWait
  <2> DEFINE w == Head(wrQ).waiter
  <2>1. UNCHANGED <<published, stored>>
        /\ (UNCHANGED request \/ (Reply({w}, "ok") /\ request[w].through <= completed))
    BY <1>8 DEF HandleWait
  <2>2. CASE UNCHANGED request
    BY <1>1, <2>1, <2>2
  <2>3. CASE Reply({w}, "ok") /\ request[w].through <= completed
    <3>1. Asked' = Asked /\ Told \subseteq Told' /\ Told' \ Told \subseteq {w}
      BY <1>0, <2>3, RepliesTold
    <3>2. \A x \in Told' \ Told : Asked[x] <= Len(stored)
      <4> SUFFICES ASSUME NEW x \in Told' \ Told PROVE Asked[x] <= Len(stored)
        OBVIOUS
      <4>1. x = w /\ x \in Waiter  BY <3>1 DEF Told
      <4>2. request[x].through \in 0..MaxVersion  BY <1>0, <4>1 DEF Request
      <4> QED BY <1>0, <2>3, <4>1, <4>2, BatchAssumption DEF Asked, StoredInOrder
    <3> QED BY <2>1, <3>1, <3>2 DEF DP!Next, DP!Tell, Told, Asked
  <2> QED BY <2>1, <2>2, <2>3
<1>9. CASE Persist
  <2> DEFINE W == {x \in waiters : request[x].through <= NextBatch}
  <2>1. /\ published' = published /\ stored' = Append(stored, NextBatch) /\ Reply(W, "ok")
        /\ writer = "persist" /\ Ready
    BY <1>9 DEF Persist
  <2>2. Asked' = Asked /\ Told \subseteq Told' /\ Told' \ Told \subseteq W
    BY <1>0, <2>1, RepliesTold
  <2>3. Len(stored') = Len(stored) + 1 /\ NextBatch = Len(stored) + 1 /\ NextBatch <= published
    BY <1>0, <2>1, NextExtends
  <2>4. \A x \in Told' \ Told : Asked[x] <= Len(stored')
    BY <2>2, <2>3 DEF Told, Asked
  <2>5. Len(stored) < published
    BY <1>0, <2>3
  <2> QED BY <2>1, <2>2, <2>3, <2>4, <2>5 DEF DP!Next, DP!Store, Told, Asked
<1>10. CASE PersistFails
  <2>1. /\ published' = published /\ Reply(waiters, "error")
        /\ writer = "persist" /\ Ready /\ (stored' = stored \/ stored' = Append(stored, NextBatch))
    BY <1>10 DEF PersistFails, WriterEnds
  <2>2. Asked' = Asked /\ Told' = Told
    BY <1>0, <2>1, RepliesTold
  <2>3. CASE stored' = stored
    BY <2>1, <2>2, <2>3
  <2>4. CASE stored' = Append(stored, NextBatch)
    <3>1. Len(stored') = Len(stored) + 1 /\ Len(stored) < published
      BY <1>0, <2>1, <2>4, NextExtends
    <3> QED BY <2>1, <2>2, <3>1 DEF DP!Next, DP!Store, Told, Asked
  <2> QED BY <2>1, <2>3, <2>4
<1>11. CASE WriterStops
  <2>1. UNCHANGED <<published, stored>> /\ Reply(waiters, "error")
    BY <1>11 DEF WriterStops, WriterEnds
  <2> QED BY <1>0, <2>1, RepliesTold
<1>12. PersistDone \/ WriterExits => UNCHANGED <<published, stored, request>>
  BY DEF PersistDone, WriterExits
<1>13. StopBegin \/ StopSend \/ StopJoinEncoders \/ StopJoinWriter
         => UNCHANGED <<published, stored, request>>
  BY DEF StopBegin, StopSend, StopJoinEncoders, StopJoinWriter
<1>14. ASSUME NEW s \in Stopper, StopCall(s) \/ StopReturn(s)
       PROVE  UNCHANGED <<published, stored, request>>
  BY <1>14 DEF StopCall, StopReturn
<1>15. UNCHANGED vars => UNCHANGED <<published, stored, request>>
  BY DEF vars
<1> QED BY <1>1, <1>2, <1>3, <1>4, <1>5, <1>6, <1>7, <1>8, <1>9, <1>10, <1>11, <1>12, <1>13,
           <1>14, <1>15, StepCases

\* The pipeline implements DurablePrefix: storage grows one published commit at
\* a time, and whoever is told yes is told so after the version is stored.
THEOREM PipelineImplementsDurablePrefix == Spec => ImplementsDurablePrefix
<1>1. Init => DP!Init
  BY DEF Init, DP!Init
<1>2. PersistInv /\ [Next]_vars => [DP!Next]_(DP!dpvars)
  BY PrefixStep DEF DP!dpvars, Asked, Told
<1> QED BY <1>1, <1>2, PersistInvariance, PTL DEF Spec, ImplementsDurablePrefix, DP!Spec
-----------------------------------------------------------------------------
\* Where versions are, and the tokens that go with them

\* What a channel holds after a send
LEMMA AfterSend ==
  ASSUME NEW S, NEW q \in Seq(S), NEW x \in S
  PROVE  /\ Append(q, x) \in Seq(S) /\ Len(Append(q, x)) = Len(q) + 1
         /\ \A i \in 1..Len(q) : Append(q, x)[i] = q[i]
         /\ Append(q, x)[Len(q) + 1] = x
OBVIOUS

\* What a channel holds after a receive
LEMMA AfterReceive ==
  ASSUME NEW S, NEW q \in Seq(S), q # <<>>
  PROVE  /\ Tail(q) \in Seq(S) /\ Len(Tail(q)) = Len(q) - 1 /\ Len(q) >= 1 /\ Head(q) = q[1]
         /\ \A i \in 1..(Len(q) - 1) : Tail(q)[i] = q[i + 1]
         /\ Head(q) \in S
OBVIOUS

\* The batches in the encoder channel can be counted
LEMMA BatchesFinite ==
  ASSUME NEW q \in Seq(0..MaxVersion)
  PROVE  IsFiniteSet(CommitMsgsIn(q)) /\ Cardinality(CommitMsgsIn(q)) \in Nat
<1>1. 1 \in Int /\ Len(q) \in Int  OBVIOUS
<1>2. IsFiniteSet(1..Len(q))  BY <1>1, FS_Interval
<1>3. CommitMsgsIn(q) \subseteq 1..Len(q)  BY DEF CommitMsgsIn
<1> QED BY <1>2, <1>3, FS_Subset, FS_CardinalityType

\* A send adds its batch to the batches of the encoder channel, a Stop adds none
LEMMA BatchesSent ==
  ASSUME NEW q \in Seq(0..MaxVersion), NEW x \in 0..MaxVersion
  PROVE  /\ x # Stop => Cardinality(CommitMsgsIn(Append(q, x))) = Cardinality(CommitMsgsIn(q)) + 1
         /\ x = Stop => CommitMsgsIn(Append(q, x)) = CommitMsgsIn(q)
<1> DEFINE r == Append(q, x)
<1>1. /\ Len(r) = Len(q) + 1 /\ Len(q) \in Nat /\ r[Len(q) + 1] = x
      /\ \A i \in 1..Len(q) : r[i] = q[i]
  BY AfterSend
<1>2. IsFiniteSet(CommitMsgsIn(q)) /\ Cardinality(CommitMsgsIn(q)) \in Nat
  BY BatchesFinite
<1> HIDE DEF r
<1>3. ASSUME x = Stop PROVE CommitMsgsIn(r) = CommitMsgsIn(q)
  <2>1. \A i : i \in CommitMsgsIn(r) <=> i \in CommitMsgsIn(q)
    BY <1>1, <1>3 DEF CommitMsgsIn
  <2> QED BY <2>1 DEF CommitMsgsIn
<1>4. ASSUME x # Stop PROVE Cardinality(CommitMsgsIn(r)) = Cardinality(CommitMsgsIn(q)) + 1
  <2>1. \A i : i \in CommitMsgsIn(r) <=> i \in CommitMsgsIn(q) \cup {Len(q) + 1}
    BY <1>1, <1>4 DEF CommitMsgsIn
  <2>2. CommitMsgsIn(r) = CommitMsgsIn(q) \cup {Len(q) + 1} /\ Len(q) + 1 \notin CommitMsgsIn(q)
    BY <1>1, <2>1 DEF CommitMsgsIn
  <2> QED BY <1>2, <2>2, FS_AddElement
<1> QED BY <1>2, <1>3, <1>4 DEF r

\* A receive takes one batch out of the encoder channel, or a Stop and no batch
LEMMA BatchesReceived ==
  ASSUME NEW q \in Seq(0..MaxVersion), q # <<>>
  PROVE  /\ Head(q) # Stop => Cardinality(CommitMsgsIn(Tail(q))) = Cardinality(CommitMsgsIn(q)) - 1
         /\ Head(q) = Stop => Cardinality(CommitMsgsIn(Tail(q))) = Cardinality(CommitMsgsIn(q))
<1> DEFINE r == Tail(q)
           S == CommitMsgsIn(r)
           T == {i \in CommitMsgsIn(q) : i # 1}
           f == [i \in S |-> i + 1]
<1>1. /\ Len(r) = Len(q) - 1 /\ Len(q) \in Nat /\ Len(q) >= 1 /\ Head(q) = q[1]
      /\ \A i \in 1..(Len(q) - 1) : r[i] = q[i + 1]
  BY AfterReceive
<1>2. IsFiniteSet(CommitMsgsIn(q)) /\ Cardinality(CommitMsgsIn(q)) \in Nat
  BY BatchesFinite
<1>3. IsFiniteSet(S)
  <2>1. r \in Seq(0..MaxVersion)  BY AfterReceive
  <2> QED BY <2>1, BatchesFinite
<1> HIDE DEF r
<1>4. f \in Bijection(S, T)
  <2>1. \A i \in S : i + 1 \in T  BY <1>1 DEF CommitMsgsIn
  <2>2. \A j \in T : j - 1 \in S /\ (j - 1) + 1 = j  BY <1>1 DEF CommitMsgsIn
  <2>3. \A i \in S : i \in Int  BY DEF CommitMsgsIn
  <2> HIDE DEF S, T
  <2>4. f \in [S -> T]  BY <2>1
  <2>5. \A i, j \in S : f[i] = f[j] => i = j  BY <2>3
  <2>6. \A j \in T : \E i \in S : f[i] = j  BY <2>2
  <2> HIDE DEF f
  <2> QED BY <2>4, <2>5, <2>6, Fun_IsBij
<1>5. Cardinality(T) = Cardinality(S)
  BY <1>3, <1>4, FS_Bijection DEF ExistsBijection
<1>6. ASSUME Head(q) = Stop PROVE T = CommitMsgsIn(q)
  BY <1>1, <1>6 DEF CommitMsgsIn
<1>7. ASSUME Head(q) # Stop PROVE Cardinality(T) = Cardinality(CommitMsgsIn(q)) - 1
  <2>1. 1 \in CommitMsgsIn(q) /\ T = CommitMsgsIn(q) \ {1}
    BY <1>1, <1>7 DEF CommitMsgsIn
  <2> QED BY <1>2, <2>1, FS_RemoveElement
<1> QED BY <1>5, <1>6, <1>7 DEF r
\* The committers that hold a token
Busy == {c \in Committer : committer[c].pc # "idle"}

\* What admission, handover and dequeue leave alone
LEMMA TokenFrame ==
  ASSUME [Next]_vars
  PROVE  \/ \E c \in Committer : Admit(c) \/ GiveUp(c) \/ Publish(c) \/ Enqueue(c) \/ EnqueueFails(c)
         \/ \E e \in Encoder : EncoderTake(e)
         \/ StopSend
         \/ UNCHANGED <<tokens, committer, encQ>>
<1> USE DEF commitVars, encVars
<1>1. ASSUME NEW e \in Encoder, EncoderSend(e) \/ EncoderFails(e)
      PROVE  UNCHANGED <<tokens, committer, encQ>>
  BY <1>1 DEF EncoderSend, EncoderFails
<1>2. ASSUME NEW w \in Waiter, Ask(w) \/ SendRequest(w) \/ Timeout(w)
      PROVE  UNCHANGED <<tokens, committer, encQ>>
  BY <1>2 DEF Ask, SendRequest, Timeout
<1>3. HandleCommit \/ HandleWait \/ Persist \/ PersistFails \/ PersistDone
        \/ WriterStops \/ WriterExits => UNCHANGED <<tokens, committer, encQ>>
  BY DEF HandleCommit, HandleWait, Persist, PersistFails, PersistDone, WriterStops, WriterExits
<1>4. StopBegin \/ StopJoinEncoders \/ StopJoinWriter => UNCHANGED <<tokens, committer, encQ>>
  BY DEF StopBegin, StopJoinEncoders, StopJoinWriter
<1>5. ASSUME NEW s \in Stopper, StopCall(s) \/ StopReturn(s)
      PROVE  UNCHANGED <<tokens, committer, encQ>>
  BY <1>5 DEF StopCall, StopReturn
<1>6. UNCHANGED vars => UNCHANGED <<tokens, committer, encQ>>
  BY DEF vars
<1> QED BY <1>1, <1>2, <1>3, <1>4, <1>5, <1>6, StepCases

\* A token is given back exactly when what it stood for is gone
LEMMA TokenStep ==
  ASSUME TypeOK, FlightPublished, TokenBalance, [Next]_vars
  PROVE  TokenBalance'
<1> USE DEF encVars
<1> DEFINE C == Cardinality(CommitMsgsIn(encQ))
           B == Cardinality(Busy)
<1>0. /\ tokens \in Nat /\ encQ \in Seq(0..MaxVersion) /\ MaxVersion \in Nat
      /\ committer \in [Committer -> [pc : {"idle", "admitted", "published"}, version : 0..MaxVersion]]
  BY BatchAssumption DEF TypeOK, CommitTypes, EncTypes
<1>1. C \in Nat /\ ENCODE_QUEUE_CAPACITY \in Nat
  BY <1>0, BatchesFinite, BatchAssumption
<1>2. IsFiniteSet(Busy) /\ B \in Nat
  <2>1. Busy \subseteq Committer  BY DEF Busy
  <2> QED BY <2>1, BatchAssumption, FS_Subset, FS_CardinalityType
<1>3. tokens + B + C = ENCODE_QUEUE_CAPACITY
  BY DEF TokenBalance, Busy
<1>4. TokenBalance' <=> tokens' + Cardinality(Busy') + Cardinality(CommitMsgsIn(encQ')) = ENCODE_QUEUE_CAPACITY
  BY DEF TokenBalance, Busy, CommitMsgsIn
<1> DEFINE Good == tokens' + Cardinality(Busy') + Cardinality(CommitMsgsIn(encQ')) = ENCODE_QUEUE_CAPACITY
<1> SUFFICES Good  BY <1>4
<1>5. ASSUME NEW c \in Committer, committer[c].pc # "idle", NEW r, r.pc = "idle",
             committer' = [committer EXCEPT ![c] = r]
      PROVE  Cardinality(Busy') = B - 1
  <2>1. c \in Busy /\ Busy' = Busy \ {c}  BY <1>0, <1>5 DEF Busy
  <2> QED BY <1>2, <2>1, FS_RemoveElement
<1>6. ASSUME NEW c \in Committer, Admit(c) PROVE Good
  <2>1. c \notin Busy /\ Busy' = Busy \cup {c} /\ encQ' = encQ /\ tokens' = tokens - 1
    BY <1>0, <1>6 DEF Admit, Busy
  <2>2. Cardinality(Busy') = B + 1  BY <1>2, <2>1, FS_AddElement
  <2> QED BY <1>0, <1>1, <1>2, <1>3, <2>1, <2>2
<1>7. ASSUME NEW c \in Committer, GiveUp(c) PROVE Good
  <2>1. /\ encQ' = encQ /\ tokens' = tokens + 1 /\ committer[c].pc # "idle"
        /\ committer' = [committer EXCEPT ![c] = [committer[c] EXCEPT !.pc = "idle"]]
    BY <1>7 DEF GiveUp
  <2>2. [committer[c] EXCEPT !.pc = "idle"].pc = "idle"  BY <1>0
  <2>3. Cardinality(Busy') = B - 1  BY <1>5, <2>1, <2>2
  <2> QED BY <1>0, <1>1, <1>2, <1>3, <2>1, <2>3
<1>8. ASSUME NEW c \in Committer, Publish(c) PROVE Good
  <2>1. Busy' = Busy /\ encQ' = encQ /\ tokens' = tokens  BY <1>0, <1>8 DEF Publish, Busy
  <2> QED BY <1>3, <2>1
<1>9. ASSUME NEW c \in Committer, Enqueue(c) PROVE Good
  <2>1. /\ encQ' = Append(encQ, committer[c].version) /\ tokens' = tokens
        /\ committer[c].pc = "published"
        /\ committer' = [committer EXCEPT ![c] = [pc |-> "idle", version |-> 0]]
    BY <1>9 DEF Enqueue, Done
  <2>2. committer[c].version \in 0..MaxVersion /\ committer[c].version # Stop
    BY <1>0, <2>1 DEF FlightPublished, Stop
  <2>3. Cardinality(Busy') = B - 1  BY <1>5, <2>1
  <2>4. Cardinality(CommitMsgsIn(encQ')) = C + 1  BY <1>0, <2>1, <2>2, BatchesSent
  <2> QED BY <1>0, <1>1, <1>2, <1>3, <2>1, <2>3, <2>4
<1>10. ASSUME NEW c \in Committer, EnqueueFails(c) PROVE Good
  <2>1. /\ encQ' = encQ /\ tokens' = tokens + 1 /\ committer[c].pc # "idle"
        /\ committer' = [committer EXCEPT ![c] = [pc |-> "idle", version |-> 0]]
    BY <1>10 DEF EnqueueFails, Done
  <2>2. Cardinality(Busy') = B - 1  BY <1>5, <2>1
  <2> QED BY <1>0, <1>1, <1>2, <1>3, <2>1, <2>2
<1>11. ASSUME NEW e \in Encoder, EncoderTake(e) PROVE Good
  <2>1. encQ # <<>> /\ encQ' = Tail(encQ) /\ Busy' = Busy
        /\ tokens' = IF Head(encQ) = Stop THEN tokens ELSE tokens + 1
    BY <1>11 DEF EncoderTake, Busy
  <2>2. Cardinality(CommitMsgsIn(encQ')) = IF Head(encQ) = Stop THEN C ELSE C - 1
    BY <1>0, <2>1, BatchesReceived
  <2> QED BY <1>0, <1>1, <1>2, <1>3, <2>1, <2>2
<1>12. CASE StopSend
  <2>1. tokens' = tokens /\ Busy' = Busy /\ (encQ' = encQ \/ encQ' = Append(encQ, Stop))
    BY <1>12 DEF StopSend, commitVars, Busy
  <2>2. Stop \in 0..MaxVersion  BY <1>0 DEF Stop
  <2>3. CommitMsgsIn(encQ') = CommitMsgsIn(encQ)  BY <1>0, <2>1, <2>2, BatchesSent
  <2> QED BY <1>3, <2>1, <2>3
<1>13. CASE UNCHANGED <<tokens, committer, encQ>>
  <2>1. Busy' = Busy  BY <1>13 DEF Busy
  <2> QED BY <1>3, <1>13, <2>1
<1> QED BY <1>6, <1>7, <1>8, <1>9, <1>10, <1>11, <1>12, <1>13, TokenFrame
-----------------------------------------------------------------------------
\* The order of a shutdown

\* An encoder that sends is alive, and then the writer has not been told to drain
LEMMA SenderAlive ==
  ASSUME ShutdownOrder, NEW e \in Encoder, encoder[e].pc \in {"recv", "send"}
  PROVE  ~kill /\ writer # "stopped" /\ workers.pc \notin {"draining", "stopped"}
         /\ (closed => writer = "failed")
BY DEF ShutdownOrder, EncodersAlive

\* The encoders end before the writer drains, and the writer before anybody is told
LEMMA OrderlyStep ==
  ASSUME TypeOK, FlightPublished, ShutdownOrder, [Next]_vars
  PROVE  ShutdownOrder'
<1> USE DEF commitVars, encVars, writerVars, waitVars, stopVars
<1> DEFINE Runs == workers.pc = "running" => \A i \in 1..Len(encQ) : encQ[i] # Stop
           Killed == (kill <=> workers.pc \in {"draining", "stopped"}) /\ (kill => ~EncodersAlive)
           Fails == \A e \in Encoder : encoder[e].pc = "failed" => writer = "failed"
           Drained == writer = "stopped" =>
                        /\ kill /\ DOMAIN waiting = {}
                        /\ \A i \in 1..Len(wrQ) : wrQ[i].kind # "commit"
           Closes == /\ closed => writer \in {"stopped", "failed"}
                     /\ workers.pc = "stopped" => closed /\ (workers.ok <=> writer = "stopped")
           Calls == \A s \in Stopper :
                      /\ stop[s].through <= published
                      /\ stop[s].pc = "error" => workers.pc = "stopped"
           Good == ShutdownOrder'
<1> SUFFICES Good  OBVIOUS
<1>a. Runs /\ Killed /\ Fails /\ Drained /\ Closes /\ Calls
  <2>1. Runs  BY DEF ShutdownOrder
  <2>5. Fails  BY DEF ShutdownOrder
  <2>6. Calls  BY DEF ShutdownOrder
  <2>2. Killed  BY DEF ShutdownOrder
  <2>3. Drained  BY DEF ShutdownOrder
  <2>4. Closes  BY DEF ShutdownOrder
  <2> QED BY <2>1, <2>2, <2>3, <2>4, <2>5, <2>6
<1>b. ASSUME Runs', Killed', Fails', Drained', Closes', Calls' PROVE Good
  BY <1>b DEF ShutdownOrder
<1>0. CommitTypes /\ EncTypes /\ WriterTypes /\ StopTypes  BY DEF TypeOK
<1>1. UNCHANGED <<workers, encQ>> => Runs'  BY <1>a
<1>2. UNCHANGED <<kill, workers, encoder>> => Killed'  BY <1>a DEF EncodersAlive
<1>3. UNCHANGED <<encoder, writer>> => Fails'  BY <1>a
<1>4. UNCHANGED <<writer, kill, waiting, wrQ>> => Drained'  BY <1>a
<1>5. UNCHANGED <<closed, writer, workers>> => Closes'  BY <1>a
<1>6. UNCHANGED <<stop, published, workers>> => Calls'  BY <1>a
<1> HIDE DEF Good
<1>7. ASSUME NEW c \in Committer, Admit(c) \/ GiveUp(c) \/ EnqueueFails(c) PROVE Good
  <2>1. UNCHANGED <<published, encVars, writerVars, stopVars>>
    BY <1>7 DEF Admit, GiveUp, EnqueueFails
  <2> QED BY <2>1, <1>b, <1>1, <1>2, <1>3, <1>4, <1>5, <1>6
<1>8. ASSUME NEW c \in Committer, Publish(c) PROVE Good
  <2>1. UNCHANGED <<encVars, writerVars, stopVars>> /\ published' = published + 1
    BY <1>8 DEF Publish
  <2>2. Calls'  BY <1>0, <1>a, <2>1, BatchAssumption DEF CommitTypes, StopTypes
  <2> QED BY <2>1, <2>2, <1>b, <1>1, <1>2, <1>3, <1>4, <1>5
<1>9. ASSUME NEW c \in Committer, Enqueue(c) PROVE Good
  <2>1. /\ UNCHANGED <<published, encoder, writerVars, stopVars>>
        /\ encQ' = Append(encQ, committer[c].version) /\ committer[c].version # 0
    BY <1>9 DEF Enqueue, FlightPublished
  <2>2. Runs'  BY <1>0, <1>a, <2>1 DEF EncTypes, CommitTypes, Stop
  <2> QED BY <2>1, <2>2, <1>b, <1>2, <1>3, <1>4, <1>5, <1>6
<1>10. ASSUME NEW e \in Encoder, EncoderTake(e) PROVE Good
  <2>1. /\ UNCHANGED <<published, writerVars, stopVars>> /\ encQ' = Tail(encQ) /\ encQ # <<>>
        /\ encoder[e].pc = "recv"
        /\ \/ encoder' = [encoder EXCEPT ![e].pc = "stopped"]
           \/ encoder' = [encoder EXCEPT ![e] = [pc |-> "send", version |-> Head(encQ)]]
    BY <1>10 DEF EncoderTake
  <2>2. Runs'
    <3>1. Len(encQ') = Len(encQ) - 1 /\ Len(encQ) \in Nat
          /\ \A i \in 1..(Len(encQ) - 1) : encQ'[i] = encQ[i + 1]
      BY <1>0, <2>1, AfterReceive DEF EncTypes
    <3> QED BY <1>a, <2>1, <3>1
  <2>3. ~kill  BY <2>1, SenderAlive
  <2>4. Killed'  BY <1>a, <2>1, <2>3
  <2>5. Fails'  BY <1>0, <1>a, <2>1 DEF EncTypes
  <2> QED BY <2>1, <2>2, <2>4, <2>5, <1>b, <1>4, <1>5, <1>6
<1>11. ASSUME NEW e \in Encoder, EncoderSend(e) PROVE Good
  <2>1. /\ UNCHANGED <<published, encQ, writer, closed, waiting, stopVars>>
        /\ encoder[e].pc = "send" /\ encoder' = [encoder EXCEPT ![e] = [pc |-> "recv", version |-> 0]]
    BY <1>11 DEF EncoderSend
  <2>2. ~kill /\ writer # "stopped"  BY <2>1, SenderAlive
  <2>3. Killed'  BY <1>a, <2>1, <2>2
  <2>4. Fails'  BY <1>0, <1>a, <2>1 DEF EncTypes
  <2>5. Drained'  BY <2>1, <2>2
  <2> QED BY <2>1, <2>3, <2>4, <2>5, <1>b, <1>1, <1>5, <1>6
<1>12. ASSUME NEW e \in Encoder, EncoderFails(e) PROVE Good
  <2>1. /\ UNCHANGED <<published, encQ, writerVars, stopVars>> /\ closed
        /\ encoder[e].pc = "send" /\ encoder' = [encoder EXCEPT ![e] = [pc |-> "failed", version |-> 0]]
    BY <1>12 DEF EncoderFails
  <2>2. ~kill /\ writer = "failed"  BY <2>1, SenderAlive
  <2>3. Killed'  BY <1>a, <2>1, <2>2
  <2>4. Fails'  BY <2>1, <2>2
  <2> QED BY <2>1, <2>3, <2>4, <1>b, <1>1, <1>4, <1>5, <1>6
<1>13. ASSUME NEW w \in Waiter, Ask(w) \/ Timeout(w) PROVE Good
  <2>1. UNCHANGED <<published, encVars, writerVars, stopVars>>
    BY <1>13 DEF Ask, Timeout
  <2> QED BY <2>1, <1>b, <1>1, <1>2, <1>3, <1>4, <1>5, <1>6
<1>14. ASSUME NEW w \in Waiter, SendRequest(w) PROVE Good
  <2>1. /\ UNCHANGED <<published, encVars, writer, closed, waiting, stopVars>>
        /\ wrQ' = wrQ \/ wrQ' = Append(wrQ, WaitMsg(w))
    BY <1>14 DEF SendRequest
  <2>2. Drained'
    <3>1. CASE wrQ' = wrQ  BY <1>a, <2>1, <3>1
    <3>2. CASE wrQ' = Append(wrQ, WaitMsg(w))
      <4>1. WaitMsg(w) \in WriterMsg /\ WaitMsg(w).kind # "commit"  BY DEF WaitMsg, WriterMsg
      <4>2. /\ Len(wrQ') = Len(wrQ) + 1 /\ wrQ'[Len(wrQ) + 1] = WaitMsg(w) /\ Len(wrQ) \in Nat
            /\ \A i \in 1..Len(wrQ) : wrQ'[i] = wrQ[i]
        BY <1>0, <3>2, <4>1, AfterSend DEF WriterTypes
      <4> QED BY <1>a, <2>1, <4>1, <4>2
    <3> QED BY <2>1, <3>1, <3>2
  <2> QED BY <2>1, <2>2, <1>b, <1>1, <1>2, <1>3, <1>5, <1>6
<1>15. CASE HandleCommit \/ HandleWait \/ Persist \/ PersistDone
  <2>1. /\ UNCHANGED <<published, encVars, closed, stopVars>> /\ writer \in {"recv", "persist"}
        /\ writer' \in {"recv", "persist", "failed"}
    BY <1>15 DEF HandleCommit, HandleWait, Persist, PersistDone, WriterEnds
  <2>2. Fails' /\ Drained' /\ Closes'  BY <1>a, <2>1
  <2> QED BY <2>1, <2>2, <1>b, <1>1, <1>2, <1>6
<1>16. CASE PersistFails
  <2>1. /\ UNCHANGED <<published, encVars, closed, stopVars>> /\ writer = "persist" /\ writer' = "failed"
    BY <1>16 DEF PersistFails, WriterEnds
  <2>2. Fails' /\ Drained' /\ Closes'  BY <1>a, <2>1
  <2> QED BY <2>1, <2>2, <1>b, <1>1, <1>2, <1>6
<1>17. CASE WriterStops
  <2>1. /\ UNCHANGED <<published, encVars, wrQ, waiting, closed, stopVars>> /\ writer = "recv" /\ kill
        /\ wrQ = <<>> /\ writer' = IF DOMAIN waiting = {} THEN "stopped" ELSE "failed"
    BY <1>17 DEF WriterStops, WriterEnds
  <2>2. Fails' /\ Drained' /\ Closes'  BY <1>a, <2>1
  <2> QED BY <2>1, <2>2, <1>b, <1>1, <1>2, <1>6
<1>18. CASE WriterExits
  <2>1. /\ UNCHANGED <<published, encVars, wrQ, writer, waiting, stopVars>>
        /\ writer \in {"stopped", "failed"} /\ ~closed /\ closed' = TRUE
    BY <1>18 DEF WriterExits
  <2>2. Closes'  BY <1>a, <2>1
  <2> QED BY <2>1, <2>2, <1>b, <1>1, <1>2, <1>3, <1>4, <1>6
<1>19. CASE StopBegin
  <2>1. /\ UNCHANGED <<published, encVars, writerVars, kill, stop>> /\ workers.pc = "running"
        /\ workers' = [workers EXCEPT !.pc = "stopping"]
    BY <1>19 DEF StopBegin
  <2>2. workers'.pc = "stopping"  BY <1>0, <2>1 DEF StopTypes
  <2>3. Runs' /\ Killed' /\ Closes' /\ Calls'  BY <1>a, <2>1, <2>2 DEF EncodersAlive
  <2> QED BY <2>1, <2>3, <1>b, <1>3, <1>4
<1>20. CASE StopSend
  <2>1. /\ UNCHANGED <<published, encoder, writerVars, kill, stop>> /\ workers.pc = "stopping"
        /\ workers' = [workers EXCEPT !.sent = @ + 1]
    BY <1>20 DEF StopSend
  <2>2. workers'.pc = "stopping"  BY <1>0, <2>1 DEF StopTypes
  <2>3. Runs' /\ Killed' /\ Closes' /\ Calls'  BY <1>a, <2>1, <2>2 DEF EncodersAlive
  <2> QED BY <2>1, <2>3, <1>b, <1>3, <1>4
<1>21. CASE StopJoinEncoders
  <2>1. /\ UNCHANGED <<published, encVars, writerVars, stop>> /\ workers.pc = "stopping" /\ kill' = TRUE
        /\ ~EncodersAlive /\ workers' = [workers EXCEPT !.pc = "draining"]
    BY <1>21 DEF StopJoinEncoders
  <2>2. workers'.pc = "draining"  BY <1>0, <2>1 DEF StopTypes
  <2>3. Runs' /\ Killed' /\ Drained' /\ Closes' /\ Calls'  BY <1>a, <2>1, <2>2 DEF EncodersAlive
  <2> QED BY <2>1, <2>3, <1>b, <1>3
<1>22. CASE StopJoinWriter
  <2>1. /\ UNCHANGED <<published, encVars, writerVars, kill, stop>> /\ workers.pc = "draining" /\ closed
        /\ workers'.pc = "stopped"
        /\ workers'.ok = (writer = "stopped" /\ \A e \in Encoder : encoder[e].pc = "stopped")
    BY <1>0, <1>22 DEF StopJoinWriter, StopTypes
  <2>2. \A e \in Encoder : encoder[e].pc \in {"stopped", "failed"}
    BY <1>0, <1>a, <2>1 DEF EncodersAlive, EncTypes
  <2>3. workers'.ok <=> writer = "stopped"  BY <1>a, <2>1, <2>2
  <2>4. Runs' /\ Killed' /\ Closes' /\ Calls'  BY <1>a, <2>1, <2>3 DEF EncodersAlive
  <2> QED BY <2>1, <2>4, <1>b, <1>3, <1>4
<1>23. ASSUME NEW s \in Stopper, StopCall(s) \/ StopReturn(s) PROVE Good
  <2>1. UNCHANGED <<published, encVars, writerVars, kill, workers>>
    BY <1>23 DEF StopCall, StopReturn
  <2>2. \/ stop' = [stop EXCEPT ![s] = [pc |-> "called", through |-> published]]
        \/ /\ workers.pc = "stopped"
           /\ \E pc \in {"ok", "error"} : stop' = [stop EXCEPT ![s].pc = pc]
    BY <1>23 DEF StopCall, StopReturn
  <2>3. Calls'
    <3>1. stop \in [Stopper -> [pc : {"idle", "called", "ok", "error"}, through : 0..MaxVersion]]
          /\ published \in Nat
      BY <1>0, BatchAssumption DEF StopTypes, CommitTypes
    <3>2. CASE stop' = [stop EXCEPT ![s] = [pc |-> "called", through |-> published]]
      BY <1>a, <2>1, <3>1, <3>2
    <3>3. CASE /\ workers.pc = "stopped"
               /\ \E pc \in {"ok", "error"} : stop' = [stop EXCEPT ![s].pc = pc]
      BY <1>a, <2>1, <3>1, <3>3
    <3> QED BY <2>2, <3>2, <3>3
  <2> QED BY <2>1, <2>3, <1>b, <1>1, <1>2, <1>3, <1>4, <1>5
<1>24. CASE UNCHANGED vars
  BY <1>24, <1>b, <1>1, <1>2, <1>3, <1>4, <1>5, <1>6 DEF vars
<1> QED BY <1>7, <1>8, <1>9, <1>10, <1>11, <1>12, <1>13, <1>14, <1>15, <1>16, <1>17, <1>18, <1>19,
           <1>20, <1>21, <1>22, <1>23, <1>24, StepCases
-----------------------------------------------------------------------------
\* One place for every version

\* What a step leaves alone, it leaves where it is
LEMMA PlaceFrame ==
  ASSUME NEW v
  PROVE  /\ UNCHANGED committer => (WithCommitter(v)' <=> WithCommitter(v))
         /\ UNCHANGED encQ => (InEncQ(v)' <=> InEncQ(v))
         /\ UNCHANGED encoder => (WithEncoder(v)' <=> WithEncoder(v))
         /\ UNCHANGED wrQ => (InWrQ(v)' <=> InWrQ(v))
BY DEF WithCommitter, InEncQ, WithEncoder, InWrQ

\* Publishing brings a new version, which is only with its committer
LEMMA PublishMoves ==
  ASSUME TypeOK, FlightPublished, CommittersApart, NEW c \in Committer, Publish(c)
  PROVE  /\ CommittersApart'
         /\ \A v \in Version : WithCommitter(v)' <=> WithCommitter(v) \/ v = published + 1
         /\ LET v == published + 1 IN
              ~WithCommitter(v) /\ ~InEncQ(v) /\ ~WithEncoder(v) /\ ~InWrQ(v) /\ v \notin DOMAIN waiting
<1>0. /\ committer \in [Committer -> [pc : {"idle", "admitted", "published"}, version : 0..MaxVersion]]
      /\ published \in Nat /\ committer[c].pc = "admitted"
      /\ committer' = [committer EXCEPT ![c] = [pc |-> "published", version |-> published + 1]]
      /\ encQ \in Seq(0..MaxVersion)
      /\ encoder \in [Encoder -> [pc : {"recv", "send", "stopped", "failed"}, version : 0..MaxVersion]]
      /\ DOMAIN waiting \subseteq Version
  BY BatchAssumption DEF TypeOK, CommitTypes, EncTypes, WriterTypes, Publish
<1>1. \A d \in Committer : committer[d].pc = "published" => committer[d].version # published + 1
  BY <1>0, BatchAssumption DEF FlightPublished
<1>2. CommittersApart'
  BY <1>0, <1>1 DEF CommittersApart
<1>3. ASSUME NEW v \in Version PROVE WithCommitter(v)' <=> WithCommitter(v) \/ v = published + 1
  <2>1. ASSUME WithCommitter(v)' PROVE WithCommitter(v) \/ v = published + 1
    BY <1>0, <2>1 DEF WithCommitter
  <2>2. ASSUME WithCommitter(v) PROVE WithCommitter(v)'
    BY <1>0, <2>2 DEF WithCommitter
  <2>3. ASSUME v = published + 1 PROVE WithCommitter(v)'
    BY <1>0, <2>3 DEF WithCommitter
  <2> QED BY <2>1, <2>2, <2>3
<1>4. ~WithCommitter(published + 1)
  BY <1>1 DEF WithCommitter
<1>5. ~InEncQ(published + 1)
  <2>1. \A i \in 1..Len(encQ) : encQ[i] \in 0..MaxVersion /\ encQ[i] <= published
    BY <1>0, SeqElements DEF FlightPublished
  <2> QED BY <1>0, <2>1, BatchAssumption DEF InEncQ
<1>6. ~WithEncoder(published + 1)
  <2>1. \A e \in Encoder : encoder[e].version \in 0..MaxVersion
    BY <1>0
  <2> QED BY <1>0, <2>1, BatchAssumption DEF WithEncoder, FlightPublished
<1>7. ~InWrQ(published + 1)
  <2> SUFFICES ASSUME NEW i \in 1..Len(wrQ), wrQ[i].kind = "commit" PROVE wrQ[i].version # published + 1
    BY DEF InWrQ
  <2>1. wrQ[i] \in WriterMsg  BY DEF TypeOK, WriterTypes
  <2>2. wrQ[i].version \in Version  BY <2>1 DEF WriterMsg
  <2> QED BY <1>0, <2>2, BatchAssumption DEF FlightPublished, Version
<1>8. published + 1 \notin DOMAIN waiting
  BY <1>0, BatchAssumption DEF FlightPublished, Version
<1> QED BY <1>2, <1>3, <1>4, <1>5, <1>6, <1>7, <1>8

\* A committer that is done carries nothing
LEMMA DoneMoves ==
  ASSUME TypeOK, FlightPublished, CommittersApart, NEW c \in Committer, committer[c].pc = "published",
         Done(c)
  PROVE  /\ CommittersApart' /\ committer[c].version \in Version
         /\ WithCommitter(committer[c].version)
         /\ \A v \in Version : WithCommitter(v)' <=> WithCommitter(v) /\ v # committer[c].version
<1>0. /\ committer \in [Committer -> [pc : {"idle", "admitted", "published"}, version : 0..MaxVersion]]
      /\ committer' = [committer EXCEPT ![c] = [pc |-> "idle", version |-> 0]]
  BY DEF TypeOK, CommitTypes, Done
<1>1. committer[c].version \in Version  BY <1>0, BatchAssumption DEF FlightPublished, Version
<1>2. CommittersApart'  BY <1>0 DEF CommittersApart
<1>3. ASSUME NEW v \in Version PROVE WithCommitter(v)' <=> WithCommitter(v) /\ v # committer[c].version
  <2>1. ASSUME WithCommitter(v)' PROVE WithCommitter(v) /\ v # committer[c].version
    <3>1. PICK d \in Committer : committer'[d].pc = "published" /\ committer'[d].version = v
      BY <2>1 DEF WithCommitter
    <3>2. d # c /\ committer[d].pc = "published" /\ committer[d].version = v  BY <1>0, <3>1
    <3> QED BY <3>2 DEF WithCommitter, CommittersApart
  <2>2. ASSUME WithCommitter(v), v # committer[c].version PROVE WithCommitter(v)'
    BY <1>0, <2>2 DEF WithCommitter
  <2> QED BY <2>1, <2>2
<1> QED BY <1>1, <1>2, <1>3 DEF WithCommitter

\* What is sent to the encoders is in their channel
LEMMA QueueMoves ==
  ASSUME TypeOK, QueuedApart, NEW x \in 0..MaxVersion, encQ' = Append(encQ, x),
         x # Stop => ~InEncQ(x)
  PROVE  /\ QueuedApart'
         /\ \A v \in Version : InEncQ(v)' <=> InEncQ(v) \/ v = x
<1>1. /\ Len(encQ') = Len(encQ) + 1 /\ encQ'[Len(encQ) + 1] = x /\ Len(encQ) \in Nat
      /\ \A i \in 1..Len(encQ) : encQ'[i] = encQ[i]
  BY AfterSend DEF TypeOK, EncTypes
<1>2. QueuedApart'  BY <1>1 DEF QueuedApart, InEncQ
<1>3. ASSUME NEW v \in Version PROVE InEncQ(v)' <=> InEncQ(v) \/ v = x
  <2>1. ASSUME InEncQ(v)' PROVE InEncQ(v) \/ v = x  BY <1>1, <2>1 DEF InEncQ
  <2>2. ASSUME InEncQ(v) PROVE InEncQ(v)'  BY <1>1, <2>2 DEF InEncQ
  <2>3. ASSUME v = x PROVE InEncQ(v)'  BY <1>1, <2>3 DEF InEncQ
  <2> QED BY <2>1, <2>2, <2>3
<1> QED BY <1>2, <1>3

\* What an encoder receives is no longer in the channel
LEMMA DequeueMoves ==
  ASSUME TypeOK, QueuedApart, encQ # <<>>, encQ' = Tail(encQ)
  PROVE  /\ QueuedApart'
         /\ Head(encQ) # Stop => Head(encQ) \in Version /\ InEncQ(Head(encQ))
         /\ \A v \in Version : InEncQ(v)' <=> InEncQ(v) /\ v # Head(encQ)
<1>1. /\ Len(encQ') = Len(encQ) - 1 /\ Len(encQ) \in Nat /\ Len(encQ) >= 1 /\ Head(encQ) = encQ[1]
      /\ \A i \in 1..(Len(encQ) - 1) : encQ'[i] = encQ[i + 1]
      /\ Head(encQ) \in 0..MaxVersion
  <2> DEFINE S == 0..MaxVersion
  <2>1. encQ \in Seq(S)  BY DEF TypeOK, EncTypes
  <2> HIDE DEF S
  <2>2. /\ Len(encQ') = Len(encQ) - 1 /\ Len(encQ) \in Nat /\ Len(encQ) >= 1 /\ Head(encQ) = encQ[1]
        /\ \A i \in 1..(Len(encQ) - 1) : encQ'[i] = encQ[i + 1]
        /\ Head(encQ) \in S
    BY <2>1, AfterReceive
  <2> QED BY <2>2 DEF S
<1>2. QueuedApart'
  <2> SUFFICES ASSUME NEW i \in 1..Len(encQ'), NEW j \in 1..Len(encQ'), encQ'[i] = encQ'[j], encQ'[i] # Stop
               PROVE  i = j
    BY DEF QueuedApart
  <2>1. i + 1 \in 1..Len(encQ) /\ j + 1 \in 1..Len(encQ) /\ encQ[i + 1] = encQ[j + 1] /\ encQ[i + 1] # Stop
    BY <1>1
  <2>2. i + 1 = j + 1  BY <2>1 DEF QueuedApart
  <2> QED BY <1>1, <2>2
<1>3. ASSUME NEW v \in Version PROVE InEncQ(v)' <=> InEncQ(v) /\ v # Head(encQ)
  <2>1. ASSUME InEncQ(v)' PROVE InEncQ(v) /\ v # Head(encQ)
    <3>1. PICK i \in 1..Len(encQ') : encQ'[i] = v  BY <2>1 DEF InEncQ
    <3>2. i + 1 \in 1..Len(encQ) /\ encQ[i + 1] = v /\ 1 \in 1..Len(encQ) /\ i + 1 # 1  BY <1>1, <3>1
    <3>3. v # Stop  BY DEF Version, Stop
    <3>4. encQ[1] # v  BY <3>2, <3>3 DEF QueuedApart
    <3> QED BY <1>1, <3>2, <3>4 DEF InEncQ
  <2>2. ASSUME InEncQ(v), v # Head(encQ) PROVE InEncQ(v)'
    <3>1. PICK i \in 1..Len(encQ) : encQ[i] = v  BY <2>2 DEF InEncQ
    <3>2. i - 1 \in 1..Len(encQ') /\ encQ'[i - 1] = encQ[(i - 1) + 1] /\ (i - 1) + 1 = i  BY <1>1, <2>2, <3>1
    <3> QED BY <3>1, <3>2 DEF InEncQ
  <2> QED BY <2>1, <2>2
<1>4. ASSUME Head(encQ) # Stop PROVE Head(encQ) \in Version /\ InEncQ(Head(encQ))
  BY <1>1, <1>4, BatchAssumption DEF InEncQ, Version, Stop
<1> QED BY <1>2, <1>3, <1>4

\* What an encoder took is with it
LEMMA TakeMoves ==
  ASSUME TypeOK, EncodersApart, NEW e \in Encoder, encoder[e].pc = "recv", NEW x \in Version,
         ~WithEncoder(x), encoder' = [encoder EXCEPT ![e] = [pc |-> "send", version |-> x]]
  PROVE  /\ EncodersApart'
         /\ \A v \in Version : WithEncoder(v)' <=> WithEncoder(v) \/ v = x
<1>0. encoder \in [Encoder -> [pc : {"recv", "send", "stopped", "failed"}, version : 0..MaxVersion]]
  BY DEF TypeOK, EncTypes
<1>1. EncodersApart'  BY <1>0 DEF EncodersApart, WithEncoder
<1>2. ASSUME NEW v \in Version PROVE WithEncoder(v)' <=> WithEncoder(v) \/ v = x
  <2>1. ASSUME WithEncoder(v)' PROVE WithEncoder(v) \/ v = x  BY <1>0, <2>1 DEF WithEncoder
  <2>2. ASSUME WithEncoder(v) PROVE WithEncoder(v)'  BY <1>0, <2>2 DEF WithEncoder
  <2>3. ASSUME v = x PROVE WithEncoder(v)'  BY <1>0, <2>3 DEF WithEncoder
  <2> QED BY <2>1, <2>2, <2>3
<1> QED BY <1>1, <1>2

\* An encoder that has sent its batch, or could not, carries nothing
LEMMA SendMoves ==
  ASSUME TypeOK, EncodersApart, NEW e \in Encoder, encoder[e].pc = "send", NEW pc \in {"recv", "failed"},
         encoder' = [encoder EXCEPT ![e] = [pc |-> pc, version |-> 0]]
  PROVE  /\ EncodersApart' /\ encoder[e].version \in Version /\ WithEncoder(encoder[e].version)
         /\ \A v \in Version : WithEncoder(v)' <=> WithEncoder(v) /\ v # encoder[e].version
<1>0. /\ encoder \in [Encoder -> [pc : {"recv", "send", "stopped", "failed"}, version : 0..MaxVersion]]
      /\ encoder[e].version # 0
  BY DEF TypeOK, EncTypes
<1>1. encoder[e].version \in Version  BY <1>0, BatchAssumption DEF Version
<1>2. EncodersApart'  BY <1>0 DEF EncodersApart
<1>3. ASSUME NEW v \in Version PROVE WithEncoder(v)' <=> WithEncoder(v) /\ v # encoder[e].version
  <2>1. ASSUME WithEncoder(v)' PROVE WithEncoder(v) /\ v # encoder[e].version
    <3>1. PICK d \in Encoder : encoder'[d].pc = "send" /\ encoder'[d].version = v
      BY <2>1 DEF WithEncoder
    <3>2. d # e /\ encoder[d].pc = "send" /\ encoder[d].version = v  BY <1>0, <3>1
    <3> QED BY <3>2 DEF WithEncoder, EncodersApart
  <2>2. ASSUME WithEncoder(v), v # encoder[e].version PROVE WithEncoder(v)'
    BY <1>0, <2>2 DEF WithEncoder
  <2> QED BY <2>1, <2>2
<1> QED BY <1>1, <1>2, <1>3 DEF WithEncoder

\* What is sent to the writer is in its channel
LEMMA DeliverMoves ==
  ASSUME TypeOK, SentApart, NEW m \in WriterMsg, wrQ' = Append(wrQ, m),
         m.kind = "commit" => ~InWrQ(m.version)
  PROVE  /\ SentApart'
         /\ \A v \in Version : InWrQ(v)' <=> InWrQ(v) \/ (m.kind = "commit" /\ m.version = v)
<1>1. /\ Len(wrQ') = Len(wrQ) + 1 /\ wrQ'[Len(wrQ) + 1] = m /\ Len(wrQ) \in Nat
      /\ \A i \in 1..Len(wrQ) : wrQ'[i] = wrQ[i]
  BY AfterSend DEF TypeOK, WriterTypes
<1>2. SentApart'  BY <1>1 DEF SentApart, InWrQ
<1>3. ASSUME NEW v \in Version PROVE InWrQ(v)' <=> InWrQ(v) \/ (m.kind = "commit" /\ m.version = v)
  <2>1. ASSUME InWrQ(v)' PROVE InWrQ(v) \/ (m.kind = "commit" /\ m.version = v)  BY <1>1, <2>1 DEF InWrQ
  <2>2. ASSUME InWrQ(v) PROVE InWrQ(v)'  BY <1>1, <2>2 DEF InWrQ
  <2>3. ASSUME m.kind = "commit" /\ m.version = v PROVE InWrQ(v)'  BY <1>1, <2>3 DEF InWrQ
  <2> QED BY <2>1, <2>2, <2>3
<1> QED BY <1>2, <1>3

\* What the writer receives is no longer in its channel
LEMMA ReceiveMoves ==
  ASSUME TypeOK, SentApart, wrQ # <<>>, wrQ' = Tail(wrQ)
  PROVE  /\ SentApart'
         /\ Head(wrQ).kind = "commit" => Head(wrQ).version \in Version /\ InWrQ(Head(wrQ).version)
         /\ \A v \in Version :
              InWrQ(v)' <=> InWrQ(v) /\ ~(Head(wrQ).kind = "commit" /\ Head(wrQ).version = v)
<1>1. /\ Len(wrQ') = Len(wrQ) - 1 /\ Len(wrQ) \in Nat /\ Len(wrQ) >= 1 /\ Head(wrQ) = wrQ[1]
      /\ \A i \in 1..(Len(wrQ) - 1) : wrQ'[i] = wrQ[i + 1]
      /\ Head(wrQ) \in WriterMsg
  BY AfterReceive DEF TypeOK, WriterTypes
<1>2. SentApart'
  <2> SUFFICES ASSUME NEW i \in 1..Len(wrQ'), NEW j \in 1..Len(wrQ'), wrQ'[i].kind = "commit",
                      wrQ'[j].kind = "commit", wrQ'[i].version = wrQ'[j].version
               PROVE  i = j
    BY DEF SentApart
  <2>1. /\ i + 1 \in 1..Len(wrQ) /\ j + 1 \in 1..Len(wrQ) /\ wrQ'[i] = wrQ[i + 1] /\ wrQ'[j] = wrQ[j + 1]
    BY <1>1
  <2>2. i + 1 = j + 1  BY <2>1 DEF SentApart
  <2> QED BY <1>1, <2>2
<1>3. ASSUME NEW v \in Version
      PROVE  InWrQ(v)' <=> InWrQ(v) /\ ~(Head(wrQ).kind = "commit" /\ Head(wrQ).version = v)
  <2>1. ASSUME InWrQ(v)' PROVE InWrQ(v) /\ ~(Head(wrQ).kind = "commit" /\ Head(wrQ).version = v)
    <3>1. PICK i \in 1..Len(wrQ') : wrQ'[i].kind = "commit" /\ wrQ'[i].version = v  BY <2>1 DEF InWrQ
    <3>2. /\ i + 1 \in 1..Len(wrQ) /\ wrQ[i + 1].kind = "commit" /\ wrQ[i + 1].version = v
          /\ 1 \in 1..Len(wrQ) /\ i + 1 # 1
      BY <1>1, <3>1
    <3>3. ~(wrQ[1].kind = "commit" /\ wrQ[1].version = v)  BY <3>2 DEF SentApart
    <3> QED BY <1>1, <3>2, <3>3 DEF InWrQ
  <2>2. ASSUME InWrQ(v), ~(Head(wrQ).kind = "commit" /\ Head(wrQ).version = v) PROVE InWrQ(v)'
    <3>1. PICK i \in 1..Len(wrQ) : wrQ[i].kind = "commit" /\ wrQ[i].version = v  BY <2>2 DEF InWrQ
    <3>2. i - 1 \in 1..Len(wrQ') /\ wrQ'[i - 1] = wrQ[(i - 1) + 1] /\ (i - 1) + 1 = i  BY <1>1, <2>2, <3>1
    <3> QED BY <3>1, <3>2 DEF InWrQ
  <2> QED BY <2>1, <2>2
<1>4. ASSUME Head(wrQ).kind = "commit" PROVE Head(wrQ).version \in Version /\ InWrQ(Head(wrQ).version)
  <2>1. Head(wrQ).version \in Version  BY <1>1, <1>4 DEF WriterMsg
  <2> QED BY <1>1, <1>4, <2>1 DEF InWrQ
<1> QED BY <1>2, <1>3, <1>4

\* Every step moves at most one version, from one place to the next; it loses one
\* only by a failure that ends the process
LEMMA PlaceStep ==
  ASSUME PersistInv, ShutdownOrder, NoneTwice, [Next]_vars,
         \A v \in Version : OneStage(v) /\ (v <= published => Traceable(v))
  PROVE  NoneTwice' /\ \A v \in Version : OneStage(v)' /\ (v <= published' => Traceable(v)')
<1> USE DEF commitVars, encVars, writerVars
<1> DEFINE Placed == \A v \in Version : OneStage(v)' /\ (v <= published' => Traceable(v)')
<1>0. /\ TypeOK /\ FlightPublished /\ WriterCurrent /\ StoredInOrder
      /\ CommittersApart /\ QueuedApart /\ EncodersApart /\ SentApart
  BY DEF PersistInv, NoneTwice
<1>t. /\ Len(stored) \in Nat /\ published \in Nat /\ completed \in Nat
      /\ encQ \in Seq(0..MaxVersion) /\ DOMAIN waiting \subseteq Version
      /\ committer \in [Committer -> [pc : {"idle", "admitted", "published"}, version : 0..MaxVersion]]
      /\ encoder \in [Encoder -> [pc : {"recv", "send", "stopped", "failed"}, version : 0..MaxVersion]]
      /\ writer \in {"recv", "persist", "stopped", "failed"}
  BY <1>0, BatchAssumption DEF TypeOK, CommitTypes, EncTypes, WriterTypes
<1>v. \A v \in Version : v \in Nat /\ v # Stop  BY DEF Version, Stop
<1>1. UNCHANGED committer => CommittersApart'  BY <1>0 DEF CommittersApart
<1>2. UNCHANGED encQ => QueuedApart'  BY <1>0 DEF QueuedApart
<1>3. UNCHANGED encoder => EncodersApart'  BY <1>0 DEF EncodersApart
<1>4. UNCHANGED wrQ => SentApart'  BY <1>0 DEF SentApart
<1>5. ASSUME UNCHANGED <<published, committer, encQ, encoder, wrQ, waiting, stored>>,
             fatal => fatal', writer = "failed" => writer' = "failed"
      PROVE  NoneTwice' /\ Placed
  <2>1. ASSUME NEW v \in Version PROVE OneStage(v)' /\ (v <= published' => Traceable(v)')
    BY <1>5, PlaceFrame DEF OneStage, Traceable
  <2> QED BY <1>1, <1>2, <1>3, <1>4, <1>5, <2>1 DEF NoneTwice
<1>6. ASSUME NEW c \in Committer, Admit(c) \/ GiveUp(c) PROVE NoneTwice' /\ Placed
  <2>1. /\ UNCHANGED <<published, encQ, encoder, wrQ, waiting, stored, fatal, writer>>
        /\ committer[c].pc # "published"
        /\ \E pc \in {"idle", "admitted"} : committer' = [committer EXCEPT ![c].pc = pc]
    BY <1>6 DEF Admit, GiveUp
  <2>2. CommittersApart' /\ \A v : WithCommitter(v)' <=> WithCommitter(v)
    BY <1>0, <1>t, <2>1 DEF CommittersApart, WithCommitter
  <2>3. ASSUME NEW v \in Version PROVE OneStage(v)' /\ (v <= published' => Traceable(v)')
    BY <2>1, <2>2, PlaceFrame DEF OneStage, Traceable
  <2> QED BY <1>2, <1>3, <1>4, <2>1, <2>2, <2>3 DEF NoneTwice
<1>7. ASSUME NEW c \in Committer, Publish(c) PROVE NoneTwice' /\ Placed
  <2>1. /\ UNCHANGED <<encQ, encoder, wrQ, waiting, stored, fatal, writer>>
        /\ published' = published + 1
    BY <1>7 DEF Publish
  <2>2. /\ CommittersApart'
        /\ \A v \in Version : WithCommitter(v)' <=> WithCommitter(v) \/ v = published + 1
        /\ LET v == published + 1 IN
             ~WithCommitter(v) /\ ~InEncQ(v) /\ ~WithEncoder(v) /\ ~InWrQ(v) /\ v \notin DOMAIN waiting
    BY <1>0, <1>7, PublishMoves
  <2>3. Len(stored) <= published  BY <1>0 DEF StoredInOrder
  <2>4. ASSUME NEW v \in Version PROVE OneStage(v)' /\ (v <= published' => Traceable(v)')
    <3>1. CASE v = published + 1
      BY <1>t, <2>1, <2>2, <2>3, <3>1, PlaceFrame DEF OneStage, Traceable
    <3>2. CASE v # published + 1
      <4>1. v <= published' => v <= published  BY <1>t, <1>v, <2>1, <3>2
      <4> QED BY <2>1, <2>2, <3>2, <4>1, PlaceFrame DEF OneStage, Traceable
    <3> QED BY <3>1, <3>2
  <2> QED BY <1>2, <1>3, <1>4, <2>1, <2>2, <2>4 DEF NoneTwice
<1>8. ASSUME NEW c \in Committer, Enqueue(c) \/ EnqueueFails(c) PROVE NoneTwice' /\ Placed
  <2> DEFINE u == committer[c].version
  <2>1. /\ UNCHANGED <<published, encoder, wrQ, waiting, stored, writer>>
        /\ committer[c].pc = "published" /\ Done(c)
        /\ \/ encQ' = Append(encQ, u) /\ fatal' = fatal
           \/ encQ' = encQ /\ fatal' = TRUE
    BY <1>8 DEF Enqueue, EnqueueFails
  <2>2. /\ CommittersApart' /\ u \in Version /\ WithCommitter(u)
        /\ \A v \in Version : WithCommitter(v)' <=> WithCommitter(v) /\ v # u
    BY <1>0, <2>1, DoneMoves
  <2> HIDE DEF u
  <2>3. u \in 0..MaxVersion /\ ~InEncQ(u)  BY <2>2 DEF OneStage, Version
  <2>4. CASE encQ' = Append(encQ, u) /\ fatal' = fatal
    <3>1. QueuedApart' /\ \A v \in Version : InEncQ(v)' <=> InEncQ(v) \/ v = u
      BY <1>0, <2>3, <2>4, QueueMoves
    <3>2. ASSUME NEW v \in Version PROVE OneStage(v)' /\ (v <= published' => Traceable(v)')
      BY <2>1, <2>2, <2>4, <3>1, PlaceFrame DEF OneStage, Traceable
    <3> QED BY <1>3, <1>4, <2>1, <2>2, <3>1, <3>2 DEF NoneTwice
  <2>5. CASE encQ' = encQ /\ fatal' = TRUE
    <3>1. ASSUME NEW v \in Version PROVE OneStage(v)' /\ (v <= published' => Traceable(v)')
      BY <2>1, <2>2, <2>5, PlaceFrame DEF OneStage, Traceable
    <3> QED BY <1>2, <1>3, <1>4, <2>1, <2>2, <2>5, <3>1 DEF NoneTwice
  <2> QED BY <2>1, <2>4, <2>5
<1>9. ASSUME NEW e \in Encoder, EncoderTake(e) PROVE NoneTwice' /\ Placed
  <2>1. /\ UNCHANGED <<published, committer, wrQ, waiting, stored, writer, fatal>>
        /\ encoder[e].pc = "recv" /\ encQ # <<>> /\ encQ' = Tail(encQ)
    BY <1>9 DEF EncoderTake
  <2>2. /\ QueuedApart'
        /\ Head(encQ) # Stop => Head(encQ) \in Version /\ InEncQ(Head(encQ))
        /\ \A v \in Version : InEncQ(v)' <=> InEncQ(v) /\ v # Head(encQ)
    BY <1>0, <2>1, DequeueMoves
  <2>3. CASE Head(encQ) = Stop
    <3>1. encoder' = [encoder EXCEPT ![e].pc = "stopped"]  BY <1>9, <2>3 DEF EncoderTake
    <3>2. EncodersApart' /\ \A v : WithEncoder(v)' <=> WithEncoder(v)
      BY <1>0, <1>t, <2>1, <3>1 DEF EncodersApart, WithEncoder
    <3>3. ASSUME NEW v \in Version PROVE OneStage(v)' /\ (v <= published' => Traceable(v)')
      BY <1>v, <2>1, <2>2, <2>3, <3>2, PlaceFrame DEF OneStage, Traceable
    <3> QED BY <1>1, <1>4, <2>1, <2>2, <3>2, <3>3 DEF NoneTwice
  <2>4. CASE Head(encQ) # Stop
    <3> DEFINE u == Head(encQ)
    <3>1. encoder' = [encoder EXCEPT ![e] = [pc |-> "send", version |-> u]]  BY <1>9, <2>4 DEF EncoderTake
    <3>2. u \in Version /\ InEncQ(u)  BY <2>2, <2>4
    <3>3. ~WithEncoder(u)  BY <3>2 DEF OneStage
    <3>4. EncodersApart' /\ \A v \in Version : WithEncoder(v)' <=> WithEncoder(v) \/ v = u
      BY <1>0, <2>1, <3>1, <3>2, <3>3, TakeMoves
    <3>5. \A v \in Version : InEncQ(v)' <=> InEncQ(v) /\ v # u  BY <2>2
    <3> HIDE DEF u
    <3>6. ASSUME NEW v \in Version PROVE OneStage(v)' /\ (v <= published' => Traceable(v)')
      BY <2>1, <3>2, <3>4, <3>5, PlaceFrame DEF OneStage, Traceable
    <3> QED BY <1>1, <1>4, <2>1, <2>2, <3>4, <3>6 DEF NoneTwice
  <2> QED BY <2>3, <2>4
<1>10. ASSUME NEW e \in Encoder, EncoderSend(e) PROVE NoneTwice' /\ Placed
  <2> DEFINE u == encoder[e].version
  <2>1. /\ UNCHANGED <<published, committer, encQ, waiting, stored, writer, fatal>>
        /\ encoder[e].pc = "send" /\ encoder' = [encoder EXCEPT ![e] = [pc |-> "recv", version |-> 0]]
    BY <1>10 DEF EncoderSend
  <2>2. PICK ok \in BOOLEAN : wrQ' = Append(wrQ, CommitMsg(u, ok))
    BY <1>10, Zenon DEF EncoderSend
  <2>3. /\ EncodersApart' /\ u \in Version /\ WithEncoder(u)
        /\ \A v \in Version : WithEncoder(v)' <=> WithEncoder(v) /\ v # u
    BY <1>0, <2>1, SendMoves
  <2> DEFINE m == CommitMsg(u, ok)
  <2>4. m \in WriterMsg /\ m.kind = "commit" /\ m.version = u  BY <2>3 DEF CommitMsg, WriterMsg
  <2>5. ~InWrQ(u)  BY <2>3 DEF OneStage
  <2> HIDE DEF u, m
  <2>6. SentApart' /\ \A v \in Version : InWrQ(v)' <=> InWrQ(v) \/ (m.kind = "commit" /\ m.version = v)
    BY <1>0, <2>2, <2>4, <2>5, DeliverMoves DEF m
  <2>7. \A v \in Version : InWrQ(v)' <=> InWrQ(v) \/ v = u  BY <2>4, <2>6
  <2>8. ASSUME NEW v \in Version PROVE OneStage(v)' /\ (v <= published' => Traceable(v)')
    BY <2>1, <2>3, <2>7, PlaceFrame DEF OneStage, Traceable
  <2> QED BY <1>1, <1>2, <2>1, <2>3, <2>6, <2>8 DEF NoneTwice
<1>11. ASSUME NEW e \in Encoder, EncoderFails(e) PROVE NoneTwice' /\ Placed
  <2> DEFINE u == encoder[e].version
  <2>1. /\ UNCHANGED <<published, committer, encQ, wrQ, waiting, stored, writer, fatal>> /\ closed
        /\ encoder[e].pc = "send" /\ encoder' = [encoder EXCEPT ![e] = [pc |-> "failed", version |-> 0]]
    BY <1>11 DEF EncoderFails
  <2>2. /\ EncodersApart' /\ u \in Version /\ WithEncoder(u)
        /\ \A v \in Version : WithEncoder(v)' <=> WithEncoder(v) /\ v # u
    BY <1>0, <2>1, SendMoves
  <2>3. writer = "failed"  BY <2>1, SenderAlive
  <2> HIDE DEF u
  <2>4. ASSUME NEW v \in Version PROVE OneStage(v)' /\ (v <= published' => Traceable(v)')
    BY <2>1, <2>2, <2>3, PlaceFrame DEF OneStage, Traceable
  <2> QED BY <1>1, <1>2, <1>4, <2>1, <2>2, <2>4 DEF NoneTwice
<1>12. ASSUME NEW w \in Waiter, SendRequest(w) PROVE NoneTwice' /\ Placed
  <2>1. /\ UNCHANGED <<published, committer, encQ, encoder, waiting, stored, writer, fatal>>
        /\ wrQ' = wrQ \/ wrQ' = Append(wrQ, WaitMsg(w))
    BY <1>12 DEF SendRequest
  <2>2. SentApart' /\ \A v \in Version : InWrQ(v)' <=> InWrQ(v)
    <3>1. CASE wrQ' = wrQ  BY <1>4, <3>1, PlaceFrame
    <3>2. CASE wrQ' = Append(wrQ, WaitMsg(w))
      <4> DEFINE m == WaitMsg(w)
      <4>1. m \in WriterMsg /\ m.kind # "commit"  BY DEF WaitMsg, WriterMsg
      <4> HIDE DEF m
      <4> QED BY <1>0, <3>2, <4>1, DeliverMoves DEF m
    <3> QED BY <2>1, <3>1, <3>2
  <2>3. ASSUME NEW v \in Version PROVE OneStage(v)' /\ (v <= published' => Traceable(v)')
    BY <2>1, <2>2, PlaceFrame DEF OneStage, Traceable
  <2> QED BY <1>1, <1>2, <1>3, <2>1, <2>2, <2>3 DEF NoneTwice
<1>13. CASE HandleWait
  <2>1. /\ UNCHANGED <<published, committer, encQ, encoder, waiting, stored, writer, fatal>>
        /\ wrQ # <<>> /\ wrQ' = Tail(wrQ) /\ Head(wrQ).kind # "commit"
    BY <1>13 DEF HandleWait
  <2>2. SentApart' /\ \A v \in Version : InWrQ(v)' <=> InWrQ(v)
    BY <1>0, <2>1, ReceiveMoves
  <2>3. ASSUME NEW v \in Version PROVE OneStage(v)' /\ (v <= published' => Traceable(v)')
    BY <2>1, <2>2, PlaceFrame DEF OneStage, Traceable
  <2> QED BY <1>1, <1>2, <1>3, <2>1, <2>2, <2>3 DEF NoneTwice
<1>14. CASE HandleCommit
  <2> DEFINE u == Head(wrQ).version
  <2>1. /\ UNCHANGED <<published, committer, encQ, encoder, stored, fatal>> /\ writer = "recv"
        /\ wrQ # <<>> /\ wrQ' = Tail(wrQ) /\ Head(wrQ).kind = "commit"
    BY <1>14 DEF HandleCommit
  <2>2. \/ writer' = "failed" /\ waiting' = waiting
        \/ ~(u < next_version) /\ DOMAIN waiting' = DOMAIN waiting \cup {u} /\ writer' = "persist"
    BY <1>14 DEF HandleCommit, WriterEnds
  <2>3. /\ SentApart' /\ u \in Version /\ InWrQ(u)
        /\ \A v \in Version : InWrQ(v)' <=> InWrQ(v) /\ v # u
    BY <1>0, <2>1, ReceiveMoves
  <2> HIDE DEF u
  <2>4. CASE writer' = "failed" /\ waiting' = waiting
    <3>1. ASSUME NEW v \in Version PROVE OneStage(v)' /\ (v <= published' => Traceable(v)')
      BY <2>1, <2>3, <2>4, PlaceFrame DEF OneStage, Traceable
    <3> QED BY <1>1, <1>2, <1>3, <2>1, <2>3, <3>1 DEF NoneTwice
  <2>5. CASE ~(u < next_version) /\ DOMAIN waiting' = DOMAIN waiting \cup {u} /\ writer' = "persist"
    <3>1. u > Len(stored)
      BY <1>0, <1>t, <1>v, <2>1, <2>3, <2>5 DEF next_version, WriterCurrent
    <3>2. ASSUME NEW v \in Version PROVE OneStage(v)' /\ (v <= published' => Traceable(v)')
      BY <1>t, <1>v, <2>1, <2>3, <2>5, <3>1, PlaceFrame DEF OneStage, Traceable
    <3> QED BY <1>1, <1>2, <1>3, <2>1, <2>3, <3>2 DEF NoneTwice
  <2> QED BY <2>2, <2>4, <2>5
<1>15. CASE Persist \/ PersistFails
  <2> DEFINE u == NextBatch
             n == Len(stored)
  <2>1. /\ UNCHANGED <<published, committer, encQ, encoder, wrQ, fatal>> /\ writer = "persist" /\ Ready
        /\ DOMAIN waiting' = DOMAIN waiting \ {u}
        /\ \/ stored' = Append(stored, u)
           \/ stored' = stored /\ writer' = "failed"
    BY <1>15 DEF Persist, PersistFails, WriterEnds
  <2>2. u = n + 1 /\ u \in Version /\ Len(Append(stored, u)) = n + 1 /\ u \in DOMAIN waiting
    BY <1>0, <2>1, NextExtends DEF Ready
  <2>3. Len(stored') = n + 1 \/ (Len(stored') = n /\ writer' = "failed")
    BY <2>1, <2>2
  <2> HIDE DEF u
  <2>4. ASSUME NEW v \in Version PROVE OneStage(v)' /\ (v <= published' => Traceable(v)')
    <3>1. CASE v = u
      BY <1>t, <1>v, <2>1, <2>2, <2>3, <3>1, PlaceFrame DEF OneStage, Traceable
    <3>2. CASE v # u
      <4>1. OneStage(v) /\ (v <= published => Traceable(v))  OBVIOUS
      <4>2. v <= Len(stored') <=> v <= n  BY <1>t, <1>v, <2>2, <2>3, <3>2
      <4>3. v > Len(stored') <=> v > n  BY <1>t, <1>v, <2>2, <2>3, <3>2
      <4>4. v \in DOMAIN waiting' <=> v \in DOMAIN waiting  BY <2>1, <3>2
      <4>5. writer # "failed"  BY <2>1
      <4> HIDE DEF n
      <4> QED BY <2>1, <4>1, <4>2, <4>3, <4>4, <4>5, PlaceFrame DEF OneStage, Traceable, n
    <3> QED BY <3>1, <3>2
  <2> QED BY <1>1, <1>2, <1>3, <1>4, <2>1, <2>4 DEF NoneTwice
<1>16. ASSUME NEW w \in Waiter, Ask(w) \/ Timeout(w) PROVE NoneTwice' /\ Placed
  BY <1>5, <1>16 DEF Ask, Timeout
<1>17. CASE PersistDone \/ WriterStops \/ WriterExits
  BY <1>5, <1>17 DEF PersistDone, WriterStops, WriterExits, WriterEnds
<1>18. CASE StopSend
  <2>1. /\ UNCHANGED <<published, committer, encoder, wrQ, waiting, stored, writer, fatal>>
        /\ encQ' = encQ \/ encQ' = Append(encQ, Stop)
    BY <1>18 DEF StopSend
  <2>2. Stop \in 0..MaxVersion  BY BatchAssumption DEF Stop
  <2>3. QueuedApart' /\ \A v \in Version : InEncQ(v)' <=> InEncQ(v)
    <3>1. CASE encQ' = encQ  BY <1>2, <3>1, PlaceFrame
    <3>2. CASE encQ' = Append(encQ, Stop)  BY <1>0, <1>v, <2>2, <3>2, QueueMoves
    <3> QED BY <2>1, <3>1, <3>2
  <2>4. ASSUME NEW v \in Version PROVE OneStage(v)' /\ (v <= published' => Traceable(v)')
    BY <2>1, <2>3, PlaceFrame DEF OneStage, Traceable
  <2> QED BY <1>1, <1>3, <1>4, <2>1, <2>3, <2>4 DEF NoneTwice
<1>19. CASE StopBegin \/ StopJoinEncoders \/ StopJoinWriter
  BY <1>5, <1>19 DEF StopBegin, StopJoinEncoders, StopJoinWriter
<1>20. ASSUME NEW s \in Stopper, StopCall(s) \/ StopReturn(s) PROVE NoneTwice' /\ Placed
  BY <1>5, <1>20 DEF StopCall, StopReturn
<1>21. CASE UNCHANGED vars
  BY <1>5, <1>21 DEF vars
<1> QED BY <1>6, <1>7, <1>8, <1>9, <1>10, <1>11, <1>12, <1>13, <1>14, <1>15, <1>16, <1>17, <1>18,
           <1>19, <1>20, <1>21, StepCases
-----------------------------------------------------------------------------
\* What stop reports

\* What a call of stop may blame
Excuse ==
  \/ fatal \/ writer = "failed"
  \/ \E c \in Committer : committer[c].pc = "published"
  \/ CommitMsgsIn(encQ) # {}

\* Once the encoders have ended, what a call of stop may blame does not go away
LEMMA ExcuseStays ==
  ASSUME PersistInv, ~EncodersAlive, Excuse, [Next]_vars PROVE Excuse'
<1> USE DEF commitVars, encVars, writerVars
<1>t. /\ committer \in [Committer -> [pc : {"idle", "admitted", "published"}, version : 0..MaxVersion]]
      /\ encoder \in [Encoder -> [pc : {"recv", "send", "stopped", "failed"}, version : 0..MaxVersion]]
  BY DEF PersistInv, TypeOK, CommitTypes, EncTypes
<1>1. ASSUME UNCHANGED <<committer, encQ>>, fatal => fatal', writer = "failed" => writer' = "failed"
      PROVE  Excuse'
  BY <1>1 DEF Excuse, CommitMsgsIn
<1>2. ASSUME NEW c \in Committer, Admit(c) \/ GiveUp(c) \/ Publish(c) PROVE Excuse'
  <2>1. /\ UNCHANGED <<fatal, writer, encQ>> /\ committer[c].pc # "published"
        /\ \E r : committer' = [committer EXCEPT ![c] = r]
    BY <1>2 DEF Admit, GiveUp, Publish
  <2> QED BY <1>t, <2>1 DEF Excuse, CommitMsgsIn
<1>3. ASSUME NEW c \in Committer, Enqueue(c) PROVE FALSE
  BY <1>3 DEF Enqueue
<1>4. ASSUME NEW c \in Committer, EnqueueFails(c) PROVE Excuse'
  BY <1>4 DEF EnqueueFails, Excuse
<1>5. ASSUME NEW e \in Encoder, EncoderTake(e) \/ EncoderSend(e) \/ EncoderFails(e) PROVE FALSE
  BY <1>5 DEF EncoderTake, EncoderSend, EncoderFails, EncodersAlive
<1>6. ASSUME NEW w \in Waiter, Ask(w) \/ SendRequest(w) \/ Timeout(w) PROVE Excuse'
  BY <1>1, <1>6 DEF Ask, SendRequest, Timeout
<1>7. CASE HandleCommit \/ HandleWait \/ Persist \/ PersistFails \/ PersistDone \/ WriterStops
           \/ WriterExits
  BY <1>1, <1>7 DEF HandleCommit, HandleWait, Persist, PersistFails, PersistDone, WriterStops,
                    WriterExits
<1>8. CASE StopBegin \/ StopSend \/ StopJoinEncoders \/ StopJoinWriter
  BY <1>1, <1>8 DEF StopBegin, StopSend, StopJoinEncoders, StopJoinWriter
<1>9. ASSUME NEW s \in Stopper, StopCall(s) \/ StopReturn(s) PROVE Excuse'
  BY <1>1, <1>9 DEF StopCall, StopReturn
<1>10. CASE UNCHANGED vars
  BY <1>1, <1>10 DEF vars
<1> QED BY <1>2, <1>3, <1>4, <1>5, <1>6, <1>7, <1>8, <1>9, <1>10, StepCases

\* A stop that reports an error has something to blame: if the workers ended well, the
\* first version that is not stored has not reached them
LEMMA ErrorHasExcuse ==
  ASSUME PersistInv, ShutdownOrder, \A v \in Version : v <= published => Traceable(v),
         NEW s \in Stopper, workers.pc = "stopped",
         ~(workers.ok /\ completed >= stop[s].through)
  PROVE  Excuse
<1>t. /\ Len(stored) \in Nat /\ published \in 0..MaxVersion /\ completed \in Nat /\ MaxVersion \in Nat
      /\ stop[s].through \in Nat /\ stop[s].through <= published
  <2>1. stop \in [Stopper -> [pc : {"idle", "called", "ok", "error"}, through : 0..MaxVersion]]
    BY DEF PersistInv, TypeOK, StopTypes
  <2> QED BY <2>1, BatchAssumption DEF PersistInv, TypeOK, CommitTypes, WriterTypes, ShutdownOrder
<1>1. kill /\ closed /\ ~EncodersAlive /\ writer \in {"stopped", "failed"}
      /\ (workers.ok <=> writer = "stopped")
  BY DEF ShutdownOrder
<1>2. CASE writer = "failed"  BY <1>2 DEF Excuse
<1>3. CASE writer = "stopped"
  <2> DEFINE v == completed + 1
  <2>1. completed < stop[s].through  BY <1>t, <1>1, <1>3
  <2>2. v \in Version /\ v <= published /\ v # Stop  BY <1>t, <2>1 DEF Version, Stop
  <2>3. completed = Len(stored)  BY <1>3 DEF PersistInv, WriterCurrent
  <2>4. ~(v <= Len(stored)) /\ v \notin DOMAIN waiting /\ ~InWrQ(v)
    BY <1>t, <1>3, <2>3 DEF ShutdownOrder, InWrQ
  <2>5. ~WithEncoder(v)  BY <1>1 DEF WithEncoder, EncodersAlive
  <2> HIDE DEF v
  <2>6. WithCommitter(v) \/ InEncQ(v) \/ fatal  BY <1>3, <2>2, <2>4, <2>5 DEF Traceable
  <2>7. InEncQ(v) => CommitMsgsIn(encQ) # {}  BY <2>2 DEF InEncQ, CommitMsgsIn
  <2> QED BY <2>6, <2>7 DEF Excuse, WithCommitter
<1> QED BY <1>1, <1>2, <1>3

\* A call that is told of an error knows of a failure, or of a commit that came too late
LEMMA DrainsStep ==
  ASSUME PersistInv, ShutdownOrder, StopDrains, [Next]_vars,
         \A v \in Version : v <= published => Traceable(v)
  PROVE  StopDrains'
<1> USE DEF commitVars, encVars, writerVars, stopVars
<1>0. stop \in [Stopper -> [pc : {"idle", "called", "ok", "error"}, through : 0..MaxVersion]]
  BY DEF PersistInv, TypeOK, StopTypes
<1> SUFFICES ASSUME NEW z \in Stopper, stop'[z].pc = "error" PROVE Excuse'
  BY DEF StopDrains, Excuse
<1>1. CASE stop[z].pc = "error"
  <2>1. Excuse  BY <1>1 DEF StopDrains, Excuse
  <2>2. ~EncodersAlive  BY <1>1 DEF ShutdownOrder
  <2> QED BY <2>1, <2>2, ExcuseStays
<1>2. CASE stop[z].pc # "error"
  <2>1. ASSUME NEW s \in Stopper, StopReturn(s) PROVE Excuse'
    <3>1. /\ workers.pc = "stopped" /\ UNCHANGED <<fatal, writer, committer, encQ>>
          /\ stop' = [stop EXCEPT ![s].pc =
                 IF workers.ok /\ completed >= stop[s].through THEN "ok" ELSE "error"]
      BY <2>1 DEF StopReturn
    <3>2. s = z /\ ~(workers.ok /\ completed >= stop[s].through)  BY <1>0, <1>2, <3>1
    <3>3. Excuse  BY <3>1, <3>2, ErrorHasExcuse
    <3> QED BY <3>1, <3>3 DEF Excuse, CommitMsgsIn
  <2>2. ASSUME NEW s \in Stopper, StopCall(s) PROVE FALSE
    BY <1>0, <1>2, <2>2 DEF StopCall
  <2>3. UNCHANGED stop => FALSE  BY <1>2
  <2>4. ASSUME NEW c \in Committer,
               Admit(c) \/ GiveUp(c) \/ Publish(c) \/ Enqueue(c) \/ EnqueueFails(c)
        PROVE  UNCHANGED stop
    BY <2>4 DEF Admit, GiveUp, Publish, Enqueue, EnqueueFails
  <2>5. ASSUME NEW e \in Encoder, EncoderTake(e) \/ EncoderSend(e) \/ EncoderFails(e)
        PROVE  UNCHANGED stop
    BY <2>5 DEF EncoderTake, EncoderSend, EncoderFails
  <2>6. ASSUME NEW w \in Waiter, Ask(w) \/ SendRequest(w) \/ Timeout(w) PROVE UNCHANGED stop
    BY <2>6 DEF Ask, SendRequest, Timeout
  <2>7. HandleCommit \/ HandleWait \/ Persist \/ PersistFails \/ PersistDone
          \/ WriterStops \/ WriterExits => UNCHANGED stop
    BY DEF HandleCommit, HandleWait, Persist, PersistFails, PersistDone, WriterStops, WriterExits
  <2>8. StopBegin \/ StopSend \/ StopJoinEncoders \/ StopJoinWriter => UNCHANGED stop
    BY DEF StopBegin, StopSend, StopJoinEncoders, StopJoinWriter
  <2>9. UNCHANGED vars => UNCHANGED stop  BY DEF vars
  <2> QED BY <2>1, <2>2, <2>3, <2>4, <2>5, <2>6, <2>7, <2>8, <2>9, StepCases
<1> QED BY <1>1, <1>2

\* The whole invariant of the pipeline: tokens, places and the order of a shutdown
THEOREM FlowInvariance == Spec => []FlowInv
<1>1. Init => FlowInv
  <2> SUFFICES ASSUME Init PROVE FlowInv  OBVIOUS
  <2>1. PersistInv  BY PersistInit
  <2>2. TokenBalance
    <3>1. {c \in Committer : committer[c].pc # "idle"} = {} /\ CommitMsgsIn(encQ) = {}
      BY DEF Init, CommitMsgsIn
    <3>2. Cardinality({}) = 0  BY FS_EmptySet
    <3>3. tokens = ENCODE_QUEUE_CAPACITY /\ tokens \in Nat  BY BatchAssumption DEF Init
    <3> QED BY <3>1, <3>2, <3>3 DEF TokenBalance
  <2>3. NoneTwice
    BY DEF Init, NoneTwice, CommittersApart, QueuedApart, EncodersApart, SentApart
  <2>4. ShutdownOrder  BY DEF Init, ShutdownOrder
  <2>5. StopDrains  BY DEF Init, StopDrains
  <2>6. ASSUME NEW v \in Version PROVE OneStage(v) /\ ~(v <= published)
    BY DEF Init, OneStage, WithCommitter, InEncQ, WithEncoder, InWrQ, Version
  <2> QED BY <2>1, <2>2, <2>3, <2>4, <2>5, <2>6 DEF FlowInv
<1>2. FlowInv /\ [Next]_vars => FlowInv'
  <2> SUFFICES ASSUME FlowInv, [Next]_vars PROVE FlowInv'  OBVIOUS
  <2>1. /\ PersistInv /\ TokenBalance /\ NoneTwice /\ ShutdownOrder /\ StopDrains
        /\ \A v \in Version : OneStage(v) /\ (v <= published => Traceable(v))
    BY DEF FlowInv
  <2>2. TypeOK /\ FlightPublished  BY <2>1 DEF PersistInv
  <2>3. PersistInv'  BY <2>1, TypeStep, FlightStep, OrderStep, StopStep DEF PersistInv
  <2>4. TokenBalance'  BY <2>1, <2>2, TokenStep
  <2>5. ShutdownOrder'  BY <2>1, <2>2, OrderlyStep
  <2>6. StopDrains'  BY <2>1, DrainsStep
  <2>7. NoneTwice' /\ \A v \in Version : OneStage(v)' /\ (v <= published' => Traceable(v)')
    BY <2>1, PlaceStep
  <2> QED BY <2>3, <2>4, <2>5, <2>6, <2>7 DEF FlowInv
<1> QED BY <1>1, <1>2, PTL DEF Spec

\* A commit that was admitted finds room in the encoder channel as long as nobody
\* stops the database: its token is room.
THEOREM AdmissionIsRoom == Spec => []AdmittedHasRoom
<1>1. ASSUME FlowInv PROVE AdmittedHasRoom
  <2> SUFFICES ASSUME NEW c \in Committer, committer[c].pc = "published", workers.pc = "running"
               PROVE  Len(encQ) < ENCODE_QUEUE_CAPACITY
    BY DEF AdmittedHasRoom
  <2>1. TokenBalance /\ ShutdownOrder /\ tokens \in Nat /\ encQ \in Seq(0..MaxVersion)
        /\ Len(encQ) \in Nat /\ ENCODE_QUEUE_CAPACITY \in Nat
    BY <1>1, BatchAssumption DEF FlowInv, PersistInv, TypeOK, CommitTypes, EncTypes
  <2>2. CommitMsgsIn(encQ) = 1..Len(encQ)
    BY <2>1 DEF ShutdownOrder, CommitMsgsIn
  <2>3. Cardinality(1..Len(encQ)) = Len(encQ)
    <3>1. 1 \in Int /\ Len(encQ) \in Int  BY <2>1
    <3>2. Cardinality(1..Len(encQ)) = IF 1 > Len(encQ) THEN 0 ELSE Len(encQ) - 1 + 1
      BY <3>1, FS_Interval
    <3> QED BY <2>1, <3>2
  <2>4. Cardinality(Busy) \in Nat /\ Cardinality(Busy) # 0
    <3>1. IsFiniteSet(Busy) /\ c \in Busy
      <4>1. Busy \subseteq Committer  BY DEF Busy
      <4> QED BY <4>1, BatchAssumption, FS_Subset DEF Busy
    <3> QED BY <3>1, FS_CardinalityType, FS_EmptySet
  <2>5. tokens + Cardinality(Busy) + Len(encQ) = ENCODE_QUEUE_CAPACITY
    BY <2>1, <2>2, <2>3 DEF TokenBalance, Busy
  <2> QED BY <2>1, <2>4, <2>5
<1> QED BY <1>1, FlowInvariance, PTL

\* A published commit is in exactly one place until it is stored, unless a failure that
\* ends the process has lost it.
THEOREM VersionsOnce == Spec => []EachVersionOnce
<1>1. ASSUME FlowInv PROVE EachVersionOnce
  <2> SUFFICES ASSUME NEW v \in 1..published
               PROVE  /\ Cardinality(At(v)) <= 1
                      /\ At(v) = {} => fatal \/ writer = "failed"
    BY DEF EachVersionOnce
  <2>t. /\ published \in 0..MaxVersion /\ MaxVersion \in Nat /\ Len(stored) \in Nat
        /\ \A i \in 1..Len(stored) : stored[i] = i
        /\ committer \in [Committer -> [pc : {"idle", "admitted", "published"}, version : 0..MaxVersion]]
        /\ encoder \in [Encoder -> [pc : {"recv", "send", "stopped", "failed"}, version : 0..MaxVersion]]
    BY <1>1, BatchAssumption DEF FlowInv, PersistInv, TypeOK, CommitTypes, EncTypes, WriterTypes,
                                 StoredInOrder
  <2>1. v \in Version /\ v # Stop /\ v \in Nat /\ v >= 1  BY <2>t DEF Version, Stop
  <2>2. OneStage(v) /\ Traceable(v) /\ NoneTwice  BY <1>1, <2>1 DEF FlowInv
  <2> DEFINE C == {c \in Committer : committer[c] = [pc |-> "published", version |-> v]}
             Q == {i \in 1..Len(encQ) : encQ[i] = v}
             E == {e \in Encoder : encoder[e] = [pc |-> "send", version |-> v]}
             W == {i \in 1..Len(wrQ) : wrQ[i].kind = "commit" /\ wrQ[i].version = v}
             X == DOMAIN waiting \cap {v}
             S == {i \in 1..Len(stored) : stored[i] = v}
  <2>3. At(v) = {<<"committer", c>> : c \in C} \cup {<<"encQ", i>> : i \in Q}
                 \cup {<<"encoder", e>> : e \in E} \cup {<<"wrQ", i>> : i \in W}
                 \cup {<<"waiting", x>> : x \in X} \cup {<<"stored", i>> : i \in S}
    BY DEF At
  <2>4. /\ C # {} <=> WithCommitter(v)
        /\ \A c, d \in C : c = d
    <3>1. \A c \in Committer : c \in C <=> committer[c].pc = "published" /\ committer[c].version = v
      BY <2>t
    <3> QED BY <3>1, <2>2 DEF WithCommitter, NoneTwice, CommittersApart
  <2>5. (Q # {} <=> InEncQ(v)) /\ \A i, j \in Q : i = j
    BY <2>1, <2>2 DEF InEncQ, NoneTwice, QueuedApart
  <2>6. (E # {} <=> WithEncoder(v)) /\ \A e, f \in E : e = f
    <3>1. \A e \in Encoder : e \in E <=> encoder[e].pc = "send" /\ encoder[e].version = v
      BY <2>t
    <3> QED BY <3>1, <2>2 DEF WithEncoder, NoneTwice, EncodersApart
  <2>7. (W # {} <=> InWrQ(v)) /\ \A i, j \in W : i = j
    BY <2>2 DEF InWrQ, NoneTwice, SentApart
  <2>8. (X # {} <=> v \in DOMAIN waiting) /\ \A x, y \in X : x = y
    OBVIOUS
  <2>9. (S # {} <=> v <= Len(stored)) /\ \A i, j \in S : i = j
    BY <2>t, <2>1
  <2>10. ~(v \in DOMAIN waiting /\ v <= Len(stored))
    BY <2>t, <2>1, <2>2 DEF OneStage
  <2> HIDE DEF C, Q, E, W, X, S
  <2>11. At(v) = {} => fatal \/ writer = "failed"
    <3>1. ASSUME At(v) = {} PROVE C = {} /\ Q = {} /\ E = {} /\ W = {} /\ X = {} /\ S = {}
      BY <2>3, <3>1
    <3> QED BY <2>2, <2>4, <2>5, <2>6, <2>7, <2>8, <2>9, <3>1 DEF Traceable
  <2>12. \A p, q \in At(v) : p = q
    <3>1. /\ C # {} => Q = {} /\ E = {} /\ W = {} /\ X = {} /\ S = {}
          /\ Q # {} => E = {} /\ W = {} /\ X = {} /\ S = {}
          /\ E # {} => W = {} /\ X = {} /\ S = {}
          /\ W # {} => X = {} /\ S = {}
          /\ X # {} => S = {}
      BY <2>2, <2>4, <2>5, <2>6, <2>7, <2>8, <2>9, <2>10 DEF OneStage
    <3> QED BY <2>3, <2>4, <2>5, <2>6, <2>7, <2>8, <2>9, <3>1
  <2>13. Cardinality(At(v)) <= 1
    <3>1. CASE At(v) = {}
      <4>1. Cardinality({}) = 0  BY FS_EmptySet
      <4> QED BY <3>1, <4>1
    <3>2. CASE At(v) # {}
      <4>1. PICK p : p \in At(v)  BY <3>2
      <4>2. At(v) = {p}  BY <2>12, <4>1
      <4>3. Cardinality({p}) = 1  BY FS_Singleton
      <4> QED BY <4>2, <4>3
    <3> QED BY <3>1, <3>2
  <2> QED BY <2>11, <2>13
<1> QED BY <1>1, FlowInvariance, PTL

\* stop drains: it reports an error only after a failure, or for a commit that was not
\* handed to the encoders before they were stopped.
THEOREM StopIsThorough == Spec => []StopDrains
<1>1. FlowInv => StopDrains  BY DEF FlowInv
<1> QED BY <1>1, FlowInvariance, PTL
=============================================================================
