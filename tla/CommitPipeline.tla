--------------------------- MODULE CommitPipeline ---------------------------
(***************************************************************************)
(* The optimistic commit pipeline of mooR's world-state database.          *)
(*                                                                         *)
(* Threads run transactions over an immutable root snapshot.  A commit is  *)
(* checked against the root that is current when it is prepared (possibly  *)
(* only through the root's cumulative bloom filter), turned into a         *)
(* candidate root, and published by a compare-and-swap on the root's       *)
(* version.  A lost CAS is rebased on the winner a bounded number of times.*)
(*                                                                         *)
(* A Row is one tuple of one relation, named by its relation and key.  The *)
(* value of a row is identified with the timestamp of the transaction that *)
(* wrote it (0: no tuple), which is what every check of the code compares. *)
(* Of the value itself one bit is kept, for the rows in Valued: whether it *)
(* is "on".  For a row of property permissions, on means that the value    *)
(* grants PropFlag::Clobber.                                               *)
(***************************************************************************)
EXTENDS Integers

CONSTANTS
  Thread,             \* threads that run transactions
  Row,                \* tuples of all relations
  PropVal,            \* the rows of relation object_propvalues
  PolicyOf,           \* property-value row |-> its object_propflags row
  Lifetime,           \* property-value row |-> rows its definition depends on
  Valued,             \* rows whose value bit is modelled
  Pool,               \* rows of objects whose number the sequence hands out
  Chosen,             \* rows of objects created at an explicit number
  Tracked,            \* rows an ownership change may depend on
  Bit,                \* bits of a bloom filter
  Hash,               \* row |-> the bits its key sets
  SeedTs,             \* timestamp of the rows a reopened database holds
  MaxTs,              \* bound: transactions that may start
  MAX_BLOOM_SPAN,     \* 32 in the code
  MAX_REBASE_ATTEMPTS \* 16 in the code

PolicyRow == {PolicyOf[r] : r \in PropVal}

ASSUME RowAssumption ==
  /\ PropVal \subseteq Row
  /\ PolicyRow \subseteq Valued
  /\ Valued \subseteq Row
  /\ Pool \subseteq Row
  /\ Chosen \subseteq Row
  /\ Tracked \subseteq Row
  /\ PolicyOf \in [PropVal -> Row \ PropVal]
  /\ Lifetime \in [PropVal -> SUBSET Row]
  /\ Pool \cap (PropVal \cup PolicyRow \cup Chosen) = {}
  /\ Chosen \cap (PropVal \cup PolicyRow) = {}

ASSUME BloomAssumption == Hash \in [Row -> (SUBSET Bit) \ {{}}]

ASSUME BoundAssumption ==
  /\ SeedTs \in Nat \ {0}
  /\ MaxTs \in Nat
  /\ MAX_BLOOM_SPAN \in Nat
  /\ MAX_REBASE_ATTEMPTS \in Nat

VARIABLES
  root,       \* the published WorldStateSnapshot
  monotonic,  \* next transaction timestamp
  fresh,      \* Pool rows whose object number was not handed out yet
  phase,      \* where each thread's transaction is
  ts,         \* its timestamp (Tx::ts)
  base,       \* the snapshot it started from
  ops,        \* its local operations, all relations together
  reads,      \* rows it must find unchanged (owner_change_reads, ...)
  checked,    \* the root its candidate was checked against and built on
  attempts    \* rebases done so far

vars == <<root, monotonic, fresh, phase, ts, base, ops, reads, checked, attempts>>

Kind == {"none", "insert", "update", "delete"}
Phase == {"idle", "retry", "seeded", "active", "prepared", "lost"}

Op == [kind : Kind, read : Nat, unique : BOOLEAN, on : BOOLEAN]

Snapshot ==
  [version : Nat, committed : Nat, idx : [Row -> Nat], on : SUBSET Row,
   bloom : SUBSET Bit, covered : BOOLEAN, since : Nat]

OpOf(k, rd, u, g) == [kind |-> k, read |-> rd, unique |-> u, on |-> g]
NoOp == OpOf("none", 0, FALSE, FALSE)
NoOps == [r \in Row |-> NoOp]

\* The root of a database that holds the rows present; commit_bloom is None
SeedSnapshot(present, on) ==
  [version |-> 0, committed |-> IF present = {} THEN 0 ELSE SeedTs,
   idx |-> [r \in Row |-> IF r \in present THEN SeedTs ELSE 0], on |-> on,
   bloom |-> {}, covered |-> FALSE, since |-> 0]

\* Stands for the snapshot of a thread that has none
EmptySnapshot == SeedSnapshot({}, {})

-----------------------------------------------------------------------------
\* Transaction-local operations

Writes(t) == {r \in Row : ops[t][r].kind # "none"}

Visible(t, r) ==
  \/ ops[t][r].kind \in {"insert", "update"}
  \/ ops[t][r].kind = "none" /\ base[t].idx[r] # 0

\* A locally deleted row existed when the transaction started
RecreatesExisting(t, r) == ops[t][r].read <= base[t].committed

\* The local operation that a write of r leaves behind
Written(t, r, g) ==
  LET op == ops[t][r] IN
  IF op.kind = "none"
    THEN IF base[t].idx[r] # 0 THEN OpOf("update", base[t].idx[r], FALSE, g)
                               ELSE OpOf("insert", ts[t], FALSE, g)
  ELSE IF op.kind # "delete" THEN OpOf(op.kind, op.read, op.unique, g)
  ELSE IF RecreatesExisting(t, r) THEN OpOf("update", op.read, op.unique, g)
  ELSE OpOf("insert", ts[t], op.unique, g)

\* The operation that a deletion of r leaves behind
Deleted(t, r) ==
  IF ops[t][r].kind = "none"
    THEN OpOf("delete", base[t].idx[r], FALSE, FALSE)
    ELSE OpOf("delete", ops[t][r].read, ops[t][r].unique, FALSE)

Bits(r) == IF r \in Valued THEN BOOLEAN ELSE {FALSE}

SetOp(t, r, op) ==
  /\ phase[t] = "active"
  /\ ops' = [ops EXCEPT ![t] = [@ EXCEPT ![r] = op]]
  /\ UNCHANGED <<root, monotonic, phase, ts, base, reads, checked, attempts>>

\* insert, or an upsert that finds nothing: Duplicate if the row is visible.
\* The rows of a Pool or Chosen object appear only through its creation.
Insert(t, r) ==
  /\ r \notin Pool \cup Chosen
  /\ ~Visible(t, r)
  /\ \E g \in Bits(r) : SetOp(t, r, Written(t, r, g))
  /\ UNCHANGED fresh

\* update, or an upsert that finds the row: returns None if it is not visible
\* or newer than the transaction's snapshot
Update(t, r) ==
  /\ Visible(t, r)
  /\ ops[t][r].kind = "none" => base[t].idx[r] <= base[t].committed
  /\ \E g \in Bits(r) : SetOp(t, r, Written(t, r, g))
  /\ UNCHANGED fresh

Delete(t, r) ==
  /\ Visible(t, r)
  /\ SetOp(t, r, Deleted(t, r))
  /\ UNCHANGED fresh

\* insert_guaranteed_unique replaces whatever operation was there
UniqueInsert(t) == OpOf("insert", ts[t], TRUE, FALSE)

\* create_object(NextObjid): the sequence hands out a number never used before
CreateNext(t, r) ==
  /\ r \in fresh
  /\ SetOp(t, r, UniqueInsert(t))
  /\ fresh' = fresh \ {r}

\* create_object(Objid(id)): refused when the object is visible
CreateAt(t, r) ==
  /\ r \in Chosen
  /\ ~Visible(t, r)
  /\ SetOp(t, r, UniqueInsert(t))
  /\ UNCHANGED fresh

\* chown and inherited-permission reads record what must not change
TrackRead(t, r) ==
  /\ phase[t] = "active"
  /\ r \in Tracked \ reads[t]
  /\ reads' = [reads EXCEPT ![t] = @ \cup {r}]
  /\ UNCHANGED <<root, monotonic, fresh, phase, ts, base, ops, checked, attempts>>

-----------------------------------------------------------------------------
\* Starting and ending a transaction

\* acquire_seed_caches: load the root ...
LoadSeed(t) ==
  /\ phase[t] \in {"idle", "retry"}
  /\ monotonic <= MaxTs
  /\ phase' = [phase EXCEPT ![t] = "seeded"]
  /\ base' = [base EXCEPT ![t] = root]
  /\ UNCHANGED <<root, monotonic, fresh, ts, ops, reads, checked, attempts>>

\* ... and only then take a timestamp
TakeTs(t) ==
  /\ phase[t] = "seeded"
  /\ monotonic <= MaxTs
  /\ phase' = [phase EXCEPT ![t] = "active"]
  /\ ts' = [ts EXCEPT ![t] = monotonic]
  /\ monotonic' = monotonic + 1
  /\ UNCHANGED <<root, fresh, base, ops, reads, checked, attempts>>

Finish(t, next) ==
  /\ phase' = [phase EXCEPT ![t] = next]
  /\ ts' = [ts EXCEPT ![t] = 0]
  /\ base' = [base EXCEPT ![t] = EmptySnapshot]
  /\ ops' = [ops EXCEPT ![t] = NoOps]
  /\ reads' = [reads EXCEPT ![t] = {}]
  /\ checked' = [checked EXCEPT ![t] = EmptySnapshot]
  /\ attempts' = [attempts EXCEPT ![t] = 0]

Rollback(t) ==
  /\ phase[t] = "active"
  /\ Finish(t, "idle")
  /\ UNCHANGED <<root, monotonic, fresh>>

CommitReadOnly(t) ==
  /\ phase[t] = "active"
  /\ Writes(t) = {}
  /\ Finish(t, "idle")
  /\ UNCHANGED <<root, monotonic, fresh>>

-----------------------------------------------------------------------------
\* Conflict detection

Unchanged(s1, s2, r) == s1.idx[r] = s2.idx[r]

\* The permissions the transaction leaves behind decide
CanClobber(t, r) ==
  /\ r \in PropVal
  /\ LET p == PolicyOf[r] IN
       IF p \in Writes(t)
         THEN ops[t][p].kind # "delete" /\ ops[t][p].on
         ELSE base[t].idx[p] # 0 /\ p \in base[t].on

PolicyKeys(t) == {r \in PropVal : r \in Writes(t) \/ PolicyOf[r] \in Writes(t)}

\* Mutant: dependencies of an ownership change are not revalidated
CheckPropertyPolicies_NoReads(t, current) ==
  \A r \in PolicyKeys(t) :
    /\ Unchanged(base[t], current, PolicyOf[r])
    /\ \/ base[t].idx[PolicyOf[r]] # 0 /\ ~CanClobber(t, r)
       \/ \A l \in Lifetime[r] : Unchanged(base[t], current, l)

CheckPropertyPolicies(t, current) ==
  /\ \A r \in reads[t] : Unchanged(base[t], current, r)
  /\ \A r \in PolicyKeys(t) :
       /\ Unchanged(base[t], current, PolicyOf[r])
       /\ \/ base[t].idx[PolicyOf[r]] # 0 /\ ~CanClobber(t, r)
          \/ \A l \in Lifetime[r] : Unchanged(base[t], current, l)

Bloom(t) == UNION {Hash[r] : r \in Writes(t)}

MightIntersect(b1, b2) == b1 \cap b2 # {}
MightContain(b, r) == Hash[r] \subseteq b

SkipConflictCheck(t) ==
  \/ base[t].version = root.version
  \/ /\ base[t].version >= root.since
     /\ root.covered
     /\ ~MightIntersect(Bloom(t), root.bloom)

\* Mutant: an update of a row deleted meanwhile goes through
CheckRow_Resurrects(t, r) ==
  LET op == ops[t][r]
      entry == root.idx[r] IN
  \/ op.unique
  \/ CanClobber(t, r)
  \/ IF entry # 0
       THEN /\ op.kind # "insert"
            /\ entry = op.read
            /\ op.read <= ts[t]
       ELSE op.kind = "delete" => op.read = ts[t]

\* CheckRelation::check_with_resolver, one row
CheckRow(t, r) ==
  LET op == ops[t][r]
      entry == root.idx[r]
      resolved == CanClobber(t, r) IN
  \/ op.unique
  \/ resolved
  \/ IF entry # 0
       THEN /\ op.kind # "insert"
            /\ entry = op.read
            /\ op.read <= ts[t]
       ELSE /\ op.kind # "update"
            /\ op.kind = "delete" => op.read = ts[t]

\* Mutant: a bloom hit is taken for a conflict
CheckAll_TrustBloom(t) == ~MightIntersect(Bloom(t), root.bloom)

CheckAll(t) == \A r \in Writes(t) : CheckRow(t, r)

PrepareSucceeds(t) ==
  /\ base[t].version # root.version => CheckPropertyPolicies(t, root)
  /\ SkipConflictCheck(t) \/ CheckAll(t)

\* Mutant: uses the winner's filter for commits it does not cover
RebaseSucceeds_Uncovered(t) ==
  /\ CheckPropertyPolicies(t, root)
  /\ \/ root.covered /\ \A r \in Writes(t) : ~MightContain(root.bloom, r)
     \/ \A r \in Writes(t) : CanClobber(t, r) \/ Unchanged(checked[t], root, r)

\* Mutant: policies are checked at prepare only
RebaseSucceeds_NoPolicies(t) ==
  \/ /\ checked[t].version >= root.since
     /\ root.covered
     /\ \A r \in Writes(t) : ~MightContain(root.bloom, r)
  \/ \A r \in Writes(t) : CanClobber(t, r) \/ Unchanged(checked[t], root, r)

RebaseSucceeds(t) ==
  /\ CheckPropertyPolicies(t, root)
  /\ \/ /\ checked[t].version >= root.since
        /\ root.covered
        /\ \A r \in Writes(t) : ~MightContain(root.bloom, r)
     \/ \A r \in Writes(t) : CanClobber(t, r) \/ Unchanged(checked[t], root, r)

-----------------------------------------------------------------------------
\* Candidate roots

Max2(a, b) == IF a >= b THEN a ELSE b

ApplyIdx(t, s) ==
  [r \in Row |-> IF r \notin Writes(t) THEN s.idx[r]
                 ELSE IF ops[t][r].kind = "delete" THEN 0 ELSE ts[t]]

ApplyOn(t, s) ==
  (s.on \ Writes(t)) \cup {r \in Writes(t) : ops[t][r].on}

\* Saturation guard: restart the filter once it spans too many versions
Accumulates(s) == s.version - s.since < MAX_BLOOM_SPAN

\* Mutant: the filter is reset but keeps claiming the versions it covered
BuildSnapshot_KeepsSince(t, s) ==
  LET merge == s.covered /\ Accumulates(s) IN
  [version |-> s.version + 1, committed |-> Max2(s.committed, ts[t]),
   idx |-> ApplyIdx(t, s), on |-> ApplyOn(t, s),
   bloom |-> Bloom(t) \cup (IF merge THEN s.bloom ELSE {}),
   covered |-> TRUE,
   since |-> IF s.covered THEN s.since ELSE s.version]

BuildSnapshot(t, s) ==
  LET merge == s.covered /\ Accumulates(s) IN
  [version |-> s.version + 1, committed |-> Max2(s.committed, ts[t]),
   idx |-> ApplyIdx(t, s), on |-> ApplyOn(t, s),
   bloom |-> Bloom(t) \cup (IF merge THEN s.bloom ELSE {}),
   covered |-> TRUE,
   since |-> IF merge THEN s.since ELSE s.version]

\* On a winner without a filter the rebased root keeps the winner's since
BuildRebasedSnapshot(t, s) ==
  LET merge == Accumulates(s) IN
  [version |-> s.version + 1, committed |-> Max2(s.committed, ts[t]),
   idx |-> ApplyIdx(t, s), on |-> ApplyOn(t, s),
   bloom |-> Bloom(t) \cup (IF merge /\ s.covered THEN s.bloom ELSE {}),
   covered |-> TRUE,
   since |-> IF merge THEN s.since ELSE s.version]

Candidate(t) ==
  IF attempts[t] = 0 THEN BuildSnapshot(t, checked[t])
                     ELSE BuildRebasedSnapshot(t, checked[t])

-----------------------------------------------------------------------------
\* The write commit

PrepareAdmitted(t) ==
  /\ phase[t] = "active"
  /\ Writes(t) # {}
  /\ PrepareSucceeds(t)
  /\ phase' = [phase EXCEPT ![t] = "prepared"]
  /\ checked' = [checked EXCEPT ![t] = root]
  /\ UNCHANGED <<root, monotonic, fresh, ts, base, ops, reads, attempts>>

PrepareConflict(t) ==
  /\ phase[t] = "active"
  /\ Writes(t) # {}
  /\ ~PrepareSucceeds(t)
  /\ Finish(t, "retry")
  /\ UNCHANGED <<root, monotonic, fresh>>

\* admit_commit times out or the writer is gone: an error, nothing published
PrepareOverloaded(t) ==
  /\ phase[t] = "active"
  /\ Writes(t) # {}
  /\ PrepareSucceeds(t)
  /\ Finish(t, "idle")
  /\ UNCHANGED <<root, monotonic, fresh>>

PublishWins(t) ==
  /\ phase[t] = "prepared"
  /\ root.version = checked[t].version
  /\ root' = Candidate(t)
  /\ Finish(t, "idle")
  /\ UNCHANGED <<monotonic, fresh>>

PublishLost(t) ==
  /\ phase[t] = "prepared"
  /\ root.version # checked[t].version
  /\ attempts[t] < MAX_REBASE_ATTEMPTS
  /\ phase' = [phase EXCEPT ![t] = "lost"]
  /\ UNCHANGED <<root, monotonic, fresh, ts, base, ops, reads, checked, attempts>>

PublishExhausted(t) ==
  /\ phase[t] = "prepared"
  /\ root.version # checked[t].version
  /\ attempts[t] = MAX_REBASE_ATTEMPTS
  /\ Finish(t, "retry")
  /\ UNCHANGED <<root, monotonic, fresh>>

RebaseOnWinner(t) ==
  /\ phase[t] = "lost"
  /\ RebaseSucceeds(t)
  /\ phase' = [phase EXCEPT ![t] = "prepared"]
  /\ checked' = [checked EXCEPT ![t] = root]
  /\ attempts' = [attempts EXCEPT ![t] = @ + 1]
  /\ UNCHANGED <<root, monotonic, fresh, ts, base, ops, reads>>

RebaseConflict(t) ==
  /\ phase[t] = "lost"
  /\ ~RebaseSucceeds(t)
  /\ Finish(t, "retry")
  /\ UNCHANGED <<root, monotonic, fresh>>

\* After a startup import, before any task runs
MarkAllFullyLoaded ==
  /\ \A t \in Thread : phase[t] \in {"idle", "retry"}
  /\ root.covered
  /\ root' = [root EXCEPT !.bloom = {}, !.covered = FALSE, !.since = 0]
  /\ UNCHANGED <<monotonic, fresh, phase, ts, base, ops, reads, checked, attempts>>

-----------------------------------------------------------------------------
\* try_open: version 0, the stored rows, timestamps after the newest of them
Init ==
  /\ \E present \in SUBSET (Row \ Pool) : \E on \in SUBSET (Valued \cap present) :
       root = SeedSnapshot(present, on)
  /\ monotonic = root.committed + 1
  /\ fresh = Pool
  /\ phase = [t \in Thread |-> "idle"]
  /\ ts = [t \in Thread |-> 0]
  /\ base = [t \in Thread |-> EmptySnapshot]
  /\ ops = [t \in Thread |-> NoOps]
  /\ reads = [t \in Thread |-> {}]
  /\ checked = [t \in Thread |-> EmptySnapshot]
  /\ attempts = [t \in Thread |-> 0]

LocalStep(t) ==
  \E r \in Row :
    \/ Insert(t, r) \/ Update(t, r) \/ Delete(t, r)
    \/ CreateNext(t, r) \/ CreateAt(t, r) \/ TrackRead(t, r)

CommitStep(t) ==
  \/ CommitReadOnly(t) \/ PrepareAdmitted(t) \/ PrepareConflict(t)
  \/ PrepareOverloaded(t) \/ PublishWins(t) \/ PublishLost(t)
  \/ PublishExhausted(t) \/ RebaseOnWinner(t) \/ RebaseConflict(t)

Next ==
  \/ \E t \in Thread : LoadSeed(t) \/ TakeTs(t) \/ LocalStep(t) \/ Rollback(t) \/ CommitStep(t)
  \/ MarkAllFullyLoaded

Spec == Init /\ [][Next]_vars
-----------------------------------------------------------------------------
TypeOK ==
  /\ root \in Snapshot
  /\ monotonic \in Nat
  /\ fresh \subseteq Pool
  /\ phase \in [Thread -> Phase]
  /\ ts \in [Thread -> 0..MaxTs]
  /\ base \in [Thread -> Snapshot]
  /\ ops \in [Thread -> [Row -> Op]]
  /\ reads \in [Thread -> SUBSET Row]
  /\ checked \in [Thread -> Snapshot]
  /\ attempts \in [Thread -> 0..MAX_REBASE_ATTEMPTS]

Open(t) == phase[t] \notin {"idle", "retry"}
Committing(t) == phase[t] \in {"prepared", "lost"}

\* Snapshots the pipeline may still compare with the root
Held(t) == (IF Open(t) THEN {base[t]} ELSE {})
             \cup (IF Committing(t) THEN {checked[t]} ELSE {})

\* Whenever the root's filter claims to cover the commits since a snapshot
\* (snapshot.version >= bloom_since_version), every row that differs between
\* that snapshot and the root is in the filter: a bloom miss may replace the
\* exact conflict check, at prepare and at rebase, across merges and resets.
BloomSound ==
  \A t \in Thread : \A s \in Held(t) :
    root.covered /\ s.version >= root.since =>
      \A r \in Row : ~Unchanged(s, root, r) => MightContain(root.bloom, r)

\* Whatever sequence of inserts, updates and deletes a transaction made, its
\* local operation says whether the row existed in its snapshot and which
\* version it saw: the facts the conflict check decides by.
OpProvenance ==
  \A t \in Thread : \A r \in Writes(t) :
    LET op == ops[t][r] IN
    ~op.unique =>
      /\ op.kind = "insert" => base[t].idx[r] = 0
      /\ op.kind = "update" => base[t].idx[r] # 0
      /\ op.read = IF base[t].idx[r] # 0 THEN base[t].idx[r] ELSE ts[t]

Publishes(t) == Committing(t) /\ root'.version # root.version /\ ~Open(t)'

\* No lost update: a commit replaces, of every row it writes, exactly the
\* version its own snapshot held, unless the row's permissions grant Clobber;
\* whether the check was skipped, exact, or repeated by any number of rebases.
\* Rows of objects created at an explicit number are CreateConflictCaught's.
NoLostUpdate ==
  [][\A t \in Thread : Publishes(t) =>
       \A r \in Writes(t) \ Chosen :
         CanClobber(t, r) \/ Unchanged(base[t], root, r)]_vars

\* A commit overwrites a concurrent write only while the property's
\* permissions and the rows its definition depends on are still the ones the
\* transaction read, at the instant of publication.
ClobberPolicyCurrent ==
  [][\A t \in Thread : Publishes(t) =>
       \A r \in Writes(t) \cap PropVal : ~Unchanged(base[t], root, r) =>
         \A p \in {PolicyOf[r]} \cup Lifetime[r] : Unchanged(base[t], root, p)]_vars

\* Rows an ownership change depended on are unchanged when it is published.
TrackedReadsCurrent ==
  [][\A t \in Thread : Publishes(t) =>
       \A r \in reads[t] : Unchanged(base[t], root, r)]_vars

\* A conflict is reported (other than by exhausting the rebases) only if a
\* row the transaction wrote or depends on really changed since its snapshot:
\* bloom false positives cost an exact check, never a retry.
ConflictIsReal ==
  [][\A t \in Thread : phase[t] \in {"active", "lost"} /\ phase'[t] = "retry" =>
       \E r \in Writes(t) \cup reads[t] \cup
                UNION {{PolicyOf[v]} \cup Lifetime[v] : v \in PolicyKeys(t)} :
         ~Unchanged(base[t], root, r)]_vars

\* "If two commands try to change the same specific piece of data, the
\* conflict is caught" (transactions.md), for rows of objects that create_at
\* makes: its rows are inserted as guaranteed unique and are not checked.
CreateConflictCaught ==
  [][\A t \in Thread : Publishes(t) =>
       \A r \in Writes(t) \cap Chosen : Unchanged(base[t], root, r)]_vars

\* "Two players try to set a value to the exact same thing ... allows both to
\* succeed without a conflict" (transactions.md): no conflict is reported when
\* every row that changed meanwhile holds the value the transaction writes.
IdenticalChangeSucceeds ==
  [][\A t \in Thread : phase[t] \in {"active", "lost"} /\ phase'[t] = "retry" =>
       \E r \in Row :
         /\ ~Unchanged(base[t], root, r)
         /\ \/ ops[t][r].kind \notin {"insert", "update"}
            \/ root.idx[r] = 0
            \/ ops[t][r].on # (r \in root.on)]_vars

\* The pipeline implements snapshot isolation.
SI == INSTANCE SnapshotIsolation WITH
        db <- root.idx,
        snap <- [t \in Thread |-> base[t].idx],
        open <- {t \in Thread : Open(t)},
        Stamp <- 1..Max2(MaxTs, SeedTs)

\* Every step of the pipeline is a step of the abstract specification or
\* leaves its state alone: a commit takes effect in one atomic step.
ImplementsSI == SI!Spec
-----------------------------------------------------------------------------
\* The inductive invariant behind the properties above

Live(t) == phase[t] \in {"active", "prepared", "lost"}

LostBelowBound ==
  \A t \in Thread : phase[t] = "lost" => attempts[t] < MAX_REBASE_ATTEMPTS

\* Only a live transaction has operations, and only a writer commits
OpsLocal ==
  \A t \in Thread :
    /\ ~Live(t) => Writes(t) = {}
    /\ Committing(t) => Writes(t) # {}

\* No snapshot holds a timestamp that was not handed out
Dated(s) == s.committed < monotonic /\ \A r \in Row : s.idx[r] <= s.committed

SnapshotsDated == Dated(root) /\ \A t \in Thread : Dated(base[t])

\* A live timestamp is newer than its snapshot, is nobody else's, and is not
\* the version of any published row
TsFresh ==
  \A t \in Thread : Live(t) =>
    /\ base[t].committed < ts[t] /\ ts[t] < monotonic
    /\ \A r \in Row : root.idx[r] # ts[t]
    /\ \A u \in Thread \ {t} : Live(u) => ts[u] # ts[t]

\* The version identifies the root, and a root without a filter is one that
\* no held snapshot is older than
NoLater(s) ==
  /\ s.version <= root.version
  /\ s.version = root.version => s = root
  /\ ~root.covered => s.version = root.version

HeldNoLater ==
  \A t \in Thread : (Open(t) => NoLater(base[t])) /\ (Committing(t) => NoLater(checked[t]))

\* An object number of the sequence is handed to one transaction, and until
\* that one commits nobody else sees or writes the object
PoolExclusive ==
  \A r \in Pool :
    /\ r \in fresh \/ (\E t \in Thread : ops[t][r].unique) =>
         root.idx[r] = 0 /\ \A t \in Thread : base[t].idx[r] = 0
    /\ r \in fresh => \A t \in Thread : r \notin Writes(t)
    /\ \A t \in Thread : ops[t][r].unique =>
         r \notin fresh /\ \A u \in Thread \ {t} : r \notin Writes(u)

UniqueIsCreation ==
  \A t \in Thread : \A r \in Row : ops[t][r].unique => r \in Pool \cup Chosen

\* What the checks established about the root the candidate is built on
CheckedSound ==
  \A t \in Thread : Committing(t) =>
    /\ \A r \in Writes(t) \ Chosen : CanClobber(t, r) \/ Unchanged(base[t], checked[t], r)
    /\ CheckPropertyPolicies(t, checked[t])

\* Every fact the checks at prepare and rebase rest on, together.
PipelineInv ==
  /\ TypeOK /\ LostBelowBound /\ OpsLocal /\ SnapshotsDated /\ TsFresh
  /\ HeldNoLater /\ PoolExclusive /\ UniqueIsCreation
  /\ BloomSound /\ OpProvenance /\ CheckedSound
=============================================================================
