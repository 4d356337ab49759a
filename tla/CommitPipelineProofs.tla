------------------------ MODULE CommitPipelineProofs ------------------------
(***************************************************************************)
(* Proofs that the commit pipeline keeps PipelineInv, for any number of    *)
(* threads, any rows and filters, and any values of the two bounds, and    *)
(* what follows for every commit it publishes.                             *)
(***************************************************************************)
EXTENDS CommitPipeline, TLAPS

-----------------------------------------------------------------------------
\* Types of the values the actions compute

\* The snapshot of a closed transaction, and the operations of a fresh one,
\* are well typed.
LEMMA EmptyTypes == EmptySnapshot \in Snapshot /\ NoOps \in [Row -> Op]
BY BoundAssumption DEF EmptySnapshot, SeedSnapshot, Snapshot, NoOps, NoOp, OpOf, Op, Kind

\* collect_index_ops and the filters keep their types.
LEMMA CandidateTypes ==
  ASSUME TypeOK, NEW t \in Thread
  PROVE  Candidate(t) \in Snapshot
<1> USE RowAssumption, BloomAssumption, BoundAssumption
<1> DEFINE s == checked[t]
<1>1. s \in Snapshot /\ ops[t] \in [Row -> Op] /\ ts[t] \in Nat
  BY DEF TypeOK
<1>2. ApplyIdx(t, s) \in [Row -> Nat]
  BY <1>1 DEF ApplyIdx, Snapshot
<1>3. ApplyOn(t, s) \in SUBSET Row
  BY <1>1 DEF ApplyOn, Snapshot, Writes
<1>4. Bloom(t) \in SUBSET Bit
  BY DEF Bloom, Writes
<1>5. BuildSnapshot(t, s) \in Snapshot
  BY <1>1, <1>2, <1>3, <1>4 DEF BuildSnapshot, Snapshot, Max2
<1>6. BuildRebasedSnapshot(t, s) \in Snapshot
  BY <1>1, <1>2, <1>3, <1>4 DEF BuildRebasedSnapshot, Snapshot, Max2
<1> QED BY <1>5, <1>6 DEF Candidate

\* The operation that a write leaves behind is well typed.
LEMMA WrittenType ==
  ASSUME TypeOK, NEW t \in Thread, NEW r \in Row, NEW g \in BOOLEAN
  PROVE  Written(t, r, g) \in Op
<1>1. ops[t][r] \in Op /\ ts[t] \in Nat /\ base[t].idx[r] \in Nat
  BY BoundAssumption DEF TypeOK, Snapshot
<1> QED BY <1>1 DEF Written, OpOf, Op, Kind

\* Ending a transaction resets its thread to well-typed values.
LEMMA FinishTypes ==
  ASSUME TypeOK, NEW t \in Thread, NEW next \in Phase, Finish(t, next)
  PROVE  /\ phase' \in [Thread -> Phase]
         /\ ts' \in [Thread -> 0..MaxTs]
         /\ base' \in [Thread -> Snapshot]
         /\ ops' \in [Thread -> [Row -> Op]]
         /\ reads' \in [Thread -> SUBSET Row]
         /\ checked' \in [Thread -> Snapshot]
         /\ attempts' \in [Thread -> 0..MAX_REBASE_ATTEMPTS]
BY EmptyTypes, BoundAssumption DEF Finish, TypeOK

\* Every local operation of a transaction leaves a well-typed operation.
LEMMA LocalTypes ==
  ASSUME TypeOK, NEW t \in Thread, LocalStep(t)
  PROVE  TypeOK'
<1> USE RowAssumption
<1> PICK r \in Row :
      \/ Insert(t, r) \/ Update(t, r) \/ Delete(t, r)
      \/ CreateNext(t, r) \/ CreateAt(t, r) \/ TrackRead(t, r)
  BY DEF LocalStep
<1>0. ASSUME NEW op \in Op, SetOp(t, r, op), fresh' \in SUBSET Pool
      PROVE  TypeOK'
  BY <1>0 DEF SetOp, TypeOK
<1>1. \A g \in Bits(r) : Written(t, r, g) \in Op
  BY WrittenType DEF Bits
<1>2. CASE Insert(t, r)
  BY <1>0, <1>1, <1>2 DEF Insert, TypeOK
<1>3. CASE Update(t, r)
  BY <1>0, <1>1, <1>3 DEF Update, TypeOK
<1>4. CASE Delete(t, r)
  <2>1. Deleted(t, r) \in Op
    BY DEF Deleted, OpOf, Op, Kind, TypeOK, Snapshot
  <2>2. SetOp(t, r, Deleted(t, r)) /\ fresh' \in SUBSET Pool
    BY <1>4 DEF Delete, TypeOK
  <2> QED BY <1>0, <2>1, <2>2
<1>5. UniqueInsert(t) \in Op
  BY BoundAssumption DEF UniqueInsert, OpOf, Op, Kind, TypeOK
<1>6. CASE CreateNext(t, r)
  BY <1>0, <1>5, <1>6 DEF CreateNext, TypeOK
<1>7. CASE CreateAt(t, r)
  BY <1>0, <1>5, <1>7 DEF CreateAt, TypeOK
<1>8. CASE TrackRead(t, r)
  BY <1>8 DEF TrackRead, TypeOK
<1> QED BY <1>2, <1>3, <1>4, <1>6, <1>7, <1>8

\* Every step keeps the types and the bound on rebases: a thread that lost a
\* CAS has a rebase left.
LEMMA TypeStep ==
  ASSUME TypeOK, LostBelowBound, [Next]_vars
  PROVE  TypeOK' /\ LostBelowBound'
<1> USE BoundAssumption
<1>1. CASE UNCHANGED vars
  BY <1>1 DEF vars, TypeOK, LostBelowBound
<1>2. CASE MarkAllFullyLoaded
  BY <1>2 DEF MarkAllFullyLoaded, TypeOK, LostBelowBound, Snapshot
<1>3. ASSUME NEW t \in Thread, LocalStep(t)
      PROVE  TypeOK' /\ LostBelowBound'
  <2>1. UNCHANGED <<phase, attempts>>
    BY <1>3 DEF LocalStep, Insert, Update, Delete, CreateNext, CreateAt, TrackRead, SetOp
  <2> QED BY <1>3, <2>1, LocalTypes DEF LostBelowBound
<1>4. ASSUME NEW t \in Thread, LoadSeed(t) \/ TakeTs(t)
      PROVE  TypeOK' /\ LostBelowBound'
  <2>1. CASE LoadSeed(t)
    BY <2>1 DEF LoadSeed, TypeOK, LostBelowBound, Phase
  <2>2. CASE TakeTs(t)
    <3>1. monotonic \in 0..MaxTs /\ monotonic + 1 \in Nat
      BY <2>2 DEF TakeTs, TypeOK
    <3> QED BY <2>2, <3>1 DEF TakeTs, TypeOK, LostBelowBound, Phase
  <2> QED BY <1>4, <2>1, <2>2
<1>5. ASSUME NEW t \in Thread, NEW next \in {"idle", "retry"}, Finish(t, next),
             root' \in Snapshot, monotonic' = monotonic, fresh' = fresh
      PROVE  TypeOK' /\ LostBelowBound'
  <2>1. TypeOK'
    BY <1>5, FinishTypes DEF TypeOK, Phase
  <2>2. LostBelowBound'
    BY <1>5 DEF Finish, TypeOK, LostBelowBound
  <2> QED BY <2>1, <2>2
<1>6. ASSUME NEW t \in Thread,
             Rollback(t) \/ CommitReadOnly(t) \/ PrepareConflict(t)
             \/ PrepareOverloaded(t) \/ PublishExhausted(t) \/ RebaseConflict(t)
      PROVE  TypeOK' /\ LostBelowBound'
  <2>1. \E next \in {"idle", "retry"} : Finish(t, next)
    BY <1>6 DEF Rollback, CommitReadOnly, PrepareConflict, PrepareOverloaded,
                PublishExhausted, RebaseConflict
  <2>2. root' \in Snapshot /\ monotonic' = monotonic /\ fresh' = fresh
    BY <1>6 DEF Rollback, CommitReadOnly, PrepareConflict, PrepareOverloaded,
                PublishExhausted, RebaseConflict, TypeOK
  <2> QED BY <2>1, <2>2, <1>5
<1>7. ASSUME NEW t \in Thread, PublishWins(t)
      PROVE  TypeOK' /\ LostBelowBound'
  <2>1. root' \in Snapshot
    BY <1>7, CandidateTypes DEF PublishWins
  <2> QED BY <1>7, <2>1, <1>5 DEF PublishWins
<1>8. ASSUME NEW t \in Thread, PrepareAdmitted(t) \/ PublishLost(t)
      PROVE  TypeOK' /\ LostBelowBound'
  BY <1>8 DEF PrepareAdmitted, PublishLost, TypeOK, LostBelowBound, Phase
<1>9. ASSUME NEW t \in Thread, RebaseOnWinner(t)
      PROVE  TypeOK' /\ LostBelowBound'
  BY <1>9 DEF RebaseOnWinner, TypeOK, LostBelowBound, Phase
<1> QED BY <1>1, <1>2, <1>3, <1>4, <1>6, <1>7, <1>8, <1>9 DEF Next, CommitStep

\* A reopened database is well typed and has no transaction.
LEMMA TypeInit == Init => TypeOK /\ LostBelowBound
<1> SUFFICES ASSUME Init PROVE TypeOK /\ LostBelowBound
  OBVIOUS
<1> USE BoundAssumption, RowAssumption
<1>1. root \in Snapshot
  BY DEF Init, Snapshot, SeedSnapshot
<1>2. monotonic \in Nat
  BY <1>1 DEF Init, Snapshot
<1> QED BY <1>1, <1>2, EmptyTypes DEF Init, TypeOK, LostBelowBound, Phase

\* Snapshots, operations and phases keep their types, timestamps stay within
\* the bound of the run, and no commit is rebased more than
\* MAX_REBASE_ATTEMPTS times.
THEOREM TypeCorrect == Spec => []TypeOK
<1>1. Init => TypeOK /\ LostBelowBound
  BY TypeInit
<1>2. TypeOK /\ LostBelowBound /\ [Next]_vars => (TypeOK /\ LostBelowBound)'
  BY TypeStep
<1> QED BY <1>1, <1>2, PTL DEF Spec

-----------------------------------------------------------------------------
\* The steps, by what they change

\* A transaction ends without publishing anything
Ends(t) ==
  /\ Live(t)
  /\ \E next \in {"idle", "retry"} : Finish(t, next)
  /\ UNCHANGED <<root, monotonic, fresh>>

\* Every step is one of nine: six kinds of ending are one.
LEMMA StepCases ==
  ASSUME [Next]_vars
  PROVE  \/ UNCHANGED vars
         \/ MarkAllFullyLoaded
         \/ \E t \in Thread :
              \/ LocalStep(t) \/ LoadSeed(t) \/ TakeTs(t) \/ Ends(t)
              \/ PublishWins(t) \/ PrepareAdmitted(t) \/ PublishLost(t)
              \/ RebaseOnWinner(t)
<1>1. ASSUME NEW t \in Thread,
             Rollback(t) \/ CommitReadOnly(t) \/ PrepareConflict(t)
             \/ PrepareOverloaded(t) \/ PublishExhausted(t) \/ RebaseConflict(t)
      PROVE  Ends(t)
  BY <1>1 DEF Rollback, CommitReadOnly, PrepareConflict, PrepareOverloaded,
              PublishExhausted, RebaseConflict, Ends, Live
<1> QED BY <1>1 DEF Next, CommitStep

\* A local operation touches its own thread's operations and reads only.
LEMMA LocalFrame ==
  ASSUME TypeOK, NEW t \in Thread, LocalStep(t)
  PROVE  /\ phase[t] = "active"
         /\ UNCHANGED <<root, monotonic, phase, ts, base, checked, attempts>>
         /\ \A u \in Thread \ {t} : ops'[u] = ops[u] /\ reads'[u] = reads[u]
BY DEF LocalStep, Insert, Update, Delete, CreateNext, CreateAt, TrackRead, SetOp, TypeOK

\* A finished thread holds nothing, and the others are left alone.
LEMMA FinishFrame ==
  ASSUME TypeOK, NEW t \in Thread, NEW next \in {"idle", "retry"}, Finish(t, next)
  PROVE  /\ ~Open(t)' /\ ~Live(t)' /\ ~Committing(t)' /\ Writes(t)' = {}
         /\ base'[t] = EmptySnapshot /\ ops'[t] = NoOps
         /\ \A u \in Thread \ {t} :
              /\ phase'[u] = phase[u] /\ ts'[u] = ts[u] /\ base'[u] = base[u]
              /\ ops'[u] = ops[u] /\ reads'[u] = reads[u] /\ checked'[u] = checked[u]
BY DEF Finish, TypeOK, Open, Live, Committing, Writes, NoOps, NoOp, OpOf

\* What a thread's operations say depends on that thread's state only.
LEMMA ThreadFrame ==
  ASSUME NEW u \in Thread, ops'[u] = ops[u], base'[u] = base[u]
  PROVE  /\ Writes(u)' = Writes(u)
         /\ \A r : CanClobber(u, r)' <=> CanClobber(u, r)
         /\ reads'[u] = reads[u] /\ checked'[u] = checked[u] =>
              (CheckPropertyPolicies(u, checked[u])' <=> CheckPropertyPolicies(u, checked[u]))
<1>1. Writes(u)' = Writes(u)
  BY DEF Writes
<1>2. \A r : CanClobber(u, r)' <=> CanClobber(u, r)
  BY <1>1 DEF CanClobber
<1>3. ASSUME reads'[u] = reads[u], checked'[u] = checked[u]
      PROVE  CheckPropertyPolicies(u, checked[u])' <=> CheckPropertyPolicies(u, checked[u])
  BY <1>1, <1>2, <1>3 DEF CheckPropertyPolicies, PolicyKeys, Unchanged
<1> QED BY <1>1, <1>2, <1>3

-----------------------------------------------------------------------------
\* Operations belong to live transactions

\* Operations are made by live transactions and dropped when they end.
LEMMA OpsLocalStep ==
  ASSUME TypeOK, OpsLocal, [Next]_vars
  PROVE  OpsLocal'
<1>1. CASE UNCHANGED vars \/ MarkAllFullyLoaded
  BY <1>1 DEF vars, MarkAllFullyLoaded, OpsLocal, Live, Committing, Writes
<1>2. ASSUME NEW t \in Thread, LocalStep(t) PROVE OpsLocal'
  BY <1>2, LocalFrame, ThreadFrame DEF OpsLocal, Live, Committing
<1>3. ASSUME NEW t \in Thread,
             LoadSeed(t) \/ TakeTs(t) \/ PrepareAdmitted(t) \/ PublishLost(t) \/ RebaseOnWinner(t)
      PROVE  OpsLocal'
  <2>1. UNCHANGED ops
    BY <1>3 DEF LoadSeed, TakeTs, PrepareAdmitted, PublishLost, RebaseOnWinner
  <2>2. \A u \in Thread : Writes(u)' = Writes(u)
    BY <2>1 DEF Writes
  <2>3. CASE LoadSeed(t) \/ TakeTs(t)
    BY <2>2, <2>3 DEF LoadSeed, TakeTs, OpsLocal, Live, Committing, TypeOK
  <2>4. CASE PrepareAdmitted(t)
    BY <2>2, <2>4 DEF PrepareAdmitted, OpsLocal, Live, Committing, TypeOK
  <2>5. CASE PublishLost(t) \/ RebaseOnWinner(t)
    BY <2>2, <2>5 DEF PublishLost, RebaseOnWinner, OpsLocal, Live, Committing, TypeOK
  <2> QED BY <1>3, <2>3, <2>4, <2>5
<1>4. ASSUME NEW t \in Thread, Ends(t) \/ PublishWins(t) PROVE OpsLocal'
  <2>1. PICK next \in {"idle", "retry"} : Finish(t, next)
    BY <1>4 DEF Ends, PublishWins
  <2>2. ASSUME NEW u \in Thread \ {t}
        PROVE  Writes(u)' = Writes(u) /\ phase'[u] = phase[u]
    BY <2>1, FinishFrame, ThreadFrame
  <2> QED BY <2>1, <2>2, FinishFrame DEF OpsLocal, Live, Committing
<1> QED BY <1>1, <1>2, <1>3, <1>4, StepCases

-----------------------------------------------------------------------------
\* Timestamps

\* What publishing does to the root: when the CAS succeeds the checked root
\* is the current one, whatever its filter.
LEMMA PublishedRoot ==
  ASSUME TypeOK, HeldNoLater, NEW t \in Thread, PublishWins(t)
  PROVE  /\ checked[t] = root
         /\ root'.version = root.version + 1
         /\ root'.committed = Max2(root.committed, ts[t])
         /\ root'.idx = ApplyIdx(t, root)
         /\ root'.covered
         /\ \/ /\ root.covered
               /\ root'.since = root.since
               /\ root'.bloom = Bloom(t) \cup root.bloom
            \/ /\ ~root.covered
               /\ root'.since = root.since
               /\ root'.bloom = Bloom(t)
            \/ /\ root'.since = root.version
               /\ root'.bloom = Bloom(t)
<1>1. checked[t] = root
  BY DEF PublishWins, HeldNoLater, NoLater, Committing
<1>2. CASE root' = BuildSnapshot(t, root)
  BY <1>1, <1>2 DEF BuildSnapshot
<1>3. CASE root' = BuildRebasedSnapshot(t, root)
  BY <1>1, <1>3 DEF BuildRebasedSnapshot
<1> QED BY <1>1, <1>2, <1>3 DEF PublishWins, Candidate

\* Timestamps are handed out once and in order, so none is newer than the
\* counter and a live one is not in any published row.
LEMMA TimeStep ==
  ASSUME TypeOK, HeldNoLater, SnapshotsDated, TsFresh, [Next]_vars
  PROVE  SnapshotsDated' /\ TsFresh'
<1> USE BoundAssumption
<1>1. CASE UNCHANGED vars
  BY <1>1 DEF vars, SnapshotsDated, TsFresh, Dated, Live
<1>2. CASE MarkAllFullyLoaded
  <2>1. root'.idx = root.idx /\ root'.committed = root.committed
    BY <1>2 DEF MarkAllFullyLoaded, TypeOK, Snapshot
  <2> QED BY <1>2, <2>1 DEF MarkAllFullyLoaded, SnapshotsDated, TsFresh, Dated, Live
<1>3. ASSUME NEW t \in Thread, LocalStep(t) PROVE SnapshotsDated' /\ TsFresh'
  BY <1>3, LocalFrame DEF SnapshotsDated, TsFresh, Dated, Live
<1>4. ASSUME NEW t \in Thread, LoadSeed(t) PROVE SnapshotsDated' /\ TsFresh'
  BY <1>4 DEF LoadSeed, TypeOK, SnapshotsDated, TsFresh, Dated, Live
<1>5. ASSUME NEW t \in Thread, TakeTs(t) PROVE SnapshotsDated' /\ TsFresh'
  <2>1. SnapshotsDated'
    BY <1>5 DEF TakeTs, TypeOK, Snapshot, SnapshotsDated, Dated
  <2>2. TsFresh'
    BY <1>5 DEF TakeTs, TypeOK, Snapshot, SnapshotsDated, TsFresh, Dated, Live
  <2> QED BY <2>1, <2>2
<1>6. ASSUME NEW t \in Thread, PrepareAdmitted(t) \/ PublishLost(t) \/ RebaseOnWinner(t)
      PROVE  SnapshotsDated' /\ TsFresh'
  <2>1. UNCHANGED <<root, monotonic, base, ts>> /\ \A u \in Thread : Live(u)' => Live(u)
    BY <1>6 DEF PrepareAdmitted, PublishLost, RebaseOnWinner, Live, TypeOK
  <2> QED BY <2>1 DEF SnapshotsDated, TsFresh, Dated
<1>7. ASSUME NEW t \in Thread, Ends(t) PROVE SnapshotsDated' /\ TsFresh'
  <2>1. PICK next \in {"idle", "retry"} : Finish(t, next)
    BY <1>7 DEF Ends
  <2>2. Dated(EmptySnapshot) /\ UNCHANGED <<root, monotonic>>
    BY <1>7 DEF Ends, SnapshotsDated, Dated, EmptySnapshot, SeedSnapshot, TypeOK, Snapshot
  <2> QED BY <2>1, <2>2, FinishFrame DEF SnapshotsDated, TsFresh, Dated, Live
<1>8. ASSUME NEW t \in Thread, PublishWins(t) PROVE SnapshotsDated' /\ TsFresh'
  <2>1. Finish(t, "idle") /\ UNCHANGED monotonic /\ Live(t)
    BY <1>8 DEF PublishWins, Live
  <2>2. root'.committed = Max2(root.committed, ts[t]) /\ root'.idx = ApplyIdx(t, root)
    BY <1>8, PublishedRoot
  <2>3. \A r \in Row : root'.idx[r] \in {root.idx[r], 0, ts[t]}
    BY <2>2 DEF ApplyIdx
  <2>4. Dated(EmptySnapshot) /\ Dated(root)'
    <3>1. Dated(EmptySnapshot)
      BY DEF SnapshotsDated, Dated, EmptySnapshot, SeedSnapshot, TypeOK, Snapshot
    <3>2. root.committed \in Nat /\ ts[t] \in Nat /\ monotonic \in Nat
          /\ root.idx \in [Row -> Nat]
      BY DEF TypeOK, Snapshot
    <3>3. root.committed < monotonic /\ ts[t] < monotonic
          /\ \A r \in Row : root.idx[r] <= root.committed
      BY <2>1 DEF SnapshotsDated, Dated, TsFresh
    <3>4. root'.committed < monotonic /\ root'.committed >= ts[t]
          /\ root'.committed >= root.committed /\ root'.committed \in Nat
      BY <2>2, <3>2, <3>3 DEF Max2
    <3>5. \A r \in Row : root'.idx[r] <= root'.committed
      BY <2>3, <3>2, <3>3, <3>4
    <3> QED BY <2>1, <3>1, <3>4, <3>5 DEF Dated
  <2>5. SnapshotsDated'
    BY <2>1, <2>4, FinishFrame DEF SnapshotsDated, Dated
  <2>6. TsFresh'
    <3> SUFFICES ASSUME NEW u \in Thread, Live(u)'
                 PROVE  /\ base'[u].committed < ts'[u] /\ ts'[u] < monotonic'
                        /\ \A r \in Row : root'.idx[r] # ts'[u]
                        /\ \A w \in Thread \ {u} : Live(w)' => ts'[w] # ts'[u]
      BY DEF TsFresh
    <3>1. u # t /\ Live(u) /\ ts'[u] = ts[u] /\ base'[u] = base[u]
      BY <2>1, FinishFrame DEF Live
    <3>2. ts[u] # 0 /\ ts[u] # ts[t]
      BY <2>1, <3>1 DEF TsFresh, TypeOK, Snapshot
    <3>3. \A w \in Thread \ {u} : Live(w)' => ts'[w] # ts'[u]
      BY <2>1, <3>1, FinishFrame DEF TsFresh, Live
    <3> QED BY <2>1, <2>3, <3>1, <3>2, <3>3 DEF TsFresh
  <2> QED BY <2>5, <2>6
<1> QED BY <1>1, <1>2, <1>3, <1>4, <1>5, <1>6, <1>7, <1>8, StepCases

-----------------------------------------------------------------------------
\* Versions and the filter

\* The version identifies a root while anyone holds it: publishing raises the
\* version, and the filter is dropped only when nobody holds a snapshot.
LEMMA HeldStep ==
  ASSUME TypeOK, HeldNoLater, [Next]_vars
  PROVE  HeldNoLater'
<1>0. root.version \in Nat
  BY DEF TypeOK, Snapshot
<1>1. CASE UNCHANGED vars
  BY <1>1 DEF vars, HeldNoLater, NoLater, Open, Committing
<1>2. CASE MarkAllFullyLoaded
  BY <1>2 DEF MarkAllFullyLoaded, HeldNoLater, Open, Committing
<1>3. ASSUME NEW t \in Thread, LocalStep(t) PROVE HeldNoLater'
  BY <1>3, LocalFrame DEF HeldNoLater, NoLater, Open, Committing
<1>4. ASSUME NEW t \in Thread, LoadSeed(t) PROVE HeldNoLater'
  BY <1>0, <1>4 DEF LoadSeed, TypeOK, HeldNoLater, NoLater, Open, Committing
<1>5. ASSUME NEW t \in Thread, TakeTs(t) \/ PublishLost(t) PROVE HeldNoLater'
  BY <1>5 DEF TakeTs, PublishLost, TypeOK, HeldNoLater, NoLater, Open, Committing
<1>6. ASSUME NEW t \in Thread, PrepareAdmitted(t) \/ RebaseOnWinner(t) PROVE HeldNoLater'
  BY <1>0, <1>6 DEF PrepareAdmitted, RebaseOnWinner, TypeOK, HeldNoLater, NoLater, Open, Committing
<1>7. ASSUME NEW t \in Thread, Ends(t) PROVE HeldNoLater'
  BY <1>7, FinishFrame DEF Ends, HeldNoLater, NoLater, Open, Committing
<1>8. ASSUME NEW t \in Thread, PublishWins(t) PROVE HeldNoLater'
  <2>1. Finish(t, "idle") /\ root'.version = root.version + 1 /\ root'.covered
    BY <1>8, PublishedRoot DEF PublishWins
  <2>2. \A u \in Thread : base[u].version \in Nat /\ checked[u].version \in Nat
    BY DEF TypeOK, Snapshot
  <2>3. ASSUME NEW u \in Thread \ {t}
        PROVE  (Open(u)' => NoLater(base[u])') /\ (Committing(u)' => NoLater(checked[u])')
    <3>1. /\ Open(u)' = Open(u) /\ Committing(u)' = Committing(u)
          /\ base'[u] = base[u] /\ checked'[u] = checked[u]
      BY <2>1, FinishFrame DEF Open, Committing
    <3> QED BY <1>0, <2>1, <2>2, <3>1 DEF HeldNoLater, NoLater
  <2> QED BY <2>1, <2>3, FinishFrame DEF HeldNoLater
<1> QED BY <1>1, <1>2, <1>3, <1>4, <1>5, <1>6, <1>7, <1>8, StepCases

\* Every key a transaction writes is in its filter.
LEMMA BloomHasWrites ==
  ASSUME NEW t \in Thread, NEW r \in Writes(t)
  PROVE  Hash[r] \subseteq Bloom(t) /\ r \in Row /\ Hash[r] # {}
BY BloomAssumption DEF Bloom, Writes

\* The filter of a published root contains every row that differs from a
\* snapshot it claims to cover.
LEMMA BloomStep ==
  ASSUME TypeOK, HeldNoLater, BloomSound, [Next]_vars
  PROVE  BloomSound'
<1>1. CASE UNCHANGED vars
  BY <1>1 DEF vars, BloomSound, Held, Open, Committing, Unchanged, MightContain
<1>2. CASE MarkAllFullyLoaded
  BY <1>2 DEF MarkAllFullyLoaded, BloomSound, Held, Open, Committing
<1>3. ASSUME NEW t \in Thread, LocalStep(t) PROVE BloomSound'
  BY <1>3, LocalFrame DEF BloomSound, Held, Open, Committing, Unchanged, MightContain
<1>4. ASSUME NEW t \in Thread, LoadSeed(t) \/ PrepareAdmitted(t) \/ RebaseOnWinner(t)
      PROVE  BloomSound'
  <2>1. root' = root /\ \A u \in Thread : Held(u)' \subseteq Held(u) \cup {root}
    BY <1>4 DEF LoadSeed, PrepareAdmitted, RebaseOnWinner, Held, Open, Committing, TypeOK
  <2> QED BY <2>1 DEF BloomSound, Unchanged, MightContain
<1>5. ASSUME NEW t \in Thread, TakeTs(t) \/ PublishLost(t) PROVE BloomSound'
  <2>1. root' = root /\ \A u \in Thread : Held(u)' = Held(u)
    BY <1>5 DEF TakeTs, PublishLost, Held, Open, Committing, TypeOK
  <2> QED BY <2>1 DEF BloomSound, Unchanged, MightContain
<1>6. ASSUME NEW t \in Thread, Ends(t) PROVE BloomSound'
  <2>1. root' = root /\ \A u \in Thread : Held(u)' \subseteq Held(u)
    BY <1>6, FinishFrame DEF Ends, Held, Open, Committing
  <2> QED BY <2>1 DEF BloomSound, Unchanged, MightContain
<1>7. ASSUME NEW t \in Thread, PublishWins(t) PROVE BloomSound'
  <2>1. Finish(t, "idle")
    BY <1>7 DEF PublishWins
  <2> SUFFICES ASSUME NEW u \in Thread, NEW s \in Held(u)', root'.covered,
                      s.version >= root'.since, NEW r \in Row, ~Unchanged(s, root', r)
               PROVE  Hash[r] \subseteq root'.bloom
    BY DEF BloomSound, Unchanged, MightContain
  <2>2. u # t /\ s \in Held(u)
    BY <2>1, FinishFrame DEF Held, Open, Committing
  <2>3. NoLater(s) /\ s \in Snapshot
    BY <2>2 DEF HeldNoLater, Held, TypeOK
  <2>4. Bloom(t) \subseteq root'.bloom /\ root'.idx = ApplyIdx(t, root)
    BY <1>7, PublishedRoot
  <2>5. CASE r \in Writes(t)
    BY <2>4, <2>5, BloomHasWrites
  <2>6. CASE r \notin Writes(t)
    <3>1. root'.idx[r] = root.idx[r]
      BY <2>4, <2>6 DEF ApplyIdx
    <3>2. ~Unchanged(s, root, r)
      BY <3>1 DEF Unchanged
    <3>3. s.version < root.version
      <4>1. s # root
        BY <3>2 DEF Unchanged
      <4>2. s.version \in Nat /\ root.version \in Nat
        BY <2>3 DEF TypeOK, Snapshot
      <4> QED BY <2>3, <4>1, <4>2 DEF NoLater
    <3>4. root.covered /\ root'.since = root.since /\ root.bloom \subseteq root'.bloom
      BY <1>7, <2>3, <3>3, PublishedRoot DEF NoLater, TypeOK, Snapshot
    <3> QED BY <2>2, <3>2, <3>4 DEF BloomSound, MightContain
  <2> QED BY <2>5, <2>6
<1> QED BY <1>1, <1>2, <1>3, <1>4, <1>5, <1>6, <1>7, StepCases

-----------------------------------------------------------------------------
\* Local operations

\* Only create_object makes operations that skip the check.
LEMMA UniqueStep ==
  ASSUME TypeOK, UniqueIsCreation, [Next]_vars
  PROVE  UniqueIsCreation'
<1>1. CASE UNCHANGED ops
  BY <1>1 DEF UniqueIsCreation
<1>2. ASSUME NEW t \in Thread, NEW r \in Row, NEW op, SetOp(t, r, op),
             op.unique => r \in Pool \cup Chosen
      PROVE  UniqueIsCreation'
  BY <1>2 DEF SetOp, TypeOK, UniqueIsCreation
<1>3. ASSUME NEW t \in Thread, LocalStep(t) PROVE UniqueIsCreation'
  <2> PICK r \in Row :
        \/ Insert(t, r) \/ Update(t, r) \/ Delete(t, r)
        \/ CreateNext(t, r) \/ CreateAt(t, r) \/ TrackRead(t, r)
    BY <1>3 DEF LocalStep
  <2>1. CASE Insert(t, r) \/ Update(t, r)
    <3>1. PICK g \in Bits(r) : SetOp(t, r, Written(t, r, g))
      BY <2>1 DEF Insert, Update
    <3>2. Written(t, r, g).unique => ops[t][r].unique
      BY DEF Written, OpOf
    <3> QED BY <1>2, <3>1, <3>2 DEF UniqueIsCreation
  <2>2. CASE Delete(t, r)
    <3>1. SetOp(t, r, Deleted(t, r)) /\ (Deleted(t, r).unique => ops[t][r].unique)
      BY <2>2 DEF Delete, Deleted, OpOf
    <3> QED BY <1>2, <3>1 DEF UniqueIsCreation
  <2>3. CASE CreateNext(t, r) \/ CreateAt(t, r)
    <3>1. SetOp(t, r, UniqueInsert(t)) /\ r \in Pool \cup Chosen
      BY <2>3 DEF CreateNext, CreateAt, TypeOK
    <3> QED BY <1>2, <3>1
  <2>4. CASE TrackRead(t, r)
    BY <1>1, <2>4 DEF TrackRead
  <2> QED BY <2>1, <2>2, <2>3, <2>4
<1>4. ASSUME NEW t \in Thread, Ends(t) \/ PublishWins(t) PROVE UniqueIsCreation'
  <2>1. PICK next \in {"idle", "retry"} : Finish(t, next)
    BY <1>4 DEF Ends, PublishWins
  <2> QED BY <2>1, FinishFrame DEF UniqueIsCreation, NoOps, NoOp, OpOf
<1> QED BY <1>1, <1>3, <1>4, StepCases
        DEF vars, MarkAllFullyLoaded, LoadSeed, TakeTs, PrepareAdmitted, PublishLost, RebaseOnWinner

\* Whatever a transaction does to a row, its operation keeps the facts about
\* its snapshot that the conflict check decides by.
LEMMA ProvenanceStep ==
  ASSUME TypeOK, OpsLocal, SnapshotsDated, TsFresh, OpProvenance, [Next]_vars
  PROVE  OpProvenance'
<1> DEFINE Fits(t, r, op) ==
      op.kind # "none" /\ ~op.unique =>
        /\ op.kind = "insert" => base[t].idx[r] = 0
        /\ op.kind = "update" => base[t].idx[r] # 0
        /\ op.read = IF base[t].idx[r] # 0 THEN base[t].idx[r] ELSE ts[t]
<1>0. \A t \in Thread : \A r \in Row : Fits(t, r, ops[t][r])
  BY DEF OpProvenance, Writes
<1>1. ASSUME \A t \in Thread :
               \/ Writes(t)' = {}
               \/ ops'[t] = ops[t] /\ base'[t] = base[t] /\ ts'[t] = ts[t]
      PROVE  OpProvenance'
  BY <1>1 DEF OpProvenance, Writes
<1>2. ASSUME NEW t \in Thread, NEW r \in Row, NEW op, SetOp(t, r, op), Fits(t, r, op)
      PROVE  OpProvenance'
  <2> SUFFICES ASSUME NEW u \in Thread, NEW q \in Row
               PROVE  Fits(u, q, ops[u][q])'
    BY DEF OpProvenance, Writes
  <2>1. base' = base /\ ts' = ts
    BY <1>2 DEF SetOp
  <2>2. ops'[u][q] = IF u = t /\ q = r THEN op ELSE ops[u][q]
    BY <1>2 DEF SetOp, TypeOK
  <2> QED BY <1>0, <1>2, <2>1, <2>2
<1>3. ASSUME NEW t \in Thread, LocalStep(t) PROVE OpProvenance'
  <2>0. PICK r \in Row :
        \/ Insert(t, r) \/ Update(t, r) \/ Delete(t, r)
        \/ CreateNext(t, r) \/ CreateAt(t, r) \/ TrackRead(t, r)
    BY <1>3 DEF LocalStep
  <2>1. phase[t] = "active" /\ Live(t)
    BY <1>3, LocalFrame DEF Live
  <2>2. /\ base[t].idx[r] \in Nat /\ base[t].committed \in Nat /\ ts[t] \in Nat
        /\ base[t].idx[r] <= base[t].committed /\ base[t].committed < ts[t]
        /\ ops[t][r].kind \in Kind /\ ops[t][r].read \in Nat
    BY <2>1 DEF SnapshotsDated, Dated, TsFresh, TypeOK, Snapshot, Op
  <2>3. CASE Insert(t, r) \/ Update(t, r)
    <3>1. PICK g \in Bits(r) : SetOp(t, r, Written(t, r, g))
      BY <2>3 DEF Insert, Update
    <3>2. Fits(t, r, Written(t, r, g))
      BY <1>0, <2>2 DEF Written, OpOf, RecreatesExisting, Kind
    <3> QED BY <1>2, <3>1, <3>2
  <2>4. CASE Delete(t, r)
    <3>1. SetOp(t, r, Deleted(t, r)) /\ Visible(t, r)
      BY <2>4 DEF Delete
    <3>2. Fits(t, r, Deleted(t, r))
      BY <1>0, <2>2, <3>1 DEF Deleted, Visible, OpOf, Kind
    <3> QED BY <1>2, <3>1, <3>2
  <2>5. CASE CreateNext(t, r) \/ CreateAt(t, r)
    <3>1. SetOp(t, r, UniqueInsert(t)) /\ Fits(t, r, UniqueInsert(t))
      BY <2>5 DEF CreateNext, CreateAt, UniqueInsert, OpOf
    <3> QED BY <1>2, <3>1
  <2>6. CASE TrackRead(t, r)
    BY <1>1, <2>6 DEF TrackRead
  <2> QED BY <2>0, <2>3, <2>4, <2>5, <2>6
<1>4. ASSUME NEW t \in Thread, LoadSeed(t) \/ TakeTs(t) PROVE OpProvenance'
  <2>1. Writes(t) = {} /\ ops' = ops
    BY <1>4 DEF LoadSeed, TakeTs, OpsLocal, Live
  <2>2. Writes(t)' = {}
    BY <2>1 DEF Writes
  <2> QED BY <1>1, <1>4, <2>1, <2>2 DEF LoadSeed, TakeTs, TypeOK
<1>5. ASSUME NEW t \in Thread, Ends(t) \/ PublishWins(t) PROVE OpProvenance'
  <2>1. PICK next \in {"idle", "retry"} : Finish(t, next)
    BY <1>5 DEF Ends, PublishWins
  <2> QED BY <1>1, <2>1, FinishFrame
<1> QED BY <1>1, <1>3, <1>4, <1>5, StepCases
        DEF vars, MarkAllFullyLoaded, PrepareAdmitted, PublishLost, RebaseOnWinner

\* The sequence hands an object number to one transaction, and no other can
\* name the object before that transaction has committed.
LEMMA PoolStep ==
  ASSUME TypeOK, HeldNoLater, PoolExclusive, [Next]_vars
  PROVE  PoolExclusive'
<1> USE RowAssumption
<1>1. ASSUME ops' = ops, fresh' = fresh, root'.idx = root.idx,
             \A t \in Thread : base'[t] \in {base[t], root}
      PROVE  PoolExclusive'
  BY <1>1 DEF PoolExclusive, Writes
<1>2. ASSUME NEW t \in Thread, NEW r \in Row, NEW op, SetOp(t, r, op), fresh' = fresh,
             op.unique => ops[t][r].unique \/ r \notin Pool,
             r \in Pool => Visible(t, r)
      PROVE  PoolExclusive'
  <2>1. UNCHANGED <<root, base>> /\ \A u \in Thread : \A q \in Row :
          ops'[u][q] = IF u = t /\ q = r THEN op ELSE ops[u][q]
    BY <1>2 DEF SetOp, TypeOK
  <2>2. ASSUME NEW q \in Pool
        PROVE  /\ q \in fresh \/ (\E u \in Thread : ops'[u][q].unique) =>
                    root.idx[q] = 0 /\ \A u \in Thread : base[u].idx[q] = 0
               /\ q \in fresh => \A u \in Thread : ops'[u][q].kind = "none"
               /\ \A u \in Thread : ops'[u][q].unique =>
                    q \notin fresh /\ \A w \in Thread \ {u} : ops'[w][q].kind = "none"
    <3>1. CASE q # r
      BY <2>1, <3>1 DEF PoolExclusive, Writes
    <3>2. CASE q = r
      <4>1. /\ \A u \in Thread : ops'[u][q].unique => ops[u][q].unique
            /\ \A u \in Thread \ {t} : ops'[u][q] = ops[u][q]
            /\ ops[t][q].kind # "none" \/ base[t].idx[q] # 0
        BY <1>2, <2>1, <3>2 DEF Visible
      <4>2. q \notin fresh
        BY <4>1 DEF PoolExclusive, Writes
      <4>3. \A u \in Thread : ops[u][q].unique => u = t
        BY <4>1 DEF PoolExclusive, Writes
      <4> QED BY <4>1, <4>2, <4>3 DEF PoolExclusive, Writes
    <3> QED BY <3>1, <3>2
  <2> QED BY <1>2, <2>1, <2>2 DEF PoolExclusive, Writes
<1>3. ASSUME NEW t \in Thread, NEW r \in Row, CreateNext(t, r) PROVE PoolExclusive'
  <2>1. /\ UNCHANGED <<root, base>> /\ r \in fresh /\ fresh' = fresh \ {r}
        /\ \A u \in Thread : \A q \in Row :
             ops'[u][q] = IF u = t /\ q = r THEN UniqueInsert(t) ELSE ops[u][q]
    BY <1>3 DEF CreateNext, SetOp, TypeOK
  <2>2. ASSUME NEW q \in Pool
        PROVE  /\ q \in fresh' \/ (\E u \in Thread : ops'[u][q].unique) =>
                    root.idx[q] = 0 /\ \A u \in Thread : base[u].idx[q] = 0
               /\ q \in fresh' => \A u \in Thread : ops'[u][q].kind = "none"
               /\ \A u \in Thread : ops'[u][q].unique =>
                    q \notin fresh' /\ \A w \in Thread \ {u} : ops'[w][q].kind = "none"
    BY <2>1 DEF PoolExclusive, Writes
  <2> QED BY <2>1, <2>2 DEF PoolExclusive, Writes
<1>4. ASSUME NEW t \in Thread, LocalStep(t) PROVE PoolExclusive'
  <2>0. PICK r \in Row :
        \/ Insert(t, r) \/ Update(t, r) \/ Delete(t, r)
        \/ CreateNext(t, r) \/ CreateAt(t, r) \/ TrackRead(t, r)
    BY <1>4 DEF LocalStep
  <2>1. CASE Insert(t, r) \/ Update(t, r)
    <3>1. PICK g \in Bits(r) : SetOp(t, r, Written(t, r, g))
      BY <2>1 DEF Insert, Update
    <3>2. /\ Written(t, r, g).unique => ops[t][r].unique
          /\ r \in Pool => Visible(t, r)
          /\ fresh' = fresh
      BY <2>1 DEF Insert, Update, Written, OpOf
    <3> QED BY <1>2, <3>1, <3>2
  <2>2. CASE Delete(t, r)
    <3>1. /\ SetOp(t, r, Deleted(t, r)) /\ Visible(t, r) /\ fresh' = fresh
          /\ Deleted(t, r).unique => ops[t][r].unique
      BY <2>2 DEF Delete, Deleted, OpOf
    <3> QED BY <1>2, <3>1
  <2>3. CASE CreateAt(t, r)
    <3>1. SetOp(t, r, UniqueInsert(t)) /\ r \notin Pool /\ fresh' = fresh
      BY <2>3 DEF CreateAt
    <3> QED BY <1>2, <3>1
  <2>4. CASE TrackRead(t, r)
    BY <1>1, <2>4 DEF TrackRead
  <2> QED BY <2>0, <1>3, <2>1, <2>2, <2>3, <2>4
<1>5. ASSUME NEW t \in Thread, Ends(t) \/ PublishWins(t) PROVE PoolExclusive'
  <2>1. PICK next \in {"idle", "retry"} : Finish(t, next)
    BY <1>5 DEF Ends, PublishWins
  <2>2. /\ fresh' = fresh /\ base'[t] = EmptySnapshot /\ ops'[t] = NoOps
        /\ \A u \in Thread \ {t} : ops'[u] = ops[u] /\ base'[u] = base[u]
    BY <1>5, <2>1, FinishFrame DEF Ends, PublishWins
  <2>3. \A q \in Row : /\ EmptySnapshot.idx[q] = 0
                       /\ NoOps[q].kind = "none" /\ ~NoOps[q].unique
    BY DEF EmptySnapshot, SeedSnapshot, NoOps, NoOp, OpOf
  <2>4. \A q \in Row : q \notin Writes(t) => root'.idx[q] = root.idx[q]
    <3>1. CASE Ends(t)
      BY <3>1 DEF Ends
    <3>2. CASE PublishWins(t)
      <4>1. root'.idx = ApplyIdx(t, root)
        BY <3>2, PublishedRoot
      <4> QED BY <4>1 DEF ApplyIdx
    <3> QED BY <1>5, <3>1, <3>2
  <2>5. ASSUME NEW q \in Pool
        PROVE  /\ q \in fresh \/ (\E u \in Thread : ops'[u][q].unique) =>
                    root'.idx[q] = 0 /\ \A u \in Thread : base'[u].idx[q] = 0
               /\ q \in fresh => \A u \in Thread : ops'[u][q].kind = "none"
               /\ \A u \in Thread : ops'[u][q].unique =>
                    q \notin fresh /\ \A w \in Thread \ {u} : ops'[w][q].kind = "none"
    <3>1. q \in fresh => q \notin Writes(t)
      BY DEF PoolExclusive
    <3>2. \A u \in Thread : ops'[u][q].unique => u # t /\ ops[u][q].unique /\ q \notin Writes(t)
      BY <2>2, <2>3 DEF PoolExclusive
    <3>3. q \in fresh \/ (\E u \in Thread : ops'[u][q].unique) =>
            root'.idx[q] = 0 /\ \A u \in Thread : base'[u].idx[q] = 0
      BY <2>2, <2>3, <2>4, <3>1, <3>2 DEF PoolExclusive
    <3>4. q \in fresh => \A u \in Thread : ops'[u][q].kind = "none"
      BY <2>2, <2>3 DEF PoolExclusive, Writes
    <3>5. \A u \in Thread : ops'[u][q].unique =>
            q \notin fresh /\ \A w \in Thread \ {u} : ops'[w][q].kind = "none"
      BY <2>2, <2>3, <3>2 DEF PoolExclusive, Writes
    <3> QED BY <3>3, <3>4, <3>5
  <2> QED BY <2>2, <2>5 DEF PoolExclusive, Writes
<1>6. ASSUME NEW t \in Thread,
             LoadSeed(t) \/ TakeTs(t) \/ PrepareAdmitted(t) \/ PublishLost(t) \/ RebaseOnWinner(t)
      PROVE  PoolExclusive'
  BY <1>1, <1>6 DEF LoadSeed, TakeTs, PrepareAdmitted, PublishLost, RebaseOnWinner, TypeOK
<1>7. CASE UNCHANGED vars \/ MarkAllFullyLoaded
  <2>1. root'.idx = root.idx
    BY <1>7 DEF vars, MarkAllFullyLoaded, TypeOK, Snapshot
  <2> QED BY <1>1, <1>7, <2>1 DEF vars, MarkAllFullyLoaded
<1> QED BY <1>4, <1>5, <1>6, <1>7, StepCases

-----------------------------------------------------------------------------
\* What the checks establish

\* The exact check: a row it accepts is one the winners left as the
\* transaction found it, unless the row may be clobbered or was created at an
\* explicit number.
LEMMA CheckRowSound ==
  ASSUME PipelineInv, NEW t \in Thread, Live(t), NEW r \in Writes(t) \ Chosen,
         CheckRow(t, r), ~CanClobber(t, r)
  PROVE  Unchanged(base[t], root, r)
<1> DEFINE op == ops[t][r]
<1>0. r \in Row /\ op.kind # "none" /\ op \in Op
  BY DEF Writes, PipelineInv, TypeOK
<1>1. CASE op.unique
  <2>1. r \in Pool
    BY <1>0, <1>1 DEF PipelineInv, UniqueIsCreation
  <2> QED BY <1>1, <2>1 DEF PipelineInv, PoolExclusive, Unchanged
<1>2. CASE ~op.unique
  <2>1. /\ op.kind = "insert" => base[t].idx[r] = 0
        /\ op.kind = "update" => base[t].idx[r] # 0
        /\ op.read = IF base[t].idx[r] # 0 THEN base[t].idx[r] ELSE ts[t]
    BY <1>2 DEF PipelineInv, OpProvenance
  <2>2. root.idx[r] # ts[t] /\ base[t].idx[r] # ts[t]
    BY <1>0 DEF PipelineInv, TsFresh, SnapshotsDated, Dated, TypeOK, Snapshot
  <2>3. IF root.idx[r] # 0 THEN op.kind # "insert" /\ root.idx[r] = op.read
                           ELSE op.kind # "update" /\ (op.kind = "delete" => op.read = ts[t])
    BY <1>2 DEF CheckRow
  <2> QED BY <1>0, <2>1, <2>2, <2>3 DEF Unchanged, Op, Kind
<1> QED BY <1>1, <1>2

\* Whichever way prepare accepts a commit, fast path, filter or exact check,
\* the root is one the transaction may be applied to.
LEMMA PrepareSound ==
  ASSUME PipelineInv, NEW t \in Thread, Live(t), PrepareSucceeds(t)
  PROVE  /\ \A r \in Writes(t) \ Chosen : CanClobber(t, r) \/ Unchanged(base[t], root, r)
         /\ CheckPropertyPolicies(t, root)
<1>0. Open(t) /\ NoLater(base[t]) /\ base[t] \in Held(t)
  BY DEF Live, Open, PipelineInv, HeldNoLater, Held
<1>1. CASE base[t].version = root.version
  <2>1. base[t] = root
    BY <1>0, <1>1 DEF NoLater
  <2> QED BY <2>1 DEF Unchanged, CheckPropertyPolicies
<1>2. CASE base[t].version # root.version
  <2>1. CheckPropertyPolicies(t, root)
    BY <1>2 DEF PrepareSucceeds
  <2>2. CASE CheckAll(t)
    BY <2>1, <2>2, CheckRowSound DEF CheckAll
  <2>3. CASE /\ base[t].version >= root.since /\ root.covered
             /\ ~MightIntersect(Bloom(t), root.bloom)
    <3>1. ASSUME NEW r \in Writes(t) PROVE Unchanged(base[t], root, r)
      <4>1. ~MightContain(root.bloom, r) /\ r \in Row
        BY <2>3, BloomHasWrites DEF MightIntersect, MightContain
      <4> QED BY <1>0, <2>3, <4>1 DEF PipelineInv, BloomSound
    <3> QED BY <2>1, <3>1
  <2> QED BY <1>2, <2>2, <2>3 DEF PrepareSucceeds, SkipConflictCheck
<1> QED BY <1>1, <1>2

\* A rebase accepts a winner only if nothing the commit relies on changed
\* since its snapshot.
LEMMA RebaseSound ==
  ASSUME PipelineInv, NEW t \in Thread, Committing(t), RebaseSucceeds(t)
  PROVE  /\ \A r \in Writes(t) \ Chosen : CanClobber(t, r) \/ Unchanged(base[t], root, r)
         /\ CheckPropertyPolicies(t, root)
<1>0. checked[t] \in Held(t)
  BY DEF Held
<1>1. CheckPropertyPolicies(t, root)
  BY DEF RebaseSucceeds
<1>2. ASSUME NEW r \in Writes(t)
      PROVE  CanClobber(t, r) \/ Unchanged(checked[t], root, r)
  <2>1. r \in Row
    BY DEF Writes
  <2> QED BY <1>0, <2>1 DEF RebaseSucceeds, PipelineInv, BloomSound
<1>3. \A r \in Writes(t) \ Chosen : CanClobber(t, r) \/ Unchanged(base[t], checked[t], r)
  BY DEF PipelineInv, CheckedSound
<1> QED BY <1>1, <1>2, <1>3 DEF Unchanged

\* What was established about the checked root stays true until the commit
\* is published or given up.
LEMMA CheckedStep ==
  ASSUME PipelineInv, [Next]_vars
  PROVE  CheckedSound'
<1> USE DEF PipelineInv
<1> DEFINE Sound(t) ==
      /\ \A r \in Writes(t) \ Chosen : CanClobber(t, r) \/ Unchanged(base[t], checked[t], r)
      /\ CheckPropertyPolicies(t, checked[t])
<1>0. ASSUME NEW u \in Thread, ops'[u] = ops[u], base'[u] = base[u], reads'[u] = reads[u],
             checked'[u] = checked[u], Sound(u)
      PROVE  Sound(u)'
  BY <1>0, ThreadFrame DEF Unchanged
<1>1. ASSUME \A u \in Thread : Committing(u)' =>
               /\ Committing(u) /\ ops'[u] = ops[u] /\ base'[u] = base[u]
               /\ reads'[u] = reads[u] /\ checked'[u] = checked[u]
      PROVE  CheckedSound'
  BY <1>0, <1>1 DEF CheckedSound
<1>2. CASE UNCHANGED vars \/ MarkAllFullyLoaded
  BY <1>1, <1>2 DEF vars, MarkAllFullyLoaded, Committing
<1>3. ASSUME NEW t \in Thread, LocalStep(t) PROVE CheckedSound'
  <2>1. \A u \in Thread : Committing(u)' =>
          /\ Committing(u) /\ ops'[u] = ops[u] /\ base'[u] = base[u]
          /\ reads'[u] = reads[u] /\ checked'[u] = checked[u]
    BY <1>3, LocalFrame DEF Committing
  <2> QED BY <1>1, <2>1
<1>4. ASSUME NEW t \in Thread, LoadSeed(t) \/ TakeTs(t) \/ PublishLost(t)
      PROVE  CheckedSound'
  <2>1. \A u \in Thread : Committing(u)' =>
          /\ Committing(u) /\ ops'[u] = ops[u] /\ base'[u] = base[u]
          /\ reads'[u] = reads[u] /\ checked'[u] = checked[u]
    BY <1>4 DEF LoadSeed, TakeTs, PublishLost, Committing, TypeOK
  <2> QED BY <1>1, <2>1
<1>5. ASSUME NEW t \in Thread, Ends(t) \/ PublishWins(t) PROVE CheckedSound'
  <2>1. PICK next \in {"idle", "retry"} : Finish(t, next)
    BY <1>5 DEF Ends, PublishWins
  <2>2. \A u \in Thread : Committing(u)' =>
          /\ Committing(u) /\ ops'[u] = ops[u] /\ base'[u] = base[u]
          /\ reads'[u] = reads[u] /\ checked'[u] = checked[u]
    BY <2>1, FinishFrame DEF Committing
  <2> QED BY <1>1, <2>2
<1>6. ASSUME NEW t \in Thread, PrepareAdmitted(t) \/ RebaseOnWinner(t) PROVE CheckedSound'
  <2>1. /\ UNCHANGED <<ops, base, reads>> /\ checked'[t] = root
        /\ \A u \in Thread \ {t} : checked'[u] = checked[u] /\ phase'[u] = phase[u]
    BY <1>6 DEF PrepareAdmitted, RebaseOnWinner, TypeOK
  <2>2. /\ \A r \in Writes(t) \ Chosen : CanClobber(t, r) \/ Unchanged(base[t], root, r)
        /\ CheckPropertyPolicies(t, root)
    BY <1>6, PrepareSound, RebaseSound DEF PrepareAdmitted, RebaseOnWinner, Live, Committing
  <2>3. Sound(t)'
    <3>1. Writes(t)' = Writes(t) /\ \A r : CanClobber(t, r)' <=> CanClobber(t, r)
      BY <2>1, ThreadFrame
    <3>2. CheckPropertyPolicies(t, checked[t])'
      BY <2>1, <2>2, <3>1 DEF CheckPropertyPolicies, PolicyKeys, Unchanged
    <3> QED BY <2>1, <2>2, <3>1, <3>2 DEF Unchanged
  <2>4. ASSUME NEW u \in Thread \ {t}, Committing(u)' PROVE Sound(u)'
    <3>1. Committing(u) /\ Sound(u)
      BY <2>1, <2>4 DEF Committing, CheckedSound
    <3> QED BY <1>0, <2>1, <3>1
  <2> QED BY <2>3, <2>4 DEF CheckedSound
<1> QED BY <1>2, <1>3, <1>4, <1>5, <1>6, StepCases

-----------------------------------------------------------------------------
\* The invariant, and what it means for a commit

\* A reopened database satisfies the invariant.
LEMMA InvInit == Init => PipelineInv
<1> SUFFICES ASSUME Init PROVE PipelineInv
  OBVIOUS
<1> USE RowAssumption, BoundAssumption
<1>1. TypeOK /\ LostBelowBound
  BY TypeInit
<1>2. /\ \A t \in Thread : /\ ~Open(t) /\ ~Live(t) /\ ~Committing(t)
                           /\ Writes(t) = {} /\ base[t] = EmptySnapshot
                           /\ \A r \in Row : ~ops[t][r].unique
      /\ \A r \in Row : EmptySnapshot.idx[r] = 0
      /\ EmptySnapshot.committed = 0
  BY DEF Init, Open, Live, Committing, Writes, NoOps, NoOp, OpOf, EmptySnapshot, SeedSnapshot
<1>3. /\ root.committed \in Nat /\ monotonic = root.committed + 1
      /\ \A r \in Row : root.idx[r] <= root.committed
      /\ \A r \in Pool : root.idx[r] = 0
  BY DEF Init, SeedSnapshot
<1>4. SnapshotsDated
  BY <1>2, <1>3 DEF SnapshotsDated, Dated
<1>5. OpsLocal /\ TsFresh /\ HeldNoLater /\ CheckedSound
  BY <1>2 DEF OpsLocal, TsFresh, HeldNoLater, CheckedSound
<1>6. PoolExclusive /\ UniqueIsCreation
  BY <1>2, <1>3 DEF PoolExclusive, UniqueIsCreation
<1>7. BloomSound /\ OpProvenance
  BY <1>2 DEF BloomSound, OpProvenance, Held
<1> QED BY <1>1, <1>4, <1>5, <1>6, <1>7 DEF PipelineInv

\* Every step keeps the invariant.
LEMMA InvStep == PipelineInv /\ [Next]_vars => PipelineInv'
<1> SUFFICES ASSUME PipelineInv, [Next]_vars PROVE PipelineInv'
  OBVIOUS
<1>1. CheckedSound'
  BY CheckedStep
<1>2. (TypeOK /\ LostBelowBound /\ OpsLocal /\ SnapshotsDated /\ TsFresh)'
  BY TypeStep, OpsLocalStep, TimeStep DEF PipelineInv
<1>3. (HeldNoLater /\ PoolExclusive /\ UniqueIsCreation /\ BloomSound /\ OpProvenance)'
  BY HeldStep, PoolStep, UniqueStep, BloomStep, ProvenanceStep DEF PipelineInv
<1> QED BY <1>1, <1>2, <1>3 DEF PipelineInv

\* The invariant of the commit pipeline, for every number of threads and rows.
THEOREM Invariance == Spec => []PipelineInv
BY InvInit, InvStep, PTL DEF Spec

\* A miss in the cumulative filter may stand in for the exact conflict check,
\* at prepare and at rebase, across merges, resets and dropped filters.
THEOREM BloomFilterSound == Spec => []BloomSound
<1>1. PipelineInv => BloomSound
  BY DEF PipelineInv
<1> QED BY <1>1, Invariance, PTL

\* A transaction's local operations always tell what its snapshot held.
THEOREM ProvenanceSound == Spec => []OpProvenance
<1>1. PipelineInv => OpProvenance
  BY DEF PipelineInv
<1> QED BY <1>1, Invariance, PTL

\* Only the thread whose CAS succeeded publishes, and it applies its writes
\* to exactly the root it was checked against.
LEMMA Publication ==
  ASSUME PipelineInv, [Next]_vars, NEW t \in Thread, Publishes(t)
  PROVE  PublishWins(t) /\ checked[t] = root /\ CheckedSound
<1>1. CASE UNCHANGED vars \/ MarkAllFullyLoaded
  BY <1>1 DEF vars, MarkAllFullyLoaded, Publishes, PipelineInv, TypeOK, Snapshot
<1>2. ASSUME NEW u \in Thread,
             LoadSeed(u) \/ TakeTs(u) \/ Ends(u) \/ PrepareAdmitted(u)
             \/ PublishLost(u) \/ RebaseOnWinner(u) \/ LocalStep(u)
      PROVE  FALSE
  <2>1. root' = root
    BY <1>2, LocalFrame DEF PipelineInv, LoadSeed, TakeTs, Ends, PrepareAdmitted, PublishLost, RebaseOnWinner
  <2> QED BY <2>1 DEF Publishes
<1>3. ASSUME NEW u \in Thread, PublishWins(u) PROVE u = t
  BY <1>3, FinishFrame DEF PublishWins, Publishes, Open, Committing, PipelineInv
<1>4. PublishWins(t)
  BY <1>1, <1>2, <1>3, StepCases
<1> QED BY <1>4, PublishedRoot DEF PipelineInv

\* No update is lost: a published commit replaces, of each row it writes,
\* exactly the version its snapshot held, unless the row may be clobbered.
THEOREM NoUpdateLost == Spec => NoLostUpdate
<1>1. ASSUME PipelineInv, [Next]_vars
      PROVE  \A t \in Thread : Publishes(t) =>
               \A r \in Writes(t) \ Chosen : CanClobber(t, r) \/ Unchanged(base[t], root, r)
  BY <1>1, Publication DEF CheckedSound, Publishes
<1> QED BY <1>1, Invariance, PTL DEF Spec, NoLostUpdate

\* Rows that an ownership change read are unchanged when it is published.
THEOREM ReadsStayCurrent == Spec => TrackedReadsCurrent
<1>1. ASSUME PipelineInv, [Next]_vars
      PROVE  \A t \in Thread : Publishes(t) => \A r \in reads[t] : Unchanged(base[t], root, r)
  BY <1>1, Publication DEF CheckedSound, Publishes, CheckPropertyPolicies
<1> QED BY <1>1, Invariance, PTL DEF Spec, TrackedReadsCurrent

\* Clobbering happens under permissions and a definition still in force.
THEOREM ClobberUnderCurrentPolicy == Spec => ClobberPolicyCurrent
<1>1. ASSUME PipelineInv, [Next]_vars, NEW t \in Thread, Publishes(t),
             NEW r \in Writes(t) \cap PropVal, ~Unchanged(base[t], root, r)
      PROVE  \A p \in {PolicyOf[r]} \cup Lifetime[r] : Unchanged(base[t], root, p)
  <2>1. checked[t] = root /\ CheckedSound /\ Committing(t)
    BY <1>1, Publication DEF Publishes
  <2>2. CanClobber(t, r) /\ r \in PolicyKeys(t)
    BY <1>1, <2>1, RowAssumption DEF CheckedSound, PolicyKeys
  <2> QED BY <2>1, <2>2 DEF CheckedSound, CheckPropertyPolicies
<1>2. ASSUME PipelineInv, [Next]_vars
      PROVE  \A t \in Thread : Publishes(t) =>
               \A r \in Writes(t) \cap PropVal : ~Unchanged(base[t], root, r) =>
                 \A p \in {PolicyOf[r]} \cup Lifetime[r] : Unchanged(base[t], root, p)
  BY <1>1, <1>2
<1> QED BY <1>2, Invariance, PTL DEF Spec, ClobberPolicyCurrent

\* Bloom false positives and overlapping rebases cost work, never a retry: a
\* reported conflict means a row the transaction wrote or relied on changed.
THEOREM ConflictsAreReal ==
  ASSUME Chosen = {}
  PROVE  Spec => ConflictIsReal
<1> DEFINE Relied(t) == Writes(t) \cup reads[t] \cup
                          UNION {{PolicyOf[v]} \cup Lifetime[v] : v \in PolicyKeys(t)}
<1>1. ASSUME PipelineInv, NEW t \in Thread, ~CheckPropertyPolicies(t, root)
      PROVE  \E r \in Relied(t) : ~Unchanged(base[t], root, r)
  BY <1>1 DEF CheckPropertyPolicies
<1>2. ASSUME PipelineInv, NEW t \in Thread, Live(t), NEW r \in Writes(t), ~CheckRow(t, r)
      PROVE  ~Unchanged(base[t], root, r)
  <2> DEFINE op == ops[t][r]
  <2>1. r \in Row /\ op.kind \in {"insert", "update", "delete"} /\ ~op.unique
    BY <1>2 DEF Writes, PipelineInv, TypeOK, Op, Kind, CheckRow
  <2>2. /\ op.kind = "insert" => base[t].idx[r] = 0
        /\ op.kind = "update" => base[t].idx[r] # 0
        /\ op.read = IF base[t].idx[r] # 0 THEN base[t].idx[r] ELSE ts[t]
    BY <1>2, <2>1 DEF PipelineInv, OpProvenance
  <2>3. /\ base[t].idx[r] \in Nat /\ ts[t] \in Nat /\ base[t].committed \in Nat
        /\ base[t].idx[r] <= base[t].committed /\ base[t].committed < ts[t]
    BY <1>2, <2>1, BoundAssumption DEF PipelineInv, SnapshotsDated, Dated, TsFresh, TypeOK, Snapshot
  <2>4. ~(IF root.idx[r] # 0
            THEN op.kind # "insert" /\ root.idx[r] = op.read /\ op.read <= ts[t]
            ELSE op.kind # "update" /\ (op.kind = "delete" => op.read = ts[t]))
    BY <1>2, <2>1 DEF CheckRow
  <2> QED BY <2>1, <2>2, <2>3, <2>4 DEF Unchanged
<1>3. ASSUME PipelineInv, NEW t \in Thread, PrepareConflict(t)
      PROVE  \E r \in Relied(t) : ~Unchanged(base[t], root, r)
  <2>1. CheckPropertyPolicies(t, root) => \E r \in Writes(t) : ~CheckRow(t, r)
    BY <1>3 DEF PrepareConflict, PrepareSucceeds, CheckAll
  <2> QED BY <1>1, <1>2, <1>3, <2>1 DEF PrepareConflict, Live
<1>4. ASSUME PipelineInv, NEW t \in Thread, RebaseConflict(t)
      PROVE  \E r \in Relied(t) : ~Unchanged(base[t], root, r)
  <2>1. CheckPropertyPolicies(t, root) =>
          \E r \in Writes(t) : ~CanClobber(t, r) /\ ~Unchanged(checked[t], root, r)
    BY <1>4 DEF RebaseConflict, RebaseSucceeds
  <2>2. \A r \in Writes(t) : CanClobber(t, r) \/ Unchanged(base[t], checked[t], r)
    BY <1>4 DEF RebaseConflict, PipelineInv, CheckedSound, Committing
  <2> QED BY <1>1, <1>4, <2>1, <2>2 DEF Unchanged
<1>5. ASSUME PipelineInv, [Next]_vars, NEW t \in Thread,
             phase[t] \in {"active", "lost"}, phase'[t] = "retry"
      PROVE  \E r \in Relied(t) : ~Unchanged(base[t], root, r)
  <2>1. PrepareConflict(t) \/ RebaseConflict(t)
    <3>1. ASSUME NEW u \in Thread, u # t, NEW next \in {"idle", "retry"}, Finish(u, next)
          PROVE  FALSE
      BY <1>5, <3>1, FinishFrame DEF PipelineInv
    <3>2. ASSUME NEW u \in Thread, LocalStep(u) PROVE FALSE
      BY <1>5, <3>2, LocalFrame DEF PipelineInv
    <3>3. ASSUME NEW u \in Thread,
                 LoadSeed(u) \/ TakeTs(u) \/ PrepareAdmitted(u) \/ PublishLost(u) \/ RebaseOnWinner(u)
          PROVE  FALSE
      BY <1>5, <3>3 DEF LoadSeed, TakeTs, PrepareAdmitted, PublishLost, RebaseOnWinner, PipelineInv, TypeOK
    <3>4. ASSUME UNCHANGED vars \/ MarkAllFullyLoaded PROVE FALSE
      BY <1>5, <3>4 DEF vars, MarkAllFullyLoaded
    <3>5. ASSUME Rollback(t) \/ CommitReadOnly(t) \/ PrepareOverloaded(t)
                 \/ PublishWins(t) \/ PublishExhausted(t)
          PROVE  FALSE
      BY <1>5, <3>5 DEF Rollback, CommitReadOnly, PrepareOverloaded, PublishWins,
                        PublishExhausted, Finish, PipelineInv, TypeOK
    <3>6. ASSUME NEW u \in Thread, u # t,
                 Rollback(u) \/ CommitReadOnly(u) \/ PrepareOverloaded(u) \/ PublishWins(u)
                 \/ PublishExhausted(u) \/ PrepareConflict(u) \/ RebaseConflict(u)
          PROVE  FALSE
      BY <3>1, <3>6 DEF Rollback, CommitReadOnly, PrepareOverloaded, PublishWins,
                        PublishExhausted, PrepareConflict, RebaseConflict
    <3> QED BY <1>5, <3>2, <3>3, <3>4, <3>5, <3>6 DEF Next, CommitStep
  <2> QED BY <1>3, <1>4, <1>5, <2>1
<1>6. ASSUME PipelineInv, [Next]_vars
      PROVE  \A t \in Thread : phase[t] \in {"active", "lost"} /\ phase'[t] = "retry" =>
               \E r \in Relied(t) : ~Unchanged(base[t], root, r)
  BY <1>5, <1>6
<1> QED BY <1>6, Invariance, PTL DEF Spec, ConflictIsReal

-----------------------------------------------------------------------------
\* Refinement

\* Every step is a Begin, an End, a Commit, or invisible.
LEMMA SIStep ==
  ASSUME Chosen = {}, PipelineInv, [Next]_vars
  PROVE  [SI!Next]_SI!sivars
<1> USE BoundAssumption DEF SI!sivars
<1> DEFINE open == {t \in Thread : Open(t)}
           snap == [t \in Thread |-> base[t].idx]
<1>0. TypeOK
  BY DEF PipelineInv
<1>1. CASE UNCHANGED vars
  BY <1>1 DEF vars, Open
<1>2. CASE MarkAllFullyLoaded
  <2>1. root'.idx = root.idx
    BY <1>0, <1>2 DEF MarkAllFullyLoaded, TypeOK, Snapshot
  <2> QED BY <1>2, <2>1 DEF MarkAllFullyLoaded, Open
<1>3. ASSUME NEW t \in Thread, LocalStep(t) PROVE UNCHANGED SI!sivars
  BY <1>0, <1>3, LocalFrame DEF Open
<1>4. ASSUME NEW t \in Thread, LoadSeed(t) PROVE SI!Next
  <2>1. SI!Begin(t)
    BY <1>0, <1>4 DEF SI!Begin, LoadSeed, Open, TypeOK
  <2> QED BY <2>1 DEF SI!Next
<1>5. ASSUME NEW t \in Thread,
             TakeTs(t) \/ PrepareAdmitted(t) \/ PublishLost(t) \/ RebaseOnWinner(t)
      PROVE  UNCHANGED SI!sivars
  BY <1>0, <1>5 DEF TakeTs, PrepareAdmitted, PublishLost, RebaseOnWinner, Open, TypeOK
<1>6. ASSUME NEW t \in Thread, NEW next \in {"idle", "retry"}, Live(t), Finish(t, next)
      PROVE  SI!Close(t)
  <2>1. EmptySnapshot.idx = [r \in Row |-> 0]
    BY DEF EmptySnapshot, SeedSnapshot
  <2>2. t \in open /\ open' = open \ {t}
    BY <1>0, <1>6, FinishFrame DEF Open, Live
  <2>3. snap' = [snap EXCEPT ![t] = EmptySnapshot.idx]
    BY <1>0, <1>6, FinishFrame
  <2> QED BY <2>1, <2>2, <2>3 DEF SI!Close, SI!NoSnapshot
<1>7. ASSUME NEW t \in Thread, Ends(t) PROVE SI!Next
  BY <1>6, <1>7 DEF Ends, SI!End, SI!Next
<1>8. ASSUME NEW t \in Thread, PublishWins(t) PROVE SI!Next
  <2>1. SI!Close(t) /\ Live(t) /\ Committing(t)
    BY <1>6, <1>8 DEF PublishWins, Live, Committing
  <2>2. checked[t] = root /\ root'.idx = ApplyIdx(t, root)
    BY <1>0, <1>8, PublishedRoot DEF PipelineInv
  <2> DEFINE W == Writes(t)
             D == {r \in W : ops[t][r].kind = "delete"}
  <2>3. W # {} /\ W \in SUBSET Row /\ D \in SUBSET W
    BY <2>1 DEF PipelineInv, OpsLocal, Writes
  <2>4. ts[t] \in 1..Max2(MaxTs, SeedTs) /\ \A r \in Row : root.idx[r] # ts[t]
    <3>1. ts[t] \in 0..MaxTs /\ base[t].committed \in Nat /\ base[t].committed < ts[t]
          /\ \A r \in Row : root.idx[r] # ts[t]
      BY <1>0, <2>1 DEF TypeOK, Snapshot, PipelineInv, TsFresh
    <3> QED BY <3>1 DEF Max2
  <2>5. \A r \in W : root.idx[r] = snap[t][r] \/ SI!MayClobber(t, r)
    <3> SUFFICES ASSUME NEW r \in W, root.idx[r] # base[t].idx[r]
                 PROVE  SI!MayClobber(t, r)
      OBVIOUS
    <3>1. CanClobber(t, r) /\ CheckPropertyPolicies(t, root)
      BY <2>1, <2>2 DEF PipelineInv, CheckedSound, Unchanged
    <3>2. r \in PropVal /\ r \in PolicyKeys(t)
      BY <3>1 DEF CanClobber, PolicyKeys
    <3> QED BY <3>1, <3>2 DEF CheckPropertyPolicies, Unchanged, SI!MayClobber
  <2>6. root'.idx = [r \in Row |-> IF r \in D THEN 0
                                   ELSE IF r \in W THEN ts[t] ELSE root.idx[r]]
    BY <2>2 DEF ApplyIdx
  <2> HIDE DEF W, D
  <2>7. SI!Commit(t)
    <3>1. \E E \in SUBSET W, s \in 1..Max2(MaxTs, SeedTs) :
            /\ W # {}
            /\ \A r \in W : root.idx[r] = snap[t][r] \/ SI!MayClobber(t, r)
            /\ \A r \in Row : root.idx[r] # s
            /\ root'.idx = [r \in Row |-> IF r \in E THEN 0
                                         ELSE IF r \in W THEN s ELSE root.idx[r]]
      BY <2>3, <2>4, <2>5, <2>6
    <3> QED BY <2>1, <2>3, <3>1 DEF SI!Commit
  <2> QED BY <2>7 DEF SI!Next
<1> QED BY <1>1, <1>2, <1>3, <1>4, <1>5, <1>7, <1>8, StepCases

\* The pipeline implements snapshot isolation when no object is created at
\* an explicit number.
THEOREM PipelineImplementsSI ==
  ASSUME Chosen = {}
  PROVE  Spec => ImplementsSI
<1>1. Init => SI!Init
  <2> SUFFICES ASSUME Init PROVE SI!Init
    OBVIOUS
  <2>1. root.idx \in [Row -> (1..Max2(MaxTs, SeedTs)) \cup {0}]
    BY BoundAssumption DEF Init, SeedSnapshot, Max2
  <2>2. \A t \in Thread : ~Open(t) /\ base[t].idx = [r \in Row |-> 0]
    BY DEF Init, Open, EmptySnapshot, SeedSnapshot
  <2> QED BY <2>1, <2>2 DEF SI!Init, SI!NoSnapshot
<1>2. PipelineInv /\ [Next]_vars => [SI!Next]_SI!sivars
  BY SIStep
<1> QED BY <1>1, <1>2, Invariance, PTL DEF Spec, ImplementsSI, SI!Spec

=============================================================================
