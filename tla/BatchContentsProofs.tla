------------------------ MODULE BatchContentsProofs ------------------------
(***************************************************************************)
(* What BatchContents promises, for every choice of its constants: storage *)
(* reads back as the value last stored, and, as long as one thread alone   *)
(* creates objects, no number is handed out twice.                         *)
(***************************************************************************)
EXTENDS BatchContents, SequenceTheorems, LeastNumbers, TLAPS

\* Published, with its batch still to be written
Pending(t) == tx[t].pc \in {"published", "load", "enqueue"}

\* Batches are between what is stored and what is published, and each thread that
\* has to write one has a version of its own
BatchesInPlace ==
  /\ \A v \in 1..MaxVersion : batch[v] # NoBatch => stored < v /\ v <= version
  /\ \A t \in Thread : Pending(t) =>
       /\ stored < tx[t].version /\ tx[t].version <= version
       /\ batch[tx[t].version] = NoBatch
  /\ \A t, u \in Thread : Pending(t) /\ Pending(u) /\ tx[t].version = tx[u].version => t = u

Dated(r) == r = NoRow \/ (0 <= r.at /\ r.at <= version)

\* Timestamps tell rows apart, and an operation records the row it was made over
RowsDated ==
  /\ Dated(row) /\ history[version] = row
  /\ \A t \in Thread :
       /\ Dated(tx[t].base)
       /\ tx[t].pc # "idle" /\ tx[t].base.at = row.at => tx[t].base = row
       /\ tx[t].op.kind # "none" =>
            tx[t].op.read = IF tx[t].base = NoRow THEN Own ELSE tx[t].base.at
       /\ tx[t].op.kind = "update" => tx[t].op.read # Own

\* What the operation `op', made over `base', did to the row at version v
Did(op, base, v) ==
  /\ op.kind = "none" => history[v] = history[v - 1]
  /\ op.kind = "delete" => history[v] = NoRow
  /\ op.kind \in {"insert", "update"} => history[v].at = v /\ history[v].val = op.val
  /\ op.kind = "update" /\ op.hint => base # NoRow /\ base = history[v - 1]

\* ... and what its mutation will do to the value in storage
Does(m, v) ==
  /\ m.kind = "none" => history[v] = history[v - 1]
  /\ m.kind = "delete" => history[v] = NoRow
  /\ m.kind \in {"replace", "append"} => history[v].at = v /\ history[v].val = m.val
  /\ m.kind = "append" =>
       LET old == history[v - 1].val IN
         /\ history[v - 1] # NoRow /\ old.list /\ m.val.list
         /\ Continues(old.els, m.val.els)
         /\ m.suffix = SubSeq(m.val.els, Len(old.els) + 1, Len(m.val.els))

ChangesLinked ==
  /\ \A t \in Thread : Pending(t) => Did(tx[t].op, tx[t].base, tx[t].version)
  /\ \A v \in 1..MaxVersion : batch[v] # NoBatch => Does(batch[v].mutation, v)

Sorted(s) == \A i, j \in DOMAIN s : i < j => s[i].version < s[j].version

\* The writer's chain is what is in storage
ChainKnown ==
  /\ InOrder \in Seq(Record) /\ ToSet(InOrder) = records /\ Sorted(InOrder)
  /\ chain.versions = [i \in DOMAIN InOrder |-> InOrder[i].version]
  /\ chain.bytes = IF records = {} THEN 0 ELSE Len(Appended)
  /\ \A r \in records : r.version < nextRec

ContentsInv ==
  TypeOK /\ BatchesInPlace /\ RowsDated /\ ChangesLinked /\ ChainKnown /\ StoredIsPublished

-----------------------------------------------------------------------------
\* A single thread runs transactions
OneThread == \A t, u \in scenario.threads : t = u

\* The number n is at most the sequence in storage or in a batch up to version v
Covered(n, v) ==
  \/ n <= diskSeq
  \/ \E u \in 1..v : batch[u].seq # None /\ n <= batch[u].seq

SequenceKnown ==
  /\ \A t \in Thread \ scenario.threads : tx[t] = NoTx
  /\ \A t \in Thread : Pending(t) => tx[t].version = version
  /\ diskSeq <= value
  /\ \A v \in 1..MaxVersion : batch[v].seq # None =>
       /\ diskSeq <= batch[v].seq /\ batch[v].seq <= value
       /\ \A u \in 1..v : batch[u].seq # None => batch[u].seq <= batch[v].seq

NumbersCovered ==
  /\ \A n \in diskObjs : n <= diskSeq
  /\ \A v \in 1..MaxVersion : batch[v].id # None => Covered(batch[v].id, v)
  /\ \A n \in world : n <= value
  /\ \A t \in Thread :
       /\ tx[t].id <= value
       /\ tx[t].pc = "enqueue" => ~dirty
       /\ tx[t].pc \in {"marking", "written"} /\ tx[t].id # None /\ tx[t].how = "next"
            => \A n \in world : n < tx[t].id
  /\ \/ dirty \/ Covered(value, MaxVersion)
     \/ \E t \in Thread : tx[t].pc \in {"marking", "load"}

NumberInv == OneThread => SequenceKnown /\ NumbersCovered

-----------------------------------------------------------------------------
\* Types of the constants

\* The parameters of a scenario are numbers, threads and values.
LEMMA ScenarioTypes ==
  ASSUME scenario \in Scenarios
  PROVE  /\ MaxVersion \in Nat /\ MaxNumber \in Nat /\ MaxRecord \in Nat
         /\ MAX_RECORDS \in Nat \ {0} /\ MAX_APPEND_BYTES \in Nat
         /\ scenario.threads \subseteq Thread /\ scenario.explicit \subseteq 0..MaxNumber
         /\ scenario.values \subseteq Value /\ scenario.clobber \in BOOLEAN
         /\ None \in Number /\ None \in None..MaxVersion /\ 0..MaxNumber \subseteq Number
         /\ Own \in Int
BY ContentsAssumption DEF MaxVersion, None, Number, Own

\* The empty value, row, operation, batch and chain are well-typed.
LEMMA NothingTypes ==
  ASSUME scenario \in Scenarios
  PROVE  /\ NoValue \in Value /\ NoRow \in Row /\ NoOp \in Op /\ NoMutation \in Change
         /\ NoTx \in Transaction
         /\ NoBatch \in [id : Number, seq : Number, mutation : Change]
         /\ NoChain \in [versions : Seq(Nat), bytes : Nat]
<1>1. <<>> \in Seq(DOMAIN Folded) /\ <<>> \in Seq(Nat)  OBVIOUS
<1>2. NoValue \in Value  BY <1>1 DEF NoValue, Value
<1>3. NoRow \in Row /\ NoOp \in Op  BY <1>2 DEF NoRow, Row, NoOp, Op, None
<1>4. NoMutation \in Change  BY <1>1, <1>2 DEF NoMutation, Change
<1>5. NoTx \in Transaction  BY <1>3, ScenarioTypes DEF NoTx, Transaction
<1>6. NoBatch \in [id : Number, seq : Number, mutation : Change]
  BY <1>4, ScenarioTypes DEF NoBatch
<1>7. NoChain \in [versions : Seq(Nat), bytes : Nat]  BY <1>1 DEF NoChain
<1> QED BY <1>2, <1>3, <1>4, <1>5, <1>6, <1>7

-----------------------------------------------------------------------------
\* Steps that change only the transaction of one thread, or the sequence

\* What the base and the operation of a transaction have to do with the row
TxDated(x) ==
  /\ Dated(x.base)
  /\ x.pc # "idle" /\ x.base.at = row.at => x.base = row
  /\ x.op.kind # "none" => x.op.read = IF x.base = NoRow THEN Own ELSE x.base.at
  /\ x.op.kind = "update" => x.op.read # Own

\* A step of one transaction that publishes, writes and stores nothing keeps the invariant.
LEMMA LocalStep ==
  ASSUME ContentsInv, scenario' = scenario, NEW t \in Thread, NEW x \in Transaction,
         value' \in Number, dirty' \in BOOLEAN, tx' = [tx EXCEPT ![t] = x],
         UNCHANGED <<rootVars, batch, writerVars, diskVars>>,
         TxDated(x),
         x.pc \in {"published", "load", "enqueue"} =>
           /\ Pending(t) /\ x.version = tx[t].version
           /\ x.op = tx[t].op /\ x.base = tx[t].base
  PROVE  ContentsInv'
<1>1. /\ version' = version /\ world' = world /\ row' = row /\ history' = history
      /\ batch' = batch /\ chain' = chain /\ nextRec' = nextRec
      /\ stored' = stored /\ diskSeq' = diskSeq /\ diskObjs' = diskObjs /\ records' = records
  BY DEF rootVars, writerVars, diskVars
<1>2. MaxVersion' = MaxVersion /\ Transaction' = Transaction /\ Own' = Own
  BY DEF MaxVersion, Transaction, Own
<1>3. tx \in [Thread -> Transaction]  BY DEF ContentsInv, TypeOK
<1>4. TypeOK'  BY <1>1, <1>2, <1>3 DEF ContentsInv, TypeOK
<1>5. \A u \in Thread : tx'[u] = IF u = t THEN x ELSE tx[u]  BY <1>3
<1>6. \A u \in Thread : Pending(u)' =>
        /\ Pending(u) /\ tx'[u].version = tx[u].version
        /\ tx'[u].op = tx[u].op /\ tx'[u].base = tx[u].base
  BY <1>5 DEF Pending
<1>7. BatchesInPlace'
  <2> HIDE DEF Pending
  <2> QED BY <1>1, <1>2, <1>6 DEF ContentsInv, BatchesInPlace
<1>8. RowsDated'
  BY <1>1, <1>2, <1>5 DEF ContentsInv, RowsDated, TxDated, Dated
<1>9. ChangesLinked'
  <2>1. ASSUME NEW u \in Thread, Pending(u)'
        PROVE  Did(tx[u].op, tx[u].base, tx[u].version)'
    <3>1. Did(tx[u].op, tx[u].base, tx[u].version)
      BY <1>6, <2>1 DEF ContentsInv, ChangesLinked
    <3> QED BY <1>1, <1>6, <2>1, <3>1 DEF Did
  <2>2. ASSUME NEW v \in 1..MaxVersion, batch[v] # NoBatch
        PROVE  Does(batch[v].mutation, v)'
    <3>1. Does(batch[v].mutation, v)  BY <2>2 DEF ContentsInv, ChangesLinked
    <3> QED BY <1>1, <3>1 DEF Does
  <2> QED BY <1>1, <1>2, <2>1, <2>2 DEF ChangesLinked
<1>10. InOrder' = InOrder /\ Appended' = Appended /\ Reconstructed' = Reconstructed
  BY <1>1 DEF InOrder, Appended, Reconstructed, Joined
<1>11. ChainKnown'  BY <1>1, <1>10 DEF ContentsInv, ChainKnown, Sorted
<1>12. StoredIsPublished'
  <2>1. Readable'  BY <1>1, <1>10 DEF ContentsInv, StoredIsPublished, Readable
  <2> QED BY <1>1, <1>10, <2>1 DEF ContentsInv, StoredIsPublished, Equals
<1> QED BY <1>4, <1>7, <1>8, <1>9, <1>11, <1>12 DEF ContentsInv

\* Facts about the transaction of a thread
LEMMA TxFacts ==
  ASSUME ContentsInv, NEW t \in Thread
  PROVE  /\ tx[t] \in Transaction /\ TxDated(tx[t]) /\ tx \in [Thread -> Transaction]
         /\ scenario \in Scenarios /\ Dated(NoRow)
         /\ version \in Nat /\ stored \in Nat /\ MaxVersion \in Nat
         /\ 0 <= stored /\ stored <= version /\ version <= MaxVersion
<1>1. scenario \in Scenarios  BY DEF ContentsInv, TypeOK
<1>2. MaxVersion \in Nat  BY <1>1, ScenarioTypes
<1> QED BY <1>1, <1>2 DEF ContentsInv, TypeOK, RowsDated, TxDated, Dated

\* An idle transaction is dated.
LEMMA EmptyTx ==
  ASSUME ContentsInv, NEW t \in Thread
  PROVE  TxDated(NoTx) /\ NoTx \in Transaction /\ NoTx.pc = "idle"
BY TxFacts, NothingTypes DEF TxDated, NoTx, NoOp

\* Beginning a transaction keeps the invariant: its base is the published row.
LEMMA BeginStep ==
  ASSUME ContentsInv, scenario' = scenario, NEW t \in scenario.threads, Begin(t)
  PROVE  ContentsInv'
<1> DEFINE x == [NoTx EXCEPT !.pc = "begun", !.seen = world, !.base = row]
<1>1. t \in Thread /\ value' = value /\ dirty' = dirty
  BY ScenarioTypes DEF ContentsInv, TypeOK, Begin, sequenceVars
<1>2. x \in Transaction
  BY <1>1, EmptyTx DEF ContentsInv, TypeOK, Transaction
<1>3. TxDated(x)  BY DEF ContentsInv, RowsDated, TxDated, NoTx, NoOp
<1>4. x.pc = "begun"  BY DEF NoTx
<1>5. value' \in Number /\ dirty' \in BOOLEAN  BY <1>1 DEF ContentsInv, TypeOK
<1>6. tx' = [tx EXCEPT ![t] = x] /\ UNCHANGED <<rootVars, batch, writerVars, diskVars>>
  BY DEF Begin
<1> HIDE DEF x
<1> QED BY <1>1, <1>2, <1>3, <1>4, <1>5, <1>6, LocalStep

\* Taking a number of the sequence keeps the invariant.
LEMMA IncrementStep ==
  ASSUME ContentsInv, scenario' = scenario, NEW t \in scenario.threads, Increment(t)
  PROVE  ContentsInv'
<1> DEFINE x == [tx[t] EXCEPT !.pc = "marking", !.id = value + 1]
<1>1. t \in Thread  BY ScenarioTypes DEF ContentsInv, TypeOK
<1>2. value' \in Number /\ dirty' \in BOOLEAN /\ value + 1 \in Number
  BY ScenarioTypes DEF ContentsInv, TypeOK, Increment, Number, None
<1>3. x \in Transaction  BY <1>1, <1>2, TxFacts DEF Transaction
<1>4. TxDated(x) /\ x.pc = "marking"
  BY <1>1, TxFacts DEF TxDated, Transaction, Increment
<1>5. tx' = [tx EXCEPT ![t] = x] /\ UNCHANGED <<rootVars, batch, writerVars, diskVars>>
  BY <1>1, TxFacts DEF Increment
<1> HIDE DEF x
<1> QED BY <1>1, <1>2, <1>3, <1>4, <1>5, LocalStep

\* Raising the sequence to an explicit number keeps the invariant.
LEMMA UpdateMaxStep ==
  ASSUME ContentsInv, scenario' = scenario, NEW t \in scenario.threads,
         NEW n \in scenario.explicit, UpdateMax(t, n)
  PROVE  ContentsInv'
<1> DEFINE x == [tx[t] EXCEPT !.pc = IF n > value THEN "marking" ELSE "written",
                              !.id = n, !.how = "explicit"]
<1>1. t \in Thread  BY ScenarioTypes DEF ContentsInv, TypeOK
<1>2. value' \in Number /\ dirty' \in BOOLEAN /\ n \in Number
  BY ScenarioTypes DEF ContentsInv, TypeOK, UpdateMax
<1>3. x \in Transaction  BY <1>1, <1>2, TxFacts DEF Transaction
<1>4. TxDated(x) /\ x.pc \in {"marking", "written"}
  BY <1>1, TxFacts DEF TxDated, Transaction, UpdateMax
<1>5. tx' = [tx EXCEPT ![t] = x] /\ UNCHANGED <<rootVars, batch, writerVars, diskVars>>
  BY <1>1, TxFacts DEF UpdateMax
<1> HIDE DEF x
<1> QED BY <1>1, <1>2, <1>3, <1>4, <1>5, LocalStep

\* Marking the sequence dirty keeps the invariant.
LEMMA MarkStep ==
  ASSUME ContentsInv, scenario' = scenario, NEW t \in scenario.threads,
         MarkDirty(t) \/ ClaimDirty(t)
  PROVE  ContentsInv'
<1> DEFINE pc == IF tx[t].pc = "marking" THEN "written" ELSE IF dirty THEN "load" ELSE "enqueue"
           x == [tx[t] EXCEPT !.pc = pc]
<1>1. t \in Thread  BY ScenarioTypes DEF ContentsInv, TypeOK
<1>2. value' \in Number /\ dirty' \in BOOLEAN
  BY DEF ContentsInv, TypeOK, MarkDirty, ClaimDirty
<1>3. x \in Transaction  BY <1>1, TxFacts DEF Transaction
<1>4. TxDated(x)
  BY <1>1, TxFacts DEF TxDated, Transaction, MarkDirty, ClaimDirty
<1>5. tx' = [tx EXCEPT ![t] = x] /\ UNCHANGED <<rootVars, batch, writerVars, diskVars>>
  BY <1>1, TxFacts DEF MarkDirty, ClaimDirty
<1>6. x.pc \in {"published", "load", "enqueue"} =>
        /\ Pending(t) /\ x.version = tx[t].version
        /\ x.op = tx[t].op /\ x.base = tx[t].base
  BY <1>1, TxFacts DEF Transaction, Pending, MarkDirty, ClaimDirty
<1> HIDE DEF x
<1> QED BY <1>1, <1>2, <1>3, <1>4, <1>5, <1>6, LocalStep

\* Abandoning a transaction keeps the invariant.
LEMMA AbandonStep ==
  ASSUME ContentsInv, scenario' = scenario, NEW t \in scenario.threads,
         Rollback(t) \/ PublishConflict(t)
  PROVE  ContentsInv'
<1>1. t \in Thread  BY ScenarioTypes DEF ContentsInv, TypeOK
<1>2. value' \in Number /\ dirty' \in BOOLEAN
  BY DEF ContentsInv, TypeOK, Rollback, PublishConflict, sequenceVars
<1>3. tx' = [tx EXCEPT ![t] = NoTx] /\ UNCHANGED <<rootVars, batch, writerVars, diskVars>>
  BY DEF Rollback, PublishConflict
<1> QED BY <1>1, <1>2, <1>3, EmptyTx, LocalStep

\* A new operation on the property row, dated by the base, keeps the invariant.
LEMMA OpStep ==
  ASSUME ContentsInv, scenario' = scenario, NEW t \in scenario.threads,
         NEW op \in Op, SetOp(t, op), op.kind # "none",
         op.read = IF tx[t].base = NoRow THEN Own ELSE tx[t].base.at,
         op.kind = "update" => op.read # Own
  PROVE  ContentsInv'
<1> DEFINE x == [tx[t] EXCEPT !.pc = "written", !.op = op]
<1>1. t \in Thread  BY ScenarioTypes DEF ContentsInv, TypeOK
<1>2. value' \in Number /\ dirty' \in BOOLEAN
  BY DEF ContentsInv, TypeOK, SetOp, sequenceVars
<1>3. x \in Transaction  BY <1>1, TxFacts DEF Transaction
<1>4. TxDated(x) /\ x.pc = "written"
  BY <1>1, TxFacts DEF TxDated, Transaction, SetOp
<1>5. tx' = [tx EXCEPT ![t] = x] /\ UNCHANGED <<rootVars, batch, writerVars, diskVars>>
  BY <1>1, TxFacts DEF SetOp
<1> HIDE DEF x
<1> QED BY <1>1, <1>2, <1>3, <1>4, <1>5, LocalStep

\* Setting the property keeps the invariant.
LEMMA SetPropertyStep ==
  ASSUME ContentsInv, scenario' = scenario, NEW t \in scenario.threads,
         NEW v \in scenario.values, NEW hint \in BOOLEAN, SetProperty(t, v, hint)
  PROVE  ContentsInv'
<1> DEFINE read == IF tx[t].op.kind # "none" THEN tx[t].op.read
                   ELSE IF tx[t].base = NoRow THEN Own ELSE tx[t].base.at
           op == [kind |-> IF read = Own THEN "insert" ELSE "update",
                  val |-> v, hint |-> hint, read |-> read]
<1>1. t \in Thread /\ v \in Value /\ Own \in Int
  BY ScenarioTypes DEF ContentsInv, TypeOK
<1>2. read = IF tx[t].base = NoRow THEN Own ELSE tx[t].base.at
  BY <1>1, TxFacts DEF TxDated
<1>3. read \in Int  BY <1>1, <1>2, TxFacts DEF Transaction, Row
<1>4. SetOp(t, op)  BY DEF SetProperty
<1> HIDE DEF read
<1>5. op \in Op /\ op.kind # "none" /\ op.read = read /\ (op.kind = "update" => op.read # Own)
  BY <1>1, <1>3 DEF Op
<1> HIDE DEF op
<1> QED BY <1>2, <1>4, <1>5, OpStep

\* Clearing the property keeps the invariant.
LEMMA ClearPropertyStep ==
  ASSUME ContentsInv, scenario' = scenario, NEW t \in scenario.threads, ClearProperty(t)
  PROVE  ContentsInv'
<1> DEFINE read == IF tx[t].op.kind = "none" THEN tx[t].base.at ELSE tx[t].op.read
           op == [NoOp EXCEPT !.kind = "delete", !.read = read]
<1>1. t \in Thread /\ Own \in Int /\ NoOp \in Op
  BY ScenarioTypes, NothingTypes DEF ContentsInv, TypeOK
<1>2. read = IF tx[t].base = NoRow THEN Own ELSE tx[t].base.at
  BY <1>1, TxFacts DEF TxDated, ClearProperty
<1>3. read \in Int  BY <1>1, <1>2, TxFacts DEF Transaction, Row
<1>4. SetOp(t, op)  BY DEF ClearProperty
<1> HIDE DEF read
<1>5. op \in Op /\ op.kind = "delete" /\ op.read = read
  BY <1>1, <1>3 DEF Op
<1> HIDE DEF op
<1> QED BY <1>2, <1>4, <1>5, OpStep

-----------------------------------------------------------------------------
\* Publication

\* A value that is checked and may be an append was made over the row it replaces
LEMMA CheckedOverRow ==
  ASSUME ContentsInv, NEW t \in Thread, tx[t].pc # "idle", ~RowConflicts(tx[t].op),
         tx[t].op.kind = "update"
  PROVE  tx[t].base # NoRow /\ tx[t].base = row
<1>1. row # NoRow /\ row.at = tx[t].op.read  BY DEF RowConflicts
<1>2. TxDated(tx[t])  BY TxFacts
<1> QED BY <1>1, <1>2 DEF TxDated

\* Publication extends the history by the row that the operation makes.
LEMMA PublishStep ==
  ASSUME ContentsInv, scenario' = scenario, NEW t \in scenario.threads, Publish(t)
  PROVE  ContentsInv'
<1> DEFINE w == version + 1
           cleared == ClearedHint(tx[t].op)
           x == [tx[t] EXCEPT !.pc = "published", !.version = w, !.op = cleared]
<1>1. /\ t \in Thread /\ tx[t] \in Transaction /\ TxDated(tx[t])
      /\ tx \in [Thread -> Transaction] /\ scenario \in Scenarios
  BY ScenarioTypes, TxFacts DEF ContentsInv, TypeOK
<1>2. /\ MaxVersion \in Nat /\ version \in Nat /\ stored \in Nat /\ stored <= version
      /\ version < MaxVersion /\ Own = MaxVersion + 1 /\ w \in 1..MaxVersion
  BY <1>1, TxFacts DEF Publish, Own
<1>3. MaxVersion' = MaxVersion /\ Transaction' = Transaction /\ Own' = Own
  BY DEF MaxVersion, Transaction, Own
<1>4. /\ value' = value /\ dirty' = dirty /\ batch' = batch /\ chain' = chain
      /\ nextRec' = nextRec /\ stored' = stored /\ diskSeq' = diskSeq
      /\ diskObjs' = diskObjs /\ records' = records
      /\ version' = w /\ history' = [history EXCEPT ![w] = row']
      /\ tx' = [tx EXCEPT ![t] = x]
  BY <1>1 DEF Publish, sequenceVars, writerVars, diskVars
<1>5. /\ cleared \in Op
      /\ cleared.kind = tx[t].op.kind /\ cleared.read = tx[t].op.read
      /\ cleared.val = tx[t].op.val
      /\ cleared.hint => tx[t].op.hint /\ ~scenario.clobber
  <2>1. tx[t].op \in Op /\ scenario.clobber \in BOOLEAN
    BY <1>1, ScenarioTypes DEF Transaction
  <2> QED BY <2>1 DEF ClearedHint, Op
<1>6. row' = CASE tx[t].op.kind = "none" -> row
               [] tx[t].op.kind = "delete" -> NoRow
               [] OTHER -> [at |-> w, val |-> tx[t].op.val]
  BY DEF Publish
<1>7. row' \in Row
  <2>1. row \in Row /\ NoRow \in Row /\ tx[t].op.val \in Value
    BY <1>1, NothingTypes DEF ContentsInv, TypeOK, Transaction, Op
  <2> QED BY <1>2, <1>6, <2>1 DEF Row
<1>8. x \in Transaction /\ x.pc = "published" /\ x.version = w /\ x.op = cleared
      /\ x.base = tx[t].base
  <2>1. w \in None..MaxVersion  BY <1>2 DEF None
  <2> HIDE DEF cleared, w
  <2> QED BY <1>1, <1>5, <2>1 DEF Transaction
<1> HIDE DEF cleared, x
<1>9. TypeOK'
  <2>1. world' \in SUBSET (0..MaxNumber)
    <3>1. tx[t].id # None => tx[t].id \in 0..MaxNumber
      BY <1>1, ScenarioTypes DEF Transaction, Number, None
    <3> QED BY <3>1 DEF ContentsInv, TypeOK, Publish
  <2>2. tx' \in [Thread -> Transaction]  BY <1>1, <1>4, <1>8
  <2>3. history' \in [0..MaxVersion -> Row]  BY <1>2, <1>4, <1>7 DEF ContentsInv, TypeOK
  <2> QED BY <1>2, <1>3, <1>4, <1>7, <2>1, <2>2, <2>3 DEF ContentsInv, TypeOK
<1>10. \A u \in Thread : tx'[u] = IF u = t THEN x ELSE tx[u]  BY <1>1, <1>4
<1>11. \A v \in 1..MaxVersion : batch[v] # NoBatch => stored < v /\ v <= version
  BY DEF ContentsInv, BatchesInPlace
<1>12. \A u \in Thread : Pending(u)' => u = t \/ Pending(u)  BY <1>10 DEF Pending
<1>13. BatchesInPlace'
  <2>1. ASSUME NEW u \in Thread, Pending(u)'
        PROVE  /\ stored < tx'[u].version /\ tx'[u].version <= w
               /\ batch[tx'[u].version] = NoBatch
    <3>1. CASE u = t  BY <1>2, <1>8, <1>10, <1>11, <3>1
    <3>2. CASE u # t
      <4>1. Pending(u) /\ tx'[u] = tx[u]  BY <1>10, <1>12, <2>1, <3>2
      <4>2. tx[u].version \in Int  BY <1>1, <1>2 DEF Transaction, None
      <4> QED BY <1>2, <4>1, <4>2 DEF ContentsInv, BatchesInPlace
    <3> QED BY <3>1, <3>2
  <2>2. ASSUME NEW u \in Thread, NEW s \in Thread, Pending(u)', Pending(s)',
               tx'[u].version = tx'[s].version
        PROVE  u = s
    <3>1. \A a \in Thread : a # t /\ Pending(a)' =>
            /\ Pending(a) /\ tx'[a].version = tx[a].version /\ tx[a].version < w
      <4> SUFFICES ASSUME NEW a \in Thread, a # t, Pending(a)'
                   PROVE  Pending(a) /\ tx'[a].version = tx[a].version /\ tx[a].version < w
        OBVIOUS
      <4>1. Pending(a) /\ tx'[a] = tx[a]  BY <1>10, <1>12
      <4>2. tx[a].version \in Int /\ tx[a].version <= version
        BY <1>1, <1>2, <4>1 DEF Transaction, None, ContentsInv, BatchesInPlace
      <4> QED BY <1>2, <4>1, <4>2
    <3>2. tx'[t].version = w  BY <1>1, <1>8, <1>10
    <3>3. CASE u = t \/ s = t
      <4>1. w \in Int /\ \A a \in Thread : tx[a].version \in Int
        BY <1>1, <1>2 DEF Transaction, None
      <4> QED BY <1>1, <2>2, <3>1, <3>2, <3>3, <4>1
    <3>4. CASE u # t /\ s # t
      BY <2>2, <3>1, <3>4 DEF ContentsInv, BatchesInPlace
    <3> QED BY <3>3, <3>4
  <2>3. \A v \in 1..MaxVersion : batch[v] # NoBatch => stored < v /\ v <= w
    BY <1>2, <1>11
  <2> HIDE DEF w, Pending
  <2> QED BY <1>3, <1>4, <2>1, <2>2, <2>3 DEF BatchesInPlace
<1>14. history'[w] = row' /\ \A v \in 0..version : history'[v] = history[v]
  BY <1>2, <1>4 DEF ContentsInv, TypeOK
<1>15. RowsDated'
  <2>1. Dated(row)  BY DEF ContentsInv, RowsDated
  <2>2. Dated(row)'
    <3>1. row' = row \/ row' = NoRow \/ row'.at = w  BY <1>6
    <3>2. row = NoRow \/ (0 <= row.at /\ row.at <= version)  BY <2>1 DEF Dated
    <3>3. row.at \in Int  BY DEF ContentsInv, TypeOK, Row
    <3>4. row' = NoRow \/ (0 <= row'.at /\ row'.at <= w)  BY <1>2, <3>1, <3>2, <3>3
    <3> QED BY <1>4, <3>4 DEF Dated
  <2>3. ASSUME NEW r \in Row, Dated(r)
        PROVE  Dated(r)' /\ (r.at = row'.at => r = row' \/ (r.at = row.at /\ row' = row))
    <3>1. \/ row' = row \/ row' = NoRow
          \/ row'.at = w
      BY <1>6
    <3>2. r = NoRow \/ (0 <= r.at /\ r.at <= version)  BY <2>3 DEF Dated
    <3>3. NoRow.at = -1 /\ r.at \in Int  BY DEF NoRow, None, Row
    <3>4. Dated(r)'  BY <1>2, <1>4, <3>2, <3>3 DEF Dated
    <3> QED BY <1>2, <3>1, <3>2, <3>3, <3>4
  <2>4. ASSUME NEW u \in Thread PROVE TxDated(tx[u])'
    <3>1. TxDated(tx[u]) /\ tx[u].base \in Row  BY TxFacts DEF Transaction
    <3>2. tx'[u].base = tx[u].base  BY <1>8, <1>10
    <3>3. tx'[u].op.kind = tx[u].op.kind /\ tx'[u].op.read = tx[u].op.read
      BY <1>5, <1>8, <1>10
    <3>4. tx'[u].pc # "idle" => tx[u].pc # "idle"  BY <1>10 DEF Publish
    <3>5. Dated(tx[u].base)  BY <3>1 DEF TxDated
    <3>6. Dated(tx[u].base)'  BY <2>3, <3>1, <3>2, <3>5 DEF Dated
    <3>7. tx'[u].pc # "idle" /\ tx'[u].base.at = row'.at => tx'[u].base = row'
      BY <2>3, <3>1, <3>2, <3>4, <3>5 DEF TxDated
    <3> QED BY <1>3, <3>1, <3>2, <3>3, <3>6, <3>7 DEF TxDated
  <2> QED BY <1>4, <1>14, <2>2, <2>4 DEF RowsDated, TxDated
<1>16. ChangesLinked'
  <2>1. ASSUME NEW v \in 1..version
        PROVE history'[v] = history[v] /\ history'[v - 1] = history[v - 1]
    BY <1>2, <1>14
  <2>2. ASSUME NEW u \in Thread, Pending(u)'
        PROVE  Did(tx[u].op, tx[u].base, tx[u].version)'
    <3>1. CASE u = t
      <4>1. tx'[u].op = cleared /\ tx'[u].base = tx[t].base /\ tx'[u].version = w
        BY <1>8, <1>10, <3>1
      <4>2. history'[w] = row' /\ history'[w - 1] = row
        BY <1>2, <1>14 DEF ContentsInv, RowsDated
      <4>3. cleared.kind = "update" /\ cleared.hint =>
              tx[t].base # NoRow /\ tx[t].base = row
        <5>1. SUFFICES ASSUME cleared.kind = "update", cleared.hint
                       PROVE  tx[t].base # NoRow /\ tx[t].base = row
          OBVIOUS
        <5>2. tx[t].pc # "idle" /\ ~RowConflicts(tx[t].op)  BY <1>5, <5>1 DEF Publish
        <5> QED BY <1>1, <1>5, <5>1, <5>2, CheckedOverRow
      <4> HIDE DEF w
      <4> QED BY <1>5, <1>6, <4>1, <4>2, <4>3 DEF Did
    <3>2. CASE u # t
      <4>1. Pending(u) /\ tx'[u] = tx[u]  BY <1>10, <1>12, <2>2, <3>2
      <4>2. Did(tx[u].op, tx[u].base, tx[u].version)
        BY <4>1 DEF ContentsInv, ChangesLinked
      <4>3. tx[u].version \in 1..version
        BY <1>1, <1>2, <4>1 DEF ContentsInv, BatchesInPlace, Transaction, None
      <4> QED BY <2>1, <4>1, <4>2, <4>3 DEF Did
    <3> QED BY <3>1, <3>2
  <2>3. ASSUME NEW v \in 1..MaxVersion, batch[v] # NoBatch
        PROVE  Does(batch[v].mutation, v)'
    <3>1. Does(batch[v].mutation, v)  BY <2>3 DEF ContentsInv, ChangesLinked
    <3>2. v \in 1..version  BY <1>2, <1>11, <2>3
    <3> QED BY <1>4, <2>1, <3>1, <3>2 DEF Does
  <2> QED BY <1>3, <1>4, <2>2, <2>3 DEF ChangesLinked
<1>17. InOrder' = InOrder /\ Appended' = Appended /\ Reconstructed' = Reconstructed
  BY <1>4 DEF InOrder, Appended, Reconstructed, Joined
<1>18. ChainKnown'  BY <1>4, <1>17 DEF ContentsInv, ChainKnown, Sorted
<1>19. StoredIsPublished'
  <2>1. Readable'  BY <1>4, <1>17 DEF ContentsInv, StoredIsPublished, Readable
  <2>2. history'[stored] = history[stored]  BY <1>2, <1>14
  <2>3. batch[stored + 1].mutation.kind = "append" => chain # NoChain
    <3>1. CASE stored < version  BY <3>1 DEF ContentsInv, StoredIsPublished
    <3>2. CASE stored = version
      <4>1. batch[stored + 1] = NoBatch  BY <1>2, <1>11, <3>2
      <4> QED BY <4>1 DEF NoBatch, NoMutation
    <3> QED BY <1>2, <3>1, <3>2
  <2> QED BY <1>4, <1>17, <2>1, <2>2, <2>3 DEF ContentsInv, StoredIsPublished, Equals
<1> QED BY <1>9, <1>13, <1>15, <1>16, <1>18, <1>19 DEF ContentsInv

-----------------------------------------------------------------------------
\* Writing the batch

\* A mutation does to storage what the operation did to the row
LEMMA MutationFaithful ==
  ASSUME scenario \in Scenarios, NEW op \in Op, NEW base \in Row, NEW v, NEW afford,
         Did(op, base, v)
  PROVE  Mutation(op, base, afford) \in Change /\ Does(Mutation(op, base, afford), v)
<1> DEFINE m == Mutation(op, base, afford)
           suffix == SubSeq(op.val.els, Len(base.val.els) + 1, Len(op.val.els))
           append == /\ op.kind = "update" /\ op.hint
                     /\ base # NoRow /\ base.val.list /\ op.val.list
                     /\ Continues(base.val.els, op.val.els)
                     /\ afford \/ base.val.els = <<>>
<1>1. NoMutation \in Change /\ op.val \in Value /\ base.val \in Value
  BY NothingTypes DEF Op, Row
<1>2. CASE op.kind = "none"
  BY <1>1, <1>2 DEF Mutation, Did, Does, NoMutation, Change
<1>3. CASE op.kind = "delete"
  <2>1. m = [NoMutation EXCEPT !.kind = "delete"]  BY <1>3 DEF Mutation
  <2>2. m \in Change /\ m.kind = "delete"  BY <1>1, <2>1 DEF Change
  <2> HIDE DEF m
  <2>3. Does(m, v)  BY <1>3, <2>2 DEF Did, Does
  <2> QED BY <2>2, <2>3 DEF m
<1>4. CASE op.kind \in {"insert", "update"} /\ append
  <2>1. m = [kind |-> "append", val |-> op.val, suffix |-> suffix]
    BY <1>4 DEF Mutation
  <2>2. suffix \in Seq(DOMAIN Folded)
    <3>1. op.val.els \in Seq(DOMAIN Folded) /\ base.val.els \in Seq(DOMAIN Folded)
      BY <1>1 DEF Value
    <3> DEFINE F == DOMAIN Folded
    <3> HIDE DEF F
    <3>2. Len(base.val.els) \in Nat  BY <3>1, LenProperties DEF F
    <3>3. Len(op.val.els) \in Nat  BY <3>1, LenProperties DEF F
    <3>4. \A i \in (Len(base.val.els) + 1)..Len(op.val.els) : op.val.els[i] \in F
      BY <3>1, <3>2, <3>3, ElementOfSeq DEF F
    <3> QED BY <3>2, <3>3, <3>4, SubSeqProperties DEF F
  <2> HIDE DEF suffix
  <2>3. m \in Change /\ m.kind = "append" /\ m.val = op.val /\ m.suffix = suffix
    BY <1>1, <2>1, <2>2 DEF Change
  <2> HIDE DEF m
  <2>4. base = history[v - 1] /\ history[v].at = v /\ history[v].val = op.val
    BY <1>4 DEF Did
  <2>5. Does(m, v)  BY <1>4, <2>3, <2>4 DEF Does, suffix
  <2> QED BY <2>3, <2>5 DEF m
<1>5. CASE op.kind \in {"insert", "update"} /\ ~append
  <2>1. m = [NoMutation EXCEPT !.kind = "replace", !.val = op.val]
    BY <1>5 DEF Mutation
  <2>2. m \in Change /\ m.kind = "replace" /\ m.val = op.val  BY <1>1, <2>1 DEF Change
  <2> HIDE DEF m
  <2>3. Does(m, v)  BY <1>5, <2>2 DEF Did, Does
  <2> QED BY <2>2, <2>3 DEF m
<1> QED BY <1>2, <1>3, <1>4, <1>5 DEF Op

\* The writer has no chain exactly when there is nothing in storage
LEMMA ChainOrNothing ==
  ASSUME ChainKnown, chain \in [versions : Seq(Nat), bytes : Nat]
  PROVE  chain = NoChain <=> records = {}
<1>1. ToSet(InOrder) = records /\ InOrder \in Seq(Record)  BY DEF ChainKnown
<1>2. records = {} <=> InOrder = <<>>
  <2>1. DOMAIN InOrder = 1..Len(InOrder) /\ Len(InOrder) \in Nat  BY <1>1, LenProperties
  <2>2. InOrder = <<>> <=> Len(InOrder) = 0  BY <1>1, EmptySeq
  <2>3. DOMAIN InOrder = {} <=> Len(InOrder) = 0
    <3>1. \A n \in Nat : n # 0 => 1 \in 1..n  OBVIOUS
    <3>2. 1..0 = {}  OBVIOUS
    <3> QED BY <2>1, <3>1, <3>2
  <2>4. ToSet(InOrder) = {} <=> DOMAIN InOrder = {}  BY DEF ToSet
  <2> QED BY <1>1, <2>2, <2>3, <2>4
<1>3. chain.versions = [i \in DOMAIN InOrder |-> InOrder[i].version]  BY DEF ChainKnown
<1>4. CASE records = {}
  <2>1. chain.bytes = 0  BY <1>4 DEF ChainKnown
  <2>2. chain.versions = <<>>  BY <1>2, <1>3, <1>4
  <2> QED BY <1>4, <2>1, <2>2 DEF NoChain
<1>5. CASE records # {}
  <2>1. 1 \in DOMAIN InOrder  BY <1>1, <1>2, <1>5
  <2>2. chain.versions # <<>>  BY <1>3, <2>1
  <2> QED BY <1>5, <2>2 DEF NoChain
<1> QED BY <1>4, <1>5

\* The batch that is handed over carries a mutation from the previous row to the published one.
LEMMA WriteStep ==
  ASSUME ContentsInv, scenario' = scenario, NEW t \in scenario.threads, Pending(t),
         NEW seq \in Number, Write(t, seq)
  PROVE  ContentsInv'
<1>1. PICK afford \in BOOLEAN :
        batch' = [batch EXCEPT ![tx[t].version] =
                   [id |-> tx[t].id, seq |-> seq,
                    mutation |-> Mutation(tx[t].op, tx[t].base, afford)]]
  BY DEF Write
<1> DEFINE w == tx[t].version
           m == Mutation(tx[t].op, tx[t].base, afford)
           b == [id |-> tx[t].id, seq |-> seq, mutation |-> m]
<1>2. /\ t \in Thread /\ tx[t] \in Transaction
      /\ tx \in [Thread -> Transaction] /\ scenario \in Scenarios
  BY ScenarioTypes, TxFacts DEF ContentsInv, TypeOK
<1>3. /\ MaxVersion \in Nat /\ version \in Nat /\ stored \in Nat /\ stored <= version
      /\ version <= MaxVersion
  BY <1>2, TxFacts
<1>4. /\ w \in 1..MaxVersion /\ stored < w /\ w <= version /\ batch[w] = NoBatch
  BY <1>2, <1>3 DEF ContentsInv, BatchesInPlace, Transaction, None
<1>5. MaxVersion' = MaxVersion /\ Transaction' = Transaction /\ Own' = Own
  BY DEF MaxVersion, Transaction, Own
<1>6. /\ value' = value /\ dirty' = dirty /\ chain' = chain
      /\ nextRec' = nextRec /\ stored' = stored /\ diskSeq' = diskSeq
      /\ diskObjs' = diskObjs /\ records' = records /\ world' = world
      /\ version' = version /\ history' = history /\ row' = row
      /\ tx' = [tx EXCEPT ![t] = NoTx]
  BY DEF Write, sequenceVars, rootVars, writerVars, diskVars
<1>7. m \in Change /\ Does(m, w)
  <2>1. Did(tx[t].op, tx[t].base, w)  BY <1>2 DEF ContentsInv, ChangesLinked
  <2>2. tx[t].op \in Op /\ tx[t].base \in Row  BY <1>2 DEF Transaction
  <2> QED BY <1>2, <2>1, <2>2, MutationFaithful
<1> HIDE DEF m
<1>8. b \in [id : Number, seq : Number, mutation : Change] /\ b.mutation = m
  BY <1>2, <1>7 DEF Transaction
<1>9. batch' = [batch EXCEPT ![w] = b]  BY <1>1 DEF m
<1> HIDE DEF b
<1>10. batch \in [1..MaxVersion -> [id : Number, seq : Number, mutation : Change]]
  BY DEF ContentsInv, TypeOK
<1>11. \A v \in 1..MaxVersion : batch'[v] = IF v = w THEN b ELSE batch[v]
  BY <1>4, <1>9, <1>10
<1>12. \A u \in Thread : tx'[u] = IF u = t THEN NoTx ELSE tx[u]  BY <1>2, <1>6
<1>13. NoTx.pc = "idle" /\ TxDated(NoTx) /\ NoTx \in Transaction  BY <1>2, EmptyTx
<1>14. \A u \in Thread : Pending(u)' => Pending(u) /\ u # t /\ tx'[u] = tx[u]
  BY <1>12, <1>13 DEF Pending
<1>15. TypeOK'
  <2>1. tx' \in [Thread -> Transaction]  BY <1>2, <1>6, <1>13
  <2>2. batch' \in [1..MaxVersion -> [id : Number, seq : Number, mutation : Change]]
    BY <1>8, <1>9, <1>10
  <2> QED BY <1>5, <1>6, <2>1, <2>2 DEF ContentsInv, TypeOK
<1>16. BatchesInPlace'
  <2>1. ASSUME NEW u \in Thread, Pending(u)'
        PROVE  /\ stored < tx'[u].version /\ tx'[u].version <= version
               /\ batch'[tx'[u].version] = NoBatch
    <3>1. Pending(u) /\ u # t /\ tx'[u] = tx[u]  BY <1>14, <2>1
    <3>2. /\ stored < tx[u].version /\ tx[u].version <= version
          /\ batch[tx[u].version] = NoBatch
      BY <3>1 DEF ContentsInv, BatchesInPlace
    <3>3. tx[u].version # w  BY <1>2, <3>1 DEF ContentsInv, BatchesInPlace
    <3>4. tx[u].version \in 1..MaxVersion  BY <1>2, <1>3, <3>2 DEF Transaction, None
    <3> QED BY <1>11, <3>1, <3>2, <3>3, <3>4
  <2>2. ASSUME NEW u \in Thread, NEW s \in Thread, Pending(u)', Pending(s)',
               tx'[u].version = tx'[s].version
        PROVE  u = s
    BY <1>14, <2>2 DEF ContentsInv, BatchesInPlace
  <2>3. \A v \in 1..MaxVersion : batch'[v] # NoBatch => stored < v /\ v <= version
    BY <1>4, <1>11 DEF ContentsInv, BatchesInPlace
  <2> HIDE DEF Pending
  <2> QED BY <1>5, <1>6, <2>1, <2>2, <2>3 DEF BatchesInPlace
<1>17. RowsDated'
  <2>1. \A u \in Thread : TxDated(tx'[u])  BY <1>12, <1>13, TxFacts
  <2> QED BY <1>5, <1>6, <2>1 DEF ContentsInv, RowsDated, TxDated, Dated
<1>18. ChangesLinked'
  <2>1. ASSUME NEW u \in Thread, Pending(u)'
        PROVE  Did(tx[u].op, tx[u].base, tx[u].version)'
    <3>1. Pending(u) /\ tx'[u] = tx[u]  BY <1>14, <2>1
    <3>2. Did(tx[u].op, tx[u].base, tx[u].version)
      BY <3>1 DEF ContentsInv, ChangesLinked
    <3> QED BY <1>6, <3>1, <3>2 DEF Did
  <2>2. ASSUME NEW v \in 1..MaxVersion, batch'[v] # NoBatch
        PROVE  Does(batch[v].mutation, v)'
    <3>1. Does(batch'[v].mutation, v)
      BY <1>7, <1>8, <1>11, <2>2 DEF ContentsInv, ChangesLinked
    <3> QED BY <1>6, <3>1 DEF Does
  <2> QED BY <1>5, <2>1, <2>2 DEF ChangesLinked
<1>19. InOrder' = InOrder /\ Appended' = Appended /\ Reconstructed' = Reconstructed
  BY <1>6 DEF InOrder, Appended, Reconstructed, Joined
<1>20. ChainKnown'  BY <1>6, <1>19 DEF ContentsInv, ChainKnown, Sorted
<1>21. StoredIsPublished'
  <2>1. Readable'  BY <1>6, <1>19 DEF ContentsInv, StoredIsPublished, Readable
  <2>2. ASSUME stored < version, batch'[stored + 1].mutation.kind = "append"
        PROVE  chain # NoChain
    <3>1. stored + 1 \in 1..MaxVersion  BY <1>3, <2>2
    <3>2. CASE stored + 1 # w
      <4>1. batch'[stored + 1] = batch[stored + 1]  BY <1>11, <3>1, <3>2
      <4> QED BY <2>2, <4>1 DEF ContentsInv, StoredIsPublished
    <3>3. CASE stored + 1 = w
      <4>1. m.kind = "append"  BY <1>8, <1>11, <2>2, <3>1, <3>3
      <4>2. history[w - 1] # NoRow  BY <1>7, <4>1 DEF Does
      <4>3. w - 1 = stored  BY <1>3, <3>3
      <4>4. records # {}  BY <4>2, <4>3 DEF ContentsInv, StoredIsPublished
      <4> QED BY <4>4, ChainOrNothing DEF ContentsInv, TypeOK
    <3> QED BY <3>2, <3>3
  <2> QED BY <1>6, <1>19, <2>1, <2>2 DEF ContentsInv, StoredIsPublished, Equals
<1> QED BY <1>15, <1>16, <1>17, <1>18, <1>20, <1>21 DEF ContentsInv

-----------------------------------------------------------------------------
\* The reader of records

\* What InOrder is for the records R
Listing(R) ==
  CHOOSE s \in [1..Cardinality(R) -> R] :
    \A i, j \in DOMAIN s : i < j => s[i].version < s[j].version

\* A sorted sequence of records has no record twice: its length is their number
LEMMA SortedCount ==
  ASSUME NEW s, NEW n \in Nat, DOMAIN s = 1..n, Sorted(s),
         \A i \in 1..n : s[i].version \in Nat
  PROVE  /\ IsFiniteSet({s[i] : i \in 1..n})
         /\ Cardinality({s[i] : i \in 1..n}) = n
<1> DEFINE R == {s[i] : i \in 1..n}
<1>1. \A i, j \in 1..n : s[i] = s[j] => i = j
  <2> SUFFICES ASSUME NEW i \in 1..n, NEW j \in 1..n, s[i] = s[j], i # j PROVE FALSE
    OBVIOUS
  <2>1. i < j \/ j < i  OBVIOUS
  <2>2. s[i].version < s[j].version \/ s[j].version < s[i].version  BY <2>1 DEF Sorted
  <2> QED BY <2>2
<1> DEFINE f == [i \in 1..n |-> s[i]]
<1>2. f \in Bijection(1..n, R)
  BY <1>1 DEF Bijection, Injection, Surjection, IsInjective
<1>3. IsFiniteSet(1..n) /\ Cardinality(1..n) = n
  <2>1. 1 \in Int /\ n \in Int  OBVIOUS
  <2> QED BY <2>1, FS_Interval
<1>4. ExistsBijection(1..n, R)  BY <1>2 DEF ExistsBijection
<1> HIDE DEF R
<1>5. IsFiniteSet(R) /\ Cardinality(R) = Cardinality(1..n)  BY <1>3, <1>4, FS_Bijection
<1> QED BY <1>3, <1>5 DEF R

\* Two sorted sequences of the same records are the same
LEMMA SortedUnique ==
  ASSUME NEW n \in Nat, NEW s, NEW t, s = [i \in 1..n |-> s[i]], t = [i \in 1..n |-> t[i]],
         \A i \in 1..n : s[i].version \in Nat /\ t[i].version \in Nat,
         Sorted(s), Sorted(t), {s[i] : i \in 1..n} = {t[i] : i \in 1..n}
  PROVE  s = t
<1> DEFINE D == {i \in 1..n : s[i] # t[i]}
<1>1. SUFFICES D = {}  OBVIOUS
<1>2. SUFFICES ASSUME D # {} PROVE FALSE  OBVIOUS
<1>3. PICK i \in D : \A m \in D : i <= m
  <2>1. D \in SUBSET Nat  OBVIOUS
  <2> HIDE DEF D
  <2> QED BY <1>2, <2>1, LeastNumber
<1>4. i \in 1..n /\ s[i] # t[i] /\ \A k \in 1..n : k < i => s[k] = t[k]  BY <1>3
<1>5. PICK j \in 1..n : s[j] = t[i]  BY <1>4
<1>6. PICK k \in 1..n : t[k] = s[i]  BY <1>4
<1>7. \A a, b \in 1..n : a < b => s[a].version < s[b].version /\ t[a].version < t[b].version
  <2>1. DOMAIN s = 1..n /\ DOMAIN t = 1..n  OBVIOUS
  <2> QED BY <2>1 DEF Sorted
<1>8. ~(j < i)
  <2> SUFFICES ASSUME j < i PROVE FALSE  OBVIOUS
  <2>1. s[j] = t[j]  BY <1>4
  <2>2. t[j].version < t[i].version  BY <1>4, <1>7
  <2> QED BY <1>4, <1>5, <2>1, <2>2
<1>9. ~(k < i)
  <2> SUFFICES ASSUME k < i PROVE FALSE  OBVIOUS
  <2>1. s[k] = t[k]  BY <1>4
  <2>2. s[k].version < s[i].version  BY <1>4, <1>7
  <2> QED BY <1>4, <1>6, <2>1, <2>2
<1>10. i < j /\ i < k  BY <1>4, <1>5, <1>6, <1>8, <1>9
<1>11. s[i].version < t[i].version /\ t[i].version < s[i].version
  BY <1>4, <1>5, <1>6, <1>7, <1>10
<1> QED BY <1>4, <1>11

\* The order of the keys is the order of any sorted sequence of the records
LEMMA ListingIs ==
  ASSUME NEW R, NEW s \in Seq(Record), ToSet(s) = R, Sorted(s)
  PROVE  Listing(R) = s
<1> DEFINE n == Len(s)
           In(t) == \A i, j \in DOMAIN t : i < j => t[i].version < t[j].version
<1>1. n \in Nat /\ DOMAIN s = 1..n /\ \A i \in 1..n : s[i] \in Record
  BY LenProperties, ElementOfSeq
<1>2. R = {s[i] : i \in 1..n} /\ R \subseteq Record  BY <1>1 DEF ToSet
<1>3. \A r \in Record : r.version \in Nat  BY DEF Record
<1> HIDE DEF n
<1>4. IsFiniteSet(R) /\ Cardinality(R) = n  BY <1>1, <1>2, <1>3, SortedCount
<1>5. s \in [1..n -> R] /\ In(s)  BY <1>1, <1>2 DEF Sorted
<1> DEFINE t == Listing(R)
<1>6. t \in [1..n -> R] /\ In(t)
  <2>1. \E x \in [1..n -> R] : In(x)  BY <1>5
  <2>2. t = CHOOSE x \in [1..n -> R] : In(x)  BY <1>4 DEF Listing
  <2> HIDE DEF t
  <2> QED BY <2>1, <2>2
<1> HIDE DEF t
<1>7. Sorted(t)  BY <1>6 DEF Sorted
<1> DEFINE I == {t[i] : i \in 1..n}
<1>8. DOMAIN t = 1..n /\ \A i \in 1..n : t[i].version \in Nat  BY <1>2, <1>3, <1>6
<1>9. Cardinality(I) = n  BY <1>1, <1>7, <1>8, SortedCount
<1>10. I \subseteq R  BY <1>6
<1>11. I = R
  <2> HIDE DEF I
  <2> QED BY <1>4, <1>9, <1>10, FS_Subset
<1>12. s = [i \in 1..n |-> s[i]] /\ t = [i \in 1..n |-> t[i]]  BY <1>1, <1>5, <1>6
<1>13. t = s  BY <1>1, <1>2, <1>3, <1>7, <1>8, <1>11, <1>12, SortedUnique
<1> QED BY <1>13 DEF t

\* The recursion that joins the elements of n records
Joining(f, s, n) ==
  f = [i \in 1..n |-> IF i = 1 THEN <<>> ELSE f[i - 1] \o s[i].val.els]

\* The partial concatenations of the appended elements exist as a recursive function.
LEMMA JoiningExists ==
  ASSUME NEW N \in Nat, NEW s
  PROVE  \E f : Joining(f, s, N)
<1> DEFINE H(f, n) == f = [i \in 1..n |-> IF i = 1 THEN <<>> ELSE f[i - 1] \o s[i].val.els]
           T == {n \in Nat : ~\E f : H(f, n)}
<1> SUFFICES ASSUME T # {} PROVE FALSE  BY DEF Joining
<1>1. PICK n \in T : \A m \in T : n <= m
  <2>1. T \in SUBSET Nat  OBVIOUS
  <2> HIDE DEF T
  <2> QED BY <2>1, LeastNumber
<1>2. n # 0
  <2>1. 1..0 = {}  OBVIOUS
  <2>2. H(<<>>, 0)  BY <2>1
  <2>3. ~\E f : H(f, n)  BY <1>1
  <2> HIDE DEF H
  <2> QED BY <2>2, <2>3
<1>3. n - 1 \in Nat /\ n - 1 \notin T
  <2>1. n \in Nat  BY <1>1
  <2> HIDE DEF T
  <2> QED BY <1>1, <1>2, <2>1
<1>4. PICK g : H(g, n - 1)  BY <1>3
<1> DEFINE last == IF n = 1 THEN <<>> ELSE g[n - 1] \o s[n].val.els
           h == [i \in 1..n |-> IF i = n THEN last ELSE g[i]]
<1>5. \A i \in 1..n : h[i] = IF i = 1 THEN <<>> ELSE h[i - 1] \o s[i].val.els
  <2> SUFFICES ASSUME NEW i \in 1..n
               PROVE  h[i] = IF i = 1 THEN <<>> ELSE h[i - 1] \o s[i].val.els
    OBVIOUS
  <2>1. CASE i = n
    <3>1. h[i] = last  BY <2>1
    <3>2. n # 1 => h[i - 1] = g[n - 1]  BY <2>1
    <3> QED BY <2>1, <3>1, <3>2
  <2>2. CASE i # n
    <3>1. i \in 1..(n - 1)  BY <1>1, <2>2
    <3>2. g[i] = IF i = 1 THEN <<>> ELSE g[i - 1] \o s[i].val.els  BY <1>4, <3>1
    <3>3. h[i] = g[i] /\ (i # 1 => h[i - 1] = g[i - 1])  BY <1>1, <2>2
    <3> QED BY <3>2, <3>3
  <2> QED BY <2>1, <2>2
<1>6. h = [i \in 1..n |-> h[i]]  OBVIOUS
<1>7. H(h, n)
  <2> HIDE DEF h
  <2> QED BY <1>5, <1>6
<1> QED BY <1>1, <1>7

\* Joined is the last of the partial concatenations.
LEMMA JoinedIs ==
  ASSUME NEW s \in Seq(Record), NEW f, Joining(f, s, Len(s)), s # <<>>
  PROVE  /\ \E g : Joining(g, s, Len(s)) /\ Joined(s) = g[Len(s)]
         /\ Joined(s) = f[Len(s)]
<1> DEFINE n == Len(s)
<1>1. n \in Nat /\ n >= 1  BY EmptySeq, LenProperties
<1> DEFINE g == CHOOSE x : Joining(x, s, n)
<1>2. Joining(g, s, n)  BY <1>1
<1>3. Joined(s) = g[n]  BY DEF Joined, Joining
<1> HIDE DEF g, n
<1> DEFINE D == {i \in 1..n : f[i] # g[i]}
<1>4. ASSUME D # {} PROVE FALSE
  <2>1. PICK i \in D : \A m \in D : i <= m
    <3>1. D \in SUBSET Nat  BY <1>1
    <3> HIDE DEF D
    <3> QED BY <1>4, <3>1, LeastNumber
  <2>2. i \in 1..n /\ f[i] # g[i]  BY <2>1
  <2>3. f[i] = IF i = 1 THEN <<>> ELSE f[i - 1] \o s[i].val.els
    BY <2>2 DEF Joining, n
  <2>4. g[i] = IF i = 1 THEN <<>> ELSE g[i - 1] \o s[i].val.els
    BY <1>2, <2>2 DEF Joining
  <2>5. i # 1 => i - 1 \in 1..n /\ i - 1 \notin D  BY <1>1, <2>1
  <2>6. i # 1 => f[i - 1] = g[i - 1]  BY <2>5
  <2> QED BY <2>2, <2>3, <2>4, <2>6
<1>5. f[n] = g[n]  BY <1>1, <1>4
<1> QED BY <1>2, <1>3, <1>5 DEF n

\* A single record has nothing to join; a record at the end adds its elements
LEMMA JoinedOne ==
  ASSUME NEW r \in Record
  PROVE  Joined(<<r>>) = <<>>
<1>1. <<r>> \in Seq(Record) /\ <<r>> # <<>> /\ Len(<<r>>) = 1  OBVIOUS
<1>2. PICK f : Joining(f, <<r>>, 1)  BY JoiningExists
<1>3. f[1] = <<>>  BY <1>2 DEF Joining
<1> QED BY <1>1, <1>2, <1>3, JoinedIs

\* One more record adds its elements at the end.
LEMMA JoinedMore ==
  ASSUME NEW s \in Seq(Record), s # <<>>, NEW r \in Record
  PROVE  Joined(Append(s, r)) = Joined(s) \o r.val.els
<1> DEFINE n == Len(s)
           a == Append(s, r)
<1>1. n \in Nat /\ n >= 1  BY EmptySeq, LenProperties
<1>2. a \in Seq(Record) /\ a # <<>> /\ Len(a) = n + 1 /\ a[n + 1] = r
      /\ \A i \in 1..n : a[i] = s[i]
  BY AppendProperties, LenProperties
<1> HIDE DEF n, a
<1>3. PICK f : Joining(f, a, n + 1)  BY <1>1, JoiningExists
<1> DEFINE g == [i \in 1..n |-> f[i]]
<1>4. \A i \in 1..n : g[i] = IF i = 1 THEN <<>> ELSE g[i - 1] \o s[i].val.els
  <2> SUFFICES ASSUME NEW i \in 1..n
               PROVE  g[i] = IF i = 1 THEN <<>> ELSE g[i - 1] \o s[i].val.els
    OBVIOUS
  <2>1. i \in 1..(n + 1)  BY <1>1
  <2>2. f[i] = IF i = 1 THEN <<>> ELSE f[i - 1] \o a[i].val.els  BY <1>3, <2>1 DEF Joining
  <2>3. i # 1 => g[i - 1] = f[i - 1]  BY <1>1
  <2> QED BY <1>2, <2>2, <2>3
<1>5. g = [i \in 1..n |-> g[i]]  OBVIOUS
<1>6. Joining(g, s, n)
  <2> HIDE DEF g
  <2> QED BY <1>4, <1>5 DEF Joining
<1>7. Joined(s) = f[n]
  <2>1. Joined(s) = g[n]
    <3> HIDE DEF g
    <3> QED BY <1>6, JoinedIs DEF n
  <2> QED BY <1>1, <2>1
<1>8. Joined(a) = f[n + 1]  BY <1>2, <1>3, JoinedIs
<1>9. f[n + 1] = f[n] \o r.val.els
  <2>1. n + 1 \in 1..(n + 1) /\ n + 1 # 1 /\ (n + 1) - 1 = n  BY <1>1
  <2>2. f[n + 1] = f[(n + 1) - 1] \o a[n + 1].val.els  BY <1>3, <2>1 DEF Joining
  <2> QED BY <1>2, <2>1, <2>2
<1> QED BY <1>7, <1>8, <1>9 DEF a

\* The elements of the appended records are a sequence of elements.
LEMMA JoinedType ==
  ASSUME NEW s \in Seq(Record), s # <<>>
  PROVE  Joined(s) \in Seq(DOMAIN Folded)
<1> DEFINE n == Len(s)
           F == DOMAIN Folded
<1>1. n \in Nat /\ n >= 1 /\ \A i \in 1..n : s[i] \in Record
  BY EmptySeq, LenProperties, ElementOfSeq
<1>2. \A r \in Record : r.val.els \in Seq(F)  BY DEF Record, Value
<1>3. <<>> \in Seq(F)  OBVIOUS
<1> HIDE DEF n, F
<1>4. PICK f : Joining(f, s, n)  BY <1>1, JoiningExists
<1> DEFINE D == {i \in 1..n : f[i] \notin Seq(F)}
<1>5. ASSUME D # {} PROVE FALSE
  <2>1. PICK i \in D : \A m \in D : i <= m
    <3>1. D \in SUBSET Nat  BY <1>1
    <3> HIDE DEF D
    <3> QED BY <1>5, <3>1, LeastNumber
  <2>2. i \in 1..n /\ f[i] \notin Seq(F)  BY <2>1
  <2>3. f[i] = IF i = 1 THEN <<>> ELSE f[i - 1] \o s[i].val.els
    BY <1>4, <2>2 DEF Joining
  <2>4. i # 1 => i - 1 \in 1..n /\ i - 1 \notin D  BY <1>1, <2>1
  <2>5. i # 1 => f[i - 1] \in Seq(F)  BY <2>4
  <2>6. s[i].val.els \in Seq(F)  BY <1>1, <1>2, <2>2
  <2>7. i # 1 => f[i - 1] \o s[i].val.els \in Seq(F)  BY <2>5, <2>6, ConcatProperties
  <2> QED BY <1>3, <2>2, <2>3, <2>7
<1>6. f[n] \in Seq(F)  BY <1>1, <1>5
<1>7. Joined(s) = f[n]  BY <1>4, JoinedIs DEF n
<1> QED BY <1>6, <1>7 DEF F

\* What the reader asks of the records s, and what it makes of them
ReadableAs(s) ==
  s # <<>> =>
    /\ Head(s).full
    /\ \A i \in 2..Len(s) : ~s[i].full /\ s[i].val.els # <<>>
    /\ Len(s) > 1 => Head(s).val.list
    /\ Len(s) <= MAX_RECORDS /\ Len(Joined(s)) <= MAX_APPEND_BYTES

Made(s) == [Head(s).val EXCEPT !.els = @ \o Joined(s)]

\* Only the empty sequence lists the empty set.
LEMMA EmptyIsEmpty ==
  ASSUME NEW s \in Seq(Record)
  PROVE  ToSet(s) = {} <=> s = <<>>
<1>1. DOMAIN s = 1..Len(s) /\ Len(s) \in Nat  BY LenProperties
<1>2. s = <<>> <=> Len(s) = 0  BY EmptySeq
<1>3. \A n \in Nat : n # 0 => 1 \in 1..n  OBVIOUS
<1>4. 1..0 = {}  OBVIOUS
<1>5. DOMAIN s = {} <=> Len(s) = 0  BY <1>1, <1>3, <1>4
<1>6. ToSet(s) = {} <=> DOMAIN s = {}  BY DEF ToSet
<1> QED BY <1>2, <1>5, <1>6

\* The records of a sorted sequence are read in its order
LEMMA ReadAs ==
  ASSUME NEW s \in Seq(Record), ToSet(s) = records, Sorted(s)
  PROVE  /\ InOrder = s /\ Appended = Joined(s) /\ Reconstructed = Made(s)
         /\ records = {} <=> s = <<>>
         /\ Readable <=> ReadableAs(s)
<1>1. InOrder = s
  <2>1. Listing(records) = s  BY ListingIs
  <2> QED BY <2>1 DEF InOrder, Listing
<1>2. Appended = Joined(s)  BY <1>1 DEF Appended
<1>3. Reconstructed = Made(s)  BY <1>1, <1>2 DEF Reconstructed, Made
<1>4. records = {} <=> s = <<>>  BY EmptyIsEmpty
<1> QED BY <1>1, <1>2, <1>3, <1>4 DEF Readable, ReadableAs

\* After a step, the reader of storage finds what the sorted listing of the new records says.
LEMMA ReadAsNext ==
  ASSUME NEW s \in Seq(Record), ToSet(s) = records', Sorted(s)
  PROVE  /\ InOrder' = s /\ Appended' = Joined(s) /\ Reconstructed' = Made(s)
         /\ records' = {} <=> s = <<>>
         /\ Readable' <=> ReadableAs(s)
<1>1. InOrder' = s
  <2>1. Listing(records') = s  BY ListingIs
  <2> QED BY <2>1 DEF InOrder, Listing
<1>2. Appended' = Joined(s)  BY <1>1 DEF Appended
<1>3. Reconstructed' = Made(s)  BY <1>1, <1>2 DEF Reconstructed, Made
<1>4. records' = {} <=> s = <<>>  BY EmptyIsEmpty
<1> QED BY <1>1, <1>2, <1>3, <1>4 DEF Readable, ReadableAs

\* What a writer that leaves the records s behind, with its chain, has achieved
LEMMA Leaves ==
  ASSUME NEW s \in Seq(Record), ToSet(s) = records', Sorted(s), ReadableAs(s),
         chain'.versions = [i \in DOMAIN s |-> s[i].version],
         chain'.bytes = IF s = <<>> THEN 0 ELSE Len(Joined(s)),
         \A i \in DOMAIN s : s[i].version < nextRec'
  PROVE  ChainKnown' /\ Readable'
<1>1. /\ InOrder' = s /\ Appended' = Joined(s)
      /\ records' = {} <=> s = <<>>
      /\ Readable' <=> ReadableAs(s)
  BY ReadAsNext
<1>2. \A r \in records' : r.version < nextRec'  BY DEF ToSet
<1> QED BY <1>1, <1>2 DEF ChainKnown, Sorted

-----------------------------------------------------------------------------
\* Storing a mutation

\* The chain names the records in storage
LEMMA ChainNames ==
  ASSUME ChainKnown
  PROVE  /\ \A r \in records : r.version \in ToSet(chain.versions)
         /\ \A r \in records : r.version < nextRec
         /\ \A c \in ToSet(chain.versions) : \E r \in records : r.version = c
         /\ DOMAIN chain.versions = DOMAIN InOrder
<1>1. /\ ToSet(InOrder) = records
      /\ chain.versions = [i \in DOMAIN InOrder |-> InOrder[i].version]
  BY DEF ChainKnown
<1>2. ASSUME NEW r \in records PROVE r.version \in ToSet(chain.versions)
  <2>1. PICK i \in DOMAIN InOrder : r = InOrder[i]  BY <1>1 DEF ToSet
  <2> QED BY <1>1, <2>1 DEF ToSet
<1>3. ASSUME NEW c \in ToSet(chain.versions) PROVE \E r \in records : r.version = c
  <2>1. PICK i \in DOMAIN InOrder : c = InOrder[i].version  BY <1>1 DEF ToSet
  <2>2. InOrder[i] \in records  BY <1>1 DEF ToSet
  <2> QED BY <2>1, <2>2
<1> QED BY <1>1, <1>2, <1>3 DEF ChainKnown

\* What storage looks like when it holds the value of the row r
HoldsValue(r) ==
  /\ records \in SUBSET Record
  /\ chain \in [versions : Seq(Nat), bytes : Nat] /\ nextRec \in Nat
  /\ ChainKnown /\ Readable
  /\ records = {} <=> r = NoRow
  /\ records # {} => Equals(Reconstructed, r.val)

\* Deleting the chain stores the absence of a value.
LEMMA DeleteStores ==
  ASSUME TypeOK, ChainKnown, chain' = NoChain, nextRec' = nextRec + 1,
         records' = {r \in records : r.version \notin ToSet(chain.versions)}
  PROVE  HoldsValue(NoRow)'
<1>1. records' = {}  BY ChainNames
<1> DEFINE s == <<>>
<1>2. s \in Seq(Record) /\ ToSet(s) = records' /\ Sorted(s) /\ ReadableAs(s)
  BY <1>1 DEF ToSet, Sorted, ReadableAs
<1>3. /\ chain'.versions = [i \in DOMAIN s |-> s[i].version]
      /\ chain'.bytes = IF s = <<>> THEN 0 ELSE Len(Joined(s))
      /\ \A i \in DOMAIN s : s[i].version < nextRec'
  BY DEF NoChain
<1>4. ChainKnown' /\ Readable'
  <2> HIDE DEF s
  <2> QED BY <1>2, <1>3, Leaves
<1>5. chain' \in [versions : Seq(Nat), bytes : Nat] /\ nextRec' \in Nat
  BY NothingTypes DEF TypeOK
<1> QED BY <1>1, <1>4, <1>5 DEF HoldsValue

\* A value that is equal to itself
LEMMA ValueMade ==
  ASSUME NEW r \in Record, r.full
  PROVE  Made(<<r>>) = r.val /\ ReadableAs(<<r>>) /\ Equals(r.val, r.val)
<1>1. Joined(<<r>>) = <<>>  BY JoinedOne
<1>2. r.val \in Value /\ r.val.els \in Seq(DOMAIN Folded)  BY DEF Record, Value
<1>3. r.val.els \o <<>> = r.val.els
  <2> DEFINE F == DOMAIN Folded
  <2>1. r.val.els \in Seq(F)  BY <1>2
  <2> HIDE DEF F
  <2> QED BY <2>1, ConcatEmptySeq
<1>4. Made(<<r>>) = r.val
  <2>1. PICK v : v = r.val  OBVIOUS
  <2>2. Head(<<r>>) = r  OBVIOUS
  <2>3. Made(<<r>>) = [v EXCEPT !.els = v.els \o <<>>]  BY <1>1, <2>1, <2>2 DEF Made
  <2>4. v \in Value /\ v.els \o <<>> = v.els  BY <1>2, <1>3, <2>1
  <2>5. [v EXCEPT !.els = v.els] = v  BY <2>4 DEF Value
  <2> QED BY <2>1, <2>3, <2>4, <2>5
<1>5. ReadableAs(<<r>>)
  <2>1. Len(<<r>>) = 1 /\ Head(<<r>>) = r /\ Len(<<>>) = 0  OBVIOUS
  <2>2. MAX_RECORDS \in Nat \ {0} /\ MAX_APPEND_BYTES \in Nat  BY ContentsAssumption
  <2>3. 2..1 = {}  OBVIOUS
  <2> QED BY <1>1, <2>1, <2>2, <2>3 DEF ReadableAs
<1> QED BY <1>4, <1>5 DEF Equals

\* Replacing the chain by a full record stores its value.
LEMMA ReplaceStores ==
  ASSUME TypeOK, ChainKnown, NEW v \in Value, Replace(v),
         NEW r \in Row, r # NoRow, r.val = v
  PROVE  HoldsValue(r)'
<1> DEFINE w == Whole(v)
<1>1. /\ w \in Record /\ w.full /\ w.val = v /\ w.version = nextRec /\ nextRec \in Nat
  BY DEF Whole, Record, TypeOK
<1>2. records' = {w}
  <2>1. nextRec \notin ToSet(chain.versions)
    <3> SUFFICES ASSUME nextRec \in ToSet(chain.versions) PROVE FALSE  OBVIOUS
    <3>1. PICK x \in records : x.version = nextRec  BY ChainNames
    <3>2. x.version < nextRec  BY ChainNames
    <3> QED BY <1>1, <3>1, <3>2
  <2>2. records' = {x \in {x \in records : x.version # nextRec} \cup {w} :
                       x.version \notin ToSet(chain.versions)}
    BY <1>1 DEF Replace, Inserted
  <2> HIDE DEF w
  <2>3. \A x \in records : x.version \in ToSet(chain.versions)  BY ChainNames
  <2> QED BY <1>1, <2>1, <2>2, <2>3
<1> DEFINE s == <<w>>
<1> HIDE DEF w
<1>3. s \in Seq(Record) /\ ToSet(s) = records' /\ s # <<>> /\ DOMAIN s = {1} /\ s[1] = w
  BY <1>1, <1>2 DEF ToSet
<1>4. Sorted(s)  BY <1>3 DEF Sorted
<1>5. Joined(s) = <<>> /\ ReadableAs(s) /\ Made(s) = v /\ Equals(v, v)
  BY <1>1, JoinedOne, ValueMade
<1>6. /\ chain'.versions = <<nextRec>> /\ chain'.bytes = 0 /\ nextRec' = nextRec + 1
      /\ chain' = [versions |-> <<nextRec>>, bytes |-> 0]
  BY DEF Replace
<1> HIDE DEF s
<1>7. /\ chain'.versions = [i \in DOMAIN s |-> s[i].version]
      /\ chain'.bytes = IF s = <<>> THEN 0 ELSE Len(Joined(s))
      /\ \A i \in DOMAIN s : s[i].version < nextRec'
  <2>1. <<nextRec>> = [i \in {1} |-> nextRec]  OBVIOUS
  <2> QED BY <1>1, <1>3, <1>5, <1>6, <2>1
<1>8. ChainKnown' /\ Readable'  BY <1>3, <1>4, <1>5, <1>7, Leaves
<1>9. Reconstructed' = v  BY <1>3, <1>4, <1>5, ReadAsNext
<1>10. chain' \in [versions : Seq(Nat), bytes : Nat] /\ nextRec' \in Nat
  BY <1>1, <1>6
<1>11. records' \in SUBSET Record /\ records' # {}  BY <1>1, <1>2
<1> QED BY <1>5, <1>8, <1>9, <1>10, <1>11 DEF HoldsValue, Equals

\* The elements of two sequences, one after the other
LEMMA Glued ==
  ASSUME NEW F, NEW a \in Seq(F), NEW b \in Seq(F)
  PROVE  /\ a \o b \in Seq(F) /\ Len(a \o b) = Len(a) + Len(b)
         /\ \A i \in 1..(Len(a) + Len(b)) :
              (a \o b)[i] = IF i <= Len(a) THEN a[i] ELSE b[i - Len(a)]
BY ConcatProperties

\* The rest of a list
LEMMA RestOf ==
  ASSUME NEW F, NEW old \in Seq(F), NEW new \in Seq(F), Len(old) < Len(new)
  PROVE  LET rest == SubSeq(new, Len(old) + 1, Len(new)) IN
           /\ rest \in Seq(F) /\ rest # <<>> /\ Len(rest) = Len(new) - Len(old)
           /\ \A i \in 1..(Len(new) - Len(old)) : rest[i] = new[Len(old) + i]
<1> DEFINE k == Len(old)
           n == Len(new)
           rest == SubSeq(new, k + 1, n)
<1>1. k \in Nat /\ n \in Nat /\ k < n /\ \A i \in 1..n : new[i] \in F
  BY LenProperties, ElementOfSeq
<1> HIDE DEF k, n
<1>2. \A i \in (k + 1)..n : new[i] \in F  BY <1>1
<1>3. /\ rest \in Seq(F)
      /\ Len(rest) = IF k + 1 <= n THEN n - (k + 1) + 1 ELSE 0
      /\ \A i \in 1..(n - (k + 1) + 1) : rest[i] = new[(k + 1) + i - 1]
  BY <1>1, <1>2, SubSeqProperties
<1> HIDE DEF rest
<1>4. Len(rest) = n - k /\ n - k # 0  BY <1>1, <1>3
<1>5. rest # <<>>  BY <1>4
<1>6. ASSUME NEW i \in 1..(n - k) PROVE rest[i] = new[k + i]
  <2>1. i \in 1..(n - (k + 1) + 1) /\ (k + 1) + i - 1 = k + i  BY <1>1
  <2> QED BY <1>3, <2>1
<1> QED BY <1>3, <1>4, <1>5, <1>6 DEF rest, k, n

Matches(a, b) == Len(a) = Len(b) /\ \A i \in DOMAIN a : Folded[a[i]] = Folded[b[i]]

IsRest(rest, old, new) ==
  /\ Len(rest) = Len(new) - Len(old)
  /\ \A i \in 1..(Len(new) - Len(old)) : rest[i] = new[Len(old) + i]

\* A list that == takes for the old one, with the rest of the new one, is equal to it
LEMMA SuffixCompletes ==
  ASSUME NEW F, NEW a \in Seq(F), NEW old \in Seq(F), NEW new \in Seq(F),
         Matches(a, old), Continues(old, new), NEW rest \in Seq(F), IsRest(rest, old, new)
  PROVE  /\ a \o rest \in Seq(F) /\ Len(a \o rest) = Len(new)
         /\ \A i \in 1..Len(new) : Folded[(a \o rest)[i]] = Folded[new[i]]
<1> DEFINE k == Len(old)
           n == Len(new)
<1>1. /\ k \in Nat /\ n \in Nat /\ Len(a) = k /\ DOMAIN a = 1..k /\ DOMAIN old = 1..k
  BY LenProperties DEF Matches
<1>2. k < n /\ \A i \in 1..k : Folded[old[i]] = Folded[new[i]]  BY <1>1 DEF Continues
<1>3. /\ a \o rest \in Seq(F) /\ Len(a \o rest) = Len(a) + Len(rest)
      /\ \A i \in 1..(Len(a) + Len(rest)) :
           (a \o rest)[i] = IF i <= Len(a) THEN a[i] ELSE rest[i - Len(a)]
  BY Glued
<1>4. Len(rest) = n - k /\ \A i \in 1..(n - k) : rest[i] = new[k + i]  BY DEF IsRest
<1> HIDE DEF k, n
<1>5. Len(a) + Len(rest) = n  BY <1>1, <1>4
<1>6. \A i \in 1..n : (a \o rest)[i] = IF i <= k THEN a[i] ELSE rest[i - k]
  BY <1>1, <1>3, <1>5
<1>7. ASSUME NEW i \in 1..n PROVE Folded[(a \o rest)[i]] = Folded[new[i]]
  <2>1. CASE i <= k
    <3>1. i \in 1..k  BY <1>1, <2>1
    <3>2. Folded[a[i]] = Folded[old[i]] /\ Folded[old[i]] = Folded[new[i]]
      BY <1>1, <1>2, <3>1 DEF Matches
    <3> QED BY <1>6, <2>1, <3>2
  <2>2. CASE ~(i <= k)
    <3>1. i - k \in 1..(n - k) /\ k + (i - k) = i  BY <1>1, <2>2
    <3>2. rest[i - k] = new[i]  BY <1>4, <3>1
    <3> QED BY <1>6, <2>2, <3>2
  <2> QED BY <2>1, <2>2
<1> QED BY <1>3, <1>5, <1>7 DEF n

\* The records s with one more at the end
LEMMA OneMore ==
  ASSUME NEW s \in Seq(Record), Sorted(s), NEW r \in Record,
         \A i \in DOMAIN s : s[i].version < r.version
  PROVE  /\ Append(s, r) \in Seq(Record) /\ Sorted(Append(s, r))
         /\ ToSet(Append(s, r)) = ToSet(s) \cup {r}
         /\ Len(Append(s, r)) = Len(s) + 1 /\ Append(s, r)[Len(s) + 1] = r
         /\ \A i \in 1..Len(s) : Append(s, r)[i] = s[i]
         /\ [i \in DOMAIN Append(s, r) |-> Append(s, r)[i].version]
              = [i \in DOMAIN s |-> s[i].version] \o <<r.version>>
<1> DEFINE n == Len(s)
           a == Append(s, r)
<1>1. /\ n \in Nat /\ DOMAIN s = 1..n /\ a \in Seq(Record) /\ Len(a) = n + 1
      /\ DOMAIN a = 1..(n + 1) /\ a[n + 1] = r /\ \A i \in 1..n : a[i] = s[i]
  BY LenProperties, AppendProperties
<1>2. \A i \in 1..n : s[i] \in Record /\ s[i].version \in Nat
  <2>1. \A i \in 1..n : s[i] \in Record  BY ElementOfSeq
  <2>2. \A x \in Record : x.version \in Nat  BY DEF Record
  <2> QED BY <2>1, <2>2
<1>3. r.version \in Nat  BY DEF Record
<1> HIDE DEF n, a
<1>4. Sorted(a)
  <2> SUFFICES ASSUME NEW i \in 1..(n + 1), NEW j \in 1..(n + 1), i < j
               PROVE  a[i].version < a[j].version
    BY <1>1 DEF Sorted
  <2>1. i \in 1..n  BY <1>1
  <2>2. CASE j = n + 1  BY <1>1, <2>1, <2>2
  <2>3. CASE j # n + 1
    <3>1. j \in 1..n  BY <1>1, <2>3
    <3> QED BY <1>1, <2>1, <3>1 DEF Sorted
  <2> QED BY <2>2, <2>3
<1>5. ToSet(a) = ToSet(s) \cup {r}
  <2>1. 1..(n + 1) = 1..n \cup {n + 1}  BY <1>1
  <2> QED BY <1>1, <2>1 DEF ToSet
<1> DEFINE vs == [i \in 1..n |-> s[i].version]
           f == [i \in 1..(n + 1) |-> a[i].version]
<1>6. vs \in Seq(Nat) /\ Len(vs) = n /\ <<r.version>> \in Seq(Nat) /\ Len(<<r.version>>) = 1
  BY <1>1, <1>2, <1>3
<1>7. vs \o <<r.version>> = f
  <2>1. f \in Seq(Nat) /\ Len(f) = n + 1
    <3>1. \A i \in 1..(n + 1) : a[i] = IF i = n + 1 THEN r ELSE s[i]  BY <1>1
    <3>2. \A i \in 1..(n + 1) : i # n + 1 => i \in 1..n  BY <1>1
    <3>3. \A i \in 1..(n + 1) : a[i].version \in Nat  BY <1>2, <1>3, <3>1, <3>2
    <3> QED BY <1>1, <3>3
  <2> DEFINE last == <<r.version>>
             g == vs \o last
  <2>2. last \in Seq(Nat) /\ Len(last) = 1 /\ last[1] = r.version  BY <1>3
  <2> HIDE DEF last
  <2>3. /\ g \in Seq(Nat) /\ Len(g) = n + 1
        /\ \A i \in 1..(n + 1) : g[i] = IF i <= n THEN vs[i] ELSE last[i - n]
    <3> HIDE DEF vs
    <3>1. /\ vs \o last \in Seq(Nat) /\ Len(vs \o last) = Len(vs) + Len(last)
          /\ \A i \in 1..(Len(vs) + Len(last)) :
               (vs \o last)[i] = IF i <= Len(vs) THEN vs[i] ELSE last[i - Len(vs)]
      <4>1. vs \in Seq(Nat) /\ last \in Seq(Nat)  BY <1>6, <2>2
      <4> QED BY <4>1, ConcatProperties
    <3>2. Len(vs) = n /\ Len(last) = 1  BY <1>6, <2>2
    <3> QED BY <3>1, <3>2
  <2>4. ASSUME NEW i \in 1..(n + 1) PROVE g[i] = f[i]
    <3>1. CASE i \in 1..n
      <4>1. i <= n  BY <1>1, <3>1
      <4>2. g[i] = vs[i]
        <5> HIDE DEF g, vs
        <5> QED BY <2>3, <4>1
      <4> QED BY <1>1, <3>1, <4>2
    <3>2. CASE i = n + 1
      <4>1. ~(i <= n) /\ i - n = 1  BY <1>1, <3>2
      <4>2. g[i] = last[1]
        <5> HIDE DEF g, vs
        <5> QED BY <2>3, <4>1
      <4> QED BY <1>1, <2>2, <3>2, <4>2
    <3>3. n \in Nat  BY <1>1
    <3>4. i \in 1..n \/ i = n + 1  BY <3>3
    <3> QED BY <3>1, <3>2, <3>4
  <2> HIDE DEF g, f
  <2>5. g = f  BY <1>1, <2>1, <2>3, <2>4, SeqEqual
  <2> QED BY <2>5 DEF g, last
<1> QED BY <1>1, <1>4, <1>5, <1>7 DEF a, n

\* The list of the row r continues that of the row p with the elements of suffix
ExtendedBy(p, r, suffix) ==
  /\ p \in Row /\ p # NoRow /\ r \in Row /\ r # NoRow /\ p.val.list /\ r.val.list
  /\ Continues(p.val.els, r.val.els)
  /\ suffix \in Seq(DOMAIN Folded) /\ suffix # <<>>
  /\ IsRest(suffix, p.val.els, r.val.els)

\* ... and storage is extended by a record with them
ExtendsChain(suffix) ==
  /\ ~ReachesLimit(suffix) /\ records' = Inserted(Suffix(suffix), {})
  /\ chain' = [versions |-> chain.versions \o <<nextRec>>,
               bytes |-> chain.bytes + Len(suffix)]
  /\ nextRec' = nextRec + 1

\* Appending a suffix to a chain that holds p stores p extended by the suffix.
LEMMA AppendStores ==
  ASSUME TypeOK, NEW p, NEW r, NEW suffix,
         HoldsValue(p), ExtendedBy(p, r, suffix), ExtendsChain(suffix)
  PROVE  HoldsValue(r)'
<1> DEFINE F == DOMAIN Folded
           s == InOrder
           w == Suffix(suffix)
           a == Append(s, w)
           els == Head(s).val.els \o Joined(s)
<1>1. p.val \in Value /\ r.val \in Value /\ p.val.els \in Seq(F) /\ r.val.els \in Seq(F)
  BY DEF Row, Value, ExtendedBy
<1>2. suffix \in Seq(F) /\ suffix # <<>> /\ IsRest(suffix, p.val.els, r.val.els)
  BY DEF ExtendedBy
<1>3. /\ w \in Record /\ w.version = nextRec /\ ~w.full /\ w.val.els = suffix
      /\ nextRec \in Nat
  BY <1>2 DEF Suffix, Record, Value, TypeOK
<1>4. /\ s \in Seq(Record) /\ ToSet(s) = records /\ Sorted(s)
      /\ \A x \in records : x.version < nextRec
      /\ chain.versions = [i \in DOMAIN s |-> s[i].version]
  BY DEF HoldsValue, ChainKnown
<1>5. Reconstructed = Made(s) /\ ReadableAs(s) /\ s # <<>> /\ Appended = Joined(s)
  <2>1. /\ Appended = Joined(s) /\ Reconstructed = Made(s)
        /\ records = {} <=> s = <<>>
        /\ Readable <=> ReadableAs(s)
    <3> HIDE DEF s
    <3> QED BY <1>4, ReadAs
  <2>2. Readable /\ records # {}  BY DEF HoldsValue, ExtendedBy
  <2> QED BY <2>1, <2>2
<1>6. chain.bytes = Len(Joined(s))  BY <1>5 DEF HoldsValue, ChainKnown, ExtendedBy
<1>7. Equals(Made(s), p.val)  BY <1>5 DEF HoldsValue, ExtendedBy
<1> HIDE DEF s, w
<1>8. \A i \in DOMAIN s : s[i].version < w.version  BY <1>3, <1>4 DEF ToSet
<1>9. /\ a \in Seq(Record) /\ Sorted(a) /\ ToSet(a) = ToSet(s) \cup {w}
      /\ Len(a) = Len(s) + 1 /\ a[Len(s) + 1] = w /\ \A i \in 1..Len(s) : a[i] = s[i]
      /\ [i \in DOMAIN a |-> a[i].version]
           = [i \in DOMAIN s |-> s[i].version] \o <<w.version>>
  BY <1>3, <1>4, <1>8, OneMore
<1>10. Joined(a) = Joined(s) \o suffix  BY <1>3, <1>4, <1>5, JoinedMore
<1> HIDE DEF a
<1>11. ToSet(a) = records'
  <2>1. records' = {x \in {x \in records : x.version # nextRec} \cup {w} : x.version \notin {}}
    BY <1>3 DEF Inserted, w, ExtendsChain
  <2>2. \A x \in records : x.version # nextRec
    <3>1. \A x \in records : x.version \in Nat
      BY DEF TypeOK, Record
    <3> QED BY <1>3, <1>4, <3>1
  <2> QED BY <1>4, <1>9, <2>1, <2>2
<1>12. Len(s) \in Nat /\ Len(s) >= 1 /\ Head(s) = s[1] /\ s[1] \in Record
  BY <1>4, <1>5, LenProperties, EmptySeq, ElementOfSeq
<1>13. a # <<>> /\ Head(a) = Head(s)
  <2>1. a[1] = s[1] /\ Len(a) # 0  BY <1>9, <1>12
  <2>2. a # <<>>  BY <2>1
  <2>3. Head(a) = a[1]  BY <1>9, <2>2
  <2> QED BY <1>12, <2>1, <2>2, <2>3
<1>14. Joined(s) \in Seq(F) /\ Head(s).val.els \in Seq(F) /\ Head(s).val \in Value
  BY <1>4, <1>5, <1>12, JoinedType DEF Record, Value
<1>15. /\ Made(s).els = els /\ Made(s).list = Head(s).val.list
       /\ Made(a).els = Head(s).val.els \o (Joined(s) \o suffix)
       /\ Made(a).list = Head(s).val.list
  BY <1>10, <1>13, <1>14 DEF Made, Value
<1>16. Head(s).val.list = TRUE
  <2>1. Head(s).val.list \in BOOLEAN /\ p.val.list \in BOOLEAN  BY <1>1, <1>14 DEF Value
  <2>2. p.val.list = TRUE  BY <2>1 DEF ExtendedBy
  <2> QED BY <1>7, <1>15, <2>2 DEF Equals
<1> HIDE DEF F
<1>17. els \in Seq(F) /\ Len(els) = Len(p.val.els)
       /\ \A i \in DOMAIN els : Folded[els[i]] = Folded[p.val.els[i]]
  <2>1. els \in Seq(F)  BY <1>14, Glued
  <2> QED BY <1>7, <1>15, <2>1 DEF Equals
<1>18. Head(s).val.els \o (Joined(s) \o suffix) = els \o suffix
  <2> DEFINE h == Head(s).val.els
             j == Joined(s)
  <2>1. h \in Seq(F) /\ j \in Seq(F) /\ suffix \in Seq(F)  BY <1>2, <1>14 DEF F
  <2> HIDE DEF h, j
  <2>2. (h \o j) \o suffix = h \o (j \o suffix)  BY <2>1, ConcatAssociative
  <2> QED BY <2>2 DEF h, j
<1> HIDE DEF els
<1>19. /\ els \o suffix \in Seq(F) /\ Len(els \o suffix) = Len(r.val.els)
       /\ \A i \in 1..Len(r.val.els) : Folded[(els \o suffix)[i]] = Folded[r.val.els[i]]
  <2> DEFINE new == r.val.els
             old == p.val.els
  <2>1. /\ new \in Seq(F) /\ old \in Seq(F) /\ Continues(old, new) /\ suffix \in Seq(F)
        /\ IsRest(suffix, old, new) /\ Matches(els, old)
    BY <1>1, <1>2, <1>17 DEF ExtendedBy, Matches
  <2> HIDE DEF new, old
  <2>2. /\ els \o suffix \in Seq(F) /\ Len(els \o suffix) = Len(new)
        /\ \A i \in 1..Len(new) : Folded[(els \o suffix)[i]] = Folded[new[i]]
    <3>1. els \in Seq(F)  BY <1>17
    <3> HIDE DEF Continues
    <3> QED BY <2>1, <3>1, SuffixCompletes
  <2> QED BY <2>1, <2>2 DEF new
<1>20. Equals(Made(a), r.val)
  <2>1. Made(a).els = els \o suffix /\ Made(a).list = TRUE  BY <1>15, <1>16, <1>18
  <2>2. r.val.list = TRUE  BY <1>1 DEF Value, ExtendedBy
  <2>3. DOMAIN (els \o suffix) = 1..Len(r.val.els)  BY <1>19, LenProperties
  <2> QED BY <1>19, <2>1, <2>2, <2>3 DEF Equals
<1>21. Len(Joined(a)) = Len(Joined(s)) + Len(suffix)
       /\ Len(Joined(s)) \in Nat /\ Len(suffix) \in Nat
  BY <1>2, <1>10, <1>14, Glued, LenProperties
<1>22. ReadableAs(a)
  <2>1. Len(chain.versions) = Len(s)
    <3>1. \A i \in 1..Len(s) : s[i] \in Record /\ s[i].version \in Nat
      <4>1. \A i \in 1..Len(s) : s[i] \in Record  BY <1>4, ElementOfSeq
      <4>2. \A x \in Record : x.version \in Nat  BY DEF Record
      <4> QED BY <4>1, <4>2
    <3>2. DOMAIN s = 1..Len(s)  BY <1>4, LenProperties
    <3> QED BY <1>4, <1>12, <3>1, <3>2
  <2>2. ~(Len(s) >= MAX_RECORDS) /\ ~(Len(Joined(s)) + Len(suffix) > MAX_APPEND_BYTES)
    BY <1>6, <2>1 DEF ReachesLimit, ExtendsChain
  <2>3. MAX_RECORDS \in Nat \ {0} /\ MAX_APPEND_BYTES \in Nat  BY ContentsAssumption
  <2>4. Len(a) <= MAX_RECORDS /\ Len(Joined(a)) <= MAX_APPEND_BYTES
    BY <1>9, <1>12, <1>21, <2>2, <2>3
  <2>5. Head(a).full  BY <1>5, <1>13 DEF ReadableAs
  <2>6. ASSUME NEW i \in 2..Len(a) PROVE ~a[i].full /\ a[i].val.els # <<>>
    <3>1. CASE i = Len(s) + 1  BY <1>2, <1>3, <1>9, <3>1
    <3>2. CASE i # Len(s) + 1
      <4>1. i \in 2..Len(s) /\ i \in 1..Len(s)  BY <1>9, <1>12, <3>2
      <4>2. ~s[i].full /\ s[i].val.els # <<>>  BY <1>5, <4>1 DEF ReadableAs
      <4> QED BY <1>9, <4>1, <4>2
    <3> QED BY <3>1, <3>2
  <2> QED BY <1>13, <1>16, <2>4, <2>5, <2>6 DEF ReadableAs
<1>23. chain'.versions = chain.versions \o <<nextRec>>
       /\ chain'.bytes = chain.bytes + Len(suffix)
       /\ chain' = [versions |-> chain'.versions, bytes |-> chain'.bytes]
       /\ nextRec' = nextRec + 1
  BY DEF ExtendsChain
<1>24. /\ chain'.versions = [i \in DOMAIN a |-> a[i].version]
       /\ chain'.bytes = IF a = <<>> THEN 0 ELSE Len(Joined(a))
       /\ \A i \in DOMAIN a : a[i].version < nextRec'
  <2>1. \A i \in DOMAIN a : a[i].version < nextRec'
    <3>1. DOMAIN a = 1..(Len(s) + 1) /\ DOMAIN s = 1..Len(s)  BY <1>4, <1>9, LenProperties
    <3>2. SUFFICES ASSUME NEW i \in 1..(Len(s) + 1) PROVE a[i].version < nextRec'
      BY <3>1
    <3>3. CASE i = Len(s) + 1  BY <1>3, <1>9, <1>23, <3>3
    <3>4. CASE i # Len(s) + 1
      <4>1. i \in 1..Len(s)  BY <1>12, <3>4
      <4>2. a[i] \in Record /\ a[i] = s[i] /\ s[i].version < nextRec
        BY <1>3, <1>4, <1>8, <1>9, <3>1, <4>1, ElementOfSeq
      <4>3. a[i].version \in Nat  BY <4>2 DEF Record
      <4> QED BY <1>3, <1>23, <4>2, <4>3
    <3> QED BY <3>3, <3>4
  <2> QED BY <1>3, <1>4, <1>6, <1>9, <1>13, <1>21, <1>23, <2>1
<1>25. ChainKnown' /\ Readable'  BY <1>9, <1>11, <1>22, <1>24, Leaves
<1>26. Reconstructed' = Made(a) /\ records' # {}  BY <1>9, <1>11, <1>13, ReadAsNext
<1>27. records' \in SUBSET Record  BY <1>3, <1>4, <1>9, <1>11 DEF TypeOK
<1>28. chain' \in [versions : Seq(Nat), bytes : Nat] /\ nextRec' \in Nat
  <2>1. chain.versions \in Seq(Nat) /\ chain.bytes \in Nat  BY DEF TypeOK
  <2>2. <<nextRec>> \in Seq(Nat)  BY <1>3
  <2>3. chain.versions \o <<nextRec>> \in Seq(Nat)  BY <2>1, <2>2, ConcatProperties
  <2>4. chain.bytes + Len(suffix) \in Nat  BY <1>21, <2>1
  <2>5. chain'.versions \in Seq(Nat) /\ chain'.bytes \in Nat /\ nextRec' \in Nat
    BY <1>3, <1>23, <2>3, <2>4
  <2> QED BY <1>23, <2>5
<1>29. r # NoRow  BY DEF ExtendedBy
<1> QED BY <1>29, <1>20, <1>25, <1>26, <1>27, <1>28 DEF HoldsValue, Equals

\* Storing the next batch makes storage hold the value of its version
LEMMA PersistStores ==
  ASSUME ContentsInv, stored < version, batch[stored + 1] # NoBatch,
         NEW m, m = batch[stored + 1].mutation, PersistProperty(m),
         NEW r, r = history[stored + 1]
  PROVE  r \in Row /\ HoldsValue(r)'
<1> DEFINE v == stored + 1
<1>1. /\ TypeOK /\ ChainKnown /\ scenario \in Scenarios
      /\ MaxVersion \in Nat /\ stored \in Nat /\ version \in Nat /\ version <= MaxVersion
  BY ScenarioTypes DEF ContentsInv, TypeOK
<1>2. v \in 1..MaxVersion /\ v \in 0..MaxVersion /\ v - 1 = stored /\ stored \in 0..MaxVersion
  BY <1>1
<1>3. m \in Change /\ Does(m, v)
  BY <1>2 DEF ContentsInv, ChangesLinked, TypeOK
<1>4. PICK p : p = history[stored]  OBVIOUS
<1>5. p \in Row /\ r \in Row /\ p.val \in Value /\ r.val \in Value
  BY <1>2, <1>4 DEF ContentsInv, TypeOK, Row
<1>6. HoldsValue(p)  BY <1>4 DEF ContentsInv, TypeOK, StoredIsPublished, HoldsValue
<1>7. m.kind \in {"replace", "append"} => r # NoRow /\ r.val = m.val
  <2>1. NoRow.at = -1  BY DEF NoRow, None
  <2> QED BY <1>1, <1>3, <2>1 DEF Does
<1>8. CASE m.kind = "none" /\ UNCHANGED <<records, writerVars>>
  <2>1. r = p  BY <1>2, <1>3, <1>4, <1>8 DEF Does
  <2>2. records' = records /\ chain' = chain /\ nextRec' = nextRec
    BY <1>8 DEF writerVars
  <2>3. InOrder' = InOrder /\ Appended' = Appended /\ Reconstructed' = Reconstructed
    BY <2>2 DEF InOrder, Appended, Reconstructed, Joined
  <2>4. ChainKnown'  BY <1>1, <2>2, <2>3 DEF ChainKnown, Sorted
  <2>5. Readable'  BY <1>6, <2>2, <2>3 DEF HoldsValue, Readable
  <2> QED BY <1>5, <1>6, <2>1, <2>2, <2>3, <2>4, <2>5 DEF HoldsValue, Equals
<1>9. CASE m.kind \in {"replace", "append"} /\ Replace(m.val)
  <2>1. r # NoRow /\ r.val = m.val  BY <1>7, <1>9
  <2>2. PICK x : x = m.val  OBVIOUS
  <2>3. x \in Value /\ r.val = x /\ Replace(x)  BY <1>5, <1>9, <2>1, <2>2
  <2> QED BY <1>1, <1>5, <2>1, <2>3, ReplaceStores
<1>10. CASE /\ m.kind = "append" /\ ~ReachesLimit(m.suffix)
            /\ records' = Inserted(Suffix(m.suffix), {})
            /\ chain' = [versions |-> chain.versions \o <<nextRec>>,
                         bytes |-> chain.bytes + Len(m.suffix)]
            /\ nextRec' = nextRec + 1
  <2>1. PICK suffix : suffix = m.suffix  OBVIOUS
  <2>2. /\ p # NoRow /\ p.val.list /\ r.val.list /\ r # NoRow
        /\ Continues(p.val.els, r.val.els)
        /\ suffix = SubSeq(r.val.els, Len(p.val.els) + 1, Len(r.val.els))
    BY <1>2, <1>3, <1>4, <1>7, <1>10, <2>1 DEF Does
  <2>3. ExtendsChain(suffix)  BY <1>10, <2>1 DEF ExtendsChain
  <2> DEFINE F == DOMAIN Folded
             old == p.val.els
             new == r.val.els
  <2>4. old \in Seq(F) /\ new \in Seq(F)  BY <1>5 DEF Value
  <2> HIDE DEF F
  <2>5. Len(old) < Len(new)
    <3>1. Len(new) > Len(old)  BY <2>2 DEF Continues
    <3>2. Len(new) \in Nat /\ Len(old) \in Nat  BY <2>4, LenProperties
    <3> QED BY <3>1, <3>2
  <2>6. suffix \in Seq(F) /\ suffix # <<>> /\ IsRest(suffix, old, new)
    <3>1. suffix = SubSeq(new, Len(old) + 1, Len(new))  BY <2>2
    <3> HIDE DEF old, new
    <3>2. LET rest == SubSeq(new, Len(old) + 1, Len(new)) IN
            /\ rest \in Seq(F) /\ rest # <<>> /\ Len(rest) = Len(new) - Len(old)
            /\ \A i \in 1..(Len(new) - Len(old)) : rest[i] = new[Len(old) + i]
      BY <2>4, <2>5, RestOf
    <3> QED BY <3>1, <3>2 DEF IsRest
  <2>7. ExtendedBy(p, r, suffix)  BY <1>5, <2>2, <2>6 DEF ExtendedBy, F
  <2> QED BY <1>1, <1>5, <1>6, <2>3, <2>7, AppendStores
<1>11. CASE /\ m.kind = "delete"
            /\ records' = {x \in records : x.version \notin ToSet(chain.versions)}
            /\ chain' = NoChain /\ nextRec' = nextRec + 1
  <2>1. r = NoRow  BY <1>3, <1>11 DEF Does
  <2>2. HoldsValue(NoRow)'  BY <1>1, <1>11, DeleteStores
  <2> QED BY <1>5, <2>1, <2>2 DEF HoldsValue
<1> QED BY <1>8, <1>9, <1>10, <1>11 DEF PersistProperty

\* Storing the next batch makes storage hold the row of its version.
LEMMA StoreStep ==
  ASSUME ContentsInv, scenario' = scenario, Store
  PROVE  ContentsInv'
<1> DEFINE v == stored + 1
<1>1. /\ TypeOK /\ ChainKnown /\ scenario \in Scenarios
      /\ MaxVersion \in Nat /\ stored \in Nat /\ version \in Nat /\ version <= MaxVersion
      /\ stored < version /\ batch[v] # NoBatch
  BY ScenarioTypes DEF ContentsInv, TypeOK, Store
<1>2. v \in 1..MaxVersion /\ v <= version /\ v \in Nat  BY <1>1
<1>3. MaxVersion' = MaxVersion /\ Transaction' = Transaction /\ Own' = Own
  BY DEF MaxVersion, Transaction, Own
<1>4. /\ value' = value /\ dirty' = dirty /\ tx' = tx /\ version' = version
      /\ world' = world /\ row' = row /\ stored' = v
      /\ batch' = [batch EXCEPT ![v] = NoBatch]
      /\ history' = [history EXCEPT ![stored] = NoRow]
      /\ diskObjs' = IF batch[v].id = None THEN diskObjs ELSE diskObjs \cup {batch[v].id}
      /\ diskSeq' = IF batch[v].seq = None THEN diskSeq ELSE batch[v].seq
  BY DEF Store, sequenceVars
<1>5. PICK r : r = history[v]  OBVIOUS
<1>6. r \in Row /\ HoldsValue(r)'
  <2>1. PICK m : m = batch[v].mutation /\ PersistProperty(m)  BY DEF Store
  <2> QED BY <1>1, <1>5, <2>1, PersistStores
<1>7. /\ batch \in [1..MaxVersion -> [id : Number, seq : Number, mutation : Change]]
      /\ history \in [0..MaxVersion -> Row]
  BY <1>1 DEF TypeOK
<1>8. \A u \in 1..MaxVersion : batch'[u] = IF u = v THEN NoBatch ELSE batch[u]
  BY <1>2, <1>4, <1>7
<1>9. \A u \in 0..MaxVersion : history'[u] = IF u = stored THEN NoRow ELSE history[u]
  BY <1>1, <1>4, <1>7
<1>10. TypeOK'
  <2>1. batch' \in [1..MaxVersion -> [id : Number, seq : Number, mutation : Change]]
    BY <1>1, <1>4, <1>7, NothingTypes
  <2>2. history' \in [0..MaxVersion -> Row]  BY <1>1, <1>4, <1>7, NothingTypes
  <2>3. diskObjs' \in SUBSET (0..MaxNumber) /\ diskSeq' \in Number
    <3>1. batch[v].id \in Number /\ batch[v].seq \in Number  BY <1>2, <1>7
    <3>2. batch[v].id # None => batch[v].id \in 0..MaxNumber
      BY <1>1, <3>1, ScenarioTypes DEF Number, None
    <3>3. diskObjs \in SUBSET (0..MaxNumber) /\ diskSeq \in Number  BY <1>1 DEF TypeOK
    <3> QED BY <1>4, <3>1, <3>2, <3>3
  <2>4. /\ records' \in SUBSET Record /\ chain' \in [versions : Seq(Nat), bytes : Nat]
        /\ nextRec' \in Nat
    BY <1>6 DEF HoldsValue
  <2>5. stored' \in 0..version  BY <1>1, <1>2, <1>4
  <2> QED BY <1>1, <1>3, <1>4, <2>1, <2>2, <2>3, <2>4, <2>5 DEF TypeOK
<1>11. \A t \in Thread : Pending(t)' <=> Pending(t)  BY <1>4 DEF Pending
<1>12. ASSUME NEW t \in Thread, Pending(t)
       PROVE  /\ v < tx[t].version /\ tx[t].version <= version
              /\ tx[t].version \in 1..MaxVersion /\ batch[tx[t].version] = NoBatch
  <2>1. /\ stored < tx[t].version /\ tx[t].version <= version
        /\ batch[tx[t].version] = NoBatch
    BY <1>12 DEF ContentsInv, BatchesInPlace
  <2>2. tx[t].version \in Int  BY <1>1 DEF TypeOK, Transaction, None
  <2>3. tx[t].version # v  BY <1>1, <2>1
  <2> QED BY <1>1, <2>1, <2>2, <2>3
<1>13. BatchesInPlace'
  <2>1. \A u \in 1..MaxVersion : batch'[u] # NoBatch => v < u /\ u <= version
    <3>1. \A u \in 1..MaxVersion : batch[u] # NoBatch => stored < u /\ u <= version
      BY DEF ContentsInv, BatchesInPlace
    <3> QED BY <1>1, <1>8, <3>1
  <2>2. ASSUME NEW t \in Thread, Pending(t)
        PROVE  v < tx[t].version /\ tx[t].version <= version /\ batch'[tx[t].version] = NoBatch
    BY <1>8, <1>12, <2>2
  <2>3. \A t, u \in Thread : Pending(t) /\ Pending(u) /\ tx[t].version = tx[u].version => t = u
    BY DEF ContentsInv, BatchesInPlace
  <2> HIDE DEF Pending, v
  <2> QED BY <1>3, <1>4, <1>11, <2>1, <2>2, <2>3 DEF BatchesInPlace
<1>14. RowsDated'
  <2>1. history'[version] = row
    <3>1. version \in 0..MaxVersion /\ version # stored  BY <1>1
    <3> QED BY <1>9, <3>1 DEF ContentsInv, RowsDated
  <2> QED BY <1>3, <1>4, <2>1 DEF ContentsInv, RowsDated, Dated
<1>15. \A u \in 1..MaxVersion : v < u =>
         history'[u] = history[u] /\ history'[u - 1] = history[u - 1]
  BY <1>1, <1>9
<1>16. ChangesLinked'
  <2>1. ASSUME NEW t \in Thread, Pending(t)
        PROVE  Did(tx[t].op, tx[t].base, tx[t].version)'
    <3>1. Did(tx[t].op, tx[t].base, tx[t].version)  BY <2>1 DEF ContentsInv, ChangesLinked
    <3>2. /\ history'[tx[t].version] = history[tx[t].version]
          /\ history'[tx[t].version - 1] = history[tx[t].version - 1]
      BY <1>12, <1>15, <2>1
    <3> QED BY <1>4, <3>1, <3>2 DEF Did
  <2>2. ASSUME NEW u \in 1..MaxVersion, batch'[u] # NoBatch
        PROVE  Does(batch[u].mutation, u)'
    <3>1. batch'[u] = batch[u] /\ batch[u] # NoBatch  BY <1>8, <2>2
    <3>2. Does(batch[u].mutation, u)  BY <3>1 DEF ContentsInv, ChangesLinked
    <3>3. v < u
      <4>1. stored < u /\ u # v  BY <1>8, <2>2, <3>1 DEF ContentsInv, BatchesInPlace
      <4> QED BY <1>1, <4>1
    <3>4. history'[u] = history[u] /\ history'[u - 1] = history[u - 1]
      BY <1>15, <3>3
    <3> QED BY <3>1, <3>2, <3>4 DEF Does
  <2> QED BY <1>3, <1>11, <2>1, <2>2 DEF ChangesLinked
<1>17. ChainKnown'  BY <1>6 DEF HoldsValue
<1>18. StoredIsPublished'
  <2>1. history'[v] = r
    <3>1. v \in 0..MaxVersion /\ v # stored  BY <1>1, <1>2
    <3> QED BY <1>5, <1>9, <3>1
  <2>2. ASSUME v < version, batch'[v + 1].mutation.kind = "append" PROVE chain' # NoChain
    <3>1. v + 1 \in 1..MaxVersion /\ v + 1 # v  BY <1>1, <1>2, <2>2
    <3>2. batch'[v + 1] = batch[v + 1]  BY <1>8, <3>1
    <3>3. batch[v + 1] # NoBatch  BY <2>2, <3>2 DEF NoBatch, NoMutation
    <3>4. Does(batch[v + 1].mutation, v + 1)  BY <3>1, <3>3 DEF ContentsInv, ChangesLinked
    <3>5. (v + 1) - 1 = v  BY <1>2
    <3>6. history[v] # NoRow  BY <2>2, <3>2, <3>4, <3>5 DEF Does
    <3>7. records' # {}  BY <1>5, <1>6, <3>6 DEF HoldsValue
    <3>8. chain' = NoChain <=> records' = {}
      <4>1. chain' \in [versions : Seq(Nat), bytes : Nat]  BY <1>6 DEF HoldsValue
      <4>2. CASE records' # {}
        <5>1. /\ ToSet(InOrder') = records' /\ InOrder' \in Seq(Record)
              /\ chain'.versions = [i \in DOMAIN InOrder' |-> InOrder'[i].version]
          BY <1>17 DEF ChainKnown
        <5>2. InOrder' # <<>>
          <6>1. PICK s : s = InOrder'  OBVIOUS
          <6> QED BY <4>2, <5>1, <6>1, EmptyIsEmpty
        <5>3. 1 \in DOMAIN InOrder'  BY <5>1, <5>2
        <5>4. chain'.versions # <<>>  BY <5>1, <5>3
        <5> QED BY <4>2, <5>4 DEF NoChain
      <4> QED BY <3>7, <4>2
    <3> QED BY <3>7, <3>8
  <2>3. /\ Readable' /\ (records' = {} <=> r = NoRow)
        /\ records' # {} => Equals(Reconstructed', r.val)
    BY <1>6 DEF HoldsValue, Equals
  <2> HIDE DEF v
  <2> QED BY <1>4, <2>1, <2>2, <2>3 DEF StoredIsPublished, Equals
<1> QED BY <1>10, <1>13, <1>14, <1>16, <1>17, <1>18 DEF ContentsInv

-----------------------------------------------------------------------------
\* Opening the database

\* What is read is a value, and nothing in storage has a later version than the last
LEMMA ReadFacts ==
  ASSUME TypeOK, ChainKnown, records # {}
  PROVE  /\ Reconstructed \in Value /\ Len(Appended) \in Nat
         /\ [i \in DOMAIN InOrder |-> InOrder[i].version] \in Seq(Nat)
         /\ Last(InOrder).version \in Nat
         /\ \A x \in records : x.version <= Last(InOrder).version
<1> DEFINE s == InOrder
           n == Len(s)
           F == DOMAIN Folded
<1>1. s \in Seq(Record) /\ ToSet(s) = records /\ Sorted(s)  BY DEF ChainKnown
<1> HIDE DEF s
<1>2. s # <<>> /\ Appended = Joined(s) /\ Reconstructed = Made(s)  BY <1>1, ReadAs
<1>3. /\ n \in Nat /\ n >= 1 /\ Head(s) = s[1] /\ s[1] \in Record /\ DOMAIN s = 1..n
      /\ s[n] \in Record
  BY <1>1, <1>2, LenProperties, EmptySeq, ElementOfSeq
<1>4. \A i \in 1..n : s[i] \in Record  BY <1>1, ElementOfSeq
<1>5. \A x \in Record : x.version \in Nat /\ x.val \in Value  BY DEF Record
<1> HIDE DEF n
<1>6. Made(s) \in Value
  <2>1. Head(s).val \in Value /\ Head(s).val.els \in Seq(F)  BY <1>3, <1>5 DEF Value
  <2>2. Joined(s) \in Seq(F)  BY <1>1, <1>2, JoinedType
  <2>3. Head(s).val.els \o Joined(s) \in Seq(F)
    <3> HIDE DEF F
    <3> QED BY <2>1, <2>2, Glued
  <2> QED BY <2>1, <2>3 DEF Made, Value
<1>7. Len(Joined(s)) \in Nat  BY <1>1, <1>2, JoinedType
<1>8. [i \in 1..n |-> s[i].version] \in Seq(Nat)
  <2>1. \A i \in 1..n : s[i].version \in Nat  BY <1>4, <1>5
  <2> QED BY <1>3, <2>1
<1>9. Last(s) = s[n]  BY DEF Last, n
<1>10. ASSUME NEW x \in records PROVE x.version <= s[n].version
  <2>1. PICK i \in 1..n : x = s[i]  BY <1>1, <1>3 DEF ToSet
  <2>2. CASE i = n
    <3>1. x = s[n] /\ s[n].version \in Nat  BY <1>3, <1>5, <2>1, <2>2
    <3> QED BY <3>1
  <2>3. CASE i < n
    <3>1. s[i].version < s[n].version  BY <1>1, <1>3, <2>1, <2>3 DEF Sorted
    <3>2. s[i].version \in Nat /\ s[n].version \in Nat  BY <1>3, <1>4, <1>5
    <3> QED BY <2>1, <3>1, <3>2
  <2>4. i = n \/ i < n  BY <1>3
  <2> QED BY <2>2, <2>3, <2>4
<1>11. s[n].version \in Nat  BY <1>3, <1>5
<1> QED BY <1>2, <1>3, <1>6, <1>7, <1>8, <1>9, <1>10, <1>11 DEF s

\* A restart continues from the row and the chain that storage holds.
LEMMA ReopenStep ==
  ASSUME ContentsInv, scenario' = scenario, Reopen
  PROVE  ContentsInv'
<1>1. /\ TypeOK /\ ChainKnown /\ scenario \in Scenarios /\ MaxVersion \in Nat
  BY ScenarioTypes DEF ContentsInv, TypeOK
<1>2. MaxVersion' = MaxVersion /\ Transaction' = Transaction /\ Own' = Own
  BY DEF MaxVersion, Transaction, Own
<1>3. /\ Readable /\ value' = diskSeq /\ dirty' = FALSE /\ tx' = [t \in Thread |-> NoTx]
      /\ world' = diskObjs /\ diskSeq' = diskSeq /\ diskObjs' = diskObjs
      /\ records' = records /\ stored' = 0 /\ version' = 0
      /\ batch' = [v \in 1..MaxVersion |-> NoBatch]
      /\ history' = [v \in 0..MaxVersion |-> IF v = 0 THEN row' ELSE NoRow]
  BY DEF Reopen
<1>4. row' = IF records = {} THEN NoRow ELSE [at |-> 0, val |-> Reconstructed]
  BY DEF Reopen
<1>5. InOrder' = InOrder /\ Appended' = Appended /\ Reconstructed' = Reconstructed
  BY <1>3 DEF InOrder, Appended, Reconstructed, Joined
<1>6. row' \in Row /\ (row' = NoRow <=> records = {})
  <2>1. CASE records = {}  BY <1>1, <1>4, <2>1, NothingTypes
  <2>2. CASE records # {}
    <3>1. row' = [at |-> 0, val |-> Reconstructed]  BY <1>4, <2>2
    <3>2. Reconstructed \in Value  BY <1>1, <2>2, ReadFacts
    <3>3. row'.at = 0 /\ NoRow.at = -1  BY <3>1 DEF NoRow, None
    <3> QED BY <2>2, <3>1, <3>2, <3>3 DEF Row
  <2> QED BY <2>1, <2>2
<1>7. /\ chain' = IF records = {} THEN NoChain
                  ELSE [versions |-> [i \in DOMAIN InOrder |-> InOrder[i].version],
                        bytes |-> Len(Appended)]
      /\ nextRec' = IF records = {} THEN 1 ELSE Last(InOrder).version + 1
  BY DEF Reopen
<1>8. chain' \in [versions : Seq(Nat), bytes : Nat] /\ nextRec' \in Nat
  BY <1>1, <1>7, NothingTypes, ReadFacts
<1>9. TypeOK'
  <2>1. tx' \in [Thread -> Transaction]  BY <1>1, <1>3, NothingTypes
  <2>2. batch' \in [1..MaxVersion -> [id : Number, seq : Number, mutation : Change]]
    BY <1>1, <1>3, NothingTypes
  <2>3. history' \in [0..MaxVersion -> Row]  BY <1>1, <1>3, <1>6, NothingTypes
  <2>4. /\ dirty' \in BOOLEAN /\ value' \in Number /\ diskSeq' \in Number
        /\ world' \in SUBSET (0..MaxNumber) /\ diskObjs' \in SUBSET (0..MaxNumber)
        /\ records' \in SUBSET Record /\ scenario' \in Scenarios
    BY <1>1, <1>3 DEF TypeOK
  <2>5. version' \in 0..MaxVersion  BY <1>1, <1>3
  <2>6. stored' \in 0..version'  BY <1>3
  <2> QED BY <1>2, <1>6, <1>8, <2>1, <2>2, <2>3, <2>4, <2>5, <2>6 DEF TypeOK
<1>10. \A t \in Thread : tx'[t] = NoTx /\ ~Pending(t)'
  BY <1>3 DEF Pending, NoTx
<1>11. \A v \in 1..MaxVersion : batch'[v] = NoBatch  BY <1>3
<1>12. history'[0] = row'  BY <1>1, <1>3
<1>13. BatchesInPlace'
  <2> HIDE DEF Pending
  <2> QED BY <1>2, <1>10, <1>11 DEF BatchesInPlace
<1>14. RowsDated'
  <2>1. row' = NoRow \/ (0 <= row'.at /\ row'.at <= 0)  BY <1>4
  <2>2. NoTx.base = NoRow /\ NoTx.pc = "idle" /\ NoTx.op.kind = "none"
    BY DEF NoTx, NoOp
  <2>3. Dated(row)' /\ \A t \in Thread : Dated(tx[t].base)'
    BY <1>3, <1>10, <2>1, <2>2 DEF Dated
  <2> QED BY <1>3, <1>10, <1>12, <2>2, <2>3 DEF RowsDated
<1>15. ChangesLinked'
  <2> HIDE DEF Pending
  <2> QED BY <1>2, <1>10, <1>11 DEF ChangesLinked
<1>16. ChainKnown'
  <2>1. \A r \in records : r.version < nextRec'
    <3> SUFFICES ASSUME NEW r \in records PROVE r.version < nextRec'  OBVIOUS
    <3>1. r.version <= Last(InOrder).version /\ Last(InOrder).version \in Nat
      BY <1>1, ReadFacts
    <3>2. r.version \in Nat  BY <1>1 DEF TypeOK, Record
    <3> QED BY <1>7, <3>1, <3>2
  <2>2. chain'.versions = [i \in DOMAIN InOrder |-> InOrder[i].version]
    <3>1. CASE records = {}
      <4>1. InOrder = <<>>  BY <1>1, <3>1, EmptyIsEmpty DEF ChainKnown
      <4>2. chain'.versions = <<>>  BY <1>7, <3>1 DEF NoChain
      <4> QED BY <4>1, <4>2
    <3>2. CASE records # {}  BY <1>7, <3>2
    <3> QED BY <3>1, <3>2
  <2>3. chain'.bytes = IF records = {} THEN 0 ELSE Len(Appended)
    BY <1>7 DEF NoChain
  <2> QED BY <1>1, <1>3, <1>5, <2>1, <2>2, <2>3 DEF ChainKnown, Sorted
<1>17. StoredIsPublished'
  <2>1. Readable'  BY <1>3, <1>5 DEF Readable
  <2>2. records # {} => Equals(Reconstructed, row'.val)  BY <1>4 DEF Equals
  <2>3. records' = {} <=> history'[stored'] = NoRow  BY <1>3, <1>6, <1>12
  <2>4. records' # {} => Equals(Reconstructed', history'[stored'].val)
    BY <1>3, <1>5, <1>12, <2>2
  <2>5. ~(stored' < version')  BY <1>3
  <2> QED BY <2>1, <2>3, <2>4, <2>5 DEF StoredIsPublished, Equals
<1> QED BY <1>9, <1>13, <1>14, <1>15, <1>16, <1>17 DEF ContentsInv

-----------------------------------------------------------------------------
\* The invariant

\* An empty database satisfies the invariant.
LEMMA ContentsInit == Init => ContentsInv
<1> SUFFICES ASSUME Init PROVE ContentsInv  OBVIOUS
<1>1. scenario \in Scenarios /\ MaxVersion \in Nat  BY ScenarioTypes DEF Init
<1>2. records = {} /\ InOrder = <<>> /\ Readable /\ ChainKnown
  <2>1. records = {} /\ chain = NoChain  BY DEF Init
  <2> DEFINE s == <<>>
  <2>2. s \in Seq(Record) /\ ToSet(s) = records /\ Sorted(s) /\ ReadableAs(s)
    BY <2>1 DEF ToSet, Sorted, ReadableAs
  <2> HIDE DEF s
  <2>3. InOrder = s /\ Readable  BY <2>2, ReadAs
  <2>4. InOrder = <<>>  BY <2>3 DEF s
  <2>5. ChainKnown  BY <2>1, <2>2, <2>3, <2>4 DEF ChainKnown, NoChain
  <2> QED BY <2>1, <2>3, <2>4, <2>5
<1>3. TypeOK
  <2>1. /\ NoTx \in Transaction /\ NoRow \in Row /\ None \in Number
        /\ NoBatch \in [id : Number, seq : Number, mutation : Change]
        /\ NoChain \in [versions : Seq(Nat), bytes : Nat]
    BY <1>1, NothingTypes, ScenarioTypes
  <2>2. tx \in [Thread -> Transaction]  BY <2>1 DEF Init
  <2>3. batch \in [1..MaxVersion -> [id : Number, seq : Number, mutation : Change]]
    BY <2>1 DEF Init
  <2>4. history \in [0..MaxVersion -> Row]  BY <2>1 DEF Init
  <2>5. version \in 0..MaxVersion /\ stored \in 0..version  BY <1>1 DEF Init
  <2>6. /\ value \in Number /\ dirty \in BOOLEAN /\ diskSeq \in Number /\ row \in Row
        /\ world = {} /\ diskObjs = {} /\ records = {} /\ nextRec \in Nat
        /\ chain \in [versions : Seq(Nat), bytes : Nat]
    BY <2>1 DEF Init
  <2> QED BY <1>1, <2>2, <2>3, <2>4, <2>5, <2>6 DEF TypeOK
<1>4. \A t \in Thread : tx[t] = NoTx /\ ~Pending(t)  BY DEF Init, Pending, NoTx
<1>5. \A v \in 1..MaxVersion : batch[v] = NoBatch  BY DEF Init
<1>6. version = 0 /\ stored = 0 /\ row = NoRow /\ history[0] = NoRow  BY <1>1 DEF Init
<1>7. BatchesInPlace
  <2> HIDE DEF Pending
  <2> QED BY <1>4, <1>5 DEF BatchesInPlace
<1>8. RowsDated  BY <1>4, <1>6 DEF RowsDated, Dated, NoTx, NoOp
<1>9. ChangesLinked
  <2> HIDE DEF Pending
  <2> QED BY <1>4, <1>5 DEF ChangesLinked
<1>10. StoredIsPublished  BY <1>2, <1>6 DEF StoredIsPublished
<1> QED BY <1>2, <1>3, <1>7, <1>8, <1>9, <1>10 DEF ContentsInv

\* Every step keeps the invariant.
LEMMA ContentsStep ==
  ASSUME ContentsInv, [Next]_vars
  PROVE  ContentsInv'
<1>1. CASE Next
  <2>1. scenario' = scenario  BY <1>1 DEF Next
  <2>2. ASSUME NEW t \in scenario.threads, ThreadStep(t) PROVE ContentsInv'
    <3>1. CASE LoadAndWrite(t)
      <4>1. value \in Number /\ Write(t, value) /\ Pending(t)
        BY <3>1 DEF LoadAndWrite, Pending, ContentsInv, TypeOK
      <4> QED BY <2>1, <4>1, WriteStep
    <3>2. CASE WriteOnly(t)
      <4>1. None \in Number /\ Write(t, None) /\ Pending(t)
        BY <3>2, ScenarioTypes DEF WriteOnly, Pending, ContentsInv, TypeOK
      <4> QED BY <2>1, <4>1, WriteStep
    <3>3. CASE \E n \in scenario.explicit : UpdateMax(t, n)  BY <2>1, <3>3, UpdateMaxStep
    <3>4. CASE \E v \in scenario.values, hint \in BOOLEAN : SetProperty(t, v, hint)
      BY <2>1, <3>4, SetPropertyStep
    <3> QED BY <2>1, <2>2, <3>1, <3>2, <3>3, <3>4, BeginStep, IncrementStep, MarkStep,
               ClearPropertyStep, AbandonStep, PublishStep DEF ThreadStep
  <2>3. CASE Store  BY <2>1, <2>3, StoreStep
  <2>4. CASE StopAndReopen \/ CrashAndReopen
    BY <2>1, <2>4, ReopenStep DEF StopAndReopen, CrashAndReopen
  <2> QED BY <1>1, <2>2, <2>3, <2>4 DEF Next
<1>2. CASE UNCHANGED vars
  <2>1. /\ scenario' = scenario /\ value' = value /\ dirty' = dirty /\ tx' = tx
        /\ version' = version /\ world' = world /\ row' = row /\ history' = history
        /\ batch' = batch /\ chain' = chain /\ nextRec' = nextRec /\ stored' = stored
        /\ diskSeq' = diskSeq /\ diskObjs' = diskObjs /\ records' = records
    BY <1>2 DEF vars, sequenceVars, rootVars, writerVars, diskVars
  <2>2. CASE \E t : t \in Thread
    <3>1. PICK t \in Thread : TRUE  BY <2>2
    <3> DEFINE x == tx[t]
    <3>2. x \in Transaction /\ TxDated(x) /\ tx \in [Thread -> Transaction]  BY TxFacts
    <3>3. tx' = [tx EXCEPT ![t] = x]  BY <2>1, <3>2
    <3>4. UNCHANGED <<rootVars, batch, writerVars, diskVars>>
      BY <2>1 DEF rootVars, writerVars, diskVars
    <3>5. value' \in Number /\ dirty' \in BOOLEAN  BY <2>1 DEF ContentsInv, TypeOK
    <3>6. x.pc \in {"published", "load", "enqueue"} =>
            /\ Pending(t) /\ x.version = tx[t].version
            /\ x.op = tx[t].op /\ x.base = tx[t].base
      BY DEF Pending
    <3> HIDE DEF x
    <3> QED BY <2>1, <3>2, <3>3, <3>4, <3>5, <3>6, LocalStep
  <2>3. CASE Thread = {}
    <3>1. InOrder' = InOrder /\ Appended' = Appended /\ Reconstructed' = Reconstructed
      BY <2>1 DEF InOrder, Appended, Reconstructed, Joined
    <3>2. MaxVersion' = MaxVersion /\ Transaction' = Transaction /\ Own' = Own
      BY <2>1 DEF MaxVersion, Transaction, Own
    <3>3. TypeOK'  BY <2>1, <3>2 DEF ContentsInv, TypeOK
    <3>4. BatchesInPlace' /\ RowsDated'
      BY <2>1, <2>3, <3>2 DEF ContentsInv, BatchesInPlace, RowsDated, Dated
    <3>5. ChangesLinked'
      <4>1. ASSUME NEW v \in 1..MaxVersion, batch[v] # NoBatch
            PROVE  Does(batch[v].mutation, v)'
        <5>1. Does(batch[v].mutation, v)  BY <4>1 DEF ContentsInv, ChangesLinked
        <5> QED BY <2>1, <5>1 DEF Does
      <4> QED BY <2>1, <2>3, <3>2, <4>1 DEF ChangesLinked
    <3>6. ChainKnown' /\ Readable'
      BY <2>1, <3>1 DEF ContentsInv, ChainKnown, Sorted, StoredIsPublished, Readable
    <3>7. StoredIsPublished'
      BY <2>1, <3>1, <3>6 DEF ContentsInv, StoredIsPublished, Equals
    <3> QED BY <3>3, <3>4, <3>5, <3>6, <3>7 DEF ContentsInv
  <2> QED BY <2>2, <2>3
<1> QED BY <1>1, <1>2

\* The inductive invariant of the batches, of the rows they were made from and of the
\* chain in storage holds in every reachable state.
THEOREM ContentsInvariance == Spec => []ContentsInv
<1>1. Init => ContentsInv  BY ContentsInit
<1>2. ContentsInv /\ [Next]_vars => ContentsInv'  BY ContentsStep
<1> QED BY <1>1, <1>2, PTL DEF Spec

\* Every variable keeps its type.
THEOREM TypeCorrect == Spec => []TypeOK
<1>1. ContentsInv => TypeOK  BY DEF ContentsInv
<1> QED BY <1>1, ContentsInvariance, PTL

\* At every instant at which the process may die, the reader accepts the records of the
\* property and makes of them the value of the last version stored: for any threads,
\* values, limits of a chain and folding of elements, across any number of restarts.
THEOREM StorageReadsBack == Spec => []StoredIsPublished
<1>1. ContentsInv => StoredIsPublished  BY DEF ContentsInv
<1> QED BY <1>1, ContentsInvariance, PTL

-----------------------------------------------------------------------------
\* Numbers

\* The numbers that the numbering invariant compares are integers.
LEMMA NumberTypes ==
  ASSUME ContentsInv
  PROVE  /\ value \in Int /\ diskSeq \in Int /\ None <= value /\ None = -1
         /\ version \in Nat /\ stored \in Nat /\ MaxVersion \in Nat
         /\ stored <= version /\ version <= MaxVersion
         /\ world \in SUBSET Nat /\ diskObjs \in SUBSET Nat
         /\ \A t \in Thread : tx[t].id \in Int /\ None <= tx[t].id
         /\ \A v \in 1..MaxVersion : batch[v].seq \in Int /\ batch[v].id \in Int
         /\ NoBatch.seq = None /\ NoBatch.id = None
         /\ NoTx.id = None /\ NoTx.pc = "idle"
         /\ scenario.threads \subseteq Thread /\ tx \in [Thread -> Transaction]
         /\ scenario.explicit \subseteq 0..MaxNumber /\ MaxNumber \in Nat
<1>1. TypeOK /\ scenario \in Scenarios  BY DEF ContentsInv, TypeOK
<1>2. /\ MaxVersion \in Nat /\ MaxNumber \in Nat /\ scenario.threads \subseteq Thread
      /\ scenario.explicit \subseteq 0..MaxNumber
  BY <1>1, ScenarioTypes
<1>3. \A n \in Number : n \in Int /\ None <= n  BY <1>2 DEF Number, None
<1>4. value \in Number /\ diskSeq \in Number /\ world \in SUBSET Nat /\ diskObjs \in SUBSET Nat
  BY <1>1, <1>2 DEF TypeOK
<1>5. \A t \in Thread : tx[t].id \in Number  BY <1>1 DEF TypeOK, Transaction
<1>6. \A v \in 1..MaxVersion : batch[v].seq \in Number /\ batch[v].id \in Number
  BY <1>1 DEF TypeOK
<1>7. version \in Nat /\ stored \in Nat /\ stored <= version /\ version <= MaxVersion
  BY <1>1, <1>2 DEF TypeOK
<1>8. NoBatch.seq = None /\ NoBatch.id = None /\ NoTx.id = None /\ NoTx.pc = "idle"
      /\ None = -1
  BY DEF NoBatch, NoTx, None
<1>9. tx \in [Thread -> Transaction]  BY <1>1 DEF TypeOK
<1> QED BY <1>2, <1>3, <1>4, <1>5, <1>6, <1>7, <1>8, <1>9

NumbersOK == SequenceKnown /\ NumbersCovered

\* The other threads do nothing
LEMMA OthersIdle ==
  ASSUME OneThread, SequenceKnown, NEW t \in scenario.threads
  PROVE  \A u \in Thread : u # t => tx[u] = NoTx
BY DEF OneThread, SequenceKnown

\* A step that changes neither the batches nor storage, and the transaction of t alone
LEMMA NumbersLocal ==
  ASSUME ContentsInv, OneThread, NumbersOK, scenario' = scenario,
         NEW t \in scenario.threads, NEW x, tx' = [tx EXCEPT ![t] = x],
         UNCHANGED <<batch, diskSeq, diskObjs>>,
         version' \in Int, version <= version', value' \in Int, value <= value',
         x.id \in Int, x.id <= value', \A n \in world' : n <= value',
         x.pc \in {"published", "load", "enqueue"} => x.version = version',
         x.pc = "enqueue" => ~dirty',
         x.pc \in {"marking", "written"} /\ x.id # None /\ x.how = "next"
            => \A n \in world' : n < x.id,
         \/ dirty' \/ x.pc \in {"marking", "load"}
         \/ value' = value /\ (dirty => dirty') /\ ~(tx[t].pc \in {"marking", "load"})
  PROVE  NumbersOK'
<1>1. /\ value \in Int /\ diskSeq \in Int /\ None = -1 /\ None <= value
      /\ version \in Nat /\ MaxVersion \in Nat
      /\ \A v \in 1..MaxVersion : batch[v].seq \in Int /\ batch[v].id \in Int
      /\ NoTx.id = None /\ NoTx.pc = "idle"
      /\ scenario.threads \subseteq Thread /\ tx \in [Thread -> Transaction]
  BY NumberTypes
<1>2. \A u \in Thread : tx'[u] = IF u = t THEN x ELSE NoTx
  BY <1>1, OthersIdle DEF NumbersOK
<1>3. MaxVersion' = MaxVersion  BY DEF MaxVersion
<1>4. batch' = batch /\ diskSeq' = diskSeq /\ diskObjs' = diskObjs  OBVIOUS
<1>6. SequenceKnown'
  <2>1. \A u \in Thread \ scenario.threads : tx'[u] = NoTx  BY <1>2
  <2>2. \A u \in Thread : Pending(u)' => tx'[u].version = version'
    BY <1>1, <1>2 DEF Pending
  <2>3. diskSeq <= value'  BY <1>1 DEF NumbersOK, SequenceKnown
  <2>4. ASSUME NEW v \in 1..MaxVersion, batch[v].seq # None
        PROVE  /\ diskSeq <= batch[v].seq /\ batch[v].seq <= value'
               /\ \A u \in 1..v : batch[u].seq # None => batch[u].seq <= batch[v].seq
    BY <1>1, <2>4 DEF NumbersOK, SequenceKnown
  <2> HIDE DEF Pending
  <2> QED BY <1>3, <1>4, <2>1, <2>2, <2>3, <2>4 DEF SequenceKnown
<1>7. NumbersCovered'
  <2>1. \A n \in diskObjs : n <= diskSeq  BY DEF NumbersOK, NumbersCovered
  <2>2. \A v \in 1..MaxVersion : batch[v].id # None => Covered(batch[v].id, v)
    BY DEF NumbersOK, NumbersCovered
  <2>3. ASSUME NEW u \in Thread
        PROVE  /\ tx'[u].id <= value'
               /\ tx'[u].pc = "enqueue" => ~dirty'
               /\ tx'[u].pc \in {"marking", "written"} /\ tx'[u].id # None /\ tx'[u].how = "next"
                    => \A n \in world' : n < tx'[u].id
    BY <1>1, <1>2
  <2>4. \/ dirty' \/ Covered(value', MaxVersion)
        \/ \E u \in Thread : tx'[u].pc \in {"marking", "load"}
    <3>1. CASE dirty'  BY <3>1
    <3>2. CASE x.pc \in {"marking", "load"}  BY <1>1, <1>2, <3>2
    <3>3. CASE value' = value /\ (dirty => dirty') /\ ~(tx[t].pc \in {"marking", "load"})
      <4>1. \A u \in Thread : ~(tx[u].pc \in {"marking", "load"})
        BY <1>1, <3>3, OthersIdle DEF NumbersOK
      <4> QED BY <3>3, <4>1 DEF NumbersOK, NumbersCovered
    <3> QED BY <3>1, <3>2, <3>3
  <2> HIDE DEF Covered
  <2>5. \A v \in 1..MaxVersion : batch'[v].id # None => Covered(batch[v].id, v)'
    BY <1>4, <2>2 DEF Covered
  <2>6. Covered(value, MaxVersion)' <=> Covered(value', MaxVersion)
    BY <1>3, <1>4 DEF Covered
  <2> QED BY <1>3, <1>4, <2>1, <2>3, <2>4, <2>5, <2>6 DEF NumbersCovered
<1> QED BY <1>6, <1>7 DEF NumbersOK

\* The steps of a transaction up to its batch
LEMMA NumbersThread ==
  ASSUME ContentsInv, OneThread, NumbersOK, scenario' = scenario,
         NEW t \in scenario.threads, ThreadStep(t), ~LoadAndWrite(t), ~WriteOnly(t)
  PROVE  NumbersOK'
<1>1. /\ value \in Int /\ None = -1 /\ None <= value /\ version \in Nat
      /\ NoTx.id = None /\ NoTx.pc = "idle" /\ world \in SUBSET Nat
      /\ t \in Thread /\ tx \in [Thread -> Transaction]
      /\ scenario.explicit \subseteq 0..MaxNumber /\ MaxNumber \in Nat
      /\ tx[t].id \in Int
  BY NumberTypes
<1>2. /\ \A n \in world : n <= value
      /\ tx[t].id <= value
      /\ tx[t].pc \in {"marking", "written"} /\ tx[t].id # None /\ tx[t].how = "next"
           => \A n \in world : n < tx[t].id
  BY <1>1 DEF NumbersOK, NumbersCovered
<1>3. ASSUME NEW x, tx' = [tx EXCEPT ![t] = x], value' = value, dirty' = dirty,
             version' = version, world' = world, UNCHANGED <<batch, diskSeq, diskObjs>>,
             x.id = None, ~(x.pc \in {"published", "load", "enqueue"}),
             ~(tx[t].pc \in {"marking", "load"})
      PROVE  NumbersOK'
  <2>1. /\ value' \in Int /\ value <= value' /\ version' \in Int /\ version <= version'
        /\ x.id \in Int /\ x.id <= value'
    BY <1>1, <1>3
  <2>2. \A n \in world' : n <= value'  BY <1>2, <1>3
  <2> QED BY <1>3, <2>1, <2>2, NumbersLocal
<1>4. CASE Begin(t)
  <2> DEFINE x == [NoTx EXCEPT !.pc = "begun", !.seen = world, !.base = row]
  <2>1. x.id = None /\ x.pc = "begun"  BY DEF NoTx
  <2>2. /\ tx' = [tx EXCEPT ![t] = x] /\ value' = value /\ dirty' = dirty
        /\ version' = version /\ world' = world /\ UNCHANGED <<batch, diskSeq, diskObjs>>
        /\ tx[t].pc = "idle"
    BY <1>4 DEF Begin, sequenceVars, rootVars, diskVars
  <2> HIDE DEF x
  <2> QED BY <1>3, <2>1, <2>2
<1>5. CASE Rollback(t) \/ PublishConflict(t)
  <2>1. /\ tx' = [tx EXCEPT ![t] = NoTx] /\ value' = value /\ dirty' = dirty
        /\ version' = version /\ world' = world /\ UNCHANGED <<batch, diskSeq, diskObjs>>
        /\ tx[t].pc = "written"
    BY <1>5 DEF Rollback, PublishConflict, sequenceVars, rootVars, diskVars
  <2> QED BY <1>1, <1>3, <2>1
<1>6. ASSUME NEW op, SetOp(t, op) PROVE NumbersOK'
  <2> DEFINE x == [tx[t] EXCEPT !.pc = "written", !.op = op]
  <2>1. x.id = None /\ x.pc = "written"  BY <1>1, <1>6 DEF SetOp, Transaction
  <2>2. /\ tx' = [tx EXCEPT ![t] = x] /\ value' = value /\ dirty' = dirty
        /\ version' = version /\ world' = world /\ UNCHANGED <<batch, diskSeq, diskObjs>>
        /\ tx[t].pc \in {"begun", "written"}
    BY <1>1, <1>6 DEF SetOp, sequenceVars, rootVars, diskVars
  <2> HIDE DEF x
  <2> QED BY <1>3, <2>1, <2>2
<1>7. CASE \E v \in scenario.values, hint \in BOOLEAN : SetProperty(t, v, hint)
  BY <1>6, <1>7 DEF SetProperty
<1>8. CASE ClearProperty(t)  BY <1>6, <1>8 DEF ClearProperty
<1>9. CASE Increment(t)
  <2> DEFINE x == [tx[t] EXCEPT !.pc = "marking", !.id = value + 1]
  <2>1. x.id = value + 1 /\ x.pc = "marking"  BY <1>1 DEF Transaction
  <2>2. /\ tx' = [tx EXCEPT ![t] = x] /\ value' = value + 1
        /\ version' = version /\ world' = world /\ UNCHANGED <<batch, diskSeq, diskObjs>>
    BY <1>1, <1>9 DEF Increment, rootVars, diskVars
  <2>3. \A n \in world : n <= value + 1 /\ n < value + 1  BY <1>1, <1>2
  <2> HIDE DEF x
  <2>4. /\ value' \in Int /\ value <= value' /\ x.id \in Int /\ x.id <= value'
        /\ version' \in Int /\ version <= version'
    BY <1>1, <2>1, <2>2
  <2> QED BY <2>1, <2>2, <2>3, <2>4, NumbersLocal
<1>10. CASE \E n \in scenario.explicit : UpdateMax(t, n)
  <2>1. PICK n \in scenario.explicit : UpdateMax(t, n)  BY <1>10
  <2> DEFINE x == [tx[t] EXCEPT !.pc = IF n > value THEN "marking" ELSE "written",
                                !.id = n, !.how = "explicit"]
  <2>2. /\ x.id = n /\ x.how = "explicit"
        /\ x.pc = IF n > value THEN "marking" ELSE "written"
    BY <1>1 DEF Transaction
  <2>3. /\ tx' = [tx EXCEPT ![t] = x] /\ value' = IF n > value THEN n ELSE value
        /\ dirty' = dirty /\ version' = version /\ world' = world
        /\ UNCHANGED <<batch, diskSeq, diskObjs>> /\ tx[t].pc = "begun"
    BY <1>1, <2>1 DEF UpdateMax, rootVars, diskVars
  <2>4. n \in Int  BY <1>1
  <2> HIDE DEF x
  <2>5. /\ value' \in Int /\ value <= value' /\ x.id \in Int /\ x.id <= value'
        /\ version' \in Int /\ version <= version' /\ \A k \in world' : k <= value'
    BY <1>1, <1>2, <2>2, <2>3, <2>4
  <2>6. x.pc = "marking" \/ (value' = value /\ ~(tx[t].pc \in {"marking", "load"}))
    BY <2>2, <2>3
  <2> QED BY <2>2, <2>3, <2>5, <2>6, NumbersLocal
<1>11. CASE MarkDirty(t)
  <2> DEFINE x == [tx[t] EXCEPT !.pc = "written"]
  <2>1. x.id = tx[t].id /\ x.pc = "written" /\ x.how = tx[t].how  BY <1>1 DEF Transaction
  <2>2. /\ tx' = [tx EXCEPT ![t] = x] /\ value' = value /\ dirty' = TRUE
        /\ version' = version /\ world' = world /\ UNCHANGED <<batch, diskSeq, diskObjs>>
        /\ tx[t].pc = "marking"
    BY <1>1, <1>11 DEF MarkDirty, rootVars, diskVars
  <2> HIDE DEF x
  <2>3. value' \in Int /\ value <= value' /\ version' \in Int /\ version <= version'
    BY <1>1, <2>2
  <2> QED BY <1>1, <1>2, <2>1, <2>2, <2>3, NumbersLocal
<1>12. CASE Publish(t)
  <2> DEFINE x == [tx[t] EXCEPT !.pc = "published", !.version = version + 1,
                                !.op = ClearedHint(tx[t].op)]
  <2>1. x.id = tx[t].id /\ x.pc = "published" /\ x.version = version + 1
    BY <1>1 DEF Transaction
  <2>2. /\ tx' = [tx EXCEPT ![t] = x] /\ value' = value /\ dirty' = dirty
        /\ version' = version + 1 /\ UNCHANGED <<batch, diskSeq, diskObjs>>
        /\ tx[t].pc = "written"
    BY <1>1, <1>12 DEF Publish, sequenceVars, diskVars
  <2>3. \A n \in world' : n <= value'
    BY <1>2, <1>12, <2>2 DEF Publish
  <2> HIDE DEF x
  <2>4. value' \in Int /\ value <= value' /\ version' \in Int /\ version <= version'
    BY <1>1, <2>2
  <2>5. x.id \in Int /\ x.id <= value'  BY <1>1, <1>2, <2>1, <2>2
  <2> QED BY <2>1, <2>2, <2>3, <2>4, <2>5, NumbersLocal
<1>13. CASE ClaimDirty(t)
  <2> DEFINE x == [tx[t] EXCEPT !.pc = IF dirty THEN "load" ELSE "enqueue"]
  <2>1. /\ x.id = tx[t].id /\ x.pc = (IF dirty THEN "load" ELSE "enqueue")
        /\ x.version = tx[t].version
    BY <1>1 DEF Transaction
  <2>2. /\ tx' = [tx EXCEPT ![t] = x] /\ value' = value /\ dirty' = FALSE
        /\ version' = version /\ world' = world /\ UNCHANGED <<batch, diskSeq, diskObjs>>
        /\ tx[t].pc = "published"
    BY <1>1, <1>13 DEF ClaimDirty, rootVars, diskVars
  <2>3. tx[t].version = version  BY <1>1, <2>2 DEF NumbersOK, SequenceKnown, Pending
  <2> HIDE DEF x
  <2>4. value' \in Int /\ value <= value' /\ version' \in Int /\ version <= version'
    BY <1>1, <2>2
  <2>5. x.id \in Int /\ x.id <= value' /\ \A n \in world' : n <= value'
    BY <1>1, <1>2, <2>1, <2>2
  <2>6. x.pc \in {"load", "enqueue"} /\ (x.pc = "load" \/ ~dirty)  BY <2>1
  <2> QED BY <2>1, <2>2, <2>3, <2>4, <2>5, <2>6, NumbersLocal
<1> QED BY <1>4, <1>5, <1>7, <1>8, <1>9, <1>10, <1>11, <1>12, <1>13 DEF ThreadStep

\* Handing over a batch keeps the numbering invariant: its sequence covers its object.
LEMMA NumbersWrite ==
  ASSUME ContentsInv, OneThread, NumbersOK, scenario' = scenario,
         NEW t \in scenario.threads, LoadAndWrite(t) \/ WriteOnly(t)
  PROVE  NumbersOK'
<1> DEFINE seq == IF tx[t].pc = "load" THEN value ELSE None
           w == version
<1>1. /\ value \in Int /\ None = -1 /\ None <= value /\ version \in Nat /\ diskSeq \in Int
      /\ NoTx.id = None /\ NoTx.pc = "idle" /\ MaxVersion \in Nat
      /\ t \in Thread /\ tx \in [Thread -> Transaction] /\ tx[t].id \in Int
      /\ \A v \in 1..MaxVersion : batch[v].seq \in Int /\ batch[v].id \in Int
      /\ NoBatch.seq = None /\ NoBatch.id = None
  BY NumberTypes
<1>2. Write(t, seq) /\ Pending(t) /\ (tx[t].pc = "load" \/ tx[t].pc = "enqueue")
  BY DEF LoadAndWrite, WriteOnly, Pending
<1>3. tx[t].version = w /\ w \in 1..MaxVersion /\ batch[w] = NoBatch
  <2>1. tx[t].version = version  BY <1>1, <1>2 DEF NumbersOK, SequenceKnown
  <2>2. stored < version /\ batch[version] = NoBatch
    BY <1>1, <1>2, <2>1 DEF ContentsInv, BatchesInPlace
  <2>3. stored \in Nat /\ version <= MaxVersion  BY NumberTypes
  <2> QED BY <1>1, <2>1, <2>2, <2>3
<1>4. /\ value' = value /\ dirty' = dirty /\ version' = version /\ world' = world
      /\ diskSeq' = diskSeq /\ diskObjs' = diskObjs /\ tx' = [tx EXCEPT ![t] = NoTx]
  BY <1>2 DEF Write, sequenceVars, rootVars, diskVars
<1>5. /\ \A v \in 1..MaxVersion : v # w => batch'[v] = batch[v]
      /\ batch'[w].seq = seq /\ batch'[w].id = tx[t].id
  <2>1. PICK m : batch' = [batch EXCEPT ![w] = [id |-> tx[t].id, seq |-> seq, mutation |-> m]]
    BY <1>2, <1>3 DEF Write
  <2>2. DOMAIN batch = 1..MaxVersion  BY DEF ContentsInv, TypeOK
  <2> HIDE DEF seq
  <2> QED BY <1>3, <2>1, <2>2
<1>6. \A u \in Thread : tx'[u] = NoTx  BY <1>1, <1>4, OthersIdle DEF NumbersOK
<1>7. MaxVersion' = MaxVersion  BY DEF MaxVersion
<1>8. seq \in Int /\ seq <= value /\ (seq = None \/ seq = value)  BY <1>1
<1>9. \A v \in 1..MaxVersion : v > w => batch[v] = NoBatch
  <2>1. \A v \in 1..MaxVersion : batch[v] # NoBatch => v <= version
    BY DEF ContentsInv, BatchesInPlace
  <2> QED BY <1>1, <2>1
<1>10. ASSUME NEW n, NEW v \in 1..MaxVersion, Covered(n, v) PROVE Covered(n, v)'
  <2>1. CASE n <= diskSeq  BY <1>4, <2>1 DEF Covered
  <2>2. CASE ~(n <= diskSeq)
    <3>1. PICK u \in 1..v : batch[u].seq # None /\ n <= batch[u].seq  BY <1>10, <2>2 DEF Covered
    <3>2. u \in 1..MaxVersion /\ u # w  BY <1>1, <1>3, <3>1
    <3>3. batch'[u] = batch[u]  BY <1>5, <3>2
    <3> QED BY <3>1, <3>3 DEF Covered
  <2> QED BY <2>1, <2>2
<1> HIDE DEF seq
<1>11. SequenceKnown'
  <2>1. \A u \in Thread \ scenario.threads : tx'[u] = NoTx  BY <1>6
  <2>2. \A u \in Thread : ~Pending(u)'  BY <1>1, <1>6 DEF Pending
  <2>3. diskSeq <= value  BY DEF NumbersOK, SequenceKnown
  <2>4. ASSUME NEW v \in 1..MaxVersion, batch'[v].seq # None
        PROVE  /\ diskSeq <= batch'[v].seq /\ batch'[v].seq <= value
               /\ \A u \in 1..v : batch'[u].seq # None => batch'[u].seq <= batch'[v].seq
    <3>1. CASE v = w
      <4>1. batch'[v].seq = value  BY <1>5, <1>8, <2>4, <3>1
      <4>2. ASSUME NEW u \in 1..v, batch'[u].seq # None PROVE batch'[u].seq <= value
        <5>1. u \in 1..MaxVersion  BY <1>1
        <5>2. CASE u = w  BY <1>5, <1>8, <5>2
        <5>3. CASE u # w  BY <1>5, <4>2, <5>1, <5>3 DEF NumbersOK, SequenceKnown
        <5> QED BY <5>2, <5>3
      <4> QED BY <1>1, <2>3, <4>1, <4>2
    <3>2. CASE v # w
      <4>1. batch'[v] = batch[v]  BY <1>5, <3>2
      <4>2. v < w  BY <1>1, <1>9, <2>4, <3>2, <4>1
      <4>3. \A u \in 1..v : batch'[u] = batch[u]  BY <1>1, <1>5, <4>2
      <4>4. /\ diskSeq <= batch[v].seq /\ batch[v].seq <= value
            /\ \A u \in 1..v : batch[u].seq # None => batch[u].seq <= batch[v].seq
        BY <2>4, <4>1 DEF NumbersOK, SequenceKnown
      <4> QED BY <4>1, <4>3, <4>4
    <3> QED BY <3>1, <3>2
  <2> HIDE DEF Pending
  <2> QED BY <1>4, <1>7, <2>1, <2>2, <2>3, <2>4 DEF SequenceKnown
<1>12. NumbersCovered'
  <2>1. \A n \in diskObjs : n <= diskSeq  BY DEF NumbersOK, NumbersCovered
  <2>2. \A n \in world : n <= value  BY DEF NumbersOK, NumbersCovered
  <2>3. tx[t].id <= value /\ (tx[t].pc = "enqueue" => ~dirty)
    BY <1>1 DEF NumbersOK, NumbersCovered
  <2>4. CASE tx[t].pc = "load"
    <3>1. batch'[w].seq = value  BY <1>5, <2>4 DEF seq
    <3>2. value # None => Covered(value, w)' /\ Covered(value, MaxVersion)'
      <4>1. w \in 1..w /\ w \in 1..MaxVersion  BY <1>3
      <4> QED BY <1>1, <1>4, <1>7, <3>1, <4>1 DEF Covered
    <3>3. value = None => value <= diskSeq
      BY <1>1 DEF ContentsInv, TypeOK, Number
    <3>4. Covered(value, MaxVersion)'  BY <1>4, <3>2, <3>3 DEF Covered
    <3>5. ASSUME NEW v \in 1..MaxVersion, batch'[v].id # None PROVE Covered(batch[v].id, v)'
      <4>1. CASE v = w
        <5>1. batch'[v].id = tx[t].id /\ value # None
          BY <1>1, <1>5, <2>3, <3>5, <4>1, NumberTypes
        <5>2. w \in 1..w /\ batch'[w].seq # None /\ batch'[w].id <= batch'[w].seq
          BY <1>3, <1>5, <2>3, <3>1, <5>1
        <5> QED BY <4>1, <5>2 DEF Covered
      <4>2. CASE v # w
        <5>1. batch'[v] = batch[v]  BY <1>5, <4>2
        <5>2. PICK n : n = batch[v].id  OBVIOUS
        <5>3. Covered(n, v)  BY <3>5, <5>1, <5>2 DEF NumbersOK, NumbersCovered
        <5>4. Covered(n, v)'  BY <1>10, <5>3
        <5> QED BY <5>1, <5>2, <5>4 DEF Covered
      <4> QED BY <4>1, <4>2
    <3> QED BY <1>1, <1>4, <1>6, <1>7, <2>1, <2>2, <3>4, <3>5 DEF NumbersCovered
  <2>5. CASE tx[t].pc = "enqueue"
    <3>1. Covered(value, MaxVersion)
      <4>1. \A u \in Thread : ~(tx[u].pc \in {"marking", "load"})
        BY <1>1, <2>5, OthersIdle DEF NumbersOK
      <4> QED BY <2>3, <2>5, <4>1 DEF NumbersOK, NumbersCovered
    <3>2. Covered(value, MaxVersion)'
      <4>1. PICK n : n = value  OBVIOUS
      <4>2. Covered(n, MaxVersion)  BY <3>1, <4>1
      <4>3. CASE n <= diskSeq  BY <1>4, <4>1, <4>3 DEF Covered
      <4>4. CASE ~(n <= diskSeq)
        <5>1. PICK u \in 1..MaxVersion : batch[u].seq # None /\ n <= batch[u].seq
          BY <4>2, <4>4 DEF Covered
        <5>2. batch'[u] = batch[u]  BY <1>1, <1>3, <1>5, <5>1
        <5> QED BY <1>4, <1>7, <4>1, <5>1, <5>2 DEF Covered
      <4> QED BY <4>3, <4>4
    <3>3. ASSUME NEW v \in 1..MaxVersion, batch'[v].id # None PROVE Covered(batch[v].id, v)'
      <4>1. CASE v = w
        <5>1. batch'[v].id = tx[t].id /\ tx[t].id <= value  BY <1>5, <2>3, <4>1
        <5>2. CASE value <= diskSeq
          <6>1. batch'[v].id <= diskSeq'  BY <1>1, <1>4, <5>1, <5>2
          <6> QED BY <6>1 DEF Covered
        <5>3. CASE ~(value <= diskSeq)
          <6>1. PICK u \in 1..MaxVersion : batch[u].seq # None /\ value <= batch[u].seq
            BY <3>1, <5>3 DEF Covered
          <6>2. u # w /\ u <= w  BY <1>1, <1>3, <1>9, <6>1
          <6>3. u \in 1..v /\ batch'[u] = batch[u]  BY <1>1, <1>5, <4>1, <6>1, <6>2
          <6>4. batch'[u].seq # None /\ batch'[v].id <= batch'[u].seq
            BY <1>1, <5>1, <6>1, <6>3
          <6> QED BY <6>3, <6>4 DEF Covered
        <5> QED BY <5>2, <5>3
      <4>2. CASE v # w
        <5>1. batch'[v] = batch[v]  BY <1>5, <4>2
        <5>2. PICK n : n = batch[v].id  OBVIOUS
        <5>3. Covered(n, v)  BY <3>3, <5>1, <5>2 DEF NumbersOK, NumbersCovered
        <5>4. Covered(n, v)'  BY <1>10, <5>3
        <5> QED BY <5>1, <5>2, <5>4 DEF Covered
      <4> QED BY <4>1, <4>2
    <3> QED BY <1>1, <1>4, <1>6, <1>7, <2>1, <2>2, <3>2, <3>3 DEF NumbersCovered
  <2> QED BY <1>2, <2>4, <2>5
<1> QED BY <1>11, <1>12 DEF NumbersOK

\* Storing a batch keeps the numbering invariant.
LEMMA NumbersStore ==
  ASSUME ContentsInv, NumbersOK, scenario' = scenario, Store
  PROVE  NumbersOK'
<1> DEFINE w == stored + 1
<1>1. /\ value \in Int /\ None = -1 /\ diskSeq \in Int /\ stored \in Nat /\ version \in Nat
      /\ MaxVersion \in Nat /\ version <= MaxVersion
      /\ \A v \in 1..MaxVersion : batch[v].seq \in Int /\ batch[v].id \in Int
      /\ NoBatch.seq = None /\ NoBatch.id = None /\ diskObjs \in SUBSET Nat
  BY NumberTypes
<1>2. /\ value' = value /\ dirty' = dirty /\ tx' = tx /\ version' = version /\ world' = world
      /\ batch' = [batch EXCEPT ![w] = NoBatch] /\ stored < version /\ batch[w] # NoBatch
      /\ diskObjs' = IF batch[w].id = None THEN diskObjs ELSE diskObjs \cup {batch[w].id}
      /\ diskSeq' = IF batch[w].seq = None THEN diskSeq ELSE batch[w].seq
  BY DEF Store, sequenceVars
<1>3. w \in 1..MaxVersion  BY <1>1, <1>2
<1>4. \A v \in 1..MaxVersion : batch'[v] = IF v = w THEN NoBatch ELSE batch[v]
  <2>1. DOMAIN batch = 1..MaxVersion  BY DEF ContentsInv, TypeOK
  <2> QED BY <1>2, <1>3, <2>1
<1>5. MaxVersion' = MaxVersion  BY DEF MaxVersion
<1>6. \A v \in 1..MaxVersion : batch[v].seq # None => w <= v
  <2>1. \A v \in 1..MaxVersion : batch[v] # NoBatch => stored < v
    BY DEF ContentsInv, BatchesInPlace
  <2> QED BY <1>1, <2>1
<1>7. diskSeq' \in Int /\ diskSeq <= diskSeq' /\ diskSeq' <= value
      /\ (batch[w].seq # None => diskSeq' = batch[w].seq)
  BY <1>1, <1>2, <1>3 DEF NumbersOK, SequenceKnown
<1>8. ASSUME NEW n \in Int, NEW v \in 1..MaxVersion, Covered(n, v) PROVE Covered(n, v)'
  <2>1. CASE n <= diskSeq
    <3>1. n <= diskSeq'  BY <1>1, <1>7, <2>1
    <3> QED BY <3>1 DEF Covered
  <2>2. CASE ~(n <= diskSeq)
    <3>1. PICK u \in 1..v : batch[u].seq # None /\ n <= batch[u].seq  BY <1>8, <2>2 DEF Covered
    <3>2. CASE u = w
      <4>1. n <= diskSeq'  BY <1>7, <3>1, <3>2
      <4> QED BY <4>1 DEF Covered
    <3>3. CASE u # w
      <4>1. batch'[u] = batch[u]  BY <1>1, <1>4, <3>3
      <4> QED BY <3>1, <4>1 DEF Covered
    <3> QED BY <3>2, <3>3
  <2> QED BY <2>1, <2>2
<1>9. SequenceKnown'
  <2>1. \A u \in Thread \ scenario.threads : tx[u] = NoTx  BY DEF NumbersOK, SequenceKnown
  <2>2. \A u \in Thread : Pending(u)' => tx[u].version = version
    BY <1>2 DEF NumbersOK, SequenceKnown, Pending
  <2>3. ASSUME NEW v \in 1..MaxVersion, batch'[v].seq # None
        PROVE  /\ diskSeq' <= batch'[v].seq /\ batch'[v].seq <= value
               /\ \A u \in 1..v : batch'[u].seq # None => batch'[u].seq <= batch'[v].seq
    <3>1. v # w /\ batch'[v] = batch[v]  BY <1>1, <1>4, <2>3
    <3>2. /\ diskSeq <= batch[v].seq /\ batch[v].seq <= value
          /\ \A u \in 1..v : batch[u].seq # None => batch[u].seq <= batch[v].seq
      BY <2>3, <3>1 DEF NumbersOK, SequenceKnown
    <3>3. w \in 1..v  BY <1>1, <1>6, <2>3, <3>1
    <3>4. diskSeq' <= batch[v].seq  BY <1>2, <3>2, <3>3
    <3>5. \A u \in 1..v : batch'[u].seq # None => batch'[u] = batch[u]  BY <1>1, <1>4
    <3> QED BY <3>1, <3>2, <3>4, <3>5
  <2> HIDE DEF Pending
  <2> QED BY <1>2, <1>5, <1>7, <2>1, <2>2, <2>3 DEF SequenceKnown
<1>10. NumbersCovered'
  <2>1. ASSUME NEW n \in diskObjs' PROVE n <= diskSeq'
    <3>1. CASE n \in diskObjs
      <4>1. n <= diskSeq  BY <3>1 DEF NumbersOK, NumbersCovered
      <4> QED BY <1>1, <1>7, <3>1, <4>1
    <3>2. CASE n \notin diskObjs
      <4>1. n = batch[w].id /\ batch[w].id # None /\ n \in Int  BY <1>1, <1>2, <1>3, <3>2
      <4>2. Covered(n, w)  BY <1>3, <4>1 DEF NumbersOK, NumbersCovered
      <4>3. CASE n <= diskSeq  BY <1>1, <1>7, <4>1, <4>3
      <4>4. CASE ~(n <= diskSeq)
        <5>1. PICK u \in 1..w : batch[u].seq # None /\ n <= batch[u].seq
          BY <4>2, <4>4 DEF Covered
        <5>2. u = w  BY <1>1, <1>3, <1>6, <5>1
        <5> QED BY <1>7, <5>1, <5>2
      <4> QED BY <4>3, <4>4
    <3> QED BY <3>1, <3>2
  <2>2. ASSUME NEW v \in 1..MaxVersion, batch'[v].id # None PROVE Covered(batch[v].id, v)'
    <3>1. batch'[v] = batch[v]  BY <1>1, <1>4, <2>2
    <3>2. PICK n : n = batch[v].id  OBVIOUS
    <3>3. n \in Int /\ Covered(n, v)
      BY <1>1, <2>2, <3>1, <3>2 DEF NumbersOK, NumbersCovered
    <3>4. Covered(n, v)'  BY <1>8, <3>3
    <3> QED BY <3>1, <3>2, <3>4 DEF Covered
  <2>3. Covered(value, MaxVersion) => Covered(value, MaxVersion)'
    <3>1. SUFFICES ASSUME Covered(value, MaxVersion) PROVE Covered(value, MaxVersion)'
      OBVIOUS
    <3>2. PICK n : n = value  OBVIOUS
    <3>3. CASE n <= diskSeq
      <4>1. value' <= diskSeq'  BY <1>1, <1>2, <1>7, <3>2, <3>3
      <4> QED BY <4>1 DEF Covered
    <3>4. CASE ~(n <= diskSeq)
      <4>1. PICK u \in 1..MaxVersion : batch[u].seq # None /\ n <= batch[u].seq
        BY <3>1, <3>2, <3>4 DEF Covered
      <4>2. n \in Int /\ Covered(n, u)
        <5>1. u \in 1..u  BY <1>1
        <5> QED BY <1>1, <3>2, <4>1, <5>1 DEF Covered
      <4>3. Covered(n, u)'  BY <1>8, <4>1, <4>2
      <4>4. \A x \in 1..u : x \in 1..MaxVersion  BY <1>1
      <4> QED BY <1>2, <1>5, <3>2, <4>3, <4>4 DEF Covered
    <3> QED BY <3>3, <3>4
  <2> HIDE DEF Covered
  <2> QED BY <1>2, <1>5, <2>1, <2>2, <2>3 DEF NumbersOK, NumbersCovered
<1> QED BY <1>9, <1>10 DEF NumbersOK

\* A restart keeps the numbering invariant: the sequence starts at what storage covers.
LEMMA NumbersReopen ==
  ASSUME ContentsInv, NumbersOK, scenario' = scenario, Reopen
  PROVE  NumbersOK'
<1>1. /\ value' = diskSeq /\ dirty' = FALSE /\ tx' = [t \in Thread |-> NoTx]
      /\ world' = diskObjs /\ diskSeq' = diskSeq /\ diskObjs' = diskObjs
      /\ batch' = [v \in 1..MaxVersion |-> NoBatch]
  BY DEF Reopen
<1>2. /\ NoTx.id = None /\ NoTx.pc = "idle" /\ NoBatch.seq = None /\ NoBatch.id = None
      /\ diskSeq \in Int /\ None = -1
  BY NumberTypes
<1>3. None <= diskSeq
  <2>1. diskSeq \in Number /\ MaxNumber \in Nat  BY ContentsAssumption DEF ContentsInv, TypeOK
  <2> QED BY <2>1 DEF Number, None
<1>4. MaxVersion' = MaxVersion  BY DEF MaxVersion
<1>5. \A u \in Thread : tx'[u] = NoTx /\ ~Pending(u)'  BY <1>1, <1>2 DEF Pending
<1>6. \A v \in 1..MaxVersion : batch'[v] = NoBatch  BY <1>1
<1>7. SequenceKnown'
  <2> HIDE DEF Pending
  <2> QED BY <1>1, <1>2, <1>4, <1>5, <1>6 DEF SequenceKnown
<1>8. NumbersCovered'
  <2>1. \A n \in diskObjs : n <= diskSeq  BY DEF NumbersOK, NumbersCovered
  <2>2. Covered(value, MaxVersion)'  BY <1>1, <1>2 DEF Covered
  <2> HIDE DEF Covered
  <2> QED BY <1>1, <1>2, <1>3, <1>4, <1>5, <1>6, <2>1, <2>2 DEF NumbersCovered
<1> QED BY <1>7, <1>8 DEF NumbersOK

\* Every step of a single thread keeps the numbering invariant.
LEMMA NumbersStep ==
  ASSUME ContentsInv, NumberInv, [Next]_vars
  PROVE  NumberInv'
<1>1. scenario' = scenario  BY DEF Next, vars
<1>2. OneThread' <=> OneThread  BY <1>1 DEF OneThread
<1>3. SUFFICES ASSUME OneThread PROVE NumbersOK'
  BY <1>2 DEF NumberInv, NumbersOK
<1>4. NumbersOK  BY <1>3 DEF NumberInv, NumbersOK
<1>5. CASE Next
  <2>1. ASSUME NEW t \in scenario.threads, ThreadStep(t) PROVE NumbersOK'
    BY <1>1, <1>3, <1>4, <2>1, NumbersThread, NumbersWrite
  <2>2. CASE Store  BY <1>1, <1>4, <2>2, NumbersStore
  <2>3. CASE StopAndReopen \/ CrashAndReopen
    BY <1>1, <1>4, <2>3, NumbersReopen DEF StopAndReopen, CrashAndReopen
  <2> QED BY <1>5, <2>1, <2>2, <2>3 DEF Next
<1>6. CASE UNCHANGED vars
  <2>1. /\ scenario' = scenario /\ value' = value /\ dirty' = dirty /\ tx' = tx
        /\ version' = version /\ world' = world /\ batch' = batch
        /\ diskSeq' = diskSeq /\ diskObjs' = diskObjs
    BY <1>6 DEF vars, sequenceVars, rootVars, writerVars, diskVars
  <2>2. MaxVersion' = MaxVersion  BY <2>1 DEF MaxVersion
  <2>3. SequenceKnown'  BY <1>4, <2>1, <2>2 DEF NumbersOK, SequenceKnown, Pending
  <2>4. NumbersCovered'  BY <1>4, <2>1, <2>2 DEF NumbersOK, NumbersCovered, Covered
  <2> QED BY <2>3, <2>4 DEF NumbersOK
<1> QED BY <1>5, <1>6

\* While one thread alone runs transactions, the sequence in storage and in the batches
\* on their way covers every number that is used.
THEOREM NumberInvariance == Spec => []NumberInv
<1>1. Init => NumberInv
  <2> SUFFICES ASSUME Init PROVE NumbersOK  BY DEF NumberInv, NumbersOK
  <2>1. NoTx.id = None /\ NoTx.pc = "idle" /\ NoBatch.seq = None /\ NoBatch.id = None
    BY DEF NoTx, NoBatch
  <2>2. \A u \in Thread : tx[u] = NoTx /\ ~Pending(u)  BY DEF Init, NoTx, Pending
  <2>3. \A v \in 1..MaxVersion : batch[v] = NoBatch  BY DEF Init
  <2>4. value = None /\ diskSeq = None /\ world = {} /\ diskObjs = {} /\ None <= None
    BY DEF Init, None
  <2>5. SequenceKnown
    <3> HIDE DEF Pending
    <3> QED BY <2>1, <2>2, <2>3, <2>4 DEF SequenceKnown
  <2>6. NumbersCovered  BY <2>1, <2>2, <2>3, <2>4 DEF NumbersCovered, Covered
  <2> QED BY <2>5, <2>6 DEF NumbersOK
<1>2. ContentsInv /\ NumberInv /\ [Next]_vars => NumberInv'  BY NumbersStep
<1> QED BY <1>1, <1>2, ContentsInvariance, PTL DEF Spec

\* At every instant at which the process may die, the sequence in storage is not below
\* a stored object, if one thread alone runs transactions (with two the code breaks
\* this, as numbers_restart shows).
THEOREM StoredNumbersCovered == Spec => [](OneThread => SequenceCoversStored)
<1>1. NumberInv => (OneThread => SequenceCoversStored)
  BY DEF NumberInv, NumbersCovered, SequenceCoversStored
<1> QED BY <1>1, NumberInvariance, PTL

\* ... and a number handed out belongs to no object of the world, also after any
\* number of crashes and restarts.
THEOREM NumbersAreFresh == Spec => [](OneThread => NextIsFresh)
<1>1. ContentsInv /\ NumberInv => (OneThread => NextIsFresh)
  <2> SUFFICES ASSUME ContentsInv, NumberInv, OneThread, NEW t \in Thread,
                      tx[t].pc \in {"marking", "written"}, tx[t].id # None,
                      tx[t].how = "next", tx[t].id \in world
               PROVE  FALSE
    BY DEF NextIsFresh
  <2>1. tx[t].id < tx[t].id  BY DEF NumberInv, NumbersCovered
  <2>2. tx[t].id \in Int  BY NumberTypes
  <2> QED BY <2>1, <2>2
<1> QED BY <1>1, ContentsInvariance, NumberInvariance, PTL
=============================================================================
