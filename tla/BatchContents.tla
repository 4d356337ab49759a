--------------------------- MODULE BatchContents ---------------------------
(***************************************************************************)
(* What a commit's batch carries to storage, and what is read back when    *)
(* the database is opened again: the objects a transaction created, the    *)
(* object-number sequence if the commit claimed its dirty flag, and a      *)
(* property value, as a complete record or as a list append that extends   *)
(* the chain of records storage already holds.                             *)
(*                                                                         *)
(* The conflict check and the publication of a commit are one step here    *)
(* (CommitPipeline), and batches reach storage whole and in version order  *)
(* (BatchWriter).  A row's timestamp is the version that published it, 0   *)
(* for a row found when the database was opened.                           *)
(***************************************************************************)
EXTENDS Integers, FiniteSets, Sequences, SequencesExt

CONSTANTS
  Thread,           \* threads that run transactions
  Folded,           \* what == sees of a list element: its case is folded
  Scenarios,        \* what transactions do
  MAX_RECORDS,      \* PROPERTY_VALUE_CHAIN_LIMITS.max_records
  MAX_APPEND_BYTES, \* PROPERTY_VALUE_CHAIN_LIMITS.max_append_bytes; one per element
  MaxNumber,        \* bound: largest number the sequence may reach
  MaxRecord         \* bound: record versions given out

\* A value: a list of elements, or something else
Value == [list : BOOLEAN, els : Seq(DOMAIN Folded)]

\* threads: how many there are; numbered: whether they create objects with numbers
\* of the sequence; explicit: numbers they create by number; values: what they write
\* to the property; clobber: whether its permissions grant Clobber (no transaction
\* changes them here); crash: whether the process may die between any two steps;
\* versions: a bound on the commits before the database is closed
ASSUME ContentsAssumption ==
  /\ MAX_RECORDS \in Nat \ {0} /\ MAX_APPEND_BYTES \in Nat
  /\ MaxNumber \in Nat /\ MaxRecord \in Nat
  /\ \A s \in Scenarios :
       /\ s.threads \subseteq Thread /\ s.explicit \subseteq 0..MaxNumber
       /\ s.values \subseteq Value /\ s.versions \in Nat
       /\ {s.numbered, s.clobber, s.crash} \subseteq BOOLEAN

VARIABLES
  scenario, \* what happens in this behaviour; never changes
  value,    \* SequenceState.values[SEQUENCE_MAX_OBJECT]
  dirty,    \* its bit of SequenceState.dirty
  tx,       \* each thread's transaction
  version,  \* version of the published root
  world,    \* ... numbers of its objects
  row,      \* ... the property's row in object_propvalues
  batch,    \* version |-> what was enqueued for it
  stored,   \* number of batches in storage
  diskSeq,  \* the sequence in storage
  diskObjs, \* the object numbers in storage
  records,  \* the property's records in storage
  chain,    \* WriterState.property_value_chains of the property
  nextRec,  \* WriterState.next_property_value_record_version
  history   \* history: the row at each version not yet stored

MaxVersion == scenario.versions

sequenceVars == <<value, dirty>>
rootVars == <<version, world, row, history>>
writerVars == <<chain, nextRec>>
diskVars == <<stored, diskSeq, diskObjs, records>>

vars == <<scenario, sequenceVars, tx, rootVars, batch, writerVars, diskVars>>

None == -1   \* an unset sequence, and no number or version

NoValue == [list |-> FALSE, els |-> <<>>]
NoRow == [at |-> None, val |-> NoValue]
NoOp == [kind |-> "none", val |-> NoValue, hint |-> FALSE, read |-> None]
NoMutation == [kind |-> "none", val |-> NoValue, suffix |-> <<>>]
NoChain == [versions |-> <<>>, bytes |-> 0]
NoBatch == [id |-> None, seq |-> None, mutation |-> NoMutation]

NoTx == [pc |-> "idle", seen |-> {}, base |-> NoRow, id |-> None, how |-> "next",
         op |-> NoOp, version |-> None]

Own == MaxVersion + 1   \* read_ts of a local insert: the transaction's own timestamp

-----------------------------------------------------------------------------
\* A transaction

Begin(t) ==
  /\ tx[t].pc = "idle"
  /\ version < MaxVersion
  /\ tx' = [tx EXCEPT ![t] = [NoTx EXCEPT !.pc = "begun", !.seen = world, !.base = row]]
  /\ UNCHANGED <<sequenceVars, rootVars, batch, writerVars, diskVars>>

\* Mutant: an increment does not mark the sequence
Increment_Clean(t) ==
  /\ tx[t].pc = "begun"
  /\ scenario.numbered /\ value < MaxNumber
  /\ value' = value + 1
  /\ tx' = [tx EXCEPT ![t].pc = "written", ![t].id = value + 1]
  /\ UNCHANGED <<dirty, rootVars, batch, writerVars, diskVars>>

\* SequenceState::increment up to mark_dirty: ObjectKind::NextObjid
Increment(t) ==
  /\ tx[t].pc = "begun"
  /\ scenario.numbered /\ value < MaxNumber
  /\ value' = value + 1
  /\ tx' = [tx EXCEPT ![t].pc = "marking", ![t].id = value + 1]
  /\ UNCHANGED <<dirty, rootVars, batch, writerVars, diskVars>>

\* Mutant: an explicit number leaves the sequence alone
UpdateMax_Skipped(t, n) ==
  /\ tx[t].pc = "begun"
  /\ n \notin tx[t].seen
  /\ tx' = [tx EXCEPT ![t].pc = "written", ![t].id = n, ![t].how = "explicit"]
  /\ UNCHANGED <<sequenceVars, rootVars, batch, writerVars, diskVars>>

\* SequenceState::update_max up to mark_dirty: ObjectKind::Objid
UpdateMax(t, n) ==
  /\ tx[t].pc = "begun"
  /\ n \notin tx[t].seen
  /\ value' = IF n > value THEN n ELSE value
  /\ tx' = [tx EXCEPT ![t].pc = IF n > value THEN "marking" ELSE "written",
                      ![t].id = n, ![t].how = "explicit"]
  /\ UNCHANGED <<dirty, rootVars, batch, writerVars, diskVars>>

MarkDirty(t) ==
  /\ tx[t].pc = "marking"
  /\ dirty' = TRUE
  /\ tx' = [tx EXCEPT ![t].pc = "written"]
  /\ UNCHANGED <<value, rootVars, batch, writerVars, diskVars>>

\* The operation of the working set on the property's row; a transaction that creates
\* an object writes no property here (a bound)
SetOp(t, op) ==
  /\ tx[t].pc \in {"begun", "written"} /\ tx[t].id = None
  /\ nextRec <= MaxRecord
  /\ tx' = [tx EXCEPT ![t].pc = "written", ![t].op = op]
  /\ UNCHANGED <<sequenceVars, rootVars, batch, writerVars, diskVars>>

\* The local operation on the property is set by an upsert: of a row that was there
\* when the transaction began an update, also after a local delete
\* (hint: the list was last built by an append, op_hint)
SetProperty(t, v, hint) ==
  /\ hint => v.list
  /\ LET op == tx[t].op
         read == IF op.kind # "none" THEN op.read
                 ELSE IF tx[t].base = NoRow THEN Own ELSE tx[t].base.at
     IN  SetOp(t, [kind |-> IF read = Own THEN "insert" ELSE "update",
                   val |-> v, hint |-> hint, read |-> read])

\* clear_property: delete, which finds nothing to do if the row is not visible
ClearProperty(t) ==
  /\ scenario.values # {}
  /\ \/ tx[t].op.kind \in {"insert", "update"}
     \/ tx[t].op.kind = "none" /\ tx[t].base # NoRow
  /\ SetOp(t, [NoOp EXCEPT !.kind = "delete",
                           !.read = IF tx[t].op.kind = "none" THEN tx[t].base.at
                                                              ELSE tx[t].op.read])

\* The reservation outlives the transaction
Rollback(t) ==
  /\ tx[t].pc = "written"
  /\ tx' = [tx EXCEPT ![t] = NoTx]
  /\ UNCHANGED <<sequenceVars, rootVars, batch, writerVars, diskVars>>

-----------------------------------------------------------------------------
\* Its commit

\* check_with_resolver on the property's row
RowConflicts(op) ==
  CASE op.kind = "none" -> FALSE
    [] op.kind = "insert" -> row # NoRow
    [] row # NoRow -> row.at # op.read
    [] OTHER -> op.kind = "update" \/ op.read # Own

\* Mutant: a clobbering value keeps its hint
ClearedHint_Kept(op) == op

\* clear_clobber_hints
ClearedHint(op) == [op EXCEPT !.hint = @ /\ ~scenario.clobber]

\* prepare and try_publish
Publish(t) ==
  /\ tx[t].pc = "written"
  /\ version < MaxVersion
  /\ scenario.clobber \/ ~RowConflicts(tx[t].op)
  /\ version' = version + 1
  /\ world' = IF tx[t].id = None THEN world ELSE world \cup {tx[t].id}
  /\ row' = CASE tx[t].op.kind = "none" -> row
              [] tx[t].op.kind = "delete" -> NoRow
              [] OTHER -> [at |-> version + 1, val |-> tx[t].op.val]
  /\ history' = [history EXCEPT ![version + 1] = row']
  /\ tx' = [tx EXCEPT ![t].pc = "published", ![t].version = version + 1,
                      ![t].op = ClearedHint(@)]
  /\ UNCHANGED <<sequenceVars, batch, writerVars, diskVars>>

PublishConflict(t) ==
  /\ tx[t].pc = "written"
  /\ ~scenario.clobber /\ RowConflicts(tx[t].op)
  /\ tx' = [tx EXCEPT ![t] = NoTx]
  /\ UNCHANGED <<sequenceVars, rootVars, batch, writerVars, diskVars>>

\* SequenceState::claim_dirty
ClaimDirty(t) ==
  /\ tx[t].pc = "published"
  /\ dirty' = FALSE
  /\ tx' = [tx EXCEPT ![t].pc = IF dirty THEN "load" ELSE "enqueue"]
  /\ UNCHANGED <<value, rootVars, batch, writerVars, diskVars>>

\* append_suffix: the candidate continues the list, as far as == can tell
Continues(base, candidate) ==
  /\ Len(candidate) > Len(base)
  /\ \A i \in DOMAIN base : Folded[base[i]] = Folded[candidate[i]]

\* prepare_property_value_mutation; the comparison of a list that is not shared
\* with its base may exceed its budget (afford)
Mutation(op, base, afford) ==
  CASE op.kind = "none" -> NoMutation
    [] op.kind = "delete" -> [NoMutation EXCEPT !.kind = "delete"]
    [] /\ op.kind = "update" /\ op.hint
       /\ base # NoRow /\ base.val.list /\ op.val.list
       /\ Continues(base.val.els, op.val.els)
       /\ afford \/ base.val.els = <<>> ->
         [kind |-> "append", val |-> op.val,
          suffix |-> SubSeq(op.val.els, Len(base.val.els) + 1, Len(op.val.els))]
    [] OTHER -> [NoMutation EXCEPT !.kind = "replace", !.val = op.val]

Write(t, seq) ==
  /\ \E afford \in BOOLEAN :
       batch' = [batch EXCEPT ![tx[t].version] =
                   [id |-> tx[t].id, seq |-> seq,
                    mutation |-> Mutation(tx[t].op, tx[t].base, afford)]]
  /\ tx' = [tx EXCEPT ![t] = NoTx]
  /\ UNCHANGED <<sequenceVars, rootVars, writerVars, diskVars>>

\* The batch carries the value of the sequence read now, or none
LoadAndWrite(t) == tx[t].pc = "load" /\ Write(t, value)

WriteOnly(t) == tx[t].pc = "enqueue" /\ Write(t, None)

-----------------------------------------------------------------------------
\* Storage

\* reaches_limit
ReachesLimit(suffix) ==
  \/ Len(chain.versions) >= MAX_RECORDS
  \/ chain.bytes + Len(suffix) > MAX_APPEND_BYTES

\* The records after a record is written, under the key of its version, and the
\* versions in `old' are removed
Inserted(rec, old) ==
  {r \in {r \in records : r.version # rec.version} \cup {rec} : r.version \notin old}

Whole(v) == [version |-> nextRec, full |-> TRUE, val |-> v]
Suffix(s) == [version |-> nextRec, full |-> FALSE, val |-> [list |-> TRUE, els |-> s]]

\* A complete record takes the place of the chain
Replace(v) ==
  /\ records' = Inserted(Whole(v), ToSet(chain.versions))
  /\ chain' = [versions |-> <<nextRec>>, bytes |-> 0]
  /\ nextRec' = nextRec + 1

\* PreparedPersistence::prepare and commit, for the property
PersistProperty(m) ==
  \/ m.kind = "none" /\ UNCHANGED <<records, writerVars>>
  \/ m.kind = "replace" /\ Replace(m.val)
  \/ m.kind = "append" /\ chain # NoChain /\ ReachesLimit(m.suffix) /\ Replace(m.val)
  \/ /\ m.kind = "append" /\ chain # NoChain /\ ~ReachesLimit(m.suffix)
     /\ records' = Inserted(Suffix(m.suffix), {})
     /\ chain' = [versions |-> chain.versions \o <<nextRec>>,
                  bytes |-> chain.bytes + Len(m.suffix)]
     /\ nextRec' = nextRec + 1
  \/ /\ m.kind = "delete"
     /\ records' = {r \in records : r.version \notin ToSet(chain.versions)}
     /\ chain' = NoChain
     /\ nextRec' = nextRec + 1

\* The next batch in version order, atomically
Store ==
  /\ stored < version
  /\ batch[stored + 1] # NoBatch
  /\ LET b == batch[stored + 1] IN
       /\ diskObjs' = IF b.id = None THEN diskObjs ELSE diskObjs \cup {b.id}
       /\ diskSeq' = IF b.seq = None THEN diskSeq ELSE b.seq
       /\ PersistProperty(b.mutation)
  /\ stored' = stored + 1
  /\ batch' = [batch EXCEPT ![stored + 1] = NoBatch]
  /\ history' = [history EXCEPT ![stored] = NoRow]
  /\ UNCHANGED <<sequenceVars, tx, version, world, row>>

-----------------------------------------------------------------------------
\* Opening the database again

\* The records in the order of their keys
InOrder ==
  CHOOSE s \in [1..Cardinality(records) -> records] :
    \A i, j \in DOMAIN s : i < j => s[i].version < s[j].version

\* The elements of the records after the first one
Joined(s) ==
  LET els[i \in 1..Len(s)] == IF i = 1 THEN <<>> ELSE els[i - 1] \o s[i].val.els
  IN  els[Len(s)]

Appended == Joined(InOrder)

\* PropertyValueReconstructor accepts the records
Readable ==
  records # {} =>
    /\ Head(InOrder).full
    /\ \A i \in 2..Len(InOrder) : ~InOrder[i].full /\ InOrder[i].val.els # <<>>
    /\ Len(InOrder) > 1 => Head(InOrder).val.list
    /\ Len(InOrder) <= MAX_RECORDS /\ Len(Appended) <= MAX_APPEND_BYTES

\* ... and what it makes of them
Reconstructed == [Head(InOrder).val EXCEPT !.els = @ \o Appended]

\* try_open on what storage holds; version numbers start again
Reopen ==
  /\ Readable
  /\ value' = diskSeq
  /\ dirty' = FALSE
  /\ tx' = [t \in Thread |-> NoTx]
  /\ world' = diskObjs
  /\ row' = IF records = {} THEN NoRow ELSE [at |-> 0, val |-> Reconstructed]
  /\ history' = [v \in 0..MaxVersion |-> IF v = 0 THEN row' ELSE NoRow]
  /\ batch' = [v \in 1..MaxVersion |-> NoBatch]
  /\ chain' = IF records = {} THEN NoChain
              ELSE [versions |-> [i \in DOMAIN InOrder |-> InOrder[i].version],
                    bytes |-> Len(Appended)]
  /\ nextRec' = IF records = {} THEN 1 ELSE Last(InOrder).version + 1
  /\ stored' = 0
  /\ version' = 0
  /\ UNCHANGED <<diskSeq, diskObjs, records>>

\* MoorDB::stop drains the writer: everything published is stored
StopAndReopen ==
  /\ version > 0
  /\ stored = version
  /\ \A t \in Thread : tx[t].pc = "idle"
  /\ Reopen

CrashAndReopen == scenario.crash /\ version > 0 /\ Reopen

Init ==
  /\ scenario \in Scenarios
  /\ value = None /\ dirty = FALSE
  /\ tx = [t \in Thread |-> NoTx]
  /\ version = 0 /\ world = {} /\ row = NoRow
  /\ batch = [v \in 1..MaxVersion |-> NoBatch]
  /\ stored = 0 /\ diskSeq = None /\ diskObjs = {} /\ records = {}
  /\ chain = NoChain /\ nextRec = 1
  /\ history = [v \in 0..MaxVersion |-> NoRow]

ThreadStep(t) ==
  \/ Begin(t) \/ Increment(t) \/ MarkDirty(t) \/ ClearProperty(t) \/ Rollback(t)
  \/ Publish(t) \/ PublishConflict(t) \/ ClaimDirty(t) \/ LoadAndWrite(t) \/ WriteOnly(t)
  \/ \E n \in scenario.explicit : UpdateMax(t, n)
  \/ \E v \in scenario.values, hint \in BOOLEAN : SetProperty(t, v, hint)

Next ==
  /\ (\E t \in scenario.threads : ThreadStep(t)) \/ Store \/ StopAndReopen \/ CrashAndReopen
  /\ UNCHANGED scenario

Spec == Init /\ [][Next]_vars
-----------------------------------------------------------------------------
Number == None..MaxNumber
Row == [at : Int, val : Value]
Op == [kind : {"none", "insert", "update", "delete"}, val : Value, hint : BOOLEAN,
       read : Int]
Change == [kind : {"none", "replace", "append", "delete"}, val : Value,
           suffix : Seq(DOMAIN Folded)]
Record == [version : Nat, full : BOOLEAN, val : Value]
Transaction ==
  [pc : {"idle", "begun", "marking", "written", "published", "load", "enqueue"},
   seen : SUBSET (0..MaxNumber), base : Row, id : Number, how : {"next", "explicit"},
   op : Op, version : None..MaxVersion]

TypeOK ==
  /\ scenario \in Scenarios
  /\ value \in Number /\ dirty \in BOOLEAN
  /\ tx \in [Thread -> Transaction]
  /\ version \in 0..MaxVersion /\ world \in SUBSET (0..MaxNumber)
  /\ row \in Row /\ history \in [0..MaxVersion -> Row]
  /\ batch \in [1..MaxVersion -> [id : Number, seq : Number, mutation : Change]]
  /\ stored \in 0..version
  /\ diskSeq \in Number /\ diskObjs \in SUBSET (0..MaxNumber)
  /\ records \in SUBSET Record
  /\ chain \in [versions : Seq(Nat), bytes : Nat] /\ nextRec \in Nat

\* Storage never holds an object numbered above the sequence stored with it:
\* at every instant at which the process may die, opening the database again
\* resumes numbering above every object that survived.
SequenceCoversStored == \A n \in diskObjs : n <= diskSeq

\* "used for generating new unique object IDs": the number a transaction gets
\* from the sequence belongs to no object of the world.
NextIsFresh ==
  \A t \in Thread :
    tx[t].pc \in {"marking", "written"} /\ tx[t].id # None /\ tx[t].how = "next"
      => tx[t].id \notin world

Equals(v, w) ==
  /\ v.list = w.list /\ Len(v.els) = Len(w.els)
  /\ \A i \in DOMAIN v.els : Folded[v.els[i]] = Folded[w.els[i]]

\* What the reader of the records would make of the property, at every instant at
\* which the process may die, equals (as == compares) the value published by the
\* last version that is stored; and the writer never meets an append to a chain
\* that is not there.  Appends are found by comparing with the transaction's own
\* snapshot, long before the chain they extend is known (property_value_store.rs).
StoredIsPublished ==
  /\ Readable
  /\ records = {} <=> history[stored] = NoRow
  /\ records # {} => Equals(Reconstructed, history[stored].val)
  /\ stored < version /\ batch[stored + 1].mutation.kind = "append" => chain # NoChain
=============================================================================
