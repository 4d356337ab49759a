------------------------- MODULE SnapshotIsolation -------------------------
(***************************************************************************)
(* What the commit pipeline promises its clients: snapshot isolation.      *)
(* A transaction reads one committed state; its commit is one step that    *)
(* overwrites, of every row it writes, exactly the version it read, unless *)
(* the row is a property value whose permissions grant Clobber and whose   *)
(* permissions and definition are still the ones the transaction read.     *)
(***************************************************************************)
EXTENDS Naturals

CONSTANTS Thread, Row, PropVal, PolicyOf, Lifetime,
          Stamp   \* versions a row may have; 0 stands for "no tuple"

VARIABLES db,    \* version of each row in the committed state
          snap,  \* the committed state each open transaction reads
          open   \* threads with an open transaction

sivars == <<db, snap, open>>

NoSnapshot == [r \in Row |-> 0]

Begin(t) ==
  /\ t \notin open
  /\ open' = open \cup {t}
  /\ snap' = [snap EXCEPT ![t] = db]
  /\ UNCHANGED db

Close(t) ==
  /\ t \in open
  /\ open' = open \ {t}
  /\ snap' = [snap EXCEPT ![t] = NoSnapshot]

\* Rollback, conflict, overload, or a transaction that wrote nothing
End(t) == Close(t) /\ UNCHANGED db

MayClobber(t, r) ==
  /\ r \in PropVal
  /\ db[PolicyOf[r]] = snap[t][PolicyOf[r]]
  /\ \A l \in Lifetime[r] : db[l] = snap[t][l]

Commit(t) ==
  /\ Close(t)
  /\ \E W \in SUBSET Row : \E D \in SUBSET W, s \in Stamp :
       /\ W # {}
       /\ \A r \in W : db[r] = snap[t][r] \/ MayClobber(t, r)
       /\ \A r \in Row : db[r] # s
       /\ db' = [r \in Row |-> IF r \in D THEN 0
                               ELSE IF r \in W THEN s ELSE db[r]]

Init ==
  /\ db \in [Row -> Stamp \cup {0}]
  /\ snap = [t \in Thread |-> NoSnapshot]
  /\ open = {}

Next == \E t \in Thread : Begin(t) \/ End(t) \/ Commit(t)

Spec == Init /\ [][Next]_sivars
=============================================================================
