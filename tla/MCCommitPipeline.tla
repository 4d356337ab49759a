-------------------------- MODULE MCCommitPipeline --------------------------
\* Small instances of CommitPipeline for TLC.
EXTENDS CommitPipeline, TLC

CONSTANTS a, c, val, perms, defn, t1, t2

\* Ordinary rows; the keys of a and c share bit 2 of the filter
RowHash == (a :> {1, 2} @@ c :> {2, 3})
NoProps == [r \in {} |-> r]

\* val is a property value, perms its permissions, defn the row of its definition
PropHash == (val :> {1} @@ perms :> {2} @@ defn :> {1, 3})
PropPolicy == (val :> perms)
PropLifetime == (val :> {defn})

Symmetry == Permutations(Thread)
=============================================================================
