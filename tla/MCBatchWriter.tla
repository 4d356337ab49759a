--------------------------- MODULE MCBatchWriter ---------------------------
\* Small instances of BatchWriter for TLC.
EXTENDS BatchWriter, TLC

CONSTANTS c1, c2, e1, e2, w1, s1

Symmetry == Permutations(Committer) \cup Permutations(Encoder) \cup Permutations(Stopper)
=============================================================================
