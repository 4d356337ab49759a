-------------------------- MODULE MCBatchContents --------------------------
\* Small instances of BatchContents for TLC.
EXTENDS BatchContents, TLC

CONSTANTS t1, t2

\* == takes "a" and "A" for the same
Fold == [e \in {"a", "A", "b"} |-> IF e = "A" THEN "a" ELSE e]

List(els) == [list |-> TRUE, els |-> els]
Scalar == [list |-> FALSE, els |-> <<"a">>]

Numbers(threads, explicit, crash) ==
  [threads |-> threads, numbered |-> TRUE, explicit |-> explicit, values |-> {},
   clobber |-> FALSE, crash |-> crash, versions |-> 3]
Values(values, clobber, versions) ==
  [threads |-> {t1, t2}, numbered |-> FALSE, explicit |-> {}, values |-> values,
   clobber |-> clobber, crash |-> TRUE, versions |-> versions]

\* One thread that creates objects; two that append to a list up to both limits of
\* a chain, write what does not continue it or differs from it only in case, and
\* write over each other
Passing ==
  {Numbers({t1}, {1, 3}, TRUE),
   Values({List(<<>>), List(<<"a">>), List(<<"a", "b">>), List(<<"a", "b", "a">>)}, FALSE, 2),
   Values({List(<<"b">>), List(<<"a", "b">>), Scalar}, FALSE, 2),
   Values({List(<<"a">>), List(<<"A", "b">>)}, FALSE, 2),
   Values({List(<<"a">>), List(<<"b">>), List(<<"a", "b">>)}, TRUE, 3)}

TwoCreators == {Numbers({t1, t2}, {}, FALSE)}

Symmetry == Permutations({t1, t2})
=============================================================================
