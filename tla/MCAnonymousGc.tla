--------------------------- MODULE MCAnonymousGc ---------------------------
\* Small instances of AnonymousGc for TLC.
EXTENDS AnonymousGc, TLC

CONSTANTS t1, t2, a, b

\* A graph of two objects, and programs that run to their end
Terminal ==
  [existing |-> {a, b}, gone |-> {}, endings |-> {"rollback"}, effects |-> {}, starts |-> 2]

\* One object, and programs that meet a limit
Limited ==
  [existing |-> {a}, gone |-> {b}, endings |-> {"limit"}, effects |-> {}, starts |-> 2]

\* One object, and programs that suspend and schedule
Suspending ==
  [existing |-> {}, gone |-> {b}, endings |-> {"suspend"},
   effects |-> {"schedule"}, starts |-> 2]

\* One object, and programs that fork, renew and suspend
Forking ==
  [existing |-> {}, gone |-> {b}, endings |-> {"suspend", "renew", "fork"}, effects |-> {"drop"},
   starts |-> 1]

Safety == {Terminal, Limited, Suspending, Forking}

Symmetry == Permutations(Tasks)
=============================================================================
