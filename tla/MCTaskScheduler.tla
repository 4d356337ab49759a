-------------------------- MODULE MCTaskScheduler --------------------------
\* Small instances of TaskScheduler for TLC.
EXTENDS TaskScheduler, TLC

CONSTANTS t1, t2, p1, p2

OnePlayer == [t \in Tasks |-> p1]
TwoPlayers == [t \in Tasks |-> IF t = t1 THEN p1 ELSE p2]

\* Each task may wait for the other; one may be killed by it, one from outside
Cancelling ==
  [calls |-> {<<"kill", t1, t2>>, <<"abort", t1, t1>>, <<"wait", t1, t2>>, <<"wait", t2, t1>>},
   waits |-> {"Time", "Task"}, resumes |-> {}, faults |-> {"conflict", "timeout"},
   collects |-> FALSE, boundaries |-> 2]

\* Messages both ways and to oneself
Messaging ==
  [calls |-> {<<"send", t1, t2>>, <<"send", t2, t1>>, <<"send", t1, t1>>, <<"recv", t1, t1>>},
   waits |-> {"Time", "TaskMessage"}, resumes |-> {}, faults |-> {"conflict", "session"},
   collects |-> FALSE, boundaries |-> 1]

\* A collection is forced while one task resumes another
Collecting ==
  [calls |-> {<<"gc", t1, t1>>, <<"resume", t1, t2>>},
   waits |-> {"Input", "Never"}, resumes |-> {"Input", "Never", "GCComplete", "Time"},
   faults |-> {"conflict", "reject"}, collects |-> TRUE, boundaries |-> 1]

\* Tasks wait for workers and each other; commits, sessions and threads fail
Failing ==
  [calls |-> {<<"wait", t2, t1>>},
   waits |-> {"Worker", "Task"}, resumes |-> {},
   faults |-> {"reject", "session", "notify", "panic", "timeout"}, collects |-> FALSE,
   boundaries |-> 2]

Safety == {Cancelling, Messaging, Collecting, Failing}

\* A player is disconnected, events cannot be logged and tasks not be resumed
Booting ==
  [calls |-> {<<"boot", t1, t1>>, <<"boot", t1, t2>>}, waits |-> {"Worker"}, resumes |-> {},
   faults |-> {"begin", "log"}, collects |-> FALSE, boundaries |-> 1]

\* Cancellation while collections come and go
Live ==
  {Booting,
   [calls |-> {<<"kill", t1, t2>>, <<"wait", t2, t1>>}, waits |-> {"Time", "Task"}, resumes |-> {},
    faults |-> {"conflict"}, collects |-> TRUE, boundaries |-> 1]}

Boots == {[Booting EXCEPT !.faults = {}]}
=============================================================================
