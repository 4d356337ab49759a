---------------------------- MODULE MCSchedules ----------------------------
\* Small instances of Schedules for TLC.
EXTENDS Schedules, TLC

Every(catchup, overlap, jitter, persist) ==
  [kind |-> "every", delay |-> INTERVAL, adaptive |-> FALSE, catchup |-> catchup,
   overlap |-> overlap, jitter |-> jitter, maxFaults |-> 2, persist |-> persist]

At(delay, adaptive, overlap, persist) ==
  [kind |-> "at", delay |-> delay, adaptive |-> adaptive, catchup |-> "skip",
   overlap |-> overlap, jitter |-> 0, maxFaults |-> 2, persist |-> persist]

\* Every combination of the policies
Cadences ==
  {Every(c, v, 0, TRUE) : c \in {"skip", "once", "all"}, v \in {"skip", "queue", "concurrent"}}

Jittery == {Every(c, "skip", 1, TRUE) : c \in {"skip", "all"}}

OneShots == {At(0, FALSE, "skip", FALSE), At(2, FALSE, "skip", TRUE)}

\* Verbs that set their own next time
Adaptive ==
  {At(1, TRUE, "skip", TRUE)}
    \cup {[Every("skip", v, 0, TRUE) EXCEPT !.adaptive = TRUE] : v \in {"queue", "concurrent"}}

Numbers == {-1, 0, 1, 3}

Scenario(options, returns, faults, horizon, time, ids, tasks) ==
  [options |-> options, returns |-> returns, faults |-> faults, horizon |-> horizon,
   time |-> time, ids |-> ids, tasks |-> tasks]

\* Recurring schedules up to the last representable deadline, verbs that choose
\* their next time, and two one-shots whose ids are handed out across crashes
All ==
  {Scenario(Cadences \cup Jittery, {}, {"crash", "abort"}, 7, 5, 1, 3),
   Scenario(Adaptive, Numbers, {"exception", "submit", "target"}, 9, 6, 1, 4),
   Scenario(OneShots, {}, {"submit", "crash", "stop", "kill"}, 9, 2, 2, 2)}

\* A one-shot and a queueing cadence whose firings may be killed
Kills == {Scenario({At(0, FALSE, "skip", FALSE), Every("skip", "queue", 0, TRUE)}, {}, {"kill"}, 9, 5, 1, 2)}
=============================================================================
