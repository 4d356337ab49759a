-------------------------- MODULE SchedulesProofs --------------------------
(***************************************************************************)
(* Proofs about the timer schedules, for any options, intervals, clocks    *)
(* and faults.                                                             *)
(***************************************************************************)
EXTENDS Schedules, LeastNumbers

-----------------------------------------------------------------------------
\* The inductive invariant, in parts

\* The firings of an entry are different tasks
DistinctFirings(e) ==
  IsFiniteSet(e.running) /\ \A f, g \in e.running : f.task = g.task => f = g

\* ... that have been started: the next task is n
FiringsKnown(e, n) == DistinctFirings(e) /\ \A f \in e.running : f.task < n

Cadenced(e) == e.opt.kind = "every" /\ ~e.opt.adaptive

Tally(e) == e.runs + e.faults + e.missed + e.overlaps + e.lost

\* PointsAccounted, without division
Accounted(e) ==
  Cadenced(e) =>
    \E k \in Nat : /\ e.deadline = e.first + INTERVAL * k
                   /\ IF e.opt.catchup = "once" THEN k >= Tally(e) + Cardinality(e.running)
                                                ELSE k = Tally(e) + Cardinality(e.running)

\* The points of a cadence that were fired, those of S, lie before the next one
PointsAhead(id, e, S) == Cadenced(e) => \A d \in Int : <<id, d>> \in S => d < e.deadline

\* One firing at a time, unless the schedule allows more
AtMostOne(e) == e.opt.overlap # "concurrent" => \A f, g \in e.running : f = g

\* All that for a live entry in memory, and for one on disk
EntryOK(id, e, n, S) ==
  FiringsKnown(e, n) /\ Accounted(e) /\ PointsAhead(id, e, S) /\ AtMostOne(e)

EntriesOK == \A id \in Ids : Live(entries[id]) => EntryOK(id, entries[id], nextTask, served)
DiskOK == \A id \in Ids : disk[id] # NoEntry => EntryOK(id, disk[id], nextTask, served)

\* Ids: the high-water marks are beyond what programs were given, and a schedule that is
\* yet to be created has left no trace
IdsKnown ==
  /\ \A id \in handed : id < nextId /\ id < diskNext
  /\ \A id \in Ids : buffered[id] # NoEntry \/ entries[id] # NoEntry \/ disk[id] # NoEntry
                       => id \in handed
  /\ \A c \in collected : c[1] \in handed
  /\ \A s \in served : s[1] \in handed
  /\ \A id \in Ids : buffered[id] # NoEntry =>
       /\ entries[id] = NoEntry
       /\ \A c \in collected : c[1] # id
       /\ \A s \in served : s[1] # id

\* A collected expiry is of an arm that was due and may fire, or of an earlier one
CollectedDue ==
  /\ \A c \in collected : LET e == entries[c[1]] IN
       Live(e) => /\ c[2] <= e.gen
                  /\ c[2] = e.gen /\ e.current => ~e.armed /\ e.nextRun <= now /\ Collects(e)
  /\ collectedAt <= now

\* What a process that is down keeps
DownForgets ==
  /\ state = "Down" => /\ \A id \in Ids : entries[id] = NoEntry /\ buffered[id] = NoEntry
                       /\ collected = {}
                       /\ \A t \in diskTasks : task[t] = "suspended"
  /\ \A t \in TaskIds : t \in diskTasks => task[t] # "none"

\* A failed session drops a collected expiry for good (README, deviations)
Remembered == "session" \notin Faults => NeverForgotten

ScheduleInv ==
  /\ TypeOK /\ EntriesOK /\ DiskOK /\ IdsKnown /\ CollectedDue /\ DownForgets
  /\ NoDeadFiring /\ Remembered

-----------------------------------------------------------------------------
\* Arithmetic of cadences

\* The points stepped over are counted by a natural number
LEMMA StepsTypes ==
  ASSUME NEW from \in Int, NEW at \in Int
  PROVE  /\ StepsAfter(from, at) \in Nat
         /\ INTERVAL * StepsAfter(from, at) \in Nat
         /\ NextCadenceAfter(from, at) = from + INTERVAL * StepsAfter(from, at)
         /\ NextCadenceAfter(from, at) \in Int
<1> INTERVAL \in Nat \ {0}  BY ScheduleAssumption
<1>1. ASSUME NEW a \in Nat PROVE a \div INTERVAL \in Nat
  OBVIOUS
<1>2. StepsAfter(from, at) \in Nat  BY <1>1 DEF StepsAfter
<1>3. ASSUME NEW k \in Nat PROVE INTERVAL * k \in Nat
  OBVIOUS
<1> QED BY <1>2, <1>3 DEF NextCadenceAfter

\* One more point
LEMMA OneMore ==
  ASSUME NEW d \in Int, NEW k \in Nat
  PROVE  /\ d + INTERVAL \in Int /\ INTERVAL * k \in Nat
         /\ d + INTERVAL + INTERVAL * k = d + INTERVAL * (k + 1)
         /\ d < d + INTERVAL + INTERVAL * k
<1> INTERVAL \in Nat \ {0}  BY ScheduleAssumption
<1>1. INTERVAL * k \in Nat  OBVIOUS
<1> QED BY <1>1

\* The options of a scenario
LEMMA ScenarioTypes ==
  ASSUME scenario \in Scenarios
  PROVE  /\ Options \subseteq OptionType /\ Offsets \subseteq Int
         /\ Returns \subseteq Int /\ MAX_DEADLINE \in Nat /\ MaxTime \in Nat /\ MaxId \in Nat
         /\ MaxTasks \in Nat
<1>1. /\ Options \subseteq OptionType
      /\ Returns \subseteq Int /\ MAX_DEADLINE \in Nat /\ MaxTime \in Nat /\ MaxId \in Nat
      /\ MaxTasks \in Nat
  BY ScheduleAssumption DEF Options, Returns, MAX_DEADLINE, MaxTime, MaxId, MaxTasks
<1>2. ASSUME NEW p \in Options PROVE -p.jitter..p.jitter \subseteq Int
  OBVIOUS
<1>3. ASSUME NEW o \in UNION {-p.jitter..p.jitter : p \in Options} PROVE o \in Int
  <2>1. PICK p \in Options : o \in -p.jitter..p.jitter  OBVIOUS
  <2> QED BY <1>2, <2>1
<1>4. ASSUME NEW o \in Offsets PROVE o \in Int
  <2>1. CASE o \in UNION {-p.jitter..p.jitter : p \in Options}  BY <1>3, <2>1
  <2>2. CASE o = 0  BY <2>2
  <2> QED BY <2>1, <2>2 DEF Offsets
<1> QED BY <1>1, <1>4

-----------------------------------------------------------------------------
\* The operations on one entry

\* The fields of an entry
LEMMA EntryFields ==
  ASSUME NEW e \in Entry, scenario \in Scenarios
  PROVE  /\ e.status \in {"live", "retired"} /\ e.opt \in Options /\ e.opt \in OptionType
         /\ e.nextRun \in Int /\ e.deadline \in Int /\ e.first \in Int /\ e.gen \in Nat
         /\ e.current \in BOOLEAN /\ e.armed \in BOOLEAN /\ e.queued \in BOOLEAN
         /\ e.running \in SUBSET [task : TaskIds, deadline : Int]
         /\ e.runs \in Nat /\ e.faults \in Nat /\ e.consecutive \in Nat /\ e.missed \in Nat
         /\ e.overlaps \in Nat /\ e.lost \in Nat /\ e.retiredAt \in Nat
         /\ Tally(e) \in Nat
         /\ e # NoEntry
BY ScenarioTypes DEF Entry, Tally, NoEntry

\* Two entries that agree but for their arm
SameButArm(e, r) ==
  /\ r.status = e.status /\ r.opt = e.opt /\ r.deadline = e.deadline /\ r.first = e.first
  /\ r.running = e.running /\ r.queued = e.queued /\ r.runs = e.runs /\ r.faults = e.faults
  /\ r.missed = e.missed /\ r.overlaps = e.overlaps /\ r.lost = e.lost

Rearmed(e, r) == r.armed /\ r.current /\ r.gen = e.gen + 1

SameArm(e, r) ==
  r.armed = e.armed /\ r.current = e.current /\ r.gen = e.gen /\ r.nextRun = e.nextRun

\* Arming an entry starts a new generation at the given deadline and changes nothing else
LEMMA ArmFacts ==
  ASSUME NEW e \in Entry, NEW d \in Int
  PROVE  Arm(e, d) \in Entry /\ SameButArm(e, Arm(e, d)) /\ Rearmed(e, Arm(e, d))
<1> DEFINE r == Arm(e, d)
<1>1. r \in Entry
  <2>1. ASSUME NEW n \in Nat
        PROVE  [e EXCEPT !.gen = n, !.current = TRUE, !.armed = TRUE, !.nextRun = d] \in Entry
    BY DEF Entry
  <2>2. e.gen + 1 \in Nat  BY DEF Entry
  <2> QED BY <2>1, <2>2 DEF Arm
<1>2. r.gen = e.gen + 1 /\ r.armed = TRUE /\ r.current = TRUE  BY DEF Entry, Arm
<1>3. SameButArm(e, r)  BY DEF Entry, Arm, SameButArm
<1> QED BY <1>1, <1>2, <1>3 DEF Rearmed

\* A retired entry is no longer live
LEMMA RetireFacts ==
  ASSUME NEW e \in Entry, NEW why \in Reasons, NEW at \in Nat
  PROVE  Retire(e, why, at) \in Entry /\ ~Live(Retire(e, why, at))
BY DEF Entry, Retire, Live

\* An entry whose next deadline cannot be represented is retired
LEMMA OutOfRangeFacts ==
  ASSUME NEW e \in Entry, NEW at \in Nat
  PROVE  RetireOutOfRange(e, at) \in Entry /\ ~Live(RetireOutOfRange(e, at))
<1> DEFINE f == [e EXCEPT !.faults = @ + 1]
<1>1. f \in Entry  BY DEF Entry
<1>2. Retire(f, "deadline_out_of_range", at) \in Entry /\ ~Live(Retire(f, "deadline_out_of_range", at))
  <2> HIDE DEF f
  <2> QED BY <1>1, RetireFacts DEF Reasons
<1> QED BY <1>2 DEF RetireOutOfRange

\* A jittered deadline is a time
LEMMA JitteredType ==
  ASSUME NEW e \in Entry, NEW d \in Int, NEW o \in Int, NEW floor \in Int, scenario \in Scenarios
  PROVE  Jittered(e, d, o, floor) \in Int
BY ScenarioTypes DEF Jittered

\* The deadline moves on by k points of the cadence, j of which are firings that the tally
\* does not hold yet
Advances(e, r, j) ==
  Cadenced(e) =>
    \E k \in Nat : /\ k >= j /\ r.deadline = e.deadline + INTERVAL * k
                   /\ IF e.opt.catchup = "once" THEN Tally(r) + j <= Tally(e) + k
                                                ELSE Tally(r) + j = Tally(e) + k

\* The entry is armed again, or retires
GoesOn(e, r, j) ==
  /\ r \in Entry
  /\ Live(r) => /\ Live(e) /\ r.opt = e.opt /\ r.first = e.first /\ r.running = e.running
                /\ Rearmed(e, r) /\ Advances(e, r, j)

\* Two entries that agree but for the next point, what was missed and what is queued
Moved(e, g) ==
  /\ g \in Entry /\ g.status = e.status /\ g.opt = e.opt /\ g.first = e.first /\ g.running = e.running
  /\ g.gen = e.gen /\ g.runs = e.runs /\ g.faults = e.faults /\ g.lost = e.lost

\* Moving the deadline over missed points counts each of them
LEMMA MissedMove ==
  ASSUME NEW e \in Entry, NEW next \in Int, NEW passed \in Nat
  PROVE  LET g == [e EXCEPT !.deadline = next, !.missed = @ + passed] IN
         /\ Moved(e, g) /\ g.deadline = next
         /\ g.missed + g.overlaps = e.missed + e.overlaps + passed
<1> DEFINE m == e.missed + passed
           g == [e EXCEPT !.deadline = next, !.missed = m]
<1> SUFFICES /\ Moved(e, g) /\ g.deadline = next
             /\ g.missed + g.overlaps = e.missed + e.overlaps + passed
  OBVIOUS
<1>1. m \in Nat /\ e.missed \in Nat /\ e.overlaps \in Nat  BY DEF Entry
<1> HIDE DEF m
<1>2. Moved(e, g) /\ g.deadline = next /\ g.missed = m /\ g.overlaps = e.overlaps
  BY <1>1 DEF Entry, Moved
<1> HIDE DEF g
<1> QED BY <1>1, <1>2 DEF m

\* Moving the deadline over overlapped points counts each of them
LEMMA OverlappedMove ==
  ASSUME NEW e \in Entry, NEW next \in Int, NEW passed \in Nat
  PROVE  LET g == [e EXCEPT !.overlaps = @ + passed, !.deadline = next] IN
         /\ Moved(e, g) /\ g.deadline = next
         /\ g.missed + g.overlaps = e.missed + e.overlaps + passed
<1> DEFINE m == e.overlaps + passed
           g == [e EXCEPT !.overlaps = m, !.deadline = next]
<1> SUFFICES /\ Moved(e, g) /\ g.deadline = next
             /\ g.missed + g.overlaps = e.missed + e.overlaps + passed
  OBVIOUS
<1>1. m \in Nat /\ e.missed \in Nat /\ e.overlaps \in Nat  BY DEF Entry
<1> HIDE DEF m
<1>2. Moved(e, g) /\ g.deadline = next /\ g.missed = e.missed /\ g.overlaps = m
  BY <1>1 DEF Entry, Moved
<1> HIDE DEF g
<1> QED BY <1>1, <1>2 DEF m

\* Firing what was queued moves the deadline, and counts what was passed as overlaps
LEMMA QueuedMove ==
  ASSUME NEW e \in Entry, NEW next \in Int, NEW passed \in Nat
  PROVE  LET g == [e EXCEPT !.queued = FALSE, !.overlaps = @ + passed, !.deadline = next] IN
         /\ Moved(e, g) /\ g.deadline = next
         /\ g.missed + g.overlaps = e.missed + e.overlaps + passed
<1> DEFINE m == e.overlaps + passed
           g == [e EXCEPT !.queued = FALSE, !.overlaps = m, !.deadline = next]
<1> SUFFICES /\ Moved(e, g) /\ g.deadline = next
             /\ g.missed + g.overlaps = e.missed + e.overlaps + passed
  OBVIOUS
<1>1. m \in Nat /\ e.missed \in Nat /\ e.overlaps \in Nat  BY DEF Entry
<1> HIDE DEF m
<1>2. Moved(e, g) /\ g.deadline = next /\ g.missed = e.missed /\ g.overlaps = m
  BY <1>1 DEF Entry, Moved
<1> HIDE DEF g
<1> QED BY <1>1, <1>2 DEF m

\* An adapted deadline leaves the tallies alone
LEMMA AdaptedMove ==
  ASSUME NEW e \in Entry, NEW next \in Int
  PROVE  LET g == [e EXCEPT !.deadline = next, !.queued = FALSE] IN
         Moved(e, g) /\ g.missed = e.missed /\ g.overlaps = e.overlaps
BY DEF Entry, Moved

\* What an operation that arms an entry at another point comes to
LEMMA ArmMoved ==
  ASSUME scenario \in Scenarios, NEW e \in Entry, NEW g, Moved(e, g), NEW d \in Int,
         NEW j \in Nat, NEW k \in Nat, k >= j, NEW passed \in Nat,
         g.missed + g.overlaps = e.missed + e.overlaps + passed,
         Cadenced(e) => /\ g.deadline = e.deadline + INTERVAL * k
                        /\ IF e.opt.catchup = "once" THEN passed + j <= k ELSE passed + j = k
  PROVE  GoesOn(e, Arm(g, d), j)
<1> DEFINE r == Arm(g, d)
<1> SUFFICES GoesOn(e, r, j)  OBVIOUS
<1>1. r \in Entry /\ SameButArm(g, r) /\ Rearmed(g, r)  BY ArmFacts DEF Moved
<1> HIDE DEF r
<1>2. Tally(e) \in Nat /\ Tally(r) = Tally(e) + passed
  BY <1>1, EntryFields DEF Tally, SameButArm, Moved
<1>3. Advances(e, r, j)
  <2>1. r.deadline = g.deadline  BY <1>1 DEF SameButArm
  <2> QED BY <1>2, <2>1 DEF Advances
<1> QED BY <1>1, <1>3 DEF GoesOn, Live, SameButArm, Rearmed, Moved

\* After a firing the schedule goes on past the deadline it has just served
LEMMA ArmAfterFacts ==
  ASSUME scenario \in Scenarios, NEW e \in Entry, NEW at \in Nat, NEW o \in Int
  PROVE  GoesOn(e, ArmAfter(e, e.deadline, at, o), 1)
<1>0. e.deadline \in Int /\ e.opt.catchup \in {"skip", "once", "all"}
  BY EntryFields DEF OptionType
<1> DEFINE first == e.deadline + INTERVAL
           steps == StepsAfter(first, at)
           jump == first <= at /\ e.opt.catchup # "all"
           next == IF jump THEN NextCadenceAfter(first, at) ELSE first
           passed == IF jump /\ e.opt.catchup = "skip" THEN StepsAfter(first, at) ELSE 0
           k == IF jump THEN steps + 1 ELSE 1
           g == [e EXCEPT !.deadline = next, !.missed = @ + passed]
<1>1. first \in Int  BY <1>0, ScheduleAssumption
<1>2. steps \in Nat /\ NextCadenceAfter(first, at) = first + INTERVAL * steps
        /\ NextCadenceAfter(first, at) \in Int
  <2> HIDE DEF first
  <2> QED BY <1>1, StepsTypes
<1>3. first + INTERVAL * steps = e.deadline + INTERVAL * (steps + 1)
        /\ first = e.deadline + INTERVAL * 1
  <2> HIDE DEF steps
  <2> QED BY <1>0, <1>2, OneMore, ScheduleAssumption
<1> SUFFICES GoesOn(e, IF next > MAX_DEADLINE THEN RetireOutOfRange(e, at)
                       ELSE Arm(g, Jittered(e, next, o, at)), 1)
  BY DEF ArmAfter
<1> HIDE DEF first, steps
<1>4. passed \in Nat /\ k \in Nat /\ next \in Int /\ k >= 1 /\ next = e.deadline + INTERVAL * k
  BY <1>1, <1>2, <1>3 DEF steps
<1>5. IF e.opt.catchup = "once" THEN passed + 1 <= k ELSE passed + 1 = k
  BY <1>0, <1>2 DEF steps
<1> HIDE DEF next, passed, k
<1>6. Jittered(e, next, o, at) \in Int  BY <1>4, JitteredType
<1>7. Moved(e, g) /\ g.deadline = next /\ g.missed + g.overlaps = e.missed + e.overlaps + passed
  BY <1>4, MissedMove
<1> HIDE DEF g
<1>8. GoesOn(e, Arm(g, Jittered(e, next, o, at)), 1)
  BY <1>4, <1>5, <1>6, <1>7, ArmMoved
<1>9. GoesOn(e, RetireOutOfRange(e, at), 1)  BY OutOfRangeFacts DEF GoesOn
<1> QED BY <1>8, <1>9

\* A skipped deadline is counted as overlapped and the schedule goes on
LEMMA SkipOverlappedFacts ==
  ASSUME scenario \in Scenarios, NEW e \in Entry, NEW at \in Nat, NEW o \in Int, e.opt.kind # "at"
  PROVE  GoesOn(e, SkipOverlapped(e, at, o), 0)
<1>0. e.deadline \in Int /\ e.overlaps \in Nat  BY EntryFields
<1> DEFINE first == e.deadline + INTERVAL
           steps == StepsAfter(first, at)
           next == NextCadenceAfter(first, at)
           passed == steps + 1
           g == [e EXCEPT !.overlaps = @ + passed, !.deadline = next]
           h == [e EXCEPT !.overlaps = @ + 1]
<1>1. first \in Int  BY <1>0, ScheduleAssumption
<1>2. steps \in Nat /\ next = first + INTERVAL * steps /\ next \in Int
  <2> HIDE DEF first
  <2> QED BY <1>1, StepsTypes
<1>3. first + INTERVAL * steps = e.deadline + INTERVAL * (steps + 1)
  <2> HIDE DEF steps
  <2> QED BY <1>0, <1>2, OneMore
<1> SUFFICES GoesOn(e, IF next > MAX_DEADLINE THEN RetireOutOfRange(h, at)
                       ELSE Arm(g, Jittered(e, next, o, at)), 0)
  <2>1. e.overlaps + 1 + steps = e.overlaps + passed  BY <1>0, <1>2
  <2>2. [e EXCEPT !.overlaps = @ + 1 + steps, !.deadline = next] = g  BY <2>1
  <2> QED BY <2>2 DEF SkipOverlapped
<1> HIDE DEF first, steps, next
<1>4. passed \in Nat /\ next = e.deadline + INTERVAL * passed  BY <1>2, <1>3
<1> HIDE DEF passed
<1>5. Jittered(e, next, o, at) \in Int  BY <1>2, JitteredType
<1>6. Moved(e, g) /\ g.deadline = next /\ g.missed + g.overlaps = e.missed + e.overlaps + passed
  BY <1>2, <1>4, OverlappedMove
<1>7. h \in Entry  BY DEF Entry
<1> HIDE DEF g, h
<1>8. GoesOn(e, Arm(g, Jittered(e, next, o, at)), 0)
  BY <1>4, <1>5, <1>6, ArmMoved
<1>9. GoesOn(e, RetireOutOfRange(h, at), 0)  BY <1>7, OutOfRangeFacts DEF GoesOn
<1> QED BY <1>8, <1>9

\* A queued firing goes on at the last point that has passed
LEMMA FireQueuedFacts ==
  ASSUME scenario \in Scenarios, NEW e \in Entry, NEW at \in Nat
  PROVE  GoesOn(e, FireQueued(e, at), 0)
<1>0. e.deadline \in Int  BY EntryFields
<1> DEFINE first == e.deadline + INTERVAL
           steps == StepsAfter(first, at)
           passed == IF NextCadenceAfter(first, at) > MAX_DEADLINE THEN 0 ELSE steps
           g == [e EXCEPT !.queued = FALSE, !.overlaps = @ + passed, !.deadline = @ + INTERVAL * passed]
<1>1. first \in Int  BY <1>0, ScheduleAssumption
<1>2. steps \in Nat
  <2> HIDE DEF first
  <2> QED BY <1>1, StepsTypes
<1> SUFFICES GoesOn(e, Arm(g, at), 0)  BY DEF FireQueued
<1>3. passed \in Nat  BY <1>2
<1> HIDE DEF passed
<1>4. e.deadline + INTERVAL * passed \in Int  BY <1>0, <1>3, ScheduleAssumption
<1>5. Moved(e, g) /\ g.deadline = e.deadline + INTERVAL * passed
        /\ g.missed + g.overlaps = e.missed + e.overlaps + passed
  BY <1>3, <1>4, QueuedMove
<1> HIDE DEF g
<1> QED BY <1>3, <1>5, ArmMoved

\* What a firing can report
LEMMA OutcomeTypes ==
  ASSUME scenario \in Scenarios, NEW outcome \in Outcomes
  PROVE  outcome.ok \in BOOLEAN /\ outcome.number \in BOOLEAN /\ outcome.value \in Int
<1>1. CASE outcome \in {NotANumber, Fault}
  <2>1. NotANumber.ok = TRUE /\ NotANumber.number = FALSE /\ NotANumber.value = 0
    BY DEF NotANumber
  <2>2. Fault.ok = FALSE /\ Fault.number = FALSE /\ Fault.value = 0
    BY DEF Fault
  <2>3. 0 \in Int  OBVIOUS
  <2>4. outcome = NotANumber \/ outcome = Fault  BY <1>1
  <2> QED BY <2>1, <2>2, <2>3, <2>4, Zenon
<1>2. CASE outcome \in {Success(n) : n \in Returns}
  <2>1. PICK n \in Returns : outcome = Success(n)  BY <1>2
  <2> QED BY <2>1, ScenarioTypes DEF Success
<1> QED BY <1>1, <1>2 DEF Outcomes

\* A firing's outcome arms the entry, retires it, or leaves it as it is: a recurring one
\* with nothing queued
LEMMA AfterOutcomeFacts ==
  ASSUME scenario \in Scenarios, NEW e \in Entry, NEW base \in Int, NEW outcome \in Outcomes,
         NEW at \in Nat, NEW o \in Int
  PROVE  LET r == AfterOutcome(e, base, outcome, at, o) IN
         \/ GoesOn(e, r, 0)
         \/ r = e /\ e.opt.kind = "every" /\ ~e.queued
<1> DEFINE number == e.opt.adaptive /\ outcome.number
           n == outcome.value
           next == base + n
           g == [e EXCEPT !.deadline = next, !.queued = FALSE]
           f == [e EXCEPT !.faults = @ + 1]
           r == AfterOutcome(e, base, outcome, at, o)
<1>0. outcome.number \in BOOLEAN /\ n \in Int /\ next \in Int /\ e.opt \in OptionType
  BY OutcomeTypes, EntryFields
<1>1. GoesOn(e, RetireOutOfRange(e, at), 0)  BY OutOfRangeFacts DEF GoesOn
<1>2. CASE number /\ n > 0
  <2>1. r = IF next > MAX_DEADLINE THEN RetireOutOfRange(e, at) ELSE Arm(g, Jittered(e, next, o, at))
    BY <1>2 DEF AfterOutcome
  <2>2. Moved(e, g) /\ g.missed = e.missed /\ g.overlaps = e.overlaps  BY <1>0, AdaptedMove
  <2>3. ~Cadenced(e)  BY <1>2 DEF Cadenced
  <2>4. Jittered(e, next, o, at) \in Int  BY <1>0, JitteredType
  <2>5. e.missed \in Nat /\ e.overlaps \in Nat  BY EntryFields
  <2> HIDE DEF g, next, r
  <2>6. g.missed + g.overlaps = e.missed + e.overlaps + 0  BY <2>2, <2>5
  <2>7. GoesOn(e, Arm(g, Jittered(e, next, o, at)), 0)
    BY <2>2, <2>3, <2>4, <2>6, ArmMoved
  <2>8. GoesOn(e, r, 0)  BY <1>1, <2>1, <2>7
  <2> QED BY <2>8 DEF r
<1>3. ASSUME NEW why \in Reasons PROVE GoesOn(e, Retire(e, why, at), 0) /\ GoesOn(e, Retire(f, why, at), 0)
  <2>1. f \in Entry  BY DEF Entry
  <2> HIDE DEF f
  <2> QED BY <2>1, RetireFacts DEF GoesOn
<1>4. CASE ~(number /\ n > 0)
  <2>1. \/ \E why \in Reasons : r \in {Retire(e, why, at), Retire(f, why, at)}
        \/ r = FireQueued(e, at)
        \/ r = e /\ e.opt.kind # "at" /\ ~e.queued
    BY <1>4 DEF AfterOutcome, Reasons
  <2>2. e.opt.kind \in {"at", "every"}  BY <1>0 DEF OptionType
  <2> HIDE DEF r, f
  <2>3. GoesOn(e, FireQueued(e, at), 0)  BY FireQueuedFacts
  <2>4. CASE \E why \in Reasons : r \in {Retire(e, why, at), Retire(f, why, at)}
    <3>1. GoesOn(e, r, 0)  BY <1>3, <2>4
    <3> QED BY <3>1 DEF r
  <2>5. CASE r = FireQueued(e, at)  BY <2>3, <2>5 DEF r
  <2>6. CASE r = e /\ e.opt.kind # "at" /\ ~e.queued  BY <2>2, <2>6 DEF r
  <2> QED BY <2>1, <2>4, <2>5, <2>6
<1> QED BY <1>2, <1>4

\* Accounting, with c of the firings under way counted
Balanced(e, c) ==
  Cadenced(e) =>
    \E k \in Nat : /\ e.deadline = e.first + INTERVAL * k
                   /\ IF e.opt.catchup = "once" THEN k >= Tally(e) + c ELSE k = Tally(e) + c

\* What goes on keeps its accounts, and its deadline does not move back
LEMMA BalanceKept ==
  ASSUME scenario \in Scenarios, NEW e \in Entry, NEW r, NEW j \in Nat, NEW c \in Nat,
         GoesOn(e, r, j), Live(r), Balanced(e, c), Cardinality(e.running) = c + j
  PROVE  Accounted(r) /\ (Cadenced(e) => r.deadline >= e.deadline + INTERVAL * j)
<1> SUFFICES ASSUME Cadenced(e)
             PROVE  Accounted(r) /\ r.deadline >= e.deadline + INTERVAL * j
  BY DEF GoesOn, Accounted, Cadenced
<1>1. /\ e.deadline \in Int /\ e.first \in Int /\ Tally(e) \in Nat /\ Tally(r) \in Nat
      /\ r.opt = e.opt /\ r.first = e.first /\ r.running = e.running
  BY EntryFields DEF GoesOn
<1>2. PICK k \in Nat : /\ e.deadline = e.first + INTERVAL * k
                       /\ IF e.opt.catchup = "once" THEN k >= Tally(e) + c ELSE k = Tally(e) + c
  BY DEF Balanced
<1>3. PICK m \in Nat : /\ m >= j /\ r.deadline = e.deadline + INTERVAL * m
                       /\ IF e.opt.catchup = "once" THEN Tally(r) + j <= Tally(e) + m
                                                    ELSE Tally(r) + j = Tally(e) + m
  BY DEF GoesOn, Advances
<1> INTERVAL \in Nat  BY ScheduleAssumption
<1>4. r.deadline = r.first + INTERVAL * (k + m)
  <2>1. INTERVAL * (k + m) = INTERVAL * k + INTERVAL * m  OBVIOUS
  <2>2. INTERVAL * k \in Nat /\ INTERVAL * m \in Nat  OBVIOUS
  <2>3. e.deadline = e.first + INTERVAL * k /\ r.deadline = e.deadline + INTERVAL * m
    BY <1>2, <1>3
  <2> QED BY <1>1, <2>1, <2>2, <2>3
<1>5. IF r.opt.catchup = "once" THEN k + m >= Tally(r) + Cardinality(r.running)
                                ELSE k + m = Tally(r) + Cardinality(r.running)
  <2>1. Cardinality(r.running) = c + j  BY <1>1
  <2>2. CASE e.opt.catchup = "once"
    <3>1. k >= Tally(e) + c /\ Tally(r) + j <= Tally(e) + m  BY <1>2, <1>3, <2>2
    <3>2. k + m >= Tally(r) + (c + j)  BY <1>1, <3>1
    <3> QED BY <1>1, <2>1, <2>2, <3>2
  <2>3. CASE e.opt.catchup # "once"
    <3>1. k = Tally(e) + c /\ Tally(r) + j = Tally(e) + m  BY <1>2, <1>3, <2>3
    <3>2. k + m = Tally(r) + (c + j)  BY <1>1, <3>1
    <3> QED BY <1>1, <2>1, <2>3, <3>2
  <2> QED BY <2>2, <2>3
<1>6. k + m \in Nat  OBVIOUS
<1>7. Accounted(r)  BY <1>4, <1>5, <1>6 DEF Accounted
<1>8. INTERVAL * m >= INTERVAL * j
  <2>1. INTERVAL * m = INTERVAL * j + INTERVAL * (m - j)  BY <1>3
  <2>2. INTERVAL * (m - j) \in Nat /\ INTERVAL * j \in Nat
    <3>1. m - j \in Nat  BY <1>3
    <3> QED BY <3>1
  <2> QED BY <2>1, <2>2
<1>9. r.deadline >= e.deadline + INTERVAL * j
  <2>1. INTERVAL * m \in Nat /\ INTERVAL * j \in Nat  OBVIOUS
  <2> QED BY <1>1, <1>3, <1>8, <2>1
<1> QED BY <1>7, <1>9

-----------------------------------------------------------------------------
\* What an operation may make of an entry

\* The part of the invariant that speaks of one entry alone
Sound(e) == DistinctFirings(e) /\ Accounted(e) /\ (e.armed => e.current)

\* A later arm, or the same one, perhaps no longer in the wheel
ArmFollows(e, r) ==
  \/ r.gen > e.gen
  \/ /\ r.gen = e.gen /\ r.nextRun = e.nextRun
     /\ (r.current => e.current) /\ (r.armed => e.armed)

\* The entry goes, retires, or lives on with no firing more and no earlier point
Follows(e, r) ==
  /\ r \in Entry \cup {NoEntry}
  /\ r # NoEntry => e # NoEntry
  /\ Live(r) => /\ Live(e) /\ r.opt = e.opt /\ Sound(r) /\ r.running \subseteq e.running
                /\ (Cadenced(e) => r.deadline >= e.deadline)
                /\ ArmFollows(e, r)

\* An entry that nothing happens to follows itself
LEMMA FollowsItself ==
  ASSUME scenario \in Scenarios, NEW e \in Entry \cup {NoEntry}, Live(e) => Sound(e)
  PROVE  Follows(e, e)
<1>1. CASE e \in Entry
  <2>1. e.deadline \in Int /\ e.gen \in Nat  BY <1>1, EntryFields
  <2> QED BY <1>1, <2>1 DEF Follows, ArmFollows
<1>2. CASE e = NoEntry  BY <1>2 DEF Follows, Live, NoEntry
<1> QED BY <1>1, <1>2

\* Forgetting an entry is allowed whatever it was
LEMMA NoneFollows ==
  ASSUME NEW e PROVE Follows(e, NoEntry) /\ ~Live(NoEntry)
BY DEF Follows, Live, NoEntry

\* Only an entry is live
LEMMA LiveIsEntry ==
  ASSUME NEW e \in Entry \cup {NoEntry}, Live(e) PROVE e \in Entry
BY DEF Live, NoEntry

\* Two steps of one entry are a step
LEMMA FollowsFollows ==
  ASSUME scenario \in Scenarios, NEW e \in Entry \cup {NoEntry}, NEW r, NEW q,
         Follows(e, r), Follows(r, q)
  PROVE  Follows(e, q)
<1>1. q \in Entry \cup {NoEntry} /\ (q # NoEntry => e # NoEntry)  BY DEF Follows
<1>2. ASSUME Live(q)
      PROVE  /\ Live(e) /\ q.opt = e.opt /\ Sound(q) /\ q.running \subseteq e.running
             /\ (Cadenced(e) => q.deadline >= e.deadline)
             /\ ArmFollows(e, q)
  <2>1. /\ Live(r) /\ q.opt = r.opt /\ Sound(q) /\ q.running \subseteq r.running
        /\ (Cadenced(r) => q.deadline >= r.deadline) /\ ArmFollows(r, q)
    BY <1>2 DEF Follows
  <2>2. /\ Live(e) /\ r.opt = e.opt /\ r.running \subseteq e.running
        /\ (Cadenced(e) => r.deadline >= e.deadline) /\ ArmFollows(e, r)
    BY <2>1 DEF Follows
  <2>3. e \in Entry /\ r \in Entry /\ q \in Entry
    BY <1>1, <1>2, <2>1, <2>2, LiveIsEntry DEF Follows
  <2>4. /\ e.deadline \in Int /\ r.deadline \in Int /\ q.deadline \in Int
        /\ e.gen \in Nat /\ r.gen \in Nat /\ q.gen \in Nat
    BY <2>3, EntryFields
  <2>5. Cadenced(e) => q.deadline >= e.deadline
    BY <2>1, <2>2, <2>4 DEF Cadenced
  <2>6. ArmFollows(e, q)  BY <2>1, <2>2, <2>4 DEF ArmFollows
  <2> QED BY <2>1, <2>2, <2>5, <2>6
<1> QED BY <1>1, <1>2 DEF Follows

\* What retires or goes is followed
LEMMA DeadFollows ==
  ASSUME NEW e \in Entry, NEW r \in Entry, ~Live(r)
  PROVE  Follows(e, r)
BY DEF Follows, Entry, NoEntry

\* The parts of an entry that no operation on its counters touches
Agrees(e, h) ==
  /\ h \in Entry /\ h.status = e.status /\ h.opt = e.opt /\ h.first = e.first
  /\ h.deadline = e.deadline /\ h.gen = e.gen /\ h.running \subseteq e.running

\* An entry that is armed again after its counters were brought up to date
LEMMA GoesOnFollows ==
  ASSUME scenario \in Scenarios, NEW e \in Entry, NEW h, Agrees(e, h), NEW r, NEW j \in Nat,
         GoesOn(h, r, j), DistinctFirings(h), NEW c \in Nat, Balanced(h, c),
         Cardinality(h.running) = c + j
  PROVE  /\ Follows(e, r)
         /\ Live(r) => /\ r.armed /\ r.current /\ r.running = h.running
                       /\ Cadenced(e) => r.deadline >= e.deadline + INTERVAL * j
<1>1. r \in Entry /\ r # NoEntry /\ e # NoEntry  BY EntryFields DEF GoesOn
<1>2. ASSUME Live(r)
      PROVE  /\ Live(e) /\ r.opt = e.opt /\ Sound(r) /\ r.running = h.running
             /\ Cadenced(e) => r.deadline >= e.deadline + INTERVAL * j
             /\ r.gen = e.gen + 1 /\ r.armed /\ r.current
  <2>1. /\ Live(h) /\ r.opt = h.opt /\ r.running = h.running /\ Rearmed(h, r)
    BY <1>2 DEF GoesOn
  <2>2. Accounted(r) /\ (Cadenced(h) => r.deadline >= h.deadline + INTERVAL * j)
    BY <1>2, BalanceKept DEF Agrees
  <2>3. DistinctFirings(r)  BY <2>1 DEF DistinctFirings
  <2>4. Sound(r)  BY <2>1, <2>2, <2>3 DEF Sound, Rearmed
  <2>5. Live(e) /\ r.opt = e.opt  BY <2>1 DEF Agrees, Live
  <2> QED BY <2>1, <2>2, <2>4, <2>5 DEF Agrees, Rearmed, Cadenced
<1>3. INTERVAL * j \in Nat  BY ScheduleAssumption
<1>4. e.deadline \in Int /\ e.gen \in Nat  BY EntryFields
<1>5. Live(r) => (Cadenced(e) => r.deadline >= e.deadline)
  <2>1. r.deadline \in Int  BY <1>1, EntryFields
  <2> QED BY <1>2, <1>3, <1>4, <2>1
<1>6. Live(r) => ArmFollows(e, r) /\ r.running \subseteq e.running
  BY <1>2, <1>4 DEF ArmFollows, Agrees
<1>7. Follows(e, r)  BY <1>1, <1>2, <1>5, <1>6 DEF Follows
<1> QED BY <1>2, <1>7

\* Taking one firing out
LEMMA FiringRemoved ==
  ASSUME NEW e \in Entry, DistinctFirings(e), NEW t, \E f \in e.running : f.task = t
  PROVE  LET firing == CHOOSE f \in e.running : f.task = t IN
         /\ firing \in e.running /\ firing.deadline \in Int
         /\ e.running \ {firing} = {f \in e.running : f.task # t}
         /\ Cardinality(e.running \ {firing}) \in Nat
         /\ Cardinality(e.running) = Cardinality(e.running \ {firing}) + 1
<1> DEFINE firing == CHOOSE f \in e.running : f.task = t
<1>1. firing \in e.running /\ firing.task = t  OBVIOUS
<1> HIDE DEF firing
<1>2. e.running \subseteq [task : TaskIds, deadline : Int]  BY DEF Entry
<1>3. e.running \ {firing} = {f \in e.running : f.task # t}  BY <1>1 DEF DistinctFirings
<1>4. IsFiniteSet(e.running)  BY DEF DistinctFirings
<1>5. /\ Cardinality(e.running) \in Nat
      /\ IsFiniteSet(e.running \ {firing})
      /\ Cardinality(e.running \ {firing}) = Cardinality(e.running) - 1
  BY <1>1, <1>4, FS_RemoveElement, FS_CardinalityType
<1>6. Cardinality(e.running \ {firing}) \in Nat  BY <1>5, FS_CardinalityType
<1>7. Cardinality(e.running) = Cardinality(e.running \ {firing}) + 1  BY <1>5
<1>8. firing.deadline \in Int  BY <1>1, <1>2
<1> QED BY <1>1, <1>3, <1>6, <1>7, <1>8 DEF firing

\* A firing fewer and an outcome more: the accounts stay even
LEMMA OutcomeCounted ==
  ASSUME scenario \in Scenarios, NEW e \in Entry, Sound(e), NEW h, Agrees(e, h),
         NEW t, \E f \in e.running : f.task = t,
         h.running = {f \in e.running : f.task # t}, Tally(h) = Tally(e) + 1
  PROVE  /\ DistinctFirings(h) /\ Cardinality(h.running) \in Nat
         /\ Balanced(h, Cardinality(h.running)) /\ Accounted(h)
<1> DEFINE firing == CHOOSE f \in e.running : f.task = t
<1>1. Cardinality(h.running) \in Nat /\ Cardinality(e.running) = Cardinality(h.running) + 1
  <2>1. /\ e.running \ {firing} = {f \in e.running : f.task # t}
        /\ Cardinality(e.running \ {firing}) \in Nat
        /\ Cardinality(e.running) = Cardinality(e.running \ {firing}) + 1
    BY FiringRemoved DEF Sound
  <2>2. h.running = e.running \ {firing}  BY <2>1
  <2> HIDE DEF firing
  <2> QED BY <2>1, <2>2
<1>2. DistinctFirings(h)
  <2>1. IsFiniteSet(e.running) /\ h.running \subseteq e.running  BY DEF Sound, DistinctFirings
  <2>2. IsFiniteSet(h.running)  BY <2>1, FS_Subset
  <2> QED BY <2>1, <2>2 DEF Sound, DistinctFirings
<1>3. Tally(e) \in Nat  BY EntryFields
<1>4. Tally(h) + Cardinality(h.running) = Tally(e) + Cardinality(e.running)  BY <1>1, <1>3
<1>5. Accounted(h)
  BY <1>4 DEF Sound, Accounted, Agrees, Cadenced
<1>6. Balanced(h, Cardinality(h.running))  BY <1>5 DEF Accounted, Balanced
<1> QED BY <1>1, <1>2, <1>5, <1>6

\* complete: the firing is taken out; the entry retires, is armed, or is recurring with
\* nothing queued and keeps the arm it has
LEMMA CompleteFacts ==
  ASSUME scenario \in Scenarios, NEW e \in Entry, Sound(e), NEW t, \E f \in e.running : f.task = t,
         NEW outcome \in Outcomes, NEW at \in Nat, NEW o \in Int
  PROVE  LET r == Complete(e, t, outcome, at, o) IN
         /\ r \in Entry /\ Follows(e, r)
         /\ Live(r) => /\ r.running = {f \in e.running : f.task # t}
                       /\ r.armed \/ (SameArm(e, r) /\ e.opt.kind = "every" /\ ~e.queued)
<1> DEFINE firing == CHOOSE f \in e.running : f.task = t
           cleared == [e EXCEPT !.running = @ \ {firing}]
           failed == [cleared EXCEPT !.faults = @ + 1, !.consecutive = @ + 1]
           counted == [cleared EXCEPT !.runs = @ + 1, !.consecutive = 0]
           Good(r) == /\ r \in Entry /\ Follows(e, r)
                      /\ Live(r) => /\ r.running = {f \in e.running : f.task # t}
                                    /\ r.armed \/ (SameArm(e, r) /\ e.opt.kind = "every" /\ ~e.queued)
           Ready(h) == /\ Agrees(e, h) /\ SameArm(e, h) /\ h.queued = e.queued
                       /\ h.running = {f \in e.running : f.task # t}
                       /\ Tally(h) = Tally(e) + 1
<1> SUFFICES Good(Complete(e, t, outcome, at, o))  OBVIOUS
<1>1. /\ firing \in e.running /\ firing.deadline \in Int
      /\ e.running \ {firing} = {f \in e.running : f.task # t}
  BY FiringRemoved DEF Sound
<1>2. Ready(failed) /\ Ready(counted)
  <2> DEFINE R == e.running \ {firing}
  <2>1. R \in SUBSET [task : TaskIds, deadline : Int] /\ R \subseteq e.running  BY DEF Entry
  <2>2. R = {f \in e.running : f.task # t}  BY <1>1
  <2> HIDE DEF R, firing
  <2>3. ASSUME NEW n \in Nat, NEW m \in Nat, n = e.faults + 1, m = e.consecutive + 1
        PROVE  Ready([e EXCEPT !.running = R, !.faults = n, !.consecutive = m])
    <3> DEFINE h == [e EXCEPT !.running = R, !.faults = n, !.consecutive = m]
    <3>1. /\ h \in Entry /\ h.status = e.status /\ h.opt = e.opt /\ h.first = e.first
          /\ h.deadline = e.deadline /\ h.gen = e.gen /\ h.running = R
          /\ h.queued = e.queued /\ h.armed = e.armed /\ h.current = e.current
          /\ h.nextRun = e.nextRun /\ h.runs = e.runs /\ h.faults = n /\ h.missed = e.missed
          /\ h.overlaps = e.overlaps /\ h.lost = e.lost
      BY <2>1 DEF Entry
    <3> HIDE DEF h
    <3>2. Tally(h) = Tally(e) + 1  BY <2>3, <3>1, EntryFields DEF Tally
    <3> QED BY <2>1, <2>2, <3>1, <3>2 DEF h, Agrees, SameArm
  <2>4. ASSUME NEW n \in Nat, n = e.runs + 1
        PROVE  Ready([e EXCEPT !.running = R, !.runs = n, !.consecutive = 0])
    <3> DEFINE h == [e EXCEPT !.running = R, !.runs = n, !.consecutive = 0]
    <3>1. /\ h \in Entry /\ h.status = e.status /\ h.opt = e.opt /\ h.first = e.first
          /\ h.deadline = e.deadline /\ h.gen = e.gen /\ h.running = R
          /\ h.queued = e.queued /\ h.armed = e.armed /\ h.current = e.current
          /\ h.nextRun = e.nextRun /\ h.faults = e.faults /\ h.runs = n /\ h.missed = e.missed
          /\ h.overlaps = e.overlaps /\ h.lost = e.lost
      BY <2>1 DEF Entry
    <3> HIDE DEF h
    <3>2. Tally(h) = Tally(e) + 1  BY <2>4, <3>1, EntryFields DEF Tally
    <3> QED BY <2>1, <2>2, <3>1, <3>2 DEF h, Agrees, SameArm
  <2>5. e.faults + 1 \in Nat /\ e.consecutive + 1 \in Nat /\ e.runs + 1 \in Nat  BY DEF Entry
  <2>6. failed = [e EXCEPT !.running = R, !.faults = e.faults + 1, !.consecutive = e.consecutive + 1]
    BY DEF R, Entry
  <2>7. counted = [e EXCEPT !.running = R, !.runs = e.runs + 1, !.consecutive = 0]
    BY DEF R, Entry
  <2> HIDE DEF failed, counted, Ready
  <2> QED BY <2>3, <2>4, <2>5, <2>6, <2>7
<1>3. ASSUME NEW h, Ready(h)
      PROVE  Good(AfterOutcome(h, firing.deadline, outcome, at, o))
  <2> DEFINE r == AfterOutcome(h, firing.deadline, outcome, at, o)
  <2>1. /\ DistinctFirings(h) /\ Cardinality(h.running) \in Nat
        /\ Balanced(h, Cardinality(h.running)) /\ Accounted(h)
    BY <1>3, OutcomeCounted
  <2>2. GoesOn(h, r, 0) \/ (r = h /\ h.opt.kind = "every" /\ ~h.queued)
    <3>1. h \in Entry  BY <1>3 DEF Agrees
    <3> HIDE DEF firing
    <3> QED BY <1>1, <3>1, AfterOutcomeFacts
  <2> HIDE DEF r, firing
  <2>3. CASE GoesOn(h, r, 0)
    <3>1. Cardinality(h.running) + 0 = Cardinality(h.running)  BY <2>1
    <3>2. Follows(e, r) /\ (Live(r) => r.armed /\ r.running = h.running)
      BY <1>3, <2>1, <2>3, <3>1, GoesOnFollows
    <3>3. r \in Entry  BY <2>3 DEF GoesOn
    <3>4. Good(r)  BY <1>3, <3>2, <3>3
    <3> QED BY <3>4 DEF r
  <2>4. CASE r = h /\ h.opt.kind = "every" /\ ~h.queued
    <3>1. Sound(h)  BY <1>3, <2>1 DEF Sound, SameArm
    <3>2. h \in Entry /\ h # NoEntry /\ e # NoEntry  BY <1>3, EntryFields DEF Agrees
    <3>3. e.deadline \in Int /\ h.deadline >= e.deadline  BY <1>3, EntryFields DEF Agrees
    <3>4. Follows(e, h)
      BY <1>3, <3>1, <3>2, <3>3 DEF Follows, Agrees, Live, ArmFollows, SameArm
    <3>5. Good(r)  BY <1>3, <2>4, <3>2, <3>4 DEF Agrees
    <3> QED BY <3>5 DEF r
  <2> QED BY <2>2, <2>3, <2>4
<1>4. Good(Retire(failed, "max_faults", at))
  <2>1. failed \in Entry  BY <1>2 DEF Agrees
  <2> HIDE DEF failed
  <2> DEFINE r == Retire(failed, "max_faults", at)
  <2>2. r \in Entry /\ ~Live(r)  BY <2>1, RetireFacts DEF Reasons
  <2> HIDE DEF r
  <2>3. Good(r)  BY <2>2, DeadFollows
  <2> QED BY <2>3 DEF r
<1>5. Complete(e, t, outcome, at, o) =
        IF outcome.ok THEN AfterOutcome(counted, firing.deadline, outcome, at, o)
        ELSE IF failed.consecutive = e.opt.maxFaults THEN Retire(failed, "max_faults", at)
        ELSE AfterOutcome(failed, firing.deadline, outcome, at, o)
  BY DEF Complete
<1> HIDE DEF firing, cleared, failed, counted, Good, Ready
<1> QED BY <1>2, <1>3, <1>4, <1>5

\* mark_fired: a firing more; a recurring entry is armed at a later point
LEMMA MarkFiredFacts ==
  ASSUME scenario \in Scenarios, NEW e \in Entry, Live(e), Sound(e), ~e.armed, NEW t \in TaskIds,
         \A f \in e.running : f.task # t, NEW at \in Nat, NEW o \in Int
  PROVE  LET r == MarkFired(e, t, at, o) IN
         /\ r \in Entry
         /\ Live(r) => /\ r.opt = e.opt /\ Sound(r)
                       /\ r.running = e.running \cup {[task |-> t, deadline |-> e.deadline]}
                       /\ Cadenced(e) => r.deadline > e.deadline
                       /\ \/ r.armed /\ r.current /\ r.gen > e.gen
                          \/ e.opt.kind = "at" /\ ~r.armed /\ ~r.current /\ r.gen = e.gen
<1> DEFINE R == e.running \cup {[task |-> t, deadline |-> e.deadline]}
           h == [e EXCEPT !.running = R, !.current = FALSE]
           Good(r) == /\ r \in Entry
                      /\ Live(r) => /\ r.opt = e.opt /\ Sound(r) /\ r.running = R
                                    /\ Cadenced(e) => r.deadline > e.deadline
                                    /\ \/ r.armed /\ r.current /\ r.gen > e.gen
                                       \/ e.opt.kind = "at" /\ ~r.armed /\ ~r.current /\ r.gen = e.gen
<1> SUFFICES Good(MarkFired(e, t, at, o))  OBVIOUS
<1>0. e.deadline \in Int /\ e.running \in SUBSET [task : TaskIds, deadline : Int]
        /\ e.opt \in OptionType /\ e.gen \in Nat
  BY EntryFields
<1>1. R \in SUBSET [task : TaskIds, deadline : Int]  BY <1>0
<1>2. /\ IsFiniteSet(R) /\ Cardinality(e.running) \in Nat
      /\ Cardinality(R) = Cardinality(e.running) + 1
  <2>1. IsFiniteSet(e.running)  BY DEF Sound, DistinctFirings
  <2>2. [task |-> t, deadline |-> e.deadline] \notin e.running  OBVIOUS
  <2> QED BY <2>1, <2>2, FS_AddElement, FS_CardinalityType
<1>3. \A f, g \in R : f.task = g.task => f = g  BY DEF Sound, DistinctFirings
<1> HIDE DEF R
<1>4. /\ h \in Entry /\ h.status = e.status /\ h.opt = e.opt /\ h.first = e.first
      /\ h.deadline = e.deadline /\ h.gen = e.gen /\ h.running = R /\ h.armed = e.armed
      /\ h.current = FALSE /\ h.runs = e.runs /\ h.faults = e.faults /\ h.missed = e.missed
      /\ h.overlaps = e.overlaps /\ h.lost = e.lost
  BY <1>1 DEF Entry
<1>5. MarkFired(e, t, at, o) = IF e.opt.kind = "every" THEN ArmAfter(h, e.deadline, at, o) ELSE h
  BY DEF MarkFired, R
<1> HIDE DEF h
<1>6. DistinctFirings(h)  BY <1>2, <1>3, <1>4 DEF DistinctFirings
<1>7. Tally(h) = Tally(e)  BY <1>4 DEF Tally
<1>8. CASE e.opt.kind = "every"
  <2> DEFINE r == ArmAfter(h, e.deadline, at, o)
  <2>1. GoesOn(h, r, 1)  BY <1>4, ArmAfterFacts
  <2> HIDE DEF r
  <2>2. Balanced(h, Cardinality(e.running))
    BY <1>4, <1>7 DEF Sound, Accounted, Balanced, Cadenced
  <2>3. Cardinality(h.running) = Cardinality(e.running) + 1  BY <1>2, <1>4
  <2>4. Agrees(h, h)  BY <1>4 DEF Agrees
  <2>5. /\ Follows(h, r)
        /\ Live(r) => /\ r.armed /\ r.current /\ r.running = h.running
                      /\ Cadenced(h) => r.deadline >= h.deadline + INTERVAL * 1
    BY <1>2, <1>4, <1>6, <2>1, <2>2, <2>3, <2>4, GoesOnFollows
  <2>6. r \in Entry /\ (Live(r) => r.gen = h.gen + 1 /\ r.opt = e.opt)
    BY <1>4, <2>1 DEF GoesOn, Rearmed
  <2>7. Live(r) => Sound(r)  BY <2>5 DEF Follows
  <2>8. Live(r) => (Cadenced(e) => r.deadline > e.deadline)
    <3>1. r.deadline \in Int  BY <2>6, EntryFields
    <3> QED BY <1>0, <1>4, <2>5, <3>1, ScheduleAssumption DEF Cadenced
  <2>9. Good(r)  BY <1>0, <1>4, <2>5, <2>6, <2>7, <2>8
  <2> QED BY <1>5, <1>8, <2>9 DEF r
<1>9. CASE e.opt.kind # "every"
  <2>1. e.opt.kind = "at" /\ ~Cadenced(e) /\ ~Cadenced(h)
    BY <1>0, <1>4, <1>9 DEF OptionType, Cadenced
  <2>2. Sound(h)  BY <1>4, <1>6, <2>1 DEF Sound, Accounted
  <2>3. Good(h)  BY <1>4, <2>1, <2>2
  <2> QED BY <1>5, <1>9, <2>3
<1> QED BY <1>8, <1>9

\* expired, for an entry whose firing is under way
LEMMA OverlappedFacts ==
  ASSUME scenario \in Scenarios, now \in Nat, NEW e \in Entry, Live(e), Sound(e), NEW o \in Int
  PROVE  LET r == Overlapped(e, o) IN
         /\ r \in Entry /\ Follows(e, r)
         /\ Live(r) => r.running = e.running /\ (r.armed \/ e.opt.kind = "at" \/ r.queued)
<1> DEFINE h == [e EXCEPT !.armed = FALSE]
           Good(r) == /\ r \in Entry /\ Follows(e, r)
                      /\ Live(r) => r.running = e.running /\ (r.armed \/ e.opt.kind = "at" \/ r.queued)
<1> SUFFICES Good(Overlapped(e, o))  OBVIOUS
<1>0. e.deadline \in Int /\ e.gen \in Nat /\ e.opt \in OptionType /\ e # NoEntry  BY EntryFields
<1>1. /\ Agrees(e, h) /\ h.running = e.running /\ Tally(h) = Tally(e)
      /\ h.armed = FALSE /\ h.current = e.current /\ h.nextRun = e.nextRun
  BY DEF Entry, Agrees, Tally
<1>2. Overlapped(e, o) = IF e.opt.overlap = "skip" THEN SkipOverlapped(h, now, o)
                                                   ELSE [e EXCEPT !.queued = TRUE, !.armed = FALSE]
  BY DEF Overlapped
<1>3. ASSUME NEW r, r \in Entry, Agrees(e, r), r.running = e.running, Accounted(r),
             r.armed = FALSE, r.current = e.current, r.nextRun = e.nextRun,
             e.opt.kind = "at" \/ r.queued
      PROVE  Good(r)
  <2>1. Sound(r)  BY <1>3 DEF Sound, DistinctFirings
  <2>2. Follows(e, r)
    BY <1>0, <1>3, <2>1 DEF Follows, Agrees, Live, ArmFollows
  <2> QED BY <1>3, <2>2
<1>4. CASE e.opt.overlap # "skip"
  <2> DEFINE r == [e EXCEPT !.queued = TRUE, !.armed = FALSE]
  <2>1. /\ r \in Entry /\ Agrees(e, r) /\ r.running = e.running /\ Tally(r) = Tally(e)
        /\ r.armed = FALSE /\ r.current = e.current /\ r.nextRun = e.nextRun /\ r.queued = TRUE
    BY DEF Entry, Agrees, Tally
  <2> HIDE DEF r
  <2>2. Accounted(r)  BY <2>1 DEF Sound, Accounted, Agrees, Cadenced
  <2>3. Good(r)  BY <1>3, <2>1, <2>2
  <2> QED BY <1>2, <1>4, <2>3 DEF r
<1>5. CASE e.opt.overlap = "skip" /\ e.opt.kind = "at"
  <2> DEFINE r == [h EXCEPT !.overlaps = @ + 1]
  <2>1. SkipOverlapped(h, now, o) = r  BY <1>1, <1>5 DEF SkipOverlapped, Agrees
  <2>2. e.overlaps + 1 \in Nat  BY EntryFields
  <2>3. ASSUME NEW n \in Nat, NEW q, q = [e EXCEPT !.armed = FALSE, !.overlaps = n]
        PROVE  /\ q \in Entry /\ Agrees(e, q) /\ q.running = e.running
               /\ q.armed = FALSE /\ q.current = e.current /\ q.nextRun = e.nextRun
    BY <2>3 DEF Entry, Agrees
  <2>4. r = [e EXCEPT !.armed = FALSE, !.overlaps = e.overlaps + 1]  BY DEF Entry
  <2>5. /\ r \in Entry /\ Agrees(e, r) /\ r.running = e.running
        /\ r.armed = FALSE /\ r.current = e.current /\ r.nextRun = e.nextRun
    <3> HIDE DEF r
    <3> QED BY <2>2, <2>3, <2>4
  <2> HIDE DEF r
  <2>6. Accounted(r)  BY <1>5, <2>5 DEF Accounted, Agrees, Cadenced
  <2>7. Good(r)  BY <1>3, <1>5, <2>5, <2>6
  <2> QED BY <1>2, <1>5, <2>1, <2>7
<1>6. CASE e.opt.overlap = "skip" /\ e.opt.kind # "at"
  <2> DEFINE r == SkipOverlapped(h, now, o)
  <2> HIDE DEF h
  <2>1. GoesOn(h, r, 0)  BY <1>1, <1>6, SkipOverlappedFacts DEF Agrees
  <2> HIDE DEF r
  <2>2. DistinctFirings(h)  BY <1>1 DEF Sound, DistinctFirings
  <2>3. Cardinality(h.running) \in Nat
    BY <2>2, FS_CardinalityType DEF DistinctFirings
  <2>4. Balanced(h, Cardinality(h.running))
    BY <1>1 DEF Sound, Accounted, Balanced, Cadenced, Agrees
  <2>5. Cardinality(h.running) = Cardinality(h.running) + 0  BY <2>3
  <2>6. Follows(e, r) /\ (Live(r) => r.armed /\ r.running = h.running)
    BY <1>1, <2>1, <2>2, <2>3, <2>4, <2>5, GoesOnFollows
  <2>7. r \in Entry  BY <2>1 DEF GoesOn
  <2>8. Good(r)  BY <1>1, <2>6, <2>7
  <2> QED BY <1>2, <1>6, <2>8 DEF r
<1> QED BY <1>4, <1>5, <1>6

\* insert_at, insert_every
LEMMA InsertFacts ==
  ASSUME scenario \in Scenarios, NEW create \in Create, NEW at \in Nat, NEW o \in Int
  PROVE  LET r == Insert(create, at, o) IN
         /\ r \in Entry \cup {NoEntry}
         /\ Live(r) => Sound(r) /\ r.running = {} /\ r.armed
<1> DEFINE p == create.opt
           deadline == IF p.kind = "at" THEN create.when ELSE at + INTERVAL
           e == NewEntry(p, deadline)
           Good(r) == /\ r \in Entry \cup {NoEntry}
                      /\ Live(r) => Sound(r) /\ r.running = {} /\ r.armed
<1> SUFFICES Good(Insert(create, at, o))  OBVIOUS
<1>1. p \in Options /\ deadline \in Int  BY ScheduleAssumption DEF Create
<1> HIDE DEF p, deadline
<1>2. /\ e \in Entry /\ e.deadline = e.first /\ e.running = {}
      /\ e.runs = 0 /\ e.faults = 0 /\ e.missed = 0 /\ e.overlaps = 0 /\ e.lost = 0
  BY <1>1 DEF NewEntry, Entry, Reasons
<1> HIDE DEF e
<1>3. Jittered(e, deadline, o, at) \in Int  BY <1>1, <1>2, JitteredType
<1>4. ASSUME NEW d \in Int PROVE Good(Arm(e, d))
  <2> DEFINE r == Arm(e, d)
  <2>1. r \in Entry /\ SameButArm(e, r) /\ Rearmed(e, r)  BY <1>2, ArmFacts
  <2> HIDE DEF r
  <2>2. r.running = {} /\ Cardinality(r.running) = 0 /\ DistinctFirings(r)
    BY <1>2, <2>1, FS_EmptySet DEF SameButArm, DistinctFirings
  <2>3. Tally(r) = 0  BY <1>2, <2>1 DEF Tally, SameButArm
  <2>4. r.deadline = r.first + INTERVAL * 0
    <3>1. r.deadline \in Int /\ r.deadline = r.first  BY <1>2, <2>1, EntryFields DEF SameButArm
    <3> QED BY <3>1, ScheduleAssumption
  <2>5. Accounted(r)  BY <2>2, <2>3, <2>4 DEF Accounted
  <2>6. Good(r)  BY <2>1, <2>2, <2>5 DEF Sound, Rearmed
  <2> QED BY <2>6 DEF r
<1>5. Good(NoEntry)  BY NoneFollows
<1>6. Insert(create, at, o) = IF deadline > MAX_DEADLINE THEN NoEntry ELSE
         IF p.kind = "at" THEN Arm(e, deadline) ELSE Arm(e, Jittered(e, deadline, o, at))
  BY DEF Insert, p, deadline, e
<1> HIDE DEF Good
<1> QED BY <1>1, <1>3, <1>4, <1>5, <1>6

\* An entry whose missed points are stepped over
LEMMA PointsMissed ==
  ASSUME scenario \in Scenarios, NEW e \in Entry, e.opt.catchup # "once",
         NEW passed \in Nat, NEW next \in Int, next = e.deadline + INTERVAL * passed, NEW d \in Int
  PROVE  GoesOn(e, Arm([e EXCEPT !.deadline = next, !.missed = @ + passed], d), 0)
<1> DEFINE g == [e EXCEPT !.deadline = next, !.missed = @ + passed]
<1>1. Moved(e, g) /\ g.deadline = next /\ g.missed + g.overlaps = e.missed + e.overlaps + passed
  BY MissedMove
<1>2. passed >= 0 /\ passed + 0 = passed  OBVIOUS
<1> HIDE DEF g
<1>3. GoesOn(e, Arm(g, d), 0)  BY <1>1, <1>2, ArmMoved
<1> QED BY <1>3 DEF g

\* The arm of a restored entry: it is armed, unless it waits for a firing
LEMMA RearmFacts ==
  ASSUME scenario \in Scenarios, NEW e \in Entry, Sound(e), ~e.armed, NEW at \in Nat, NEW o \in Int
  PROVE  LET r == Rearm(e, at, o) IN
         /\ r \in Entry /\ Follows(e, r)
         /\ Live(r) => /\ r.running = e.running
                       /\ r.armed \/ (r.running # {} /\ (r.opt.kind = "at" \/ r.queued))
<1> DEFINE next == NextCadenceAfter(e.deadline, at)
           steps == StepsAfter(e.deadline, at)
           g == [e EXCEPT !.deadline = next, !.missed = @ + steps]
           Good(r) == /\ r \in Entry /\ Follows(e, r)
                      /\ Live(r) => /\ r.running = e.running
                                    /\ r.armed \/ (r.running # {} /\ (r.opt.kind = "at" \/ r.queued))
           Skips == e.nextRun <= at /\ e.opt.kind = "every" /\ e.opt.catchup = "skip"
<1> SUFFICES Good(Rearm(e, at, o))  OBVIOUS
<1>0. e.deadline \in Int /\ e.nextRun \in Int /\ e.opt \in OptionType /\ e \in Entry \cup {NoEntry}
        /\ e.missed \in Nat /\ e.overlaps \in Nat
  BY EntryFields
<1>1. steps \in Nat /\ next = e.deadline + INTERVAL * steps /\ next \in Int
  <2>1. at \in Int  OBVIOUS
  <2> QED BY <1>0, <2>1, StepsTypes
<1>2. ASSUME NEW r, GoesOn(e, r, 0) PROVE Good(r)
  <2>1. DistinctFirings(e) /\ Cardinality(e.running) \in Nat
    BY FS_CardinalityType DEF Sound, DistinctFirings
  <2>2. Balanced(e, Cardinality(e.running))  BY DEF Sound, Accounted, Balanced
  <2>3. Cardinality(e.running) = Cardinality(e.running) + 0 /\ Agrees(e, e)  BY <2>1 DEF Agrees
  <2>4. Follows(e, r) /\ (Live(r) => r.armed /\ r.running = e.running)
    BY <1>2, <2>1, <2>2, <2>3, GoesOnFollows
  <2> QED BY <1>2, <2>4 DEF GoesOn
<1>3. Good(FireQueued(e, at))
  <2>1. GoesOn(e, FireQueued(e, at), 0)  BY FireQueuedFacts
  <2> HIDE DEF Good
  <2> QED BY <1>2, <2>1
<1>4. Good(RetireOutOfRange(e, at))
  <2>1. GoesOn(e, RetireOutOfRange(e, at), 0)  BY OutOfRangeFacts DEF GoesOn
  <2> HIDE DEF Good
  <2> QED BY <1>2, <2>1
<1>5. CASE Skips
  <2> HIDE DEF next, steps
  <2>1. Jittered(e, next, o, at) \in Int  BY <1>1, JitteredType
  <2>2. e.opt.catchup # "once"  BY <1>5
  <2>5. GoesOn(e, Arm(g, Jittered(e, next, o, at)), 0)
    BY <1>1, <2>1, <2>2, PointsMissed
  <2> HIDE DEF Good
  <2>6. Good(Arm(g, Jittered(e, next, o, at)))  BY <1>2, <2>5
  <2>7. \/ Rearm(e, at, o) = e /\ e.running # {} /\ (e.opt.kind = "at" \/ e.queued)
        \/ Rearm(e, at, o) = FireQueued(e, at)
        \/ Rearm(e, at, o) = RetireOutOfRange(e, at)
        \/ Rearm(e, at, o) = Arm(g, Jittered(e, next, o, at))
    BY <1>5 DEF Rearm, next, steps, g
  <2>8. Follows(e, e)  BY <1>0, FollowsItself
  <2>9. CASE Rearm(e, at, o) = e /\ e.running # {} /\ (e.opt.kind = "at" \/ e.queued)
    BY <2>8, <2>9 DEF Good
  <2> QED BY <1>3, <1>4, <2>6, <2>7, <2>9
<1>6. ASSUME NEW d \in Int PROVE Good(Arm(e, d))
  <2>1. Moved(e, e)  BY DEF Moved
  <2>2. e.missed + e.overlaps = e.missed + e.overlaps + 0  BY <1>0
  <2>3. e.deadline = e.deadline + INTERVAL * 0  BY <1>0, ScheduleAssumption
  <2>4. GoesOn(e, Arm(e, d), 0)  BY <2>1, <2>2, <2>3, ArmMoved
  <2> HIDE DEF Good
  <2> QED BY <1>2, <2>4
<1>7. Follows(e, e)  BY <1>0, FollowsItself
<1>8. CASE ~Skips
  <2>1. \/ Rearm(e, at, o) = e /\ e.running # {} /\ (e.opt.kind = "at" \/ e.queued)
        \/ Rearm(e, at, o) = FireQueued(e, at)
        \/ Rearm(e, at, o) = Arm(e, at)
        \/ Rearm(e, at, o) = Arm(e, e.nextRun)
    BY <1>8 DEF Rearm
  <2>2. CASE Rearm(e, at, o) = e /\ e.running # {} /\ (e.opt.kind = "at" \/ e.queued)
    BY <1>7, <2>2
  <2>3. at \in Int  OBVIOUS
  <2> HIDE DEF Good
  <2> QED BY <1>0, <1>3, <1>6, <2>1, <2>2, <2>3
<1> QED BY <1>5, <1>8

\* ScheduleQ::load: the firings that were not restored are counted as lost
LEMMA LoadFacts ==
  ASSUME scenario \in Scenarios, NEW e \in Entry, Live(e), DistinctFirings(e), Accounted(e),
         NEW restored, NEW at \in Nat, NEW o \in Int
  PROVE  LET r == Load(e, restored, at, o) IN
         /\ r \in Entry
         /\ Live(r) => /\ r.opt = e.opt /\ Sound(r)
                       /\ r.running \subseteq e.running /\ \A f \in r.running : f.task \in restored
                       /\ Cadenced(e) => r.deadline >= e.deadline
                       /\ r.armed \/ (r.running # {} /\ (r.opt.kind = "at" \/ r.queued))
<1> DEFINE alive == {f \in e.running : f.task \in restored}
           gone == Cardinality(e.running \ alive)
           n == e.lost + gone
           b == [e EXCEPT !.running = alive, !.lost = n, !.gen = 0, !.current = FALSE, !.armed = FALSE]
           r == Rearm(b, at, o)
<1> SUFFICES /\ r \in Entry
             /\ Live(r) => /\ r.opt = e.opt /\ Sound(r)
                           /\ r.running \subseteq e.running /\ \A f \in r.running : f.task \in restored
                           /\ Cadenced(e) => r.deadline >= e.deadline
                           /\ r.armed \/ (r.running # {} /\ (r.opt.kind = "at" \/ r.queued))
  BY DEF Load
<1>0. e.lost \in Nat /\ Tally(e) \in Nat /\ e.running \in SUBSET [task : TaskIds, deadline : Int]
  BY EntryFields
<1>1. /\ gone \in Nat /\ Cardinality(alive) \in Nat /\ IsFiniteSet(alive)
      /\ Cardinality(e.running) = Cardinality(alive) + gone
  <2>1. IsFiniteSet(e.running)  BY DEF DistinctFirings
  <2>2. e.running \cap alive = alive  OBVIOUS
  <2>3. IsFiniteSet(alive) /\ IsFiniteSet(e.running \ alive)
    BY <2>1, FS_Subset
  <2>4. Cardinality(e.running \ alive) = Cardinality(e.running) - Cardinality(e.running \cap alive)
    BY <2>1, FS_Difference
  <2>5. /\ Cardinality(e.running) \in Nat /\ Cardinality(alive) \in Nat
        /\ Cardinality(e.running \ alive) \in Nat
    BY <2>1, <2>3, FS_CardinalityType
  <2> HIDE DEF alive
  <2>6. gone = Cardinality(e.running) - Cardinality(alive)  BY <2>2, <2>4
  <2>7. gone \in Nat  BY <2>5
  <2> HIDE DEF gone
  <2> QED BY <2>3, <2>5, <2>6, <2>7
<1>2. alive \in SUBSET [task : TaskIds, deadline : Int] /\ alive \subseteq e.running  BY <1>0
<1> HIDE DEF alive, gone
<1>3. n \in Nat  BY <1>0, <1>1
<1> HIDE DEF n
<1>4. /\ b \in Entry /\ b.status = e.status /\ b.opt = e.opt /\ b.first = e.first
      /\ b.deadline = e.deadline /\ b.running = alive /\ b.armed = FALSE /\ b.lost = n
      /\ b.runs = e.runs /\ b.faults = e.faults /\ b.missed = e.missed /\ b.overlaps = e.overlaps
  BY <1>2, <1>3 DEF Entry
<1> HIDE DEF b
<1>5. Tally(b) + Cardinality(b.running) = Tally(e) + Cardinality(e.running)
  <2>1. Tally(b) = Tally(e) + gone  BY <1>1, <1>4, EntryFields DEF Tally, n
  <2> QED BY <1>0, <1>1, <1>4, <2>1
<1>6. Accounted(b)  BY <1>4, <1>5 DEF Accounted, Cadenced
<1>7. DistinctFirings(b)  BY <1>1, <1>2, <1>4 DEF DistinctFirings
<1>8. Sound(b)  BY <1>4, <1>6, <1>7 DEF Sound
<1>9. /\ r \in Entry /\ Follows(b, r)
      /\ Live(r) => /\ r.running = b.running
                    /\ r.armed \/ (r.running # {} /\ (r.opt.kind = "at" \/ r.queued))
  BY <1>4, <1>8, RearmFacts
<1>10. \A f \in alive : f.task \in restored  BY DEF alive
<1> HIDE DEF r
<1> QED BY <1>2, <1>4, <1>9, <1>10 DEF Follows, Cadenced

-----------------------------------------------------------------------------
\* Settling several results

\* NeverForgotten, of one entry, when the expiries of C are collected
Remembers(id, e, C) ==
  \/ e.armed
  \/ e.current /\ <<id, e.gen>> \in C
  \/ e.running # {} /\ (e.opt.kind = "at" \/ e.queued)

\* What an entry may have become once the tasks of T have been settled
Settled(id, r, T) ==
  /\ Follows(entries[id], r)
  /\ Live(r) => /\ r.running = {f \in entries[id].running : f.task \notin T}
                /\ Remembers(id, entries[id], collected) => Remembers(id, r, collected)

EntriesSound ==
  /\ scenario \in Scenarios /\ now \in Nat
  /\ entries \in [Ids -> Entry \cup {NoEntry}]
  /\ \A id \in Ids : Live(entries[id]) => Sound(entries[id])

Result == [task : TaskIds, outcome : Outcomes]

\* Settling one more result keeps every entry settled with respect to those before
LEMMA SettleStep ==
  ASSUME EntriesSound, NEW T, NEW es \in [Ids -> Entry \cup {NoEntry}],
         \A id \in Ids : Settled(id, es[id], T), NEW r \in Result, NEW o \in Int
  PROVE  LET en == SettleOne(es, r, o) IN
         /\ en \in [Ids -> Entry \cup {NoEntry}]
         /\ \A id \in Ids : Settled(id, en[id], T \cup {r.task})
<1> DEFINE en == SettleOne(es, r, o)
<1>1. ASSUME NEW id \in Ids PROVE en[id] \in Entry \cup {NoEntry} /\ Settled(id, en[id], T \cup {r.task})
  <2>0. entries[id] \in Entry \cup {NoEntry} /\ es[id] \in Entry \cup {NoEntry} /\ now \in Nat
          /\ scenario \in Scenarios
    BY DEF EntriesSound
  <2>1. Settled(id, es[id], T)  OBVIOUS
  <2>2. CASE id \notin ScheduleOf(es, r.task)
    <3>1. en[id] = es[id]  BY <2>2 DEF SettleOne
    <3>2. Live(es[id]) => \A f \in es[id].running : f.task # r.task  BY <2>2 DEF ScheduleOf
    <3> HIDE DEF en
    <3> QED BY <2>0, <2>1, <3>1, <3>2 DEF Settled
  <2>3. CASE id \in ScheduleOf(es, r.task)
    <3> DEFINE q == Complete(es[id], r.task, r.outcome, now, o)
    <3>1. en[id] = q  BY <2>3 DEF SettleOne
    <3>2. Live(es[id]) /\ \E f \in es[id].running : f.task = r.task  BY <2>3 DEF ScheduleOf
    <3>3. es[id] \in Entry /\ Sound(es[id])  BY <2>0, <2>1, <3>2, LiveIsEntry DEF Settled, Follows
    <3>4. r.outcome \in Outcomes  BY DEF Result
    <3>5. /\ q \in Entry /\ Follows(es[id], q)
          /\ Live(q) => /\ q.running = {f \in es[id].running : f.task # r.task}
                        /\ q.armed \/ (SameArm(es[id], q) /\ es[id].opt.kind = "every" /\ ~es[id].queued)
      BY <2>0, <3>2, <3>3, <3>4, CompleteFacts
    <3> HIDE DEF en, q
    <3>6. Follows(entries[id], q)  BY <2>0, <2>1, <3>5, FollowsFollows DEF Settled
    <3>7. ASSUME Live(q)
          PROVE  /\ q.running = {f \in entries[id].running : f.task \notin T \cup {r.task}}
                 /\ Remembers(id, entries[id], collected) => Remembers(id, q, collected)
      <4>1. es[id].running = {f \in entries[id].running : f.task \notin T}  BY <2>1, <3>2 DEF Settled
      <4>2. q.running = {f \in es[id].running : f.task # r.task}  BY <3>5, <3>7
      <4>3. q.running = {f \in entries[id].running : f.task \notin T \cup {r.task}}  BY <4>1, <4>2
      <4>4. Remembers(id, entries[id], collected) => Remembers(id, es[id], collected)  BY <2>1, <3>2 DEF Settled
      <4>5. Remembers(id, es[id], collected) => Remembers(id, q, collected)
        BY <3>5, <3>7 DEF Remembers, SameArm
      <4> QED BY <4>3, <4>4, <4>5
    <3> QED BY <3>1, <3>5, <3>6, <3>7 DEF Settled
  <2> QED BY <2>2, <2>3
<1>2. en = [id \in Ids |-> en[id]]  BY DEF SettleOne
<1> HIDE DEF en
<1>3. en \in [Ids -> Entry \cup {NoEntry}]  BY <1>1, <1>2
<1>4. \A id \in Ids : Settled(id, en[id], T \cup {r.task})  BY <1>1
<1> QED BY <1>3, <1>4 DEF en

\* The recursion that settles n results one after the other
Settling(es, n, rs, o) ==
  es = [i \in 0..n |-> IF i = 0 THEN entries ELSE SettleOne(es[i - 1], rs[i], o)]

\* It has a solution
LEMMA SettlingExists ==
  ASSUME NEW N \in Nat, NEW rs, NEW o
  PROVE  \E es : Settling(es, N, rs, o)
<1> DEFINE H(es, n) == es = [i \in 0..n |-> IF i = 0 THEN entries ELSE SettleOne(es[i - 1], rs[i], o)]
           T == {n \in Nat : ~\E es : H(es, n)}
<1> SUFFICES ASSUME T # {} PROVE FALSE  BY DEF Settling
<1>1. PICK n \in T : \A m \in T : n <= m
  <2>1. T \in SUBSET Nat  OBVIOUS
  <2> HIDE DEF T
  <2> QED BY <2>1, LeastNumber
<1>2. n # 0
  <2>1. H([i \in 0..0 |-> entries], 0)  OBVIOUS
  <2> QED BY <1>1, <2>1
<1>3. n - 1 \in Nat /\ n - 1 \notin T  BY <1>1, <1>2
<1>4. PICK g : H(g, n - 1)  BY <1>3
<1> DEFINE h == [i \in 0..n |-> IF i = n THEN SettleOne(g[n - 1], rs[n], o) ELSE g[i]]
<1>5. \A i \in 0..n : h[i] = IF i = 0 THEN entries ELSE SettleOne(h[i - 1], rs[i], o)
  BY <1>2, <1>4
<1>6. h = [i \in 0..n |-> h[i]]  OBVIOUS
<1>7. H(h, n)
  <2> HIDE DEF h
  <2> QED BY <1>5, <1>6
<1> QED BY <1>1, <1>7

\* settle_schedule_firings
LEMMA SettleFacts ==
  ASSUME EntriesSound, NEW rs \in Seq(Result), NEW o \in Int, Settle(rs, o)
  PROVE  /\ entries' \in [Ids -> Entry \cup {NoEntry}]
         /\ \A id \in Ids : Settled(id, entries'[id], {rs[i].task : i \in DOMAIN rs})
<1> DEFINE N == Len(rs)
           settled == CHOOSE es : Settling(es, N, rs, o)
           Done(n) == {rs[i].task : i \in 1..n}
           P(n) == /\ settled[n] \in [Ids -> Entry \cup {NoEntry}]
                   /\ \A id \in Ids : Settled(id, settled[n][id], Done(n))
           T == {n \in 0..N : ~P(n)}
<1>1. N \in Nat /\ DOMAIN rs = 1..N /\ \A i \in 1..N : rs[i] \in Result  OBVIOUS
<1>2. Settling(settled, N, rs, o)
  <2> HIDE DEF N
  <2>1. \E es : Settling(es, N, rs, o)  BY <1>1, SettlingExists
  <2> QED BY <2>1
<1>3. entries' = settled[N]  BY DEF Settle, Settling
<1> HIDE DEF settled
<1>4. P(0)
  <2>1. settled[0] = entries  BY <1>1, <1>2 DEF Settling
  <2>2. Done(0) = {}  OBVIOUS
  <2>3. ASSUME NEW id \in Ids PROVE Settled(id, entries[id], {})
    BY FollowsItself DEF Settled, EntriesSound
  <2> QED BY <2>1, <2>2, <2>3 DEF EntriesSound
<1>5. ASSUME NEW n \in 1..N, P(n - 1) PROVE P(n)
  <2>1. settled[n] = SettleOne(settled[n - 1], rs[n], o)  BY <1>1, <1>2 DEF Settling
  <2>2. Done(n) = Done(n - 1) \cup {rs[n].task}  BY <1>1
  <2>3. rs[n] \in Result  BY <1>1
  <2> DEFINE es == settled[n - 1]
  <2>4. es \in [Ids -> Entry \cup {NoEntry}] /\ \A id \in Ids : Settled(id, es[id], Done(n - 1))
    BY <1>5
  <2> HIDE DEF Done, es
  <2>5. /\ SettleOne(es, rs[n], o) \in [Ids -> Entry \cup {NoEntry}]
        /\ \A id \in Ids : Settled(id, SettleOne(es, rs[n], o)[id], Done(n - 1) \cup {rs[n].task})
    BY <2>3, <2>4, SettleStep
  <2> QED BY <2>1, <2>2, <2>5 DEF es
<1>6. T = {}
  <2> SUFFICES ASSUME T # {} PROVE FALSE  OBVIOUS
  <2>1. T \in SUBSET Nat  BY <1>1
  <2>2. PICK n \in T : \A m \in T : n <= m
    <3> HIDE DEF T
    <3> QED BY <2>1, LeastNumber
  <2> HIDE DEF P
  <2>3. n # 0  BY <1>4, <2>2
  <2>4. n \in 1..N /\ n - 1 \in 0..N  BY <1>1, <2>2, <2>3
  <2>5. P(n - 1)  BY <2>2, <2>4
  <2> QED BY <1>5, <2>2, <2>4, <2>5
<1>7. P(N)
  <2>1. N \in 0..N  BY <1>1
  <2> HIDE DEF P
  <2> QED BY <1>6, <2>1
<1> QED BY <1>1, <1>3, <1>7

-----------------------------------------------------------------------------
\* Steps

\* What depends on the scenario alone
LEMMA ScenarioKept ==
  ASSUME scenario' = scenario
  PROVE  /\ Ids' = Ids /\ TaskIds' = TaskIds /\ Options' = Options /\ Faults' = Faults
         /\ Entry' = Entry /\ Create' = Create /\ Outcomes' = Outcomes
         /\ MaxId' = MaxId /\ MaxTasks' = MaxTasks
BY DEF Ids, TaskIds, Options, Faults, Entry, Create, Outcomes, MaxId, MaxTasks, Returns

\* What the invariant says of the entries in memory
LEMMA EntriesAreSound ==
  ASSUME ScheduleInv
  PROVE  EntriesSound /\ \A id \in Ids : Live(entries[id]) => entries[id] \in Entry
<1>1. /\ scenario \in Scenarios /\ now \in Nat /\ entries \in [Ids -> Entry \cup {NoEntry}]
      /\ \A id \in Ids : Live(entries[id]) /\ entries[id].armed => entries[id].current
  BY DEF ScheduleInv, TypeOK
<1>2. ASSUME NEW id \in Ids, Live(entries[id]) PROVE Sound(entries[id]) /\ entries[id] \in Entry
  <2>1. EntryOK(id, entries[id], nextTask, served)  BY <1>2 DEF ScheduleInv, EntriesOK
  <2>2. entries[id] \in Entry  BY <1>1, <1>2, LiveIsEntry
  <2> QED BY <1>1, <1>2, <2>1, <2>2 DEF EntryOK, FiringsKnown, Sound
<1> QED BY <1>1, <1>2 DEF EntriesSound

\* ... is kept by what follows them
LEMMA EntriesFollow ==
  ASSUME ScheduleInv, scenario' = scenario, nextTask' = nextTask, served' = served,
         entries' \in [Ids -> Entry \cup {NoEntry}],
         \A id \in Ids : Follows(entries[id], entries'[id])
  PROVE  /\ EntriesOK'
         /\ \A id \in Ids : Live(entries'[id]) /\ entries'[id].armed => entries'[id].current
<1>1. ASSUME NEW id \in Ids, Live(entries'[id])
      PROVE  EntryOK(id, entries'[id], nextTask, served) /\ (entries'[id].armed => entries'[id].current)
  <2> DEFINE e == entries[id]  r == entries'[id]
  <2>1. /\ Live(e) /\ r.opt = e.opt /\ Sound(r) /\ r.running \subseteq e.running
        /\ (Cadenced(e) => r.deadline >= e.deadline)
    BY <1>1 DEF Follows
  <2>2. EntryOK(id, e, nextTask, served)  BY <2>1 DEF ScheduleInv, EntriesOK
  <2>3. e \in Entry /\ r \in Entry /\ scenario \in Scenarios
    BY <1>1, <2>1, LiveIsEntry, EntriesAreSound DEF EntriesSound
  <2>4. e.deadline \in Int /\ r.deadline \in Int  BY <2>3, EntryFields
  <2> HIDE DEF e, r
  <2>5. FiringsKnown(r, nextTask)  BY <2>1, <2>2 DEF Sound, EntryOK, FiringsKnown
  <2>6. PointsAhead(id, r, served)
    BY <2>1, <2>2, <2>4 DEF EntryOK, PointsAhead, Cadenced
  <2>7. AtMostOne(r)  BY <2>1, <2>2 DEF EntryOK, AtMostOne
  <2>8. EntryOK(id, r, nextTask, served) /\ (r.armed => r.current)
    BY <2>1, <2>5, <2>6, <2>7 DEF EntryOK, Sound
  <2> QED BY <2>8 DEF r
<1>2. EntriesOK'
  BY <1>1, ScenarioKept DEF EntriesOK
<1> QED BY <1>1, <1>2

\* ... and so are the entries on disk
LEMMA DiskFollows ==
  ASSUME ScheduleInv, scenario' = scenario, nextTask' = nextTask, served' = served,
         entries' \in [Ids -> Entry \cup {NoEntry}], EntriesOK',
         disk' = disk \/ \E S : Persist(S, entries')
  PROVE  /\ DiskOK' /\ disk' \in [Ids -> Entry \cup {NoEntry}]
         /\ \A id \in Ids : disk'[id] # NoEntry =>
              Live(disk'[id]) /\ (disk[id] # NoEntry \/ entries'[id] # NoEntry)
<1>1. disk \in [Ids -> Entry \cup {NoEntry}] /\ \A id \in Ids : disk[id] # NoEntry => Live(disk[id])
  BY DEF ScheduleInv, TypeOK
<1>2. /\ disk' \in [Ids -> Entry \cup {NoEntry}]
      /\ \A id \in Ids : \/ disk'[id] \in {disk[id], NoEntry}
                         \/ disk'[id] = entries'[id] /\ Live(entries'[id])
  <2>1. CASE disk' = disk  BY <1>1, <2>1
  <2>2. CASE \E S : Persist(S, entries')  BY <1>1, <2>2 DEF Persist
  <2> QED BY <2>1, <2>2
<1>3. ASSUME NEW id \in Ids, disk'[id] # NoEntry
      PROVE  /\ EntryOK(id, disk'[id], nextTask, served)
             /\ Live(disk'[id]) /\ (disk[id] # NoEntry \/ entries'[id] # NoEntry)
  <2>1. CASE disk'[id] = disk[id]  BY <1>1, <1>3, <2>1 DEF ScheduleInv, DiskOK
  <2>2. CASE disk'[id] = entries'[id] /\ Live(entries'[id])
    <3>1. EntryOK(id, entries'[id], nextTask, served)
      BY <2>2, ScenarioKept DEF EntriesOK
    <3> QED BY <1>3, <2>2, <3>1
  <2> QED BY <1>2, <1>3, <2>1, <2>2
<1>4. DiskOK'  BY <1>3, ScenarioKept DEF DiskOK
<1> QED BY <1>2, <1>3, <1>4

\* A step that leaves every live schedule armed, collected, running or queued forgets none
LEMMA RememberedKept ==
  ASSUME ScheduleInv, scenario' = scenario,
         \A id \in Ids : Live(entries'[id]) =>
           \/ Remembers(id, entries'[id], collected')
           \/ /\ Live(entries[id])
              /\ Remembers(id, entries[id], collected) /\ "session" \notin Faults
                   => Remembers(id, entries'[id], collected')
  PROVE  Remembered'
<1> SUFFICES ASSUME "session" \notin Faults PROVE NeverForgotten'
  BY ScenarioKept DEF Remembered
<1>1. ASSUME NEW id \in Ids, Live(entries'[id]) PROVE Remembers(id, entries'[id], collected')
  <2>1. Live(entries[id]) => Remembers(id, entries[id], collected)
    BY DEF ScheduleInv, Remembered, NeverForgotten, Remembers
  <2> QED BY <1>1, <2>1
<1> QED BY <1>1, ScenarioKept DEF NeverForgotten, Remembers

\* A step that creates nothing and fires nothing
LEMMA FollowingStep ==
  ASSUME ScheduleInv,
         UNCHANGED <<scenario, nextId, buffered, handed, collectedAt, nextTask, served, diskNext>>,
         now' \in Nat, now' >= now, state' \in {"Running", "Stopping", "Down"},
         entries' \in [Ids -> Entry \cup {NoEntry}],
         \A id \in Ids : Follows(entries[id], entries'[id]),
         disk' = disk \/ \E S : Persist(S, entries'),
         collected' \subseteq collected,
         task' \in [TaskIds -> {"none", "active", "suspended", "ended", "killed"}],
         results' \in Seq(Result), diskTasks' \subseteq TaskIds,
         DownForgets', NoDeadFiring', Remembered'
  PROVE  ScheduleInv'
<1>1. /\ EntriesOK'
      /\ \A id \in Ids : Live(entries'[id]) /\ entries'[id].armed => entries'[id].current
  BY EntriesFollow
<1>2. /\ DiskOK' /\ disk' \in [Ids -> Entry \cup {NoEntry}]
      /\ \A id \in Ids : disk'[id] # NoEntry =>
           Live(disk'[id]) /\ (disk[id] # NoEntry \/ entries'[id] # NoEntry)
  BY <1>1, DiskFollows
<1>3. TypeOK'
  <2>1. scenario' = scenario  OBVIOUS
  <2>2. /\ scenario \in Scenarios /\ buffered \in [Ids -> Create \cup {NoEntry}]
        /\ nextId \in 1..MaxId + 1 /\ diskNext \in 1..MaxId + 1 /\ handed \subseteq Ids
        /\ collected \subseteq Ids \X Nat /\ collectedAt \in Nat /\ nextTask \in 1..MaxTasks + 1
        /\ served \subseteq Ids \X Int
    BY DEF ScheduleInv, TypeOK
  <2> QED BY <1>1, <1>2, <2>1, <2>2, ScenarioKept DEF TypeOK, Result
<1>4. IdsKnown'
  <2>1. \A id \in Ids : entries'[id] # NoEntry => entries[id] # NoEntry  BY DEF Follows
  <2> QED BY <1>2, <2>1, ScenarioKept DEF ScheduleInv, IdsKnown
<1>5. CollectedDue'
  <2>1. ASSUME NEW c \in collected', Live(entries'[c[1]])
        PROVE  LET r == entries'[c[1]] IN
               /\ c[2] <= r.gen
               /\ c[2] = r.gen /\ r.current => ~r.armed /\ r.nextRun <= now' /\ Collects(r)
    <3> DEFINE e == entries[c[1]]  r == entries'[c[1]]
    <3>1. c \in collected /\ c[1] \in Ids /\ c[2] \in Nat
      <4>1. c \in collected /\ collected \subseteq Ids \X Nat  BY DEF ScheduleInv, TypeOK
      <4> QED BY <4>1
    <3>2. Live(e) /\ r.opt = e.opt /\ r.running \subseteq e.running /\ ArmFollows(e, r)
      BY <2>1, <3>1 DEF Follows
    <3>3. c[2] <= e.gen /\ (c[2] = e.gen /\ e.current => ~e.armed /\ e.nextRun <= now /\ Collects(e))
      BY <3>1, <3>2 DEF ScheduleInv, CollectedDue
    <3>4. e \in Entry /\ r \in Entry /\ scenario \in Scenarios /\ now \in Nat
      BY <2>1, <3>1, <3>2, LiveIsEntry, EntriesAreSound DEF EntriesSound
    <3>5. e.gen \in Nat /\ r.gen \in Nat /\ e.nextRun \in Int  BY <3>4, EntryFields
    <3> HIDE DEF e, r
    <3>6. c[2] <= r.gen  BY <3>1, <3>2, <3>3, <3>5 DEF ArmFollows
    <3>7. ASSUME c[2] = r.gen, r.current PROVE ~r.armed /\ r.nextRun <= now' /\ Collects(r)
      <4>1. /\ r.gen = e.gen /\ r.nextRun = e.nextRun
            /\ (r.current => e.current) /\ (r.armed => e.armed)
        BY <3>1, <3>2, <3>3, <3>5, <3>7 DEF ArmFollows
      <4>2. ~e.armed /\ e.nextRun <= now /\ Collects(e)  BY <3>3, <3>7, <4>1
      <4>3. Collects(r)  BY <3>2, <4>2 DEF Collects
      <4> QED BY <3>4, <3>5, <4>1, <4>2, <4>3
    <3> QED BY <3>6, <3>7 DEF r
  <2>2. collectedAt' <= now'
    BY DEF ScheduleInv, TypeOK, CollectedDue
  <2> QED BY <2>1, <2>2 DEF CollectedDue
<1> QED BY <1>1, <1>2, <1>3, <1>4, <1>5 DEF ScheduleInv

\* A task is there, or its result is on its way
Answers(t, places, rs) ==
  places[t] \in {"active", "suspended", "killed"} \/ \E i \in DOMAIN rs : rs[i].task = t

\* What a live entry may become in a step that ends no task
LEMMA FiringsKept ==
  ASSUME ScheduleInv, scenario' = scenario,
         \A id \in Ids : Live(entries'[id]) =>
           Live(entries[id]) /\ entries'[id].running \subseteq entries[id].running,
         \A t \in TaskIds : Answers(t, task, results) => Answers(t, task', results')
  PROVE  NoDeadFiring'
<1>1. ASSUME NEW id \in Ids, Live(entries'[id]), NEW f \in entries'[id].running
      PROVE  Answers(f.task, task', results')
  <2>1. Live(entries[id]) /\ f \in entries[id].running  BY <1>1
  <2>2. Answers(f.task, task, results)  BY <2>1 DEF ScheduleInv, NoDeadFiring, Answered, Answers
  <2>3. entries[id] \in Entry  BY <2>1, EntriesAreSound
  <2>4. entries[id].running \subseteq [task : TaskIds, deadline : Int]  BY <2>3 DEF Entry
  <2>5. f.task \in TaskIds  BY <2>1, <2>4
  <2> QED BY <2>2, <2>5
<1> QED BY <1>1, ScenarioKept DEF NoDeadFiring, Answered, Answers

\* Stopping a schedule by its id keeps the invariant
LEMMA StopStep ==
  ASSUME ScheduleInv, scenario' = scenario, NEW x \in Ids, StopSchedule(x)
  PROVE  ScheduleInv'
<1> DEFINE E == Entry \cup {NoEntry}
<1>1. /\ state # "Down" /\ entries' = [entries EXCEPT ![x] = NoEntry] /\ Persist({x}, entries')
      /\ UNCHANGED <<now, state, nextId, buffered, handed, collected, collectedAt, nextTask, task,
                     results, served, diskNext, diskTasks>>
  BY DEF StopSchedule, timerVars, taskVars
<1>2. /\ entries \in [Ids -> E] /\ now \in Nat /\ state \in {"Running", "Stopping", "Down"}
      /\ task \in [TaskIds -> {"none", "active", "suspended", "ended", "killed"}]
      /\ results \in Seq(Result) /\ diskTasks \subseteq TaskIds /\ scenario \in Scenarios
  BY DEF ScheduleInv, TypeOK, Result
<1>3. entries' \in [Ids -> E]  BY <1>1, <1>2
<1>4. ASSUME NEW id \in Ids
      PROVE  /\ Follows(entries[id], entries'[id])
             /\ Live(entries'[id]) => entries'[id] = entries[id]
  <2>1. CASE id = x  BY <1>1, <1>2, <2>1, NoneFollows
  <2>2. CASE id # x
    <3>1. entries'[id] = entries[id]  BY <1>1, <1>2, <2>2
    <3> QED BY <1>2, <3>1, FollowsItself, EntriesAreSound DEF EntriesSound
  <2> QED BY <2>1, <2>2
<1>5. NoDeadFiring'  BY <1>1, <1>4, FiringsKept
<1>6. Remembered'  BY <1>1, <1>4, RememberedKept
<1>7. DownForgets'  BY <1>1, ScenarioKept DEF ScheduleInv, DownForgets
<1>8. now' \in Nat /\ now' >= now /\ \E S : Persist(S, entries')  BY <1>1, <1>2
<1> QED BY <1>1, <1>2, <1>3, <1>4, <1>5, <1>6, <1>7, <1>8, FollowingStep

\* Results that are settled: of those in rs, none is left waiting
LEMMA SettledStep ==
  ASSUME ScheduleInv, scenario' = scenario, NEW rs \in Seq(Result), NEW o \in Int,
         Settle(rs, o), state # "Down",
         UNCHANGED <<now, state, nextId, buffered, handed, collected, collectedAt, nextTask, served,
                     diskNext, diskTasks>>,
         task' \in [TaskIds -> {"none", "active", "suspended", "ended", "killed"}],
         \A t \in TaskIds : task[t] # "none" => task'[t] # "none",
         \A t \in TaskIds : Answers(t, task, results) =>
           task'[t] \in {"active", "suspended", "killed"} \/ \E i \in DOMAIN rs : rs[i].task = t
  PROVE  ScheduleInv'
<1> DEFINE T == {rs[i].task : i \in DOMAIN rs}
<1>1. EntriesSound  BY EntriesAreSound
<1>2. /\ entries' \in [Ids -> Entry \cup {NoEntry}]
      /\ \A id \in Ids : Settled(id, entries'[id], T)
  BY <1>1, SettleFacts
<1>3. results' = <<>> /\ results' \in Seq(Result) /\ \E S : Persist(S, entries')
  <2>1. results' = <<>>  BY DEF Settle
  <2>2. Persist(UNION {ScheduleOf(entries, rs[i].task) : i \in DOMAIN rs}, entries')  BY DEF Settle
  <2>3. \E S : Persist(S, entries')  BY <2>2
  <2> QED BY <2>1, <2>3
<1>4. /\ now \in Nat /\ state \in {"Running", "Stopping", "Down"} /\ diskTasks \subseteq TaskIds
  BY DEF ScheduleInv, TypeOK
<1>5. \A id \in Ids : Follows(entries[id], entries'[id])  BY <1>2 DEF Settled
<1>6. NoDeadFiring'
  <2>1. ASSUME NEW id \in Ids, Live(entries'[id]), NEW f \in entries'[id].running
        PROVE  task'[f.task] \in {"active", "suspended", "killed"}
    <3>1. Live(entries[id])  BY <1>5, <2>1 DEF Follows
    <3>2. f \in entries[id].running /\ f.task \notin T  BY <1>2, <2>1 DEF Settled
    <3>3. Answers(f.task, task, results)  BY <3>1, <3>2 DEF ScheduleInv, NoDeadFiring, Answered, Answers
    <3>4. f.task \in TaskIds
      <4>1. entries[id] \in Entry  BY <3>1, EntriesAreSound
      <4>2. entries[id].running \subseteq [task : TaskIds, deadline : Int]  BY <4>1 DEF Entry
      <4> QED BY <3>2, <4>2
    <3> QED BY <3>2, <3>3, <3>4
  <2> QED BY <2>1, ScenarioKept DEF NoDeadFiring, Answered
<1>7. Remembered'
  <2>1. ASSUME NEW id \in Ids, Live(entries'[id])
        PROVE  Live(entries[id]) /\ (Remembers(id, entries[id], collected)
                                       => Remembers(id, entries'[id], collected'))
    BY <1>2, <1>5, <2>1 DEF Settled, Follows
  <2> QED BY <2>1, RememberedKept
<1>8. DownForgets'
  <2>1. state' # "Down"  OBVIOUS
  <2>2. \A t \in TaskIds : t \in diskTasks => task[t] # "none"  BY DEF ScheduleInv, DownForgets
  <2> QED BY <2>1, <2>2, ScenarioKept DEF DownForgets
<1>9. now' \in Nat /\ now' >= now  BY <1>4
<1> QED BY <1>2, <1>3, <1>4, <1>5, <1>6, <1>7, <1>8, <1>9, FollowingStep

\* Settling what has ended keeps the invariant
LEMMA SettleFiringsStep ==
  ASSUME ScheduleInv, scenario' = scenario, NEW o \in Int, SettleFirings(o)
  PROVE  ScheduleInv'
<1>1. /\ state # "Down" /\ Settle(results, o)
      /\ UNCHANGED <<now, state, nextId, buffered, handed, collected, collectedAt, nextTask, task,
                     served, diskNext, diskTasks>>
  BY DEF SettleFirings, timerVars
<1>2. /\ results \in Seq(Result)
      /\ task \in [TaskIds -> {"none", "active", "suspended", "ended", "killed"}]
  BY DEF ScheduleInv, TypeOK, Result
<1> QED BY <1>1, <1>2, SettledStep DEF Answers

\* A firing that ends, and is settled with all the others, keeps the invariant
LEMMA EndsStep ==
  ASSUME ScheduleInv, scenario' = scenario, NEW x \in TaskIds, NEW r \in Outcomes, NEW o \in Int,
         FiringEnds(x, r, o)
  PROVE  ScheduleInv'
<1> DEFINE rs == Append(results, [task |-> x, outcome |-> r])
<1>1. /\ state # "Down" /\ Settle(rs, o) /\ task' = [task EXCEPT ![x] = "ended"]
      /\ UNCHANGED <<now, state, nextId, buffered, handed, collected, collectedAt, nextTask,
                     served, diskNext, diskTasks>>
  BY DEF FiringEnds, timerVars
<1>2. /\ results \in Seq(Result)
      /\ task \in [TaskIds -> {"none", "active", "suspended", "ended", "killed"}]
  BY DEF ScheduleInv, TypeOK, Result
<1>3. /\ rs \in Seq(Result) /\ DOMAIN rs = 1..Len(results) + 1
      /\ rs[Len(results) + 1] = [task |-> x, outcome |-> r]
      /\ \A i \in DOMAIN results : rs[i] = results[i] /\ i \in DOMAIN rs
      /\ Len(results) + 1 \in DOMAIN rs
  BY <1>2 DEF Result
<1> HIDE DEF rs
<1>4. /\ task' \in [TaskIds -> {"none", "active", "suspended", "ended", "killed"}]
      /\ \A t \in TaskIds : task[t] # "none" => task'[t] # "none"
  BY <1>1, <1>2
<1>5. ASSUME NEW t \in TaskIds, Answers(t, task, results)
      PROVE  task'[t] \in {"active", "suspended", "killed"} \/ \E i \in DOMAIN rs : rs[i].task = t
  <2>1. CASE t = x  BY <1>3, <2>1
  <2>2. CASE t # x /\ task[t] \in {"active", "suspended", "killed"}  BY <1>1, <1>2, <2>2
  <2>3. CASE \E i \in DOMAIN results : results[i].task = t  BY <1>3, <2>3
  <2> QED BY <1>5, <2>1, <2>2, <2>3 DEF Answers
<1> QED BY <1>1, <1>3, <1>4, <1>5, SettledStep

\* Steps of the tasks, of the clock and of their storage leave the queue alone
LEMMA QueueKeptStep ==
  ASSUME ScheduleInv, scenario' = scenario,
         UNCHANGED <<queueVars, timerVars, nextTask, served, disk, diskNext>>,
         now' \in Nat, now' >= now,
         state' = state \/ (state' = "Stopping" /\ state # "Down"),
         task' \in [TaskIds -> {"none", "active", "suspended", "ended", "killed"}],
         results' \in Seq(Result), diskTasks' \subseteq TaskIds,
         \A t \in TaskIds : t \in diskTasks' => task'[t] # "none",
         state = "Down" => task' = task /\ diskTasks' = diskTasks,
         \A t \in TaskIds : Answers(t, task, results) => Answers(t, task', results')
  PROVE  ScheduleInv'
<1>1. UNCHANGED <<entries, nextId, buffered, handed, collected, collectedAt>>
  BY DEF queueVars, timerVars
<1>2. /\ entries \in [Ids -> Entry \cup {NoEntry}] /\ state \in {"Running", "Stopping", "Down"}
      /\ scenario \in Scenarios
  BY DEF ScheduleInv, TypeOK
<1>3. \A id \in Ids : Follows(entries[id], entries'[id])
  BY <1>1, <1>2, FollowsItself, EntriesAreSound DEF EntriesSound
<1>4. NoDeadFiring'  BY <1>1, FiringsKept
<1>5. Remembered'  BY <1>1, RememberedKept
<1>6. DownForgets'
  BY <1>1, ScenarioKept DEF ScheduleInv, DownForgets
<1>7. entries' \in [Ids -> Entry \cup {NoEntry}] /\ state' \in {"Running", "Stopping", "Down"}
  BY <1>1, <1>2
<1> QED BY <1>1, <1>3, <1>4, <1>5, <1>6, <1>7, FollowingStep

\* What happens to a firing before it ends keeps the invariant
LEMMA TaskSteps ==
  ASSUME ScheduleInv, scenario' = scenario, NEW x \in TaskIds,
         \/ FiringAborted(x) \/ FiringKilled(x) \/ FiringSuspends(x) \/ FiringWakes(x)
         \/ TaskStored(x)
  PROVE  ScheduleInv'
<1> DEFINE Places == {"none", "active", "suspended", "ended", "killed"}
<1>1. /\ task \in [TaskIds -> Places] /\ results \in Seq(Result) /\ diskTasks \subseteq TaskIds
      /\ now \in Nat /\ \A t \in TaskIds : t \in diskTasks => task[t] # "none"
  BY DEF ScheduleInv, TypeOK, Result, DownForgets
<1>2. CASE FiringAborted(x)
  <2>1. /\ state # "Down" /\ task' = [task EXCEPT ![x] = "ended"]
        /\ results' = Append(results, [task |-> x, outcome |-> Fault])
        /\ UNCHANGED <<now, state, queueVars, timerVars, nextTask, served, disk, diskNext, diskTasks>>
    BY <1>2 DEF FiringAborted, diskVars
  <2>2. [task |-> x, outcome |-> Fault] \in Result  BY DEF Result, Outcomes
  <2>3. /\ results' \in Seq(Result) /\ Len(results) + 1 \in DOMAIN results'
        /\ results'[Len(results) + 1] = [task |-> x, outcome |-> Fault]
        /\ \A i \in DOMAIN results : results'[i] = results[i] /\ i \in DOMAIN results'
    BY <1>1, <2>1, <2>2
  <2>4. ASSUME NEW t \in TaskIds, Answers(t, task, results) PROVE Answers(t, task', results')
    <3>1. CASE t = x
      <4>1. results'[Len(results) + 1].task = t  BY <2>3, <3>1
      <4> QED BY <2>3, <4>1 DEF Answers
    <3>2. CASE t # x /\ task[t] \in {"active", "suspended", "killed"}  BY <1>1, <2>1, <3>2 DEF Answers
    <3>3. CASE \E i \in DOMAIN results : results[i].task = t  BY <2>3, <3>3 DEF Answers
    <3> QED BY <2>4, <3>1, <3>2, <3>3 DEF Answers
  <2>5. task' \in [TaskIds -> Places] /\ \A t \in TaskIds : t \in diskTasks' => task'[t] # "none"
    BY <1>1, <2>1
  <2>6. now' \in Nat /\ now' >= now  BY <1>1, <2>1
  <2> QED BY <1>1, <2>1, <2>3, <2>4, <2>5, <2>6, QueueKeptStep
<1>3. ASSUME NEW where \in {"active", "suspended", "killed"}, state # "Down", task[x] # "none",
             task' = [task EXCEPT ![x] = where],
             UNCHANGED <<now, state, queueVars, timerVars, nextTask, results, served, diskVars>>
      PROVE  ScheduleInv'
  <2>1. task' \in [TaskIds -> Places] /\ \A t \in TaskIds : t \in diskTasks' => task'[t] # "none"
    BY <1>1, <1>3 DEF diskVars
  <2>2. ASSUME NEW t \in TaskIds, Answers(t, task, results) PROVE Answers(t, task', results')
    BY <1>1, <1>3, <2>2 DEF Answers
  <2>3. now' \in Nat /\ now' >= now /\ UNCHANGED <<disk, diskNext, diskTasks>>
    BY <1>1, <1>3 DEF diskVars
  <2> QED BY <1>1, <1>3, <2>1, <2>2, <2>3, QueueKeptStep
<1>4. CASE FiringKilled(x) \/ FiringSuspends(x) \/ FiringWakes(x)
  BY <1>3, <1>4 DEF FiringKilled, FiringSuspends, FiringWakes
<1>5. CASE TaskStored(x)
  <2>1. /\ state # "Down" /\ diskTasks' \subseteq TaskIds
        /\ \A t \in TaskIds : t \in diskTasks' => t \in diskTasks \/ task[t] = "suspended"
        /\ UNCHANGED <<now, state, queueVars, timerVars, nextTask, task, results, served, disk, diskNext>>
    BY <1>1, <1>5 DEF TaskStored, taskVars
  <2>2. now' \in Nat /\ now' >= now  BY <1>1, <2>1
  <2>3. \A t \in TaskIds : t \in diskTasks' => task'[t] # "none"  BY <1>1, <2>1
  <2> QED BY <1>1, <2>1, <2>2, <2>3, QueueKeptStep
<1> QED BY <1>2, <1>4, <1>5

\* A tick and the beginning of a shutdown keep the invariant
LEMMA ClockSteps ==
  ASSUME ScheduleInv, scenario' = scenario, Tick \/ BeginStop
  PROVE  ScheduleInv'
<1>1. /\ task \in [TaskIds -> {"none", "active", "suspended", "ended", "killed"}]
      /\ results \in Seq(Result) /\ diskTasks \subseteq TaskIds
      /\ now \in Nat /\ \A t \in TaskIds : t \in diskTasks => task[t] # "none"
  BY DEF ScheduleInv, TypeOK, Result, DownForgets
<1>2. /\ UNCHANGED <<queueVars, timerVars, nextTask, task, results, served, disk, diskNext, diskTasks>>
      /\ now' = now + 1 \/ now' = now
      /\ state' = state \/ (state' = "Stopping" /\ state # "Down")
  BY DEF Tick, BeginStop, taskVars, diskVars
<1>3. now' \in Nat /\ now' >= now  BY <1>1, <1>2
<1> QED BY <1>1, <1>2, <1>3, QueueKeptStep

\* handle_schedule_create: the next id is new
LEMMA ReserveStep ==
  ASSUME ScheduleInv, scenario' = scenario, NEW p \in Options, Reserve(p)
  PROVE  ScheduleInv'
<1>1. /\ state # "Down" /\ nextId <= MaxId /\ nextId' = nextId + 1 /\ diskNext' = nextId + 1
      /\ handed' = handed \cup {nextId}
      /\ buffered' = [buffered EXCEPT ![nextId] = CreateRequest(p)]
      /\ UNCHANGED <<now, state, entries, collected, collectedAt, nextTask, task, results, served,
                     disk, diskTasks>>
  BY DEF Reserve, ReserveId, timerVars, taskVars
<1>2. /\ TypeOK /\ scenario \in Scenarios /\ nextId \in 1..MaxId + 1 /\ diskNext \in 1..MaxId + 1
      /\ handed \subseteq Ids /\ now \in Nat /\ buffered \in [Ids -> Create \cup {NoEntry}]
  BY DEF ScheduleInv, TypeOK
<1>3. MaxId \in Nat /\ p.delay \in Nat
  BY <1>2, ScenarioTypes DEF OptionType
<1>4. nextId \in Ids /\ nextId \notin handed
  <2>1. \A id \in handed : id < nextId  BY DEF ScheduleInv, IdsKnown
  <2> QED BY <1>1, <1>2, <1>3, <2>1 DEF Ids
<1>5. CreateRequest(p) \in Create /\ CreateRequest(p) # NoEntry
  <2>1. now + p.delay \in Nat  BY <1>2, <1>3
  <2> QED BY <2>1 DEF CreateRequest, Create, NoEntry
<1>6. TypeOK'
  <2>1. nextId' \in 1..MaxId + 1 /\ diskNext' \in 1..MaxId + 1  BY <1>1, <1>2, <1>3
  <2>2. handed' \subseteq Ids /\ buffered' \in [Ids -> Create \cup {NoEntry}]
    BY <1>1, <1>2, <1>4, <1>5
  <2> QED BY <1>1, <1>2, <2>1, <2>2, ScenarioKept DEF TypeOK
<1>7. IdsKnown'
  <2>1. \A id \in handed' : id < nextId' /\ id < diskNext'
    <3>1. \A id \in handed : id < nextId /\ id \in Int  BY <1>2 DEF ScheduleInv, IdsKnown, Ids
    <3> QED BY <1>1, <1>2, <3>1
  <2>2. ASSUME NEW id \in Ids, id # nextId PROVE buffered'[id] = buffered[id]
    BY <1>1, <1>2, <2>2
  <2>3. \A id \in Ids : buffered'[id] # NoEntry \/ entries'[id] # NoEntry \/ disk'[id] # NoEntry
                           => id \in handed'
    BY <1>1, <2>2 DEF ScheduleInv, IdsKnown
  <2>4. \A c \in collected' : c[1] \in handed'  BY <1>1 DEF ScheduleInv, IdsKnown
  <2>5. \A s \in served' : s[1] \in handed'  BY <1>1 DEF ScheduleInv, IdsKnown
  <2>6. ASSUME NEW id \in Ids, buffered'[id] # NoEntry
        PROVE  /\ entries'[id] = NoEntry /\ \A c \in collected' : c[1] # id
               /\ \A s \in served' : s[1] # id
    <3>1. CASE id = nextId  BY <1>1, <1>4, <3>1 DEF ScheduleInv, IdsKnown
    <3>2. CASE id # nextId  BY <1>1, <2>2, <2>6, <3>2 DEF ScheduleInv, IdsKnown
    <3> QED BY <3>1, <3>2
  <2> QED BY <2>1, <2>3, <2>4, <2>5, <2>6, ScenarioKept DEF IdsKnown
<1>8. EntriesOK' /\ DiskOK'  BY <1>1, ScenarioKept DEF ScheduleInv, EntriesOK, DiskOK
<1>9. CollectedDue' /\ DownForgets'
  BY <1>1, ScenarioKept DEF ScheduleInv, CollectedDue, DownForgets
<1>10. NoDeadFiring'  BY <1>1, FiringsKept
<1>11. Remembered'  BY <1>1, RememberedKept
<1> QED BY <1>6, <1>7, <1>8, <1>9, <1>10, <1>11 DEF ScheduleInv

\* Dropping a creation with its transaction keeps the invariant
LEMMA DiscardStep ==
  ASSUME ScheduleInv, scenario' = scenario, NEW x \in Ids, Discard(x)
  PROVE  ScheduleInv'
<1>1. /\ state # "Down" /\ buffered' = [buffered EXCEPT ![x] = NoEntry]
      /\ UNCHANGED <<now, state, entries, nextId, handed, collected, collectedAt, nextTask, task,
                     results, served, disk, diskNext, diskTasks>>
  BY DEF Discard, timerVars, taskVars, diskVars
<1>2. TypeOK /\ buffered \in [Ids -> Create \cup {NoEntry}]  BY DEF ScheduleInv, TypeOK
<1>3. buffered' \in [Ids -> Create \cup {NoEntry}]
        /\ \A id \in Ids : buffered'[id] # NoEntry => buffered[id] # NoEntry
  BY <1>1, <1>2
<1>4. TypeOK'  BY <1>1, <1>2, <1>3, ScenarioKept DEF TypeOK
<1>5. IdsKnown'  BY <1>1, <1>3, ScenarioKept DEF ScheduleInv, IdsKnown
<1>6. EntriesOK' /\ DiskOK'  BY <1>1, ScenarioKept DEF ScheduleInv, EntriesOK, DiskOK
<1>7. CollectedDue' /\ DownForgets'
  BY <1>1, ScenarioKept DEF ScheduleInv, CollectedDue, DownForgets
<1>8. NoDeadFiring'  BY <1>1, FiringsKept
<1>9. Remembered'  BY <1>1, RememberedKept
<1> QED BY <1>4, <1>5, <1>6, <1>7, <1>8, <1>9 DEF ScheduleInv

\* PendingTaskEffects::publish: a new schedule, armed, under an id that nothing knows yet
LEMMA PublishStep ==
  ASSUME ScheduleInv, scenario' = scenario, NEW x \in Ids, NEW o \in Int, Publish(x, o)
  PROVE  ScheduleInv'
<1> DEFINE r == Insert(buffered[x], now, o)
<1>1. /\ state # "Down" /\ buffered[x] # NoEntry
      /\ entries' = [entries EXCEPT ![x] = r] /\ buffered' = [buffered EXCEPT ![x] = NoEntry]
      /\ Persist({x}, entries')
      /\ UNCHANGED <<now, state, nextId, handed, collected, collectedAt, nextTask, task,
                     results, served, diskNext, diskTasks>>
  BY DEF Publish, timerVars, taskVars
<1>2. /\ TypeOK /\ scenario \in Scenarios /\ buffered \in [Ids -> Create \cup {NoEntry}]
      /\ entries \in [Ids -> Entry \cup {NoEntry}] /\ now \in Nat
  BY DEF ScheduleInv, TypeOK
<1>3. buffered[x] \in Create  BY <1>1, <1>2
<1>4. /\ r \in Entry \cup {NoEntry}
      /\ Live(r) => Sound(r) /\ r.running = {} /\ r.armed
  BY <1>2, <1>3, InsertFacts
<1> HIDE DEF r
<1>5. /\ entries' \in [Ids -> Entry \cup {NoEntry}] /\ entries'[x] = r
      /\ \A id \in Ids : id # x => entries'[id] = entries[id]
  BY <1>1, <1>2, <1>4
<1>6. EntriesOK'
  <2>1. ASSUME NEW id \in Ids, Live(entries'[id]) PROVE EntryOK(id, entries'[id], nextTask, served)
    <3>1. CASE id # x  BY <1>5, <2>1, <3>1 DEF ScheduleInv, EntriesOK
    <3>2. CASE id = x
      <4>1. Sound(r) /\ r.running = {}  BY <1>4, <1>5, <2>1, <3>2
      <4>2. \A d \in Int : <<x, d>> \notin served
        <5>1. \A s \in served : s[1] # x  BY <1>1 DEF ScheduleInv, IdsKnown
        <5> QED BY <5>1
      <4>3. EntryOK(x, r, nextTask, served)
        BY <4>1, <4>2 DEF EntryOK, Sound, FiringsKnown, PointsAhead, AtMostOne
      <4> QED BY <1>5, <3>2, <4>3
    <3> QED BY <3>1, <3>2
  <2> QED BY <1>1, <2>1, ScenarioKept DEF EntriesOK
<1>7. /\ DiskOK' /\ disk' \in [Ids -> Entry \cup {NoEntry}]
      /\ \A id \in Ids : disk'[id] # NoEntry =>
           Live(disk'[id]) /\ (disk[id] # NoEntry \/ entries'[id] # NoEntry)
  BY <1>1, <1>5, <1>6, DiskFollows
<1>8. /\ buffered' \in [Ids -> Create \cup {NoEntry}]
      /\ \A id \in Ids : buffered'[id] # NoEntry => buffered[id] # NoEntry /\ id # x
  BY <1>1, <1>2
<1>9. TypeOK'
  <2>1. \A id \in Ids : Live(entries'[id]) /\ entries'[id].armed => entries'[id].current
    <3>1. Live(r) /\ r.armed => r.current  BY <1>4 DEF Sound
    <3> QED BY <1>2, <1>5, <3>1 DEF TypeOK
  <2> QED BY <1>1, <1>2, <1>5, <1>7, <1>8, <2>1, ScenarioKept DEF TypeOK
<1>10. IdsKnown'
  <2>1. x \in handed  BY <1>1 DEF ScheduleInv, IdsKnown
  <2>2. ASSUME NEW id \in Ids, buffered'[id] # NoEntry \/ entries'[id] # NoEntry \/ disk'[id] # NoEntry
        PROVE  id \in handed
    BY <1>5, <1>7, <1>8, <2>1, <2>2 DEF ScheduleInv, IdsKnown
  <2>3. ASSUME NEW id \in Ids, buffered'[id] # NoEntry
        PROVE  /\ entries'[id] = NoEntry /\ \A c \in collected' : c[1] # id
               /\ \A s \in served' : s[1] # id
    <3>1. id # x /\ buffered[id] # NoEntry /\ entries'[id] = entries[id]  BY <1>5, <1>8, <2>3
    <3> QED BY <1>1, <3>1 DEF ScheduleInv, IdsKnown
  <2> QED BY <1>1, <2>2, <2>3, ScenarioKept DEF ScheduleInv, IdsKnown
<1>11. CollectedDue'
  <2>1. \A c \in collected : c[1] # x  BY <1>1 DEF ScheduleInv, IdsKnown
  <2>2. collected \subseteq Ids \X Nat  BY <1>2 DEF TypeOK
  <2>3. \A c \in collected : entries'[c[1]] = entries[c[1]]  BY <1>5, <2>1, <2>2
  <2> QED BY <1>1, <2>3 DEF ScheduleInv, CollectedDue
<1>12. DownForgets'  BY <1>1, ScenarioKept DEF ScheduleInv, DownForgets
<1>13. NoDeadFiring'
  <2>1. ASSUME NEW id \in Ids, Live(entries'[id]), NEW f \in entries'[id].running
        PROVE  Answers(f.task, task, results)
    <3>1. id # x  BY <1>4, <1>5, <2>1
    <3> QED BY <1>5, <2>1, <3>1 DEF ScheduleInv, NoDeadFiring, Answered, Answers
  <2> QED BY <1>1, <2>1, ScenarioKept DEF NoDeadFiring, Answered, Answers
<1>14. Remembered'
  <2>1. ASSUME NEW id \in Ids, Live(entries'[id])
        PROVE  \/ Remembers(id, entries'[id], collected')
               \/ entries'[id] = entries[id]
    BY <1>4, <1>5, <2>1 DEF Remembers
  <2> QED BY <1>1, <2>1, RememberedKept
<1> QED BY <1>6, <1>7, <1>9, <1>10, <1>11, <1>12, <1>13, <1>14 DEF ScheduleInv

\* collect_and_fire_schedules under its first lock
LEMMA CollectStep ==
  ASSUME ScheduleInv, scenario' = scenario, NEW o \in Int, Collect(o)
  PROVE  ScheduleInv'
<1> DEFINE Fires(id) == Due(entries[id]) /\ Collects(entries[id])
           Off(e) == [e EXCEPT !.armed = FALSE]
<1>1. /\ state = "Running" /\ collected = {}
      /\ entries' = [id \in Ids |->
           LET e == entries[id] IN
           IF Purged(e) THEN NoEntry ELSE
           IF ~Due(e) THEN e ELSE
           IF Collects(e) THEN [e EXCEPT !.armed = FALSE] ELSE Overlapped(e, o)]
      /\ collected' = {<<id, entries[id].gen>> : id \in {i \in Ids : Fires(i)}}
      /\ collectedAt' = now
      /\ UNCHANGED <<now, state, nextId, buffered, handed, nextTask, task, results, served,
                     disk, diskNext, diskTasks>>
  BY DEF Collect, taskVars, diskVars
<1>2. /\ TypeOK /\ scenario \in Scenarios /\ now \in Nat
      /\ entries \in [Ids -> Entry \cup {NoEntry}]
      /\ \A id \in Ids : Live(entries[id]) => Sound(entries[id]) /\ entries[id] \in Entry
  BY EntriesAreSound DEF ScheduleInv, TypeOK, EntriesSound
<1>3. ASSUME NEW id \in Ids
      PROVE  /\ entries'[id] \in Entry \cup {NoEntry} /\ Follows(entries[id], entries'[id])
             /\ Fires(id) => entries'[id] = Off(entries[id])
             /\ Live(entries'[id]) /\ ~Fires(id) =>
                  /\ entries'[id].running = entries[id].running
                  /\ \/ entries'[id] = entries[id]
                     \/ entries'[id].armed
                     \/ entries'[id].running # {} /\ (entries'[id].opt.kind = "at" \/ entries'[id].queued)
  <2> DEFINE e == entries[id]
  <2>1. CASE Purged(e)
    <3>1. entries'[id] = NoEntry /\ ~Fires(id)  BY <1>1, <2>1 DEF Purged, Due, Live
    <3> QED BY <3>1, NoneFollows
  <2>2. CASE ~Purged(e) /\ ~Due(e)
    <3>1. entries'[id] = e /\ ~Fires(id)  BY <1>1, <2>2
    <3> QED BY <1>2, <3>1, FollowsItself
  <2>3. CASE ~Purged(e) /\ Fires(id)
    <3>1. entries'[id] = Off(e)  BY <1>1, <2>3
    <3>2. e \in Entry /\ Live(e) /\ Sound(e)  BY <1>2, <2>3 DEF Due
    <3> DEFINE r == Off(e)
    <3>3. /\ r \in Entry /\ r.opt = e.opt /\ r.running = e.running /\ r.deadline = e.deadline
          /\ r.armed = FALSE /\ r.current = e.current /\ r.gen = e.gen /\ r.nextRun = e.nextRun
          /\ r.first = e.first /\ Tally(r) = Tally(e)
      BY <3>2 DEF Entry, Tally
    <3> HIDE DEF e, r
    <3>4. Sound(r)  BY <3>2, <3>3 DEF Sound, DistinctFirings, Accounted, Cadenced
    <3>5. e.deadline \in Int /\ e # NoEntry  BY <1>2, <3>2, EntryFields
    <3>6. Follows(e, r)  BY <3>2, <3>3, <3>4, <3>5 DEF Follows, ArmFollows
    <3> QED BY <2>3, <3>1, <3>3, <3>6 DEF e, r
  <2>4. CASE ~Purged(e) /\ Due(e) /\ ~Collects(e)
    <3>1. entries'[id] = Overlapped(e, o) /\ ~Fires(id)  BY <1>1, <2>4
    <3>2. e \in Entry /\ Live(e) /\ Sound(e) /\ e.running # {}  BY <1>2, <2>4 DEF Due, Collects
    <3> DEFINE r == Overlapped(e, o)
    <3>3. /\ r \in Entry /\ Follows(e, r)
          /\ Live(r) => r.running = e.running /\ (r.armed \/ e.opt.kind = "at" \/ r.queued)
      BY <1>2, <3>2, OverlappedFacts
    <3>4. Live(r) => r.opt = e.opt  BY <3>3 DEF Follows
    <3> HIDE DEF r
    <3> QED BY <3>1, <3>2, <3>3, <3>4 DEF r
  <2> QED BY <2>1, <2>2, <2>3, <2>4
<1>4. entries' \in [Ids -> Entry \cup {NoEntry}]
  <2>1. entries' = [id \in Ids |-> entries'[id]]  BY <1>1
  <2> QED BY <1>3, <2>1
<1>5. /\ EntriesOK'
      /\ \A id \in Ids : Live(entries'[id]) /\ entries'[id].armed => entries'[id].current
  BY <1>1, <1>3, <1>4, EntriesFollow
<1>6. /\ DiskOK' /\ disk' \in [Ids -> Entry \cup {NoEntry}]
      /\ \A id \in Ids : disk'[id] # NoEntry => Live(disk'[id])
  BY <1>1, <1>4, <1>5, DiskFollows
<1>7. ASSUME NEW c \in collected'
      PROVE  c[1] \in Ids /\ Fires(c[1]) /\ c = <<c[1], entries[c[1]].gen>> /\ c[2] = entries[c[1]].gen
  BY <1>1
<1>8. ASSUME NEW id \in Ids, Fires(id)
      PROVE  /\ entries[id] \in Entry /\ Live(entries[id]) /\ entries[id] # NoEntry
             /\ entries[id].gen \in Nat /\ entries[id].current
             /\ entries[id].nextRun <= now
  <2>1. Live(entries[id]) /\ entries[id].armed /\ entries[id].nextRun <= now  BY <1>8 DEF Due
  <2>2. entries[id].current  BY <1>2, <2>1 DEF TypeOK
  <2> QED BY <1>2, <2>1, <2>2, EntryFields
<1>9. collected' \subseteq Ids \X Nat
  <2>1. ASSUME NEW c \in collected' PROVE c \in Ids \X Nat
    <3>1. c[1] \in Ids /\ entries[c[1]].gen \in Nat /\ c = <<c[1], entries[c[1]].gen>>
      BY <1>7, <1>8
    <3> HIDE DEF Fires
    <3> QED BY <3>1
  <2> QED BY <2>1
<1>10. TypeOK'
  BY <1>1, <1>2, <1>4, <1>5, <1>6, <1>9, ScenarioKept DEF TypeOK
<1>11. IdsKnown'
  <2>1. \A id \in Ids : entries'[id] # NoEntry => entries[id] # NoEntry  BY <1>3 DEF Follows
  <2>2. \A c \in collected' : c[1] \in Ids /\ entries[c[1]] # NoEntry  BY <1>7, <1>8
  <2> QED BY <1>1, <2>1, <2>2, ScenarioKept DEF ScheduleInv, IdsKnown
<1>12. CollectedDue'
  <2>1. ASSUME NEW c \in collected', Live(entries'[c[1]])
        PROVE  LET r == entries'[c[1]] IN
               /\ c[2] <= r.gen
               /\ c[2] = r.gen /\ r.current => ~r.armed /\ r.nextRun <= now' /\ Collects(r)
    <3> DEFINE e == entries[c[1]]
    <3>1. c[1] \in Ids /\ Fires(c[1]) /\ c[2] = e.gen  BY <1>7
    <3>2. e \in Entry /\ e.gen \in Nat /\ e.nextRun <= now  BY <1>8, <3>1
    <3>3. entries'[c[1]] = Off(e)  BY <1>3, <3>1
    <3>4. /\ Off(e).gen = e.gen /\ Off(e).armed = FALSE /\ Off(e).nextRun = e.nextRun
          /\ Off(e).running = e.running /\ Off(e).opt = e.opt
      BY <3>2 DEF Entry
    <3>5. Collects(Off(e))  BY <3>1, <3>4 DEF Collects
    <3> DEFINE r == entries'[c[1]]
    <3>6. r.gen = e.gen /\ ~r.armed /\ r.nextRun = e.nextRun /\ Collects(r)
      <4> HIDE DEF Off, Fires
      <4> QED BY <3>3, <3>4, <3>5
    <3>7. now' = now  BY <1>1
    <3>8. /\ c[2] <= r.gen
          /\ c[2] = r.gen /\ r.current => ~r.armed /\ r.nextRun <= now' /\ Collects(r)
      <4> HIDE DEF e, r, Fires
      <4> QED BY <3>1, <3>2, <3>6, <3>7
    <3> QED BY <3>8
  <2>2. collectedAt' <= now'  BY <1>1, <1>2
  <2> QED BY <2>1, <2>2 DEF CollectedDue
<1>13. DownForgets'
  BY <1>1, ScenarioKept DEF ScheduleInv, DownForgets
<1>14. NoDeadFiring'
  <2>1. \A id \in Ids : Live(entries'[id]) =>
          Live(entries[id]) /\ entries'[id].running \subseteq entries[id].running
    BY <1>3 DEF Follows
  <2> QED BY <1>1, <2>1, FiringsKept
<1>15. Remembered'
  <2>1. ASSUME NEW id \in Ids, Live(entries'[id])
        PROVE  \/ Remembers(id, entries'[id], collected')
               \/ entries'[id] = entries[id]
    <3>1. CASE Fires(id)
      <4> DEFINE e == entries[id]
      <4>1. e \in Entry /\ e.current  BY <1>8, <3>1
      <4>2. entries'[id] = Off(e)  BY <1>3, <3>1
      <4>3. Off(e).gen = e.gen /\ Off(e).current = e.current  BY <4>1 DEF Entry
      <4>4. <<id, e.gen>> \in collected'  BY <1>1, <3>1
      <4> HIDE DEF e, Off
      <4> QED BY <4>1, <4>2, <4>3, <4>4 DEF Remembers
    <3>2. CASE ~Fires(id)
      <4> HIDE DEF Fires
      <4> QED BY <1>3, <2>1, <3>2 DEF Remembers
    <3> QED BY <3>1, <3>2
  <2>2. ASSUME NEW id \in Ids, Live(entries'[id]), entries'[id] = entries[id]
        PROVE  /\ Live(entries[id])
               /\ Remembers(id, entries[id], collected) => Remembers(id, entries'[id], collected')
    BY <1>1, <2>2 DEF Remembers
  <2> QED BY <2>1, <2>2, RememberedKept
<1> QED BY <1>5, <1>6, <1>10, <1>11, <1>12, <1>13, <1>14, <1>15 DEF ScheduleInv

\* An entry whose expiry was submitted: firings of R, a later point, another arm
Started(e, r, R) ==
  /\ r \in Entry
  /\ Live(r) => /\ r.opt = e.opt /\ Sound(r) /\ r.running \subseteq R
                /\ (Cadenced(e) => r.deadline > e.deadline)
                /\ r.gen >= e.gen /\ (r.current => r.gen > e.gen)
                /\ r.armed \/ (r.running # {} /\ r.opt.kind = "at")

\* A firing that is submitted, and one that is refused at once, are starts of the schedule
LEMMA SubmitFacts ==
  ASSUME scenario \in Scenarios, now \in Nat, NEW e \in Entry, Live(e), Sound(e), ~e.armed,
         NEW t \in TaskIds, \A f \in e.running : f.task # t, NEW at \in Nat, NEW o \in Int
  PROVE  LET fired == MarkFired(e, t, at, o)
             refused == IF Live(fired) THEN Complete(fired, t, Fault, now, o) ELSE fired IN
         /\ Started(e, fired, e.running \cup {[task |-> t, deadline |-> e.deadline]})
         /\ Started(e, refused, e.running)
<1> DEFINE m == MarkFired(e, t, at, o)
           q == Complete(m, t, Fault, now, o)
           new == [task |-> t, deadline |-> e.deadline]
<1>1. /\ m \in Entry
      /\ Live(m) => /\ m.opt = e.opt /\ Sound(m)
                    /\ m.running = e.running \cup {new}
                    /\ Cadenced(e) => m.deadline > e.deadline
                    /\ \/ m.armed /\ m.current /\ m.gen > e.gen
                       \/ e.opt.kind = "at" /\ ~m.armed /\ ~m.current /\ m.gen = e.gen
  BY MarkFiredFacts
<1>2. e.gen \in Nat /\ e.deadline \in Int /\ new.task = t  BY EntryFields
<1> HIDE DEF m, new
<1>3. Started(e, m, e.running \cup {new})
  <2>1. Live(m) => m.gen >= e.gen /\ (m.current => m.gen > e.gen)
    <3>1. m.gen \in Nat  BY <1>1, EntryFields
    <3> QED BY <1>1, <1>2, <3>1
  <2> QED BY <1>1, <2>1 DEF Started
<1>4. ASSUME Live(m) PROVE Started(e, q, e.running)
  <2>1. Sound(m) /\ \E f \in m.running : f.task = t  BY <1>1, <1>2, <1>4
  <2>2. Fault \in Outcomes  BY DEF Outcomes
  <2>3. /\ q \in Entry /\ Follows(m, q)
        /\ Live(q) => /\ q.running = {f \in m.running : f.task # t}
                      /\ q.armed \/ (SameArm(m, q) /\ m.opt.kind = "every" /\ ~m.queued)
    BY <1>1, <2>1, <2>2, CompleteFacts
  <2> HIDE DEF q
  <2>4. ASSUME Live(q)
        PROVE  /\ q.opt = e.opt /\ Sound(q) /\ q.running \subseteq e.running
               /\ (Cadenced(e) => q.deadline > e.deadline)
               /\ q.gen >= e.gen /\ (q.current => q.gen > e.gen)
               /\ q.armed
    <3>1. /\ q.opt = m.opt /\ Sound(q) /\ (Cadenced(m) => q.deadline >= m.deadline)
          /\ ArmFollows(m, q)
      BY <2>3, <2>4 DEF Follows
    <3>2. m.gen \in Nat /\ q.gen \in Nat /\ m.deadline \in Int /\ q.deadline \in Int
      BY <1>1, <2>3, EntryFields
    <3>3. q.running \subseteq e.running  BY <1>1, <1>2, <1>4, <2>3, <2>4
    <3>4. Cadenced(e) => q.deadline > e.deadline
      BY <1>1, <1>2, <1>4, <3>1, <3>2 DEF Cadenced
    <3>5. q.gen >= e.gen /\ (q.current => q.gen > e.gen)
      BY <1>1, <1>2, <1>4, <3>1, <3>2 DEF ArmFollows
    <3>6. q.armed
      <4>1. CASE SameArm(m, q) /\ m.opt.kind = "every" /\ ~m.queued
        BY <1>1, <1>4, <4>1 DEF SameArm
      <4> QED BY <2>3, <2>4, <4>1
    <3> QED BY <1>1, <1>4, <3>1, <3>3, <3>4, <3>5, <3>6
  <2> QED BY <2>3, <2>4 DEF Started
<1>5. ~Live(m) => Started(e, m, e.running)  BY <1>1 DEF Started
<1> DEFINE r == IF Live(m) THEN q ELSE m
<1>6. Started(e, r, e.running)
  <2> HIDE DEF q
  <2> QED BY <1>4, <1>5
<1> QED BY <1>3, <1>6 DEF m, q, new

\* fire_collected_schedules, an expiry that is still current and is submitted
LEMMA SubmitStep ==
  ASSUME ScheduleInv, scenario' = scenario, NEW x, NEW g, NEW o \in Int,
         <<x, g>> \in collected, collected' = collected \ {<<x, g>>}, state # "Down",
         IsCurrent(entries[x], g), Submit(x, o),
         UNCHANGED <<now, state, nextId, buffered, handed, collectedAt, diskNext, diskTasks>>
  PROVE  /\ ScheduleInv'
         /\ Live(entries[x]) /\ entries[x].nextRun <= now /\ x \in Ids
         /\ \A t \in TaskIds : t # nextTask => task'[t] = task[t]
<1> DEFINE e == entries[x]
           t == nextTask
           new == [task |-> t, deadline |-> e.deadline]
           fired == MarkFired(e, t, collectedAt, o)
           refused == IF Live(fired) THEN Complete(fired, t, Fault, now, o) ELSE fired
           r == entries'[x]
<1>1. /\ TypeOK /\ scenario \in Scenarios /\ now \in Nat /\ collectedAt \in Nat
      /\ entries \in [Ids -> Entry \cup {NoEntry}] /\ disk \in [Ids -> Entry \cup {NoEntry}]
      /\ collected \subseteq Ids \X Nat /\ nextTask \in 1..MaxTasks + 1
      /\ served \subseteq Ids \X Int
      /\ task \in [TaskIds -> {"none", "active", "suspended", "ended", "killed"}]
  BY DEF ScheduleInv, TypeOK
<1>2. x \in Ids /\ g \in Nat  BY <1>1
<1>3. Live(e) /\ e.current /\ e.gen = g /\ e \in Entry /\ Sound(e) /\ e # NoEntry
  <2>1. Live(e) /\ e.current /\ e.gen = g  BY DEF IsCurrent
  <2> QED BY <1>1, <1>2, <2>1, EntriesAreSound, EntryFields DEF EntriesSound
<1>4. ~e.armed /\ e.nextRun <= now /\ Collects(e)
  <2>1. \A c \in collected : Live(entries[c[1]]) =>
          (c[2] = entries[c[1]].gen /\ entries[c[1]].current =>
             ~entries[c[1]].armed /\ entries[c[1]].nextRun <= now /\ Collects(entries[c[1]]))
    BY DEF ScheduleInv, CollectedDue
  <2> QED BY <1>3, <2>1
<1>5. EntryOK(x, e, nextTask, served)  BY <1>2, <1>3 DEF ScheduleInv, EntriesOK
<1>6. /\ t \in TaskIds /\ nextTask' = t + 1 /\ t \in Nat /\ t + 1 \in 1..MaxTasks + 1
      /\ t \notin {f.task : f \in e.running} /\ e.deadline \in Int /\ e.gen \in Nat
      /\ e.running \subseteq [task : TaskIds, deadline : Int] /\ e.opt = e.opt
  <2>1. nextTask <= MaxTasks /\ nextTask' = nextTask + 1  BY DEF Submit
  <2>2. MaxTasks \in Nat  BY <1>1, ScenarioTypes
  <2>3. \A f \in e.running : f.task < nextTask  BY <1>5 DEF EntryOK, FiringsKnown
  <2>4. e.deadline \in Int /\ e.gen \in Nat /\ e.running \subseteq [task : TaskIds, deadline : Int]
    BY <1>1, <1>3, EntryFields
  <2>5. nextTask \in TaskIds  BY <1>1, <2>1, <2>2 DEF TaskIds
  <2>6. nextTask \notin {f.task : f \in e.running}
    <3>1. \A f \in e.running : f.task \in Int  BY <2>2, <2>4 DEF TaskIds
    <3> QED BY <1>1, <2>3, <3>1
  <2>7. nextTask \in Nat /\ nextTask + 1 \in 1..MaxTasks + 1  BY <1>1, <2>1, <2>2
  <2> QED BY <2>1, <2>4, <2>5, <2>6, <2>7
<1>7. Started(e, fired, e.running \cup {new}) /\ Started(e, refused, e.running)
  BY <1>1, <1>3, <1>4, <1>6, SubmitFacts
<1>8. \/ /\ entries' = [entries EXCEPT ![x] = fired]
         /\ \E where \in {"active", "suspended"} : task' = [task EXCEPT ![t] = where]
         /\ served' = served \cup {<<x, e.deadline>>}
      \/ /\ entries' = [entries EXCEPT ![x] = refused]
         /\ UNCHANGED <<task, served>>
  BY DEF Submit
<1>9. Persist({x}, entries') /\ results' = results  BY DEF Submit
<1> HIDE DEF fired, refused
<1>10. /\ entries' \in [Ids -> Entry \cup {NoEntry}]
       /\ \A id \in Ids : id # x => entries'[id] = entries[id]
       /\ Started(e, r, e.running \cup {new}) /\ r \in Entry
       /\ task' \in [TaskIds -> {"none", "active", "suspended", "ended", "killed"}]
       /\ served' \subseteq served \cup {<<x, e.deadline>>}
       /\ \A u \in TaskIds : u # t => task'[u] = task[u]
       /\ task[t] # "none" => task'[t] # "none"
       /\ Started(e, r, e.running) \/ task'[t] \in {"active", "suspended"}
  <2>1. CASE /\ entries' = [entries EXCEPT ![x] = fired]
             /\ \E where \in {"active", "suspended"} : task' = [task EXCEPT ![t] = where]
             /\ served' = served \cup {<<x, e.deadline>>}
    <3>1. r = fired /\ fired \in Entry  BY <1>1, <1>2, <1>7, <2>1 DEF Started
    <3>2. PICK where \in {"active", "suspended"} : task' = [task EXCEPT ![t] = where]  BY <2>1
    <3>3. /\ task' \in [TaskIds -> {"none", "active", "suspended", "ended", "killed"}]
          /\ \A u \in TaskIds : u # t => task'[u] = task[u]
          /\ task'[t] \in {"active", "suspended"}
      BY <1>1, <1>6, <3>2
    <3>4. /\ entries' \in [Ids -> Entry \cup {NoEntry}]
          /\ \A id \in Ids : id # x => entries'[id] = entries[id]
      BY <1>1, <1>2, <2>1, <3>1
    <3> QED BY <1>7, <2>1, <3>1, <3>3, <3>4
  <2>2. CASE entries' = [entries EXCEPT ![x] = refused] /\ UNCHANGED <<task, served>>
    <3>1. r = refused /\ refused \in Entry  BY <1>1, <1>2, <1>7, <2>2 DEF Started
    <3>2. Started(e, r, e.running \cup {new})
      <4>1. e.running \subseteq e.running \cup {new}  OBVIOUS
      <4> QED BY <1>7, <3>1, <4>1 DEF Started
    <3>3. /\ entries' \in [Ids -> Entry \cup {NoEntry}]
          /\ \A id \in Ids : id # x => entries'[id] = entries[id]
      BY <1>1, <1>2, <2>2, <3>1
    <3> QED BY <1>1, <1>7, <2>2, <3>1, <3>2, <3>3
  <2> QED BY <1>8, <2>1, <2>2
<1>11. ASSUME NEW id \in Ids, NEW f, id # x, EntryOK(id, f, nextTask, served),
              f.running \subseteq [task : TaskIds, deadline : Int]
       PROVE  EntryOK(id, f, nextTask', served')
  <2>1. \A a \in f.running : a.task < t + 1
    <3>1. \A a \in f.running : a.task \in Int
      <4>1. MaxTasks \in Nat  BY <1>1, ScenarioTypes
      <4> QED BY <1>11, <4>1 DEF TaskIds
    <3> QED BY <1>6, <1>11, <3>1 DEF EntryOK, FiringsKnown
  <2>2. \A d \in Int : <<id, d>> \in served' => <<id, d>> \in served  BY <1>10, <1>11
  <2> QED BY <1>6, <1>11, <2>1, <2>2 DEF EntryOK, FiringsKnown, PointsAhead
<1>12. ASSUME Live(r) PROVE EntryOK(x, r, nextTask', served') /\ (r.armed => r.current)
  <2>1. /\ r.opt = e.opt /\ Sound(r) /\ r.running \subseteq e.running \cup {new}
        /\ (Cadenced(e) => r.deadline > e.deadline)
    BY <1>10, <1>12 DEF Started
  <2>2. r.deadline \in Int  BY <1>1, <1>10, EntryFields
  <2>3. \A f \in r.running : f.task < t + 1
    <3>1. \A f \in e.running : f.task \in Int /\ f.task < t
      <4>1. MaxTasks \in Nat  BY <1>1, ScenarioTypes
      <4> QED BY <1>5, <1>6, <4>1 DEF EntryOK, FiringsKnown, TaskIds
    <3> QED BY <1>6, <2>1, <3>1
  <2>4. PointsAhead(x, r, served')
    <3>1. ASSUME Cadenced(r), NEW d \in Int, <<x, d>> \in served' PROVE d < r.deadline
      <4>1. Cadenced(e)  BY <2>1, <3>1 DEF Cadenced
      <4>2. r.deadline > e.deadline  BY <2>1, <4>1
      <4>3. CASE <<x, d>> \in served
        <5>1. d < e.deadline  BY <1>5, <4>1, <4>3 DEF EntryOK, PointsAhead
        <5> QED BY <1>6, <2>2, <4>2, <5>1
      <4>4. CASE <<x, d>> = <<x, e.deadline>>
        <5>1. d = e.deadline  BY <4>4
        <5> QED BY <1>6, <2>2, <4>2, <5>1
      <4> QED BY <1>10, <3>1, <4>3, <4>4
    <3> QED BY <3>1 DEF PointsAhead
  <2>5. AtMostOne(r)
    <3>1. r.opt.overlap # "concurrent" => e.running = {}  BY <1>4, <2>1 DEF Collects
    <3> QED BY <2>1, <3>1 DEF AtMostOne
  <2> HIDE DEF r
  <2> QED BY <1>6, <2>1, <2>3, <2>4, <2>5 DEF EntryOK, FiringsKnown, Sound
<1>13. \A id \in Ids : entries[id] # NoEntry => entries[id] \in Entry  BY <1>1
<1>14. ASSUME NEW f \in Entry PROVE f.running \subseteq [task : TaskIds, deadline : Int]
  BY <1>1, EntryFields
<1>15. ASSUME NEW id \in Ids, Live(entries'[id])
       PROVE  /\ EntryOK(id, entries'[id], nextTask', served')
              /\ entries'[id].armed => entries'[id].current
  <2>1. CASE id = x  BY <1>12, <1>15, <2>1
  <2>2. CASE id # x
    <3>1. entries'[id] = entries[id]  BY <1>10, <2>2
    <3>2. entries[id] \in Entry  BY <1>1, <1>15, <3>1, LiveIsEntry
    <3>3. EntryOK(id, entries[id], nextTask, served)  BY <1>15, <3>1 DEF ScheduleInv, EntriesOK
    <3>4. entries[id].armed => entries[id].current  BY <1>1, <1>15, <3>1 DEF TypeOK
    <3> QED BY <1>11, <1>14, <2>2, <3>1, <3>2, <3>3, <3>4
  <2> QED BY <2>1, <2>2
<1>16. EntriesOK'  BY <1>15, ScenarioKept DEF EntriesOK
<1>17. /\ disk' \in [Ids -> Entry \cup {NoEntry}]
       /\ \A id \in Ids : id # x => disk'[id] = disk[id]
       /\ disk'[x] # NoEntry => disk'[x] = r /\ Live(r)
  <2> HIDE DEF r, e
  <2> QED BY <1>1, <1>2, <1>9, <1>10 DEF Persist, r
<1>18. ASSUME NEW id \in Ids, disk'[id] # NoEntry
       PROVE  EntryOK(id, disk'[id], nextTask', served') /\ Live(disk'[id])
  <2>1. CASE id = x  BY <1>12, <1>17, <1>18, <2>1
  <2>2. CASE id # x
    <3>1. disk'[id] = disk[id] /\ disk[id] \in Entry  BY <1>1, <1>17, <1>18, <2>2
    <3>2. EntryOK(id, disk[id], nextTask, served) /\ Live(disk[id])
      BY <1>1, <1>18, <3>1 DEF ScheduleInv, DiskOK, TypeOK
    <3> QED BY <1>11, <1>14, <2>2, <3>1, <3>2
  <2> QED BY <2>1, <2>2
<1>19. DiskOK'  BY <1>18, ScenarioKept DEF DiskOK
<1>20. TypeOK'
  <2>1. collected' \subseteq Ids \X Nat  BY <1>1
  <2>2. served' \subseteq Ids \X Int  BY <1>1, <1>2, <1>6, <1>10
  <2> HIDE DEF r, e, t
  <2> QED BY <1>1, <1>6, <1>9, <1>10, <1>15, <1>17, <1>18, <2>1, <2>2, ScenarioKept DEF TypeOK, t
<1>21. IdsKnown'
  <2>1. x \in handed /\ buffered[x] = NoEntry  BY <1>2, <1>3 DEF ScheduleInv, IdsKnown
  <2>2. \A id \in Ids : entries'[id] # NoEntry \/ disk'[id] # NoEntry => id \in handed
    BY <1>10, <1>17, <2>1 DEF ScheduleInv, IdsKnown
  <2>3. \A s \in served' : s \in served \/ s[1] = x  BY <1>10
  <2>4. \A id \in Ids : buffered[id] # NoEntry => id # x  BY <2>1
  <2> HIDE DEF e, r
  <2> QED BY <1>10, <2>1, <2>2, <2>3, <2>4, ScenarioKept DEF ScheduleInv, IdsKnown
<1>22. CollectedDue'
  <2>1. ASSUME NEW c \in collected', Live(entries'[c[1]])
        PROVE  /\ c[2] <= entries'[c[1]].gen
               /\ c[2] = entries'[c[1]].gen /\ entries'[c[1]].current =>
                    ~entries'[c[1]].armed /\ entries'[c[1]].nextRun <= now' /\ Collects(entries'[c[1]])
    <3>1. c \in collected /\ c[1] \in Ids /\ c[2] \in Nat  BY <1>1
    <3>2. CASE c[1] # x
      <4>1. entries'[c[1]] = entries[c[1]]  BY <1>10, <3>1, <3>2
      <4> QED BY <2>1, <3>1, <4>1 DEF ScheduleInv, CollectedDue
    <3>3. CASE c[1] = x
      <4>1. c[2] <= e.gen  BY <1>3, <3>1, <3>3 DEF ScheduleInv, CollectedDue
      <4>2. r.gen >= e.gen /\ (r.current => r.gen > e.gen)  BY <1>10, <2>1, <3>3 DEF Started
      <4>3. r.gen \in Nat  BY <1>1, <1>10, EntryFields
      <4>4. c[2] <= r.gen /\ ~(c[2] = r.gen /\ r.current)
        <5> HIDE DEF e, r
        <5> QED BY <1>6, <3>1, <4>1, <4>2, <4>3
      <4> QED BY <3>3, <4>4
    <3> QED BY <3>2, <3>3
  <2>2. collectedAt' <= now'  BY DEF ScheduleInv, CollectedDue
  <2> QED BY <2>1, <2>2 DEF CollectedDue
<1>23. DownForgets'
  <2>1. \A u \in TaskIds : u \in diskTasks => task[u] # "none"  BY DEF ScheduleInv, DownForgets
  <2>2. \A u \in TaskIds : u \in diskTasks => task'[u] # "none"  BY <1>10, <2>1
  <2> QED BY <2>2, ScenarioKept DEF DownForgets
<1>24. NoDeadFiring'
  <2>1. ASSUME NEW id \in Ids, Live(entries'[id]), NEW f \in entries'[id].running
        PROVE  Answers(f.task, task', results')
    <3>1. ASSUME NEW i \in Ids, Live(entries[i]), f \in entries[i].running
          PROVE  Answers(f.task, task', results')
      <4>1. Answers(f.task, task, results)  BY <3>1 DEF ScheduleInv, NoDeadFiring, Answered, Answers
      <4>2. EntryOK(i, entries[i], nextTask, served)  BY <3>1 DEF ScheduleInv, EntriesOK
      <4>3. entries[i] \in Entry  BY <1>1, <3>1, LiveIsEntry
      <4>4. f.task \in TaskIds  BY <1>14, <3>1, <4>3
      <4>5. f.task # t
        <5>1. f.task < nextTask  BY <3>1, <4>2 DEF EntryOK, FiringsKnown
        <5> QED BY <1>6, <5>1
      <4> QED BY <1>9, <1>10, <4>1, <4>4, <4>5 DEF Answers
    <3>2. CASE id # x
      <4>1. entries'[id] = entries[id]  BY <1>10, <3>2
      <4> QED BY <2>1, <3>1, <4>1
    <3>3. CASE id = x /\ f \in e.running  BY <1>2, <1>3, <3>1, <3>3
    <3>4. CASE id = x /\ f \notin e.running
      <4>1. f = new /\ ~Started(e, r, e.running)  BY <1>10, <2>1, <3>4 DEF Started
      <4>2. task'[t] \in {"active", "suspended"} /\ f.task = t  BY <1>10, <4>1
      <4> QED BY <4>2 DEF Answers
    <3> QED BY <3>2, <3>3, <3>4
  <2> QED BY <2>1, ScenarioKept DEF NoDeadFiring, Answered, Answers
<1>25. Remembered'
  <2>1. ASSUME NEW id \in Ids, Live(entries'[id])
        PROVE  \/ Remembers(id, entries'[id], collected')
               \/ /\ Live(entries[id])
                  /\ Remembers(id, entries[id], collected) /\ "session" \notin Faults
                       => Remembers(id, entries'[id], collected')
    <3>1. CASE id = x
      <4>1. r.armed \/ (r.running # {} /\ r.opt.kind = "at")  BY <1>10, <2>1, <3>1 DEF Started
      <4> QED BY <3>1, <4>1 DEF Remembers
    <3>2. CASE id # x
      <4>1. entries'[id] = entries[id]  BY <1>10, <3>2
      <4>2. <<id, entries[id].gen>> \in collected => <<id, entries[id].gen>> \in collected'  BY <3>2
      <4> QED BY <2>1, <4>1, <4>2 DEF Remembers
    <3> QED BY <3>1, <3>2
  <2> QED BY <2>1, RememberedKept
<1>26. ScheduleInv'
  BY <1>16, <1>19, <1>20, <1>21, <1>22, <1>23, <1>24, <1>25 DEF ScheduleInv
<1> QED BY <1>2, <1>3, <1>4, <1>10, <1>26

\* fire_collected_schedules
LEMMA FireStep ==
  ASSUME ScheduleInv, scenario' = scenario, NEW x, NEW g, NEW o \in Int, <<x, g>> \in collected,
         FireCollected(x, g, o)
  PROVE  /\ ScheduleInv'
         /\ \/ UNCHANGED task
            \/ /\ Live(entries[x]) /\ entries[x].nextRun <= now /\ x \in Ids
               /\ \A t \in TaskIds : t # nextTask => task'[t] = task[t]
<1>1. /\ state # "Down" /\ collected' = collected \ {<<x, g>>}
      /\ UNCHANGED <<now, state, nextId, buffered, handed, collectedAt, diskNext, diskTasks>>
  BY DEF FireCollected
<1>2. /\ scenario \in Scenarios /\ now \in Nat /\ collectedAt \in Nat
      /\ entries \in [Ids -> Entry \cup {NoEntry}]
      /\ state \in {"Running", "Stopping", "Down"}
      /\ collected \subseteq Ids \X Nat
      /\ task \in [TaskIds -> {"none", "active", "suspended", "ended", "killed"}]
      /\ results \in Seq(Result) /\ diskTasks \subseteq TaskIds
  BY DEF ScheduleInv, TypeOK, Result
<1>3. x \in Ids  BY <1>2
<1>4. ASSUME UNCHANGED <<nextTask, task, results, served>>,
             entries' \in [Ids -> Entry \cup {NoEntry}],
             \A id \in Ids : Follows(entries[id], entries'[id]),
             disk' = disk \/ \E S : Persist(S, entries'),
             Remembered'
      PROVE  ScheduleInv'
  <2>1. NoDeadFiring'
    <3>1. \A id \in Ids : Live(entries'[id]) =>
            Live(entries[id]) /\ entries'[id].running \subseteq entries[id].running
      BY <1>4 DEF Follows
    <3> QED BY <1>4, <3>1, FiringsKept
  <2>2. DownForgets'  BY <1>1, <1>4, ScenarioKept DEF ScheduleInv, DownForgets
  <2>3. now' \in Nat /\ now' >= now /\ collected' \subseteq collected  BY <1>1, <1>2
  <2> QED BY <1>1, <1>2, <1>4, <2>1, <2>2, <2>3, FollowingStep
<1>5. CASE (~IsCurrent(entries[x], g) \/ "session" \in Faults) /\ UNCHANGED <<entries, taskVars, disk>>
  <2>1. UNCHANGED <<entries, disk, nextTask, task, results, served>>  BY <1>5 DEF taskVars
  <2>2. \A id \in Ids : Follows(entries[id], entries'[id])
    BY <1>2, <2>1, FollowsItself, EntriesAreSound DEF EntriesSound
  <2>3. Remembered'
    <3>1. ASSUME NEW id \in Ids, Live(entries[id]), Remembers(id, entries[id], collected),
                 "session" \notin Faults
          PROVE  Remembers(id, entries[id], collected')
      <4>1. CASE <<id, entries[id].gen>> = <<x, g>> /\ entries[id].current
        BY <1>5, <3>1, <4>1 DEF IsCurrent
      <4>2. CASE <<id, entries[id].gen>> # <<x, g>>  BY <1>1, <3>1, <4>2 DEF Remembers
      <4>3. CASE ~entries[id].current  BY <3>1, <4>3 DEF Remembers
      <4> QED BY <4>1, <4>2, <4>3
    <3> QED BY <2>1, <3>1, RememberedKept
  <2> QED BY <1>2, <1>4, <2>1, <2>2, <2>3
<1>6. CASE /\ IsCurrent(entries[x], g)
           /\ entries' = [entries EXCEPT ![x] = Retire(@, "invalid_target", collectedAt)]
           /\ Persist({x}, entries') /\ UNCHANGED taskVars
  <2> DEFINE r == Retire(entries[x], "invalid_target", collectedAt)
  <2>1. UNCHANGED <<nextTask, task, results, served>>  BY <1>6 DEF taskVars
  <2>2. entries[x] \in Entry  BY <1>3, <1>6, EntriesAreSound DEF IsCurrent
  <2>3. r \in Entry /\ ~Live(r)  BY <1>2, <2>2, RetireFacts DEF Reasons
  <2>4. entries' = [entries EXCEPT ![x] = r]  BY <1>6
  <2> HIDE DEF r
  <2>5. /\ entries' \in [Ids -> Entry \cup {NoEntry}] /\ entries'[x] = r
        /\ \A id \in Ids : id # x => entries'[id] = entries[id]
    BY <1>2, <1>3, <2>3, <2>4
  <2>6. \A id \in Ids : Follows(entries[id], entries'[id])
    BY <1>2, <2>2, <2>3, <2>5, DeadFollows, FollowsItself, EntriesAreSound DEF EntriesSound
  <2>7. Remembered'
    <3>1. ASSUME NEW id \in Ids, Live(entries'[id]), Remembers(id, entries[id], collected)
          PROVE  Live(entries[id]) /\ Remembers(id, entries'[id], collected')
      <4>1. id # x /\ entries'[id] = entries[id]  BY <2>3, <2>5, <3>1
      <4>2. <<id, entries[id].gen>> \in collected => <<id, entries[id].gen>> \in collected'
        BY <1>1, <4>1
      <4> QED BY <3>1, <4>1, <4>2 DEF Remembers
    <3>2. \A id \in Ids : Live(entries'[id]) => Live(entries[id])  BY <2>3, <2>5
    <3> QED BY <3>1, <3>2, RememberedKept
  <2>8. \E S : Persist(S, entries')  BY <1>6
  <2> QED BY <1>4, <2>1, <2>5, <2>6, <2>7, <2>8
<1>7. CASE IsCurrent(entries[x], g) /\ Submit(x, o)
  BY <1>1, <1>7, SubmitStep
<1> QED BY <1>5, <1>6, <1>7 DEF FireCollected

\* A process that stops or crashes keeps what is on disk
LEMMA ForgetStep ==
  ASSUME ScheduleInv, scenario' = scenario, Forget, diskNext' = diskNext,
         disk' \in [Ids -> Entry \cup {NoEntry}],
         \A id \in Ids : disk'[id] # NoEntry =>
           disk'[id] = disk[id] \/ (disk'[id] = entries[id] /\ Live(entries[id])),
         diskTasks' \subseteq TaskIds,
         task' \in [TaskIds -> {"none", "active", "suspended", "ended", "killed"}],
         \A t \in TaskIds : t \in diskTasks' => task'[t] = "suspended"
  PROVE  ScheduleInv'
<1>1. /\ state' = "Down" /\ entries' = [id \in Ids |-> NoEntry] /\ buffered' = [id \in Ids |-> NoEntry]
      /\ collected' = {} /\ collectedAt' = 0 /\ results' = <<>>
      /\ UNCHANGED <<now, nextId, nextTask, handed, served>>
  BY DEF Forget
<1>2. TypeOK /\ now \in Nat  BY DEF ScheduleInv, TypeOK
<1>3. \A id \in Ids : entries'[id] = NoEntry /\ buffered'[id] = NoEntry /\ ~Live(entries'[id])
  BY <1>1, NoneFollows
<1>4. ASSUME NEW id \in Ids, disk'[id] # NoEntry
      PROVE  /\ Live(disk'[id]) /\ EntryOK(id, disk'[id], nextTask, served)
             /\ disk[id] # NoEntry \/ entries[id] # NoEntry
  BY <1>2, <1>4 DEF ScheduleInv, TypeOK, EntriesOK, DiskOK
<1>5. TypeOK'
  <2>1. entries' \in [Ids -> Entry \cup {NoEntry}] /\ buffered' \in [Ids -> Create \cup {NoEntry}]
    BY <1>1
  <2>2. results' \in Seq([task : TaskIds, outcome : Outcomes])  BY <1>1
  <2> QED BY <1>1, <1>2, <1>3, <1>4, <2>1, <2>2, ScenarioKept DEF TypeOK
<1>6. EntriesOK' /\ DiskOK'  BY <1>1, <1>3, <1>4, ScenarioKept DEF EntriesOK, DiskOK
<1>7. IdsKnown'  BY <1>1, <1>3, <1>4, ScenarioKept DEF ScheduleInv, IdsKnown
<1>8. CollectedDue'  BY <1>1, <1>2 DEF CollectedDue
<1>9. DownForgets'  BY <1>1, <1>3, ScenarioKept DEF DownForgets
<1>10. NoDeadFiring'  BY <1>3, ScenarioKept DEF NoDeadFiring, Answered
<1>11. Remembered'  BY <1>3, ScenarioKept DEF Remembered, NeverForgotten
<1> QED BY <1>5, <1>6, <1>7, <1>8, <1>9, <1>10, <1>11 DEF ScheduleInv

\* The end of a shutdown and a crash keep the invariant, and start nothing
LEMMA StopSteps ==
  ASSUME ScheduleInv, scenario' = scenario, Shutdown \/ Crash
  PROVE  /\ ScheduleInv'
         /\ \A t \in TaskIds : task[t] = "none" => task'[t] = "none"
<1>1. /\ disk \in [Ids -> Entry \cup {NoEntry}] /\ entries \in [Ids -> Entry \cup {NoEntry}]
      /\ task \in [TaskIds -> {"none", "active", "suspended", "ended", "killed"}]
      /\ diskTasks \subseteq TaskIds
      /\ \A t \in TaskIds : t \in diskTasks => task[t] # "none"
  BY DEF ScheduleInv, TypeOK, DownForgets
<1>2. CASE Shutdown
  <2>1. /\ Forget /\ diskTasks' = {t \in TaskIds : task[t] = "suspended"} /\ UNCHANGED <<task, diskNext>>
        /\ disk' = [id \in Ids |-> IF Live(entries[id]) /\ entries[id].opt.persist
                                     THEN entries[id] ELSE disk[id]]
    BY <1>2 DEF Shutdown
  <2>2. disk' \in [Ids -> Entry \cup {NoEntry}]  BY <1>1, <2>1
  <2>3. \A id \in Ids : disk'[id] # NoEntry =>
          disk'[id] = disk[id] \/ (disk'[id] = entries[id] /\ Live(entries[id]))
    BY <2>1
  <2>4. /\ diskTasks' \subseteq TaskIds /\ diskNext' = diskNext
        /\ task' \in [TaskIds -> {"none", "active", "suspended", "ended", "killed"}]
        /\ \A t \in TaskIds : t \in diskTasks' => task'[t] = "suspended"
        /\ \A t \in TaskIds : task[t] = "none" => task'[t] = "none"
    BY <1>1, <2>1
  <2> QED BY <2>1, <2>2, <2>3, <2>4, ForgetStep
<1>3. CASE Crash
  <2>1. /\ Forget /\ UNCHANGED <<disk, diskNext, diskTasks>>
        /\ task' = [t \in TaskIds |-> IF t \in diskTasks THEN "suspended" ELSE
                                      IF task[t] = "none" THEN "none" ELSE "ended"]
    BY <1>3 DEF Crash, diskVars
  <2>2. /\ task' \in [TaskIds -> {"none", "active", "suspended", "ended", "killed"}]
        /\ \A t \in TaskIds : t \in diskTasks' => task'[t] = "suspended"
        /\ \A t \in TaskIds : task[t] = "none" => task'[t] = "none"
    BY <1>1, <2>1
  <2>3. disk' \in [Ids -> Entry \cup {NoEntry}] /\ diskTasks' \subseteq TaskIds /\ diskNext' = diskNext
          /\ \A id \in Ids : disk'[id] # NoEntry =>
               disk'[id] = disk[id] \/ (disk'[id] = entries[id] /\ Live(entries[id]))
    BY <1>1, <2>1
  <2> QED BY <2>1, <2>2, <2>3, ForgetStep
<1> QED BY <1>2, <1>3

\* The counter of a restart is beyond the high-water mark and beyond every restored schedule
LEMMA RestoredCounter ==
  ASSUME TypeOK
  PROVE  RestoredNext \in 1..MaxId + 1 /\ RestoredNext >= diskNext
<1> DEFINE last == {id + 1 : id \in {i \in Ids : disk[i] # NoEntry}}
           T == {diskNext} \cup last
<1>1. MaxId \in Nat /\ diskNext \in 1..MaxId + 1  BY ScenarioTypes DEF TypeOK
<1>2. \A n \in T : n \in Int /\ n <= MaxId + 1 /\ 1 <= n  BY <1>1 DEF Ids
<1>3. T \in SUBSET Int /\ T # {} /\ MaxId + 1 \in Int /\ \A n \in T : n <= MaxId + 1
  <2>1. diskNext \in T  OBVIOUS
  <2> HIDE DEF T
  <2> QED BY <1>1, <1>2, <2>1
<1>4. \E n \in T : \A m \in T : m <= n
  <2> HIDE DEF T
  <2> QED BY <1>3, LargestNumber
<1>5. RestoredNext = CHOOSE n \in T : \A m \in T : m <= n  BY DEF RestoredNext
<1>6. RestoredNext \in T /\ \A m \in T : m <= RestoredNext
  <2> HIDE DEF T
  <2> QED BY <1>4, <1>5
<1>7. diskNext \in T  OBVIOUS
<1> HIDE DEF T
<1> QED BY <1>1, <1>2, <1>6, <1>7

\* load_tasks, load_schedules
LEMMA RestartStep ==
  ASSUME ScheduleInv, scenario' = scenario, NEW o \in Int, Restart(o)
  PROVE  ScheduleInv'
<1>1. /\ state = "Down" /\ state' = "Running" /\ nextId' = RestoredNext
      /\ entries' = [id \in Ids |-> IF disk[id] = NoEntry THEN NoEntry
                                    ELSE Load(disk[id], diskTasks, now, o)]
      /\ Persist({id \in Ids : disk[id] # NoEntry /\ ~Live(entries'[id])}, entries')
      /\ UNCHANGED <<now, buffered, handed, collected, collectedAt, nextTask, task, results, served,
                     diskNext, diskTasks>>
  BY DEF Restart, timerVars, taskVars
<1>2. /\ TypeOK /\ scenario \in Scenarios /\ now \in Nat /\ disk \in [Ids -> Entry \cup {NoEntry}]
      /\ nextId \in 1..MaxId + 1 /\ diskNext \in 1..MaxId + 1
  BY DEF ScheduleInv, TypeOK
<1>3. /\ collected = {} /\ \A id \in Ids : buffered[id] = NoEntry
      /\ \A t \in diskTasks : task[t] = "suspended"
  BY <1>1 DEF ScheduleInv, DownForgets
<1>4. ASSUME NEW id \in Ids, disk[id] # NoEntry
      PROVE  LET r == entries'[id] IN
             /\ r \in Entry
             /\ Live(r) => /\ EntryOK(id, r, nextTask, served) /\ (r.armed => r.current)
                           /\ r.armed \/ (r.running # {} /\ (r.opt.kind = "at" \/ r.queued))
                           /\ \A f \in r.running : f.task \in diskTasks
  <2> DEFINE e == disk[id]
             r == entries'[id]
  <2>1. e \in Entry /\ Live(e) /\ EntryOK(id, e, nextTask, served)
    BY <1>2, <1>4 DEF ScheduleInv, DiskOK, TypeOK
  <2>2. r = Load(e, diskTasks, now, o)  BY <1>1, <1>4
  <2>3. DistinctFirings(e) /\ Accounted(e)  BY <2>1 DEF EntryOK, FiringsKnown
  <2>4. /\ r \in Entry
        /\ Live(r) => /\ r.opt = e.opt /\ Sound(r)
                      /\ r.running \subseteq e.running /\ \A f \in r.running : f.task \in diskTasks
                      /\ Cadenced(e) => r.deadline >= e.deadline
                      /\ r.armed \/ (r.running # {} /\ (r.opt.kind = "at" \/ r.queued))
    <3> HIDE DEF e, r
    <3> DEFINE q == Load(e, diskTasks, now, o)
    <3>1. /\ q \in Entry
          /\ Live(q) => /\ q.opt = e.opt /\ Sound(q)
                        /\ q.running \subseteq e.running /\ \A f \in q.running : f.task \in diskTasks
                        /\ Cadenced(e) => q.deadline >= e.deadline
                        /\ q.armed \/ (q.running # {} /\ (q.opt.kind = "at" \/ q.queued))
      BY <1>2, <2>1, <2>3, LoadFacts
    <3> HIDE DEF q
    <3> QED BY <2>2, <3>1 DEF q
  <2> HIDE DEF e, r
  <2>5. e.deadline \in Int /\ r.deadline \in Int  BY <1>2, <2>1, <2>4, EntryFields
  <2>6. Live(r) => EntryOK(id, r, nextTask, served)
    <3>1. ASSUME Live(r) PROVE PointsAhead(id, r, served)
      BY <2>1, <2>4, <2>5, <3>1 DEF EntryOK, PointsAhead, Cadenced
    <3>2. ASSUME Live(r) PROVE FiringsKnown(r, nextTask) /\ AtMostOne(r) /\ Accounted(r)
      BY <2>1, <2>4, <3>2 DEF EntryOK, FiringsKnown, AtMostOne, Sound
    <3> QED BY <3>1, <3>2 DEF EntryOK
  <2>7. /\ r \in Entry
        /\ Live(r) => /\ EntryOK(id, r, nextTask, served) /\ (r.armed => r.current)
                      /\ r.armed \/ (r.running # {} /\ (r.opt.kind = "at" \/ r.queued))
                      /\ \A f \in r.running : f.task \in diskTasks
    BY <2>4, <2>6 DEF Sound
  <2> QED BY <2>7 DEF r
<1>5. \A id \in Ids : disk[id] = NoEntry => entries'[id] = NoEntry /\ ~Live(entries'[id])
  BY <1>1, NoneFollows
<1>6. entries' \in [Ids -> Entry \cup {NoEntry}]
  <2>1. \A id \in Ids : entries'[id] \in Entry \cup {NoEntry}  BY <1>4, <1>5
  <2>2. entries' = [id \in Ids |-> entries'[id]]  BY <1>1
  <2> QED BY <2>1, <2>2
<1>7. ASSUME NEW id \in Ids, Live(entries'[id])
      PROVE  LET r == entries'[id] IN
             /\ EntryOK(id, r, nextTask, served) /\ (r.armed => r.current)
             /\ r.armed \/ (r.running # {} /\ (r.opt.kind = "at" \/ r.queued))
             /\ \A f \in r.running : f.task \in diskTasks
  BY <1>4, <1>5, <1>7
<1>8. EntriesOK'  BY <1>1, <1>7, ScenarioKept DEF EntriesOK
<1>9. /\ DiskOK' /\ disk' \in [Ids -> Entry \cup {NoEntry}]
      /\ \A id \in Ids : disk'[id] # NoEntry =>
           Live(disk'[id]) /\ (disk[id] # NoEntry \/ entries'[id] # NoEntry)
  BY <1>1, <1>6, <1>8, DiskFollows
<1>10. nextId' \in 1..MaxId + 1 /\ nextId' >= diskNext  BY <1>1, <1>2, RestoredCounter
<1>11. TypeOK'
  BY <1>1, <1>2, <1>6, <1>7, <1>9, <1>10, ScenarioKept DEF TypeOK
<1>12. IdsKnown'
  <2>1. \A id \in handed : id < nextId' /\ id < diskNext
    <3>1. \A id \in handed : id < diskNext /\ id \in Int  BY <1>2 DEF ScheduleInv, IdsKnown, TypeOK, Ids
    <3>2. MaxId \in Nat  BY <1>2, ScenarioTypes
    <3> QED BY <1>2, <1>10, <3>1, <3>2
  <2>2. \A id \in Ids : entries'[id] # NoEntry \/ disk'[id] # NoEntry => disk[id] # NoEntry
    BY <1>5, <1>9
  <2> QED BY <1>1, <1>3, <2>1, <2>2, ScenarioKept DEF ScheduleInv, IdsKnown
<1>13. CollectedDue'  BY <1>1, <1>3 DEF ScheduleInv, CollectedDue
<1>14. DownForgets'  BY <1>1, ScenarioKept DEF ScheduleInv, DownForgets
<1>15. NoDeadFiring'
  <2>1. ASSUME NEW id \in Ids, Live(entries'[id]), NEW f \in entries'[id].running
        PROVE  task'[f.task] = "suspended"
    <3>1. f.task \in diskTasks  BY <1>7, <2>1
    <3> QED BY <1>1, <1>3, <3>1
  <2> QED BY <2>1, ScenarioKept DEF NoDeadFiring, Answered
<1>16. Remembered'
  <2>1. ASSUME NEW id \in Ids, Live(entries'[id]) PROVE Remembers(id, entries'[id], collected')
    BY <1>7, <2>1 DEF Remembers
  <2> QED BY <2>1, RememberedKept
<1> QED BY <1>8, <1>9, <1>11, <1>12, <1>13, <1>14, <1>15, <1>16 DEF ScheduleInv

\* A server without schedules satisfies the invariant
LEMMA InitInv ==
  Init => ScheduleInv
<1> SUFFICES ASSUME Init PROVE ScheduleInv  OBVIOUS
<1>0. /\ scenario \in Scenarios /\ now = 0 /\ state = "Running"
      /\ entries = [id \in Ids |-> NoEntry] /\ nextId = 1 /\ buffered = [id \in Ids |-> NoEntry]
      /\ collected = {} /\ collectedAt = 0
      /\ nextTask = 1 /\ task = [t \in TaskIds |-> "none"] /\ results = <<>>
      /\ disk = [id \in Ids |-> NoEntry] /\ diskNext = 1 /\ diskTasks = {}
      /\ handed = {} /\ served = {}
  BY DEF Init
<1>1. MaxId \in Nat /\ MaxTasks \in Nat  BY <1>0, ScenarioTypes
<1>2. \A id \in Ids : /\ entries[id] = NoEntry /\ disk[id] = NoEntry /\ buffered[id] = NoEntry
                      /\ ~Live(entries[id])
  BY <1>0, NoneFollows
<1>3. TypeOK
  <2>1. /\ entries \in [Ids -> Entry \cup {NoEntry}] /\ disk \in [Ids -> Entry \cup {NoEntry}]
        /\ buffered \in [Ids -> Create \cup {NoEntry}]
        /\ task \in [TaskIds -> {"none", "active", "suspended", "ended", "killed"}]
    BY <1>0
  <2>2. nextId \in 1..MaxId + 1 /\ diskNext \in 1..MaxId + 1 /\ nextTask \in 1..MaxTasks + 1
    BY <1>0, <1>1
  <2>3. now \in Nat /\ collectedAt \in Nat /\ results \in Seq([task : TaskIds, outcome : Outcomes])
    BY <1>0
  <2> QED BY <1>0, <1>2, <2>1, <2>2, <2>3 DEF TypeOK
<1>4. EntriesOK /\ DiskOK  BY <1>2 DEF EntriesOK, DiskOK
<1>5. IdsKnown  BY <1>0, <1>2 DEF IdsKnown
<1>6. CollectedDue /\ DownForgets  BY <1>0 DEF CollectedDue, DownForgets
<1>7. NoDeadFiring /\ Remembered  BY <1>2 DEF NoDeadFiring, Answered, Remembered, NeverForgotten
<1> QED BY <1>3, <1>4, <1>5, <1>6, <1>7 DEF ScheduleInv

\* What an action does to a collected expiry and to the tasks
LEMMA ActionSteps ==
  ASSUME ScheduleInv, Next
  PROVE  /\ ScheduleInv'
         /\ \A t \in TaskIds : task[t] = "none" /\ task'[t] # "none" =>
              \E id \in Ids : Live(entries[id]) /\ entries[id].nextRun <= now
                                /\ id \in {c[1] : c \in collected \ collected'}
<1> DEFINE InTime == \A t \in TaskIds : task[t] = "none" /\ task'[t] # "none" =>
                       \E id \in Ids : Live(entries[id]) /\ entries[id].nextRun <= now
                                         /\ id \in {c[1] : c \in collected \ collected'}
<1> SUFFICES ScheduleInv' /\ InTime  OBVIOUS
<1>0. scenario' = scenario /\ Step  BY DEF Next
<1>1. /\ Offsets \subseteq Int /\ collected \subseteq Ids \X Nat
      /\ task \in [TaskIds -> {"none", "active", "suspended", "ended", "killed"}]
  <2>1. scenario \in Scenarios  BY DEF ScheduleInv, TypeOK
  <2> QED BY <2>1, ScenarioTypes DEF ScheduleInv, TypeOK
<1>2. ASSUME NEW p \in Options, Reserve(p) PROVE ScheduleInv' /\ InTime
  <2>1. UNCHANGED task  BY <1>2 DEF Reserve, taskVars
  <2> QED BY <1>0, <1>2, <2>1, ReserveStep
<1>3. ASSUME NEW id \in Ids, Discard(id) \/ StopSchedule(id) PROVE ScheduleInv' /\ InTime
  <2>1. UNCHANGED task  BY <1>3 DEF Discard, StopSchedule, taskVars
  <2>2. CASE Discard(id)  BY <1>0, <2>1, <2>2, DiscardStep
  <2>3. CASE StopSchedule(id)  BY <1>0, <2>1, <2>3, StopStep
  <2> QED BY <1>3, <2>2, <2>3
<1>4. ASSUME NEW id \in Ids, NEW o \in Offsets, Publish(id, o) PROVE ScheduleInv' /\ InTime
  <2>1. UNCHANGED task  BY <1>4 DEF Publish, taskVars
  <2> QED BY <1>0, <1>1, <1>4, <2>1, PublishStep
<1>5. ASSUME NEW o \in Offsets, Collect(o) \/ SettleFirings(o) \/ Restart(o) PROVE ScheduleInv' /\ InTime
  <2>1. UNCHANGED task  BY <1>5 DEF Collect, SettleFirings, Restart, taskVars
  <2>2. CASE Collect(o)  BY <1>0, <1>1, <2>1, <2>2, CollectStep
  <2>3. CASE SettleFirings(o)  BY <1>0, <1>1, <2>1, <2>3, SettleFiringsStep
  <2>4. CASE Restart(o)  BY <1>0, <1>1, <2>1, <2>4, RestartStep
  <2> QED BY <1>5, <2>2, <2>3, <2>4
<1>6. ASSUME NEW c \in collected, NEW o \in Offsets, FireCollected(c[1], c[2], o)
      PROVE  ScheduleInv' /\ InTime
  <2>1. c = <<c[1], c[2]>> /\ c[1] \in Ids  BY <1>1
  <2>2. <<c[1], c[2]>> \in collected /\ o \in Int  BY <1>1, <2>1
  <2>3. /\ ScheduleInv'
        /\ \/ UNCHANGED task
           \/ Live(entries[c[1]]) /\ entries[c[1]].nextRun <= now
    BY <1>0, <1>6, <2>2, FireStep
  <2>4. collected' = collected \ {<<c[1], c[2]>>}  BY <1>6 DEF FireCollected
  <2>5. c[1] \in {d[1] : d \in collected \ collected'}  BY <2>1, <2>4
  <2> QED BY <2>1, <2>3, <2>5
<1>7. ASSUME NEW t \in TaskIds, NEW r \in Outcomes, NEW o \in Offsets, FiringEnds(t, r, o)
      PROVE  ScheduleInv' /\ InTime
  <2>1. \A u \in TaskIds : task[u] = "none" => task'[u] = "none"  BY <1>1, <1>7 DEF FiringEnds
  <2> QED BY <1>0, <1>1, <1>7, <2>1, EndsStep
<1>8. ASSUME NEW t \in TaskIds,
             \/ FiringAborted(t) \/ FiringKilled(t) \/ FiringSuspends(t) \/ FiringWakes(t)
             \/ TaskStored(t)
      PROVE  ScheduleInv' /\ InTime
  <2>1. \A u \in TaskIds : task[u] = "none" => task'[u] = "none"
    BY <1>1, <1>8 DEF FiringAborted, FiringKilled, FiringSuspends, FiringWakes, TaskStored, taskVars
  <2> QED BY <1>0, <1>8, <2>1, TaskSteps
<1>9. CASE Tick \/ BeginStop
  <2>1. UNCHANGED task  BY <1>9 DEF Tick, BeginStop, taskVars
  <2> QED BY <1>0, <1>9, <2>1, ClockSteps
<1>10. CASE Shutdown \/ Crash  BY <1>0, <1>10, StopSteps
<1> HIDE DEF InTime
<1> QED BY <1>0, <1>2, <1>3, <1>4, <1>5, <1>6, <1>7, <1>8, <1>9, <1>10 DEF Step

\* Every step keeps the invariant
LEMMA NextInv ==
  ScheduleInv /\ [Next]_vars => ScheduleInv'
<1> SUFFICES ASSUME ScheduleInv, [Next]_vars PROVE ScheduleInv'  OBVIOUS
<1>1. CASE Next  BY <1>1, ActionSteps
<1>2. CASE UNCHANGED vars
  <2>1. /\ UNCHANGED <<scenario, now, state, entries, nextId, buffered, handed, collected, collectedAt>>
        /\ UNCHANGED <<nextTask, task, results, served, disk, diskNext, diskTasks>>
    BY <1>2 DEF vars, scheduleVars, queueVars, timerVars, taskVars, diskVars
  <2>2. TypeOK'  BY <2>1, ScenarioKept DEF ScheduleInv, TypeOK
  <2>3. EntriesOK' /\ DiskOK'  BY <2>1, ScenarioKept DEF ScheduleInv, EntriesOK, DiskOK
  <2>4. IdsKnown'  BY <2>1, ScenarioKept DEF ScheduleInv, IdsKnown
  <2>5. CollectedDue' /\ DownForgets'
    BY <2>1, ScenarioKept DEF ScheduleInv, CollectedDue, DownForgets
  <2>6. NoDeadFiring'  BY <2>1, FiringsKept
  <2>7. Remembered'  BY <2>1, RememberedKept
  <2> QED BY <2>2, <2>3, <2>4, <2>5, <2>6, <2>7 DEF ScheduleInv
<1> QED BY <1>1, <1>2

-----------------------------------------------------------------------------
\* Theorems

\* The invariant that the theorems below rest on
THEOREM ScheduleInvariant == Spec => []ScheduleInv
BY InitInv, NextInv, PTL DEF Spec

\* Every variable keeps its type
THEOREM TypeCorrect == Spec => []TypeOK
<1>1. ScheduleInv => TypeOK  BY DEF ScheduleInv
<1> QED BY <1>1, ScheduleInvariant, PTL

\* A live schedule is in the timer wheel, held by the timer thread, or waits for a firing
\* whose end arms it, as long as sessions can be made for firings: the code drops a
\* collected expiry when one cannot (README, deviations)
THEOREM SchedulesRemembered == Spec => []("session" \notin Faults => NeverForgotten)
<1>1. ScheduleInv => ("session" \notin Faults => NeverForgotten)  BY DEF ScheduleInv, Remembered
<1> QED BY <1>1, ScheduleInvariant, PTL

\* No firing that a schedule waits for has vanished, unless it was killed
THEOREM FiringsAnswer == Spec => []NoDeadFiring
<1>1. ScheduleInv => NoDeadFiring  BY DEF ScheduleInv
<1> QED BY <1>1, ScheduleInvariant, PTL

\* A whole number of intervals
LEMMA WholeIntervals ==
  ASSUME NEW k \in Nat
  PROVE  (INTERVAL * k) \div INTERVAL = k /\ (INTERVAL * k) % INTERVAL = 0
<1> INTERVAL \in Nat \ {0}  BY ScheduleAssumption
<1> QED OBVIOUS

\* Every point of a fixed cadence is accounted for, through overlaps, catch-up, faults,
\* crashes and restarts
THEOREM PointsAreAccounted == Spec => []PointsAccounted
<1>1. ASSUME ScheduleInv PROVE PointsAccounted
  <2>1. ASSUME NEW id \in Ids, Live(entries[id]), Cadenced(entries[id])
        PROVE  LET e == entries[id]
                   points == (e.deadline - e.first) \div INTERVAL
                   counted == e.runs + e.faults + Cardinality(e.running) + e.missed + e.overlaps + e.lost
               IN /\ (e.deadline - e.first) % INTERVAL = 0
                  /\ IF e.opt.catchup = "once" THEN points >= counted ELSE points = counted
    <3> DEFINE e == entries[id]
               counted == e.runs + e.faults + Cardinality(e.running) + e.missed + e.overlaps + e.lost
    <3>1. e \in Entry /\ Sound(e) /\ scenario \in Scenarios
      BY <1>1, <2>1, EntriesAreSound DEF EntriesSound
    <3>2. /\ e.runs \in Nat /\ e.faults \in Nat /\ e.missed \in Nat /\ e.overlaps \in Nat
          /\ e.lost \in Nat /\ e.first \in Int /\ e.deadline \in Int
      BY <3>1, EntryFields
    <3>3. Cardinality(e.running) \in Nat
      BY <3>1, FS_CardinalityType DEF Sound, DistinctFirings
    <3>4. Accounted(e) /\ Cadenced(e)  BY <2>1, <3>1 DEF Sound
    <3> HIDE DEF e
    <3>5. PICK k \in Nat :
            /\ e.deadline = e.first + INTERVAL * k
            /\ IF e.opt.catchup = "once" THEN k >= Tally(e) + Cardinality(e.running)
                                         ELSE k = Tally(e) + Cardinality(e.running)
      BY <3>4 DEF Accounted
    <3>6. e.deadline - e.first = INTERVAL * k
      <4>1. INTERVAL * k \in Nat  BY ScheduleAssumption
      <4> QED BY <3>2, <3>5, <4>1
    <3>7. (e.deadline - e.first) \div INTERVAL = k /\ (e.deadline - e.first) % INTERVAL = 0
      BY <3>6, WholeIntervals
    <3>8. counted = Tally(e) + Cardinality(e.running)  BY <3>2, <3>3 DEF Tally
    <3> HIDE DEF counted
    <3>9. /\ (e.deadline - e.first) % INTERVAL = 0
          /\ IF e.opt.catchup = "once" THEN (e.deadline - e.first) \div INTERVAL >= counted
                                       ELSE (e.deadline - e.first) \div INTERVAL = counted
      BY <3>5, <3>7, <3>8
    <3> QED BY <3>9 DEF e, counted
  <2> QED BY <2>1 DEF PointsAccounted, Cadenced
<1> QED BY <1>1, ScheduleInvariant, PTL

\* One firing at a time, unless the schedule allows more, restarts included
THEOREM FiringsAreSingle == Spec => []OneAtATime
<1>1. ASSUME ScheduleInv PROVE OneAtATime
  <2>1. ASSUME NEW id \in Ids, Live(entries[id]), entries[id].opt.overlap # "concurrent"
        PROVE  Cardinality(entries[id].running) <= 1
    <3> DEFINE R == entries[id].running
    <3>1. \A f, g \in R : f = g
      BY <1>1, <2>1 DEF ScheduleInv, EntriesOK, EntryOK, AtMostOne
    <3> HIDE DEF R
    <3>2. CASE R = {}
      <4>1. Cardinality(R) = 0  BY <3>2, FS_EmptySet
      <4> QED BY <4>1 DEF R
    <3>3. CASE R # {}
      <4>1. PICK f \in R : R = {f}  BY <3>1, <3>3
      <4>2. Cardinality(R) = 1  BY <4>1, FS_Singleton
      <4> QED BY <4>2 DEF R
    <3> QED BY <3>2, <3>3
  <2> QED BY <2>1 DEF OneAtATime
<1> QED BY <1>1, ScheduleInvariant, PTL

\* A point of a fixed cadence is fired once: those that were lie before the next one
THEOREM PointsFireOnce == Spec => FiresOnce
<1>1. ASSUME ScheduleInv, NEW id \in Ids, Live(entries[id]), Cadenced(entries[id]),
             <<id, entries[id].deadline>> \in served
      PROVE  FALSE
  <2>1. entries[id] \in Entry /\ scenario \in Scenarios  BY <1>1, EntriesAreSound DEF EntriesSound
  <2>2. entries[id].deadline \in Int  BY <2>1, EntryFields
  <2>3. EntryOK(id, entries[id], nextTask, served)  BY <1>1 DEF ScheduleInv, EntriesOK
  <2>4. entries[id].deadline < entries[id].deadline  BY <1>1, <2>2, <2>3 DEF EntryOK, PointsAhead
  <2> QED BY <2>2, <2>4
<1>2. ScheduleInv => \A id \in Ids : Live(entries[id]) /\ entries[id].opt.kind = "every"
         /\ ~entries[id].opt.adaptive /\ <<id, entries[id].deadline>> \in served
       => nextTask' = nextTask
            \/ \A f \in entries'[id].running : f.task # nextTask
  BY <1>1 DEF Cadenced
<1> QED BY <1>2, ScheduleInvariant, PTL DEF FiresOnce

\* An id is handed out once
THEOREM IdsAreFresh == Spec => IdsNeverReused
<1> DEFINE Fresh == \A id \in Ids : buffered[id] = NoEntry /\ buffered'[id] # NoEntry => id \notin handed
<1>1. ASSUME ScheduleInv, [Next]_vars PROVE Fresh
  <2>1. buffered \in [Ids -> Create \cup {NoEntry}]  BY <1>1 DEF ScheduleInv, TypeOK
  <2>2. ASSUME NEW p \in Options, Reserve(p) PROVE Fresh
    <3>1. buffered' = [buffered EXCEPT ![nextId] = CreateRequest(p)]  BY <2>2 DEF Reserve
    <3>2. \A id \in Ids : buffered[id] = NoEntry /\ buffered'[id] # NoEntry => id = nextId
      BY <2>1, <3>1
    <3>3. \A id \in handed : id < nextId  BY <1>1 DEF ScheduleInv, IdsKnown
    <3>4. nextId \in Int
      <4>1. scenario \in Scenarios /\ nextId \in 1..MaxId + 1  BY <1>1 DEF ScheduleInv, TypeOK
      <4> QED BY <4>1, ScenarioTypes
    <3> QED BY <3>2, <3>3, <3>4
  <2>3. ASSUME \A id \in Ids : buffered'[id] # NoEntry => buffered[id] # NoEntry PROVE Fresh
    BY <2>3
  <2>4. ASSUME UNCHANGED buffered PROVE Fresh  BY <2>4
  <2>5. ASSUME NEW x \in Ids, buffered' = [buffered EXCEPT ![x] = NoEntry] PROVE Fresh
    BY <2>1, <2>5
  <2>6. ASSUME Forget PROVE Fresh  BY <2>6 DEF Forget
  <2> HIDE DEF Fresh
  <2>7. CASE Next
    <3>1. Step  BY <2>7 DEF Next
    <3>2. ASSUME NEW id \in Ids, Discard(id) PROVE Fresh  BY <2>5, <3>2 DEF Discard
    <3>3. ASSUME NEW id \in Ids, NEW o \in Offsets, Publish(id, o) PROVE Fresh  BY <2>5, <3>3 DEF Publish
    <3>4. ASSUME NEW id \in Ids, StopSchedule(id) PROVE Fresh  BY <2>4, <3>4 DEF StopSchedule
    <3>5. ASSUME NEW o \in Offsets, Collect(o) \/ SettleFirings(o) \/ Restart(o) PROVE Fresh
      BY <2>4, <3>5 DEF Collect, SettleFirings, Restart
    <3>6. ASSUME NEW c \in collected, NEW o \in Offsets, FireCollected(c[1], c[2], o) PROVE Fresh
      BY <2>4, <3>6 DEF FireCollected
    <3>7. ASSUME NEW t \in TaskIds, NEW r \in Outcomes, NEW o \in Offsets, FiringEnds(t, r, o) PROVE Fresh
      BY <2>4, <3>7 DEF FiringEnds
    <3>8. ASSUME NEW t \in TaskIds,
                 \/ FiringAborted(t) \/ FiringKilled(t) \/ FiringSuspends(t) \/ FiringWakes(t)
                 \/ TaskStored(t)
          PROVE  Fresh
      BY <2>4, <3>8
      DEF FiringAborted, FiringKilled, FiringSuspends, FiringWakes, TaskStored, queueVars
    <3>9. CASE Tick \/ BeginStop  BY <2>4, <3>9 DEF Tick, BeginStop, queueVars
    <3>10. CASE Shutdown \/ Crash  BY <2>6, <3>10 DEF Shutdown, Crash
    <3> QED BY <2>2, <3>1, <3>2, <3>3, <3>4, <3>5, <3>6, <3>7, <3>8, <3>9, <3>10 DEF Step
  <2>8. CASE UNCHANGED vars
    <3>1. UNCHANGED buffered  BY <2>8 DEF vars, scheduleVars, queueVars
    <3> QED BY <2>4, <3>1
  <2> QED BY <1>1, <2>7, <2>8
<1> QED BY <1>1, ScheduleInvariant, PTL DEF Spec, IdsNeverReused

\* A firing is started for a live schedule whose time has come
THEOREM FiringsAreInTime == Spec => StartedInTime
<1> DEFINE InTime == \A t \in TaskIds : task[t] = "none" /\ task'[t] # "none" =>
                       \E id \in Ids : Live(entries[id]) /\ entries[id].nextRun <= now
                                         /\ id \in {c[1] : c \in collected \ collected'}
<1>1. ASSUME ScheduleInv, [Next]_vars PROVE InTime
  <2>1. CASE Next  BY <1>1, <2>1, ActionSteps
  <2>2. CASE UNCHANGED vars  BY <2>2 DEF vars, scheduleVars, taskVars
  <2> QED BY <1>1, <2>1, <2>2
<1> QED BY <1>1, ScheduleInvariant, PTL DEF Spec, StartedInTime
=============================================================================
