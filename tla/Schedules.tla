----------------------------- MODULE Schedules -----------------------------
(***************************************************************************)
(* Native schedules: ScheduleQ, the timer thread that collects expired     *)
(* deadlines and fires them, the tasks that run the firings, the settling  *)
(* of their results, and the tasks database that carries schedules over a  *)
(* restart.                                                                *)
(*                                                                         *)
(* Each critical section of the lifecycle mutex is one action.  ScheduleQ  *)
(* works on one entry at a time, so its methods are operators from an      *)
(* entry to an entry.  The indexes by owner, target and task are derived   *)
(* from the entries, and of the timer wheel an entry keeps whether its     *)
(* current arm is still in it.  Time is counted in scheduler ticks.        *)
(***************************************************************************)
EXTENDS Integers, FiniteSets, Sequences

CONSTANTS
  Scenarios,     \* what may happen
  INTERVAL,      \* of every recurring schedule
  RETENTION      \* RETIRED_RETENTION

FaultKinds == {"session", "target", "submit", "kill", "abort", "exception", "crash", "stop"}

\* options: what schedules are created with: kind, delay of the first deadline and
\* ScheduleOptions; returns: numbers that verbs return, besides values that are no
\* number; faults: what may go wrong; horizon: MAX_DEADLINE_SECS; time, ids, tasks:
\* bounds on the clock, the schedule ids handed out and the firings
OptionType ==
  [kind : {"at", "every"}, delay : Nat, adaptive : BOOLEAN, catchup : {"skip", "once", "all"},
   overlap : {"skip", "queue", "concurrent"}, jitter : Nat, maxFaults : Nat, persist : BOOLEAN]

ASSUME ScheduleAssumption ==
  /\ INTERVAL \in Nat \ {0} /\ RETENTION \in Nat
  /\ \A s \in Scenarios :
       /\ s.options \subseteq OptionType
       /\ s.faults \subseteq FaultKinds /\ s.returns \subseteq Int
       /\ s.horizon \in Nat /\ s.time \in Nat /\ s.ids \in Nat /\ s.tasks \in Nat
       /\ \A p \in s.options : p.kind = "every" => p.delay = INTERVAL

VARIABLES
  scenario,     \* what may happen in this behaviour; never changes
  now,          \* SystemTime
  state,        \* SchedulerState; Down between two processes
  entries,      \* ScheduleQ.entries
  nextId,       \* ScheduleQ.next_id
  buffered,     \* PendingCreates in the effects of running tasks
  collected,    \* expiries the timer thread has collected and not dealt with
  collectedAt,  \* its now_sys
  nextTask,     \* next_task_id
  task,         \* of each firing: where its task is
  results,      \* settled_results
  disk,         \* the tasks database: schedules
  diskNext,     \* ... the high-water mark of ids
  diskTasks,    \* ... suspended firings
  handed,       \* history: ids given to programs
  served        \* history: id and cadence point of every firing

Options == scenario.options
Returns == scenario.returns
Faults == scenario.faults
MAX_DEADLINE == scenario.horizon
MaxTime == scenario.time
MaxId == scenario.ids
MaxTasks == scenario.tasks

\* Outcome: a success with its value, or a fault
Success(n) == [ok |-> TRUE, number |-> TRUE, value |-> n]
NotANumber == [ok |-> TRUE, number |-> FALSE, value |-> 0]
Fault == [ok |-> FALSE, number |-> FALSE, value |-> 0]
Outcomes == {Success(n) : n \in Returns} \cup {NotANumber, Fault}

Ids == 1..MaxId
TaskIds == 1..MaxTasks

queueVars == <<entries, nextId, buffered, handed>>
timerVars == <<collected, collectedAt>>
taskVars == <<nextTask, task, results, served>>
diskVars == <<disk, diskNext, diskTasks>>

scheduleVars == <<now, state, queueVars, timerVars, taskVars, diskVars>>

vars == <<scenario, scheduleVars>>

-----------------------------------------------------------------------------
\* Entries

NoEntry == [status |-> "none"]

Live(e) == e.status = "live"

\* expiry, is_current_expiry: the arm that a timer entry or a collected expiry is of
IsCurrent(e, g) == Live(e) /\ e.current /\ e.gen = g

\* arm: a new generation, in the wheel or on the immediate list
Arm(e, deadline) ==
  [e EXCEPT !.gen = @ + 1, !.current = TRUE, !.armed = TRUE, !.nextRun = deadline]

\* deadline plus or minus the jitter, not before the next tick
Jittered(e, deadline, o, floor) ==
  LET moved == IF deadline + o > MAX_DEADLINE THEN deadline ELSE deadline + o IN
  IF e.opt.jitter = 0 THEN deadline ELSE
  IF moved < floor + 1 THEN floor + 1 ELSE moved

Offsets == (UNION {-p.jitter..p.jitter : p \in Options}) \cup {0}

Retire(e, why, at) ==
  [e EXCEPT !.status = "retired", !.why = why, !.retiredAt = at, !.running = {},
            !.queued = FALSE, !.current = FALSE, !.armed = FALSE]

RetireOutOfRange(e, at) ==
  Retire([e EXCEPT !.faults = @ + 1], "deadline_out_of_range", at)

\* How many points of the cadence that starts at from are stepped over to get
\* strictly beyond at
StepsAfter(from, at) == IF at < from THEN 0 ELSE (at - from) \div INTERVAL + 1

\* next_cadence_after
NextCadenceAfter(from, at) == from + INTERVAL * StepsAfter(from, at)

NewEntry(p, deadline) ==
  [status |-> "live", opt |-> p, nextRun |-> deadline, deadline |-> deadline,
   first |-> deadline, gen |-> 0, current |-> FALSE, armed |-> FALSE, running |-> {},
   queued |-> FALSE, runs |-> 0, faults |-> 0, consecutive |-> 0, missed |-> 0,
   overlaps |-> 0, lost |-> 0, why |-> "none", retiredAt |-> 0]

\* insert_at, insert_every: dropped when the deadline has come to be out of range
Insert(create, at, o) ==
  LET p == create.opt
      deadline == IF p.kind = "at" THEN create.when ELSE at + INTERVAL
      e == NewEntry(p, deadline) IN
  IF deadline > MAX_DEADLINE THEN NoEntry ELSE
  IF p.kind = "at" THEN Arm(e, deadline) ELSE Arm(e, Jittered(e, deadline, o, at))

\* Mutant: the points that passed are counted one short
ArmAfter_OffByOne(e, deadline, at, o) ==
  LET first == deadline + INTERVAL
      jump == first <= at /\ e.opt.catchup # "all"
      next == IF jump THEN NextCadenceAfter(first, at) ELSE first
      passed == IF jump /\ e.opt.catchup = "skip" THEN StepsAfter(first, at) - 1 ELSE 0 IN
  IF next > MAX_DEADLINE THEN RetireOutOfRange(e, at) ELSE
  Arm([e EXCEPT !.deadline = next, !.missed = @ + passed], Jittered(e, next, o, at))

\* arm_after: the point after a firing's, under the catchup policy
ArmAfter(e, deadline, at, o) ==
  LET first == deadline + INTERVAL
      jump == first <= at /\ e.opt.catchup # "all"
      next == IF jump THEN NextCadenceAfter(first, at) ELSE first
      passed == IF jump /\ e.opt.catchup = "skip" THEN StepsAfter(first, at) ELSE 0 IN
  IF next > MAX_DEADLINE THEN RetireOutOfRange(e, at) ELSE
  Arm([e EXCEPT !.deadline = next, !.missed = @ + passed], Jittered(e, next, o, at))

\* skip_overlapped
SkipOverlapped(e, at, o) ==
  LET first == e.deadline + INTERVAL
      next == NextCadenceAfter(first, at) IN
  IF e.opt.kind = "at" THEN [e EXCEPT !.overlaps = @ + 1] ELSE
  IF next > MAX_DEADLINE
    THEN RetireOutOfRange([e EXCEPT !.overlaps = @ + 1], at)
    ELSE Arm([e EXCEPT !.overlaps = @ + 1 + StepsAfter(first, at), !.deadline = next],
             Jittered(e, next, o, at))

\* fire_queued: the queued firing stands for the latest point that has passed
FireQueued(e, at) ==
  LET first == e.deadline + INTERVAL
      passed == IF NextCadenceAfter(first, at) > MAX_DEADLINE THEN 0 ELSE StepsAfter(first, at) IN
  Arm([e EXCEPT !.queued = FALSE, !.overlaps = @ + passed,
                !.deadline = @ + INTERVAL * passed], at)

\* mark_fired
MarkFired(e, t, at, o) ==
  LET fired == [e EXCEPT !.running = @ \cup {[task |-> t, deadline |-> e.deadline]},
                         !.current = FALSE] IN
  IF e.opt.kind = "every" THEN ArmAfter(fired, e.deadline, at, o) ELSE fired

\* complete, once the outcome is recorded in e: base is the firing's deadline
AfterOutcome(e, base, outcome, at, o) ==
  LET number == e.opt.adaptive /\ outcome.number
      n == outcome.value
      next == base + n IN
  IF number /\ n > 0
    THEN IF next > MAX_DEADLINE THEN RetireOutOfRange(e, at) ELSE
         Arm([e EXCEPT !.deadline = next, !.queued = FALSE], Jittered(e, next, o, at))
  ELSE IF number /\ n = 0 /\ e.opt.kind = "at" THEN Retire(e, "returned_zero", at)
  ELSE IF number /\ n < 0
    THEN Retire([e EXCEPT !.faults = @ + 1], "negative_return", at)
  ELSE IF e.opt.kind = "at" THEN Retire(e, "one_shot_done", at)
  ELSE IF e.queued THEN FireQueued(e, at)
  ELSE e

\* complete, for a task that is one of the entry's running firings
Complete(e, t, outcome, at, o) ==
  LET firing == CHOOSE f \in e.running : f.task = t
      cleared == [e EXCEPT !.running = @ \ {firing}]
      failed == [cleared EXCEPT !.faults = @ + 1, !.consecutive = @ + 1]
      counted == [cleared EXCEPT !.runs = @ + 1, !.consecutive = 0] IN
  IF outcome.ok THEN AfterOutcome(counted, firing.deadline, outcome, at, o)
  ELSE IF failed.consecutive = e.opt.maxFaults THEN Retire(failed, "max_faults", at)
  ELSE AfterOutcome(failed, firing.deadline, outcome, at, o)

\* ScheduleQ::load: the arm of a restored entry.  It stays unarmed while its only
\* firing, or the one a queued deadline waits for, is in progress.
Rearm(e, at, o) ==
  LET skip == e.nextRun <= at /\ e.opt.kind = "every" /\ e.opt.catchup = "skip"
      next == NextCadenceAfter(e.deadline, at) IN
  IF e.running # {} /\ (e.opt.kind = "at" \/ e.queued) THEN e
  ELSE IF e.queued /\ e.opt.kind = "every" THEN FireQueued(e, at)
  ELSE IF skip /\ next > MAX_DEADLINE THEN RetireOutOfRange(e, at)
  ELSE IF skip
    THEN Arm([e EXCEPT !.deadline = next, !.missed = @ + StepsAfter(e.deadline, at)],
             Jittered(e, next, o, at))
  ELSE IF e.nextRun <= at /\ (e.opt.kind = "at" \/ e.opt.catchup = "once") THEN Arm(e, at)
  ELSE Arm(e, e.nextRun)

\* Mutant: firings that did not survive stay in the running list
Load_KeepsFirings(e, restored, at, o) ==
  Rearm([e EXCEPT !.gen = 0, !.current = FALSE, !.armed = FALSE], at, o)

\* ScheduleQ::load: firings that were not restored are forgotten
Load(e, restored, at, o) ==
  LET alive == {f \in e.running : f.task \in restored} IN
  Rearm([e EXCEPT !.running = alive, !.lost = @ + Cardinality(e.running \ alive),
                  !.gen = 0, !.current = FALSE, !.armed = FALSE], at, o)

\* persist_schedule, for every id of S
Persist(S, es) ==
  disk' = [id \in Ids |-> IF id \notin S THEN disk[id] ELSE
                          IF Live(es[id]) /\ es[id].opt.persist THEN es[id] ELSE NoEntry]

\* schedule_for_task
ScheduleOf(es, t) ==
  {id \in Ids : Live(es[id]) /\ \E f \in es[id].running : f.task = t}

-----------------------------------------------------------------------------
\* Creating and stopping schedules

\* Mutant: the mark is left to a later save
ReserveId_Unsaved == nextId' = nextId + 1 /\ UNCHANGED diskNext

\* reserve_schedule_id: the mark is saved before a program sees the id
ReserveId == nextId' = nextId + 1 /\ diskNext' = nextId + 1

\* PendingCreate; the time of a one-shot is fixed by the call
CreateRequest(p) == [status |-> "create", opt |-> p, when |-> now + p.delay]

\* handle_schedule_create: an id and a request in the effects of the calling task
Reserve(p) ==
  /\ state # "Down" /\ nextId <= MaxId
  /\ now + p.delay <= MAX_DEADLINE
  /\ ReserveId
  /\ handed' = handed \cup {nextId}
  /\ buffered' = [buffered EXCEPT ![nextId] = CreateRequest(p)]
  /\ UNCHANGED <<now, state, entries, timerVars, taskVars, disk, diskTasks>>

\* The creating task commits; PendingTaskEffects::publish
Publish(id, o) ==
  /\ state # "Down" /\ buffered[id] # NoEntry
  /\ entries' = [entries EXCEPT ![id] = Insert(buffered[id], now, o)]
  /\ buffered' = [buffered EXCEPT ![id] = NoEntry]
  /\ Persist({id}, entries')
  /\ UNCHANGED <<now, state, nextId, handed, timerVars, taskVars, diskNext, diskTasks>>

\* The creating task rolls back, retries or stops what it created
Discard(id) ==
  /\ state # "Down" /\ buffered[id] # NoEntry
  /\ buffered' = [buffered EXCEPT ![id] = NoEntry]
  /\ UNCHANGED <<now, state, entries, nextId, handed, timerVars, taskVars, diskVars>>

\* A task that called schedule_stop commits; its firings go on, unlinked
StopSchedule(id) ==
  /\ state # "Down" /\ entries[id] # NoEntry
  /\ entries' = [entries EXCEPT ![id] = NoEntry]
  /\ Persist({id}, entries')
  /\ UNCHANGED <<now, state, nextId, buffered, handed, timerVars, taskVars, diskNext,
                 diskTasks>>

-----------------------------------------------------------------------------
\* The timer thread

\* Mutant: a deadline is only noticed at its own tick
Due_Exactly(e) == Live(e) /\ e.armed /\ e.nextRun = now

Due(e) == Live(e) /\ e.armed /\ e.nextRun <= now

\* expired: whether a due entry is fired
Collects(e) == e.running = {} \/ e.opt.overlap = "concurrent"

\* Mutant: a skipped deadline does not arm the next one
Overlapped_NoArm(e, o) ==
  IF e.opt.overlap = "skip" THEN [e EXCEPT !.overlaps = @ + 1, !.armed = FALSE]
                            ELSE [e EXCEPT !.queued = TRUE, !.armed = FALSE]

\* expired: a due entry that is not
Overlapped(e, o) ==
  IF e.opt.overlap = "skip" THEN SkipOverlapped([e EXCEPT !.armed = FALSE], now, o)
                            ELSE [e EXCEPT !.queued = TRUE, !.armed = FALSE]

\* purge_retired
Purged(e) == e.status = "retired" /\ e.retiredAt + RETENTION <= now

\* collect_and_fire_schedules under its first lock
Collect(o) ==
  /\ state = "Running" /\ collected = {}
  /\ \E id \in Ids : Due(entries[id]) \/ Purged(entries[id])
  /\ entries' = [id \in Ids |->
       LET e == entries[id] IN
       IF Purged(e) THEN NoEntry ELSE
       IF ~Due(e) THEN e ELSE
       IF Collects(e) THEN [e EXCEPT !.armed = FALSE] ELSE Overlapped(e, o)]
  /\ collected' = {<<id, entries[id].gen>> :
                     id \in {i \in Ids : Due(entries[i]) /\ Collects(entries[i])}}
  /\ collectedAt' = now
  /\ UNCHANGED <<now, state, nextId, buffered, handed, taskVars, diskVars>>

\* Mutant: the firing is only saved when it settles
Submit_Unsaved(id, o) ==
  LET t == nextTask
      fired == MarkFired(entries[id], t, collectedAt, o)
      refused == state # "Running" \/ "submit" \in Faults IN
  /\ t <= MaxTasks
  /\ nextTask' = t + 1
  /\ \/ /\ state = "Running"
        /\ entries' = [entries EXCEPT ![id] = fired]
        /\ \E where \in {"active", "suspended"} : task' = [task EXCEPT ![t] = where]
        /\ served' = served \cup {<<id, entries[id].deadline>>}
     \/ /\ refused
        /\ entries' = [entries EXCEPT ![id] =
             IF Live(fired) THEN Complete(fired, t, Fault, now, o) ELSE fired]
        /\ UNCHANGED <<task, served>>
  /\ UNCHANGED disk
  /\ UNCHANGED results

\* mark_fired, persist_schedule, submit_task
Submit(id, o) ==
  LET t == nextTask
      fired == MarkFired(entries[id], t, collectedAt, o)
      refused == state # "Running" \/ "submit" \in Faults IN
  /\ t <= MaxTasks
  /\ nextTask' = t + 1
  /\ \/ /\ state = "Running"
        /\ entries' = [entries EXCEPT ![id] = fired]
        /\ \E where \in {"active", "suspended"} : task' = [task EXCEPT ![t] = where]
        /\ served' = served \cup {<<id, entries[id].deadline>>}
     \/ /\ refused
        /\ entries' = [entries EXCEPT ![id] =
             IF Live(fired) THEN Complete(fired, t, Fault, now, o) ELSE fired]
        /\ UNCHANGED <<task, served>>
  /\ Persist({id}, entries')
  /\ UNCHANGED results

\* Mutant: the expiry is not looked at again
FireCollected_Unchecked(id, g, o) ==
  /\ state # "Down" /\ <<id, g>> \in collected
  /\ collected' = collected \ {<<id, g>>}
  /\ \/ entries[id] # NoEntry /\ Submit(id, o)
     \/ /\ entries[id] = NoEntry /\ nextTask <= MaxTasks
        /\ nextTask' = nextTask + 1
        /\ task' = [task EXCEPT ![nextTask] = "active"]
        /\ served' = served \cup {<<id, collectedAt>>}
        /\ UNCHANGED <<entries, results, disk>>
  /\ UNCHANGED <<now, state, nextId, buffered, handed, collectedAt, diskNext, diskTasks>>

\* fire_collected_schedules, one expiry
FireCollected(id, g, o) ==
  /\ state # "Down" /\ <<id, g>> \in collected
  /\ collected' = collected \ {<<id, g>>}
  /\ \/ /\ ~IsCurrent(entries[id], g) \/ "session" \in Faults
        /\ UNCHANGED <<entries, taskVars, disk>>
     \/ /\ IsCurrent(entries[id], g) /\ "target" \in Faults
        /\ entries' = [entries EXCEPT ![id] = Retire(@, "invalid_target", collectedAt)]
        /\ Persist({id}, entries')
        /\ UNCHANGED taskVars
     \/ IsCurrent(entries[id], g) /\ Submit(id, o)
  /\ UNCHANGED <<now, state, nextId, buffered, handed, collectedAt, diskNext, diskTasks>>

-----------------------------------------------------------------------------
\* Firings and their results

\* settle_schedule_firings, one result: the schedule that started the task completes
SettleOne(es, r, o) ==
  [id \in Ids |-> IF id \in ScheduleOf(es, r.task)
                    THEN Complete(es[id], r.task, r.outcome, now, o) ELSE es[id]]

\* settle_schedule_firings: the results in the order they came
Settle(rs, o) ==
  LET settled[i \in 0..Len(rs)] ==
        IF i = 0 THEN entries ELSE SettleOne(settled[i - 1], rs[i], o) IN
  /\ entries' = settled[Len(rs)]
  /\ Persist(UNION {ScheduleOf(entries, rs[i].task) : i \in DOMAIN rs}, entries')
  /\ results' = <<>>

\* The timer loop settles what no callback has
SettleFirings(o) ==
  /\ state # "Down" /\ results # <<>>
  /\ Settle(results, o)
  /\ UNCHANGED <<now, state, nextId, buffered, handed, timerVars, nextTask, task, served,
                 diskNext, diskTasks>>

\* handle_task_success_for_dispatch, handle_task_exception_for_dispatch: the result
\* is settled with the end
FiringEnds(t, outcome, o) ==
  /\ state # "Down" /\ task[t] = "active"
  /\ task' = [task EXCEPT ![t] = "ended"]
  /\ Settle(Append(results, [task |-> t, outcome |-> outcome]), o)
  /\ UNCHANGED <<now, state, nextId, buffered, handed, timerVars, nextTask, served,
                 diskNext, diskTasks>>

\* Cancelled, out of ticks, out of retries: the result waits for the timer loop
FiringAborted(t) ==
  /\ state # "Down" /\ task[t] = "active"
  /\ "abort" \in Faults \/ state = "Stopping"
  /\ task' = [task EXCEPT ![t] = "ended"]
  /\ results' = Append(results, [task |-> t, outcome |-> Fault])
  /\ UNCHANGED <<now, state, queueVars, timerVars, nextTask, served, diskVars>>

\* kill_task on a firing: its record is dropped and nothing is recorded
FiringKilled(t) ==
  /\ state # "Down" /\ "kill" \in Faults
  /\ task[t] \in {"active", "suspended"}
  /\ task' = [task EXCEPT ![t] = "killed"]
  /\ UNCHANGED <<now, state, queueVars, timerVars, nextTask, results, served, diskVars>>

FiringSuspends(t) ==
  /\ state = "Running" /\ task[t] = "active"
  /\ task' = [task EXCEPT ![t] = "suspended"]
  /\ UNCHANGED <<now, state, queueVars, timerVars, nextTask, results, served, diskVars>>

FiringWakes(t) ==
  /\ state = "Running" /\ task[t] = "suspended"
  /\ task' = [task EXCEPT ![t] = "active"]
  /\ UNCHANGED <<now, state, queueVars, timerVars, nextTask, results, served, diskVars>>

\* The tasks database follows the suspension queue, later
TaskStored(t) ==
  /\ state # "Down"
  /\ \/ task[t] = "suspended" /\ t \notin diskTasks /\ diskTasks' = diskTasks \cup {t}
     \/ task[t] # "suspended" /\ t \in diskTasks /\ diskTasks' = diskTasks \ {t}
  /\ UNCHANGED <<now, state, queueVars, timerVars, taskVars, disk, diskNext>>

-----------------------------------------------------------------------------
\* The clock, shutdown, crash and restart

Tick ==
  /\ now < MaxTime
  /\ now' = now + 1
  /\ UNCHANGED <<state, queueVars, timerVars, taskVars, diskVars>>

BeginStop ==
  /\ state = "Running" /\ "stop" \in Faults
  /\ state' = "Stopping"
  /\ UNCHANGED <<now, queueVars, timerVars, taskVars, diskVars>>

\* What a process forgets
Forget ==
  /\ state' = "Down"
  /\ entries' = [id \in Ids |-> NoEntry]
  /\ buffered' = [id \in Ids |-> NoEntry]
  /\ collected' = {} /\ collectedAt' = 0
  /\ results' = <<>>
  /\ UNCHANGED <<now, nextId, nextTask, handed, served>>

\* No task is active; the timer loop ends: save_tasks, save_schedules
Shutdown ==
  /\ state = "Stopping" /\ collected = {}
  /\ \A t \in TaskIds : task[t] # "active"
  /\ Forget
  /\ diskTasks' = {t \in TaskIds : task[t] = "suspended"}
  /\ disk' = [id \in Ids |-> IF Live(entries[id]) /\ entries[id].opt.persist
                               THEN entries[id] ELSE disk[id]]
  /\ UNCHANGED <<task, diskNext>>

Crash ==
  /\ state # "Down" /\ "crash" \in Faults
  /\ Forget
  /\ task' = [t \in TaskIds |-> IF t \in diskTasks THEN "suspended" ELSE
                                IF task[t] = "none" THEN "none" ELSE "ended"]
  /\ UNCHANGED diskVars

\* The counter a restart continues with
RestoredNext ==
  LET last == {id + 1 : id \in {i \in Ids : disk[i] # NoEntry}} IN
  CHOOSE n \in {diskNext} \cup last : \A m \in {diskNext} \cup last : m <= n

\* load_tasks, load_schedules
Restart(o) ==
  /\ state = "Down"
  /\ state' = "Running"
  /\ nextId' = RestoredNext
  /\ entries' = [id \in Ids |-> IF disk[id] = NoEntry THEN NoEntry
                                ELSE Load(disk[id], diskTasks, now, o)]
  /\ Persist({id \in Ids : disk[id] # NoEntry /\ ~Live(entries'[id])}, entries')
  /\ UNCHANGED <<now, buffered, handed, timerVars, taskVars, diskNext, diskTasks>>

-----------------------------------------------------------------------------
Init ==
  /\ scenario \in Scenarios
  /\ now = 0 /\ state = "Running"
  /\ entries = [id \in Ids |-> NoEntry] /\ nextId = 1
  /\ buffered = [id \in Ids |-> NoEntry]
  /\ collected = {} /\ collectedAt = 0
  /\ nextTask = 1 /\ task = [t \in TaskIds |-> "none"] /\ results = <<>>
  /\ disk = [id \in Ids |-> NoEntry] /\ diskNext = 1 /\ diskTasks = {}
  /\ handed = {} /\ served = {}

Step ==
  \/ \E p \in Options : Reserve(p)
  \/ \E id \in Ids : Discard(id) \/ StopSchedule(id)
  \/ \E id \in Ids, o \in Offsets : Publish(id, o)
  \/ \E o \in Offsets : Collect(o) \/ SettleFirings(o) \/ Restart(o)
  \/ \E c \in collected, o \in Offsets : FireCollected(c[1], c[2], o)
  \/ \E t \in TaskIds, r \in Outcomes, o \in Offsets :
       /\ r = Fault => "exception" \in Faults
       /\ FiringEnds(t, r, o)
  \/ \E t \in TaskIds : FiringAborted(t) \/ FiringKilled(t) \/ FiringSuspends(t)
                          \/ FiringWakes(t) \/ TaskStored(t)
  \/ Tick \/ BeginStop \/ Shutdown \/ Crash

Next == Step /\ UNCHANGED scenario

\* The clock advances and the timer thread keeps going round its loop
Fairness ==
  /\ WF_scheduleVars(Tick)
  /\ WF_scheduleVars(\E o \in Offsets : Collect(o))
  /\ WF_scheduleVars(\E c \in collected, o \in Offsets : FireCollected(c[1], c[2], o))

Spec == Init /\ [][Next]_vars
FairSpec == Spec /\ Fairness

-----------------------------------------------------------------------------
\* Properties

Reasons == {"none", "deadline_out_of_range", "returned_zero", "negative_return",
            "one_shot_done", "max_faults", "invalid_target"}

Entry ==
  [status : {"live", "retired"}, opt : Options, nextRun : Int, deadline : Int,
   first : Int, gen : Nat, current : BOOLEAN, armed : BOOLEAN,
   running : SUBSET [task : TaskIds, deadline : Int], queued : BOOLEAN,
   runs : Nat, faults : Nat, consecutive : Nat, missed : Nat, overlaps : Nat,
   lost : Nat, why : Reasons, retiredAt : Nat]

Create == [status : {"create"}, opt : Options, when : Nat]

\* Types; what is armed is the current arm of a live schedule
TypeOK ==
  /\ scenario \in Scenarios
  /\ now \in Nat /\ state \in {"Running", "Stopping", "Down"}
  /\ entries \in [Ids -> Entry \cup {NoEntry}]
  /\ disk \in [Ids -> Entry \cup {NoEntry}]
  /\ \A id \in Ids : disk[id] # NoEntry => Live(disk[id])
  /\ \A id \in Ids : Live(entries[id]) /\ entries[id].armed => entries[id].current
  /\ buffered \in [Ids -> Create \cup {NoEntry}]
  /\ nextId \in 1..MaxId + 1 /\ diskNext \in 1..MaxId + 1
  /\ handed \subseteq Ids
  /\ collected \subseteq Ids \X Nat /\ collectedAt \in Nat
  /\ nextTask \in 1..MaxTasks + 1
  /\ task \in [TaskIds -> {"none", "active", "suspended", "ended", "killed"}]
  /\ results \in Seq([task : TaskIds, outcome : Outcomes])
  /\ diskTasks \subseteq TaskIds
  /\ served \subseteq Ids \X Int

\* A live schedule is always going to fire: it is in the timer wheel, the timer
\* thread holds its expiry, or a firing is under way whose end arms it.  (A killed
\* firing has no end: see KillIsCounted.)
NeverForgotten ==
  \A id \in Ids : Live(entries[id]) =>
    LET e == entries[id] IN
    \/ e.armed
    \/ e.current /\ <<id, e.gen>> \in collected
    \/ e.running # {} /\ (e.opt.kind = "at" \/ e.queued)

\* Every cadence point up to the next one is accounted for: as a run, a fault, a
\* firing under way, missed, overlapped or lost with a crash.  Under catchup
\* "once" the firing that stands for several is counted once.
PointsAccounted ==
  \A id \in Ids : Live(entries[id]) =>
    LET e == entries[id]
        points == (e.deadline - e.first) \div INTERVAL
        counted == e.runs + e.faults + Cardinality(e.running) + e.missed + e.overlaps + e.lost
    IN e.opt.kind = "every" /\ ~e.opt.adaptive =>
         /\ (e.deadline - e.first) % INTERVAL = 0
         /\ IF e.opt.catchup = "once" THEN points >= counted ELSE points = counted

\* Unless the schedule allows it, one firing runs at a time, restarts included
OneAtATime ==
  \A id \in Ids : Live(entries[id]) /\ entries[id].opt.overlap # "concurrent"
                     => Cardinality(entries[id].running) <= 1

Answered(t) == \E i \in DOMAIN results : results[i].task = t

\* A firing that a schedule waits for is a task that is there, or has a result
\* on its way, restarts included.  Killed firings are KillIsCounted's.
NoDeadFiring ==
  \A id \in Ids : Live(entries[id]) => \A f \in entries[id].running :
    task[f.task] # "killed" => task[f.task] \in {"active", "suspended"} \/ Answered(f.task)

\* "They can be kill_task'ed (the schedule counts it as a fault)", says the book: no
\* schedule waits for a killed firing whose fault is not on its way.  cancel_task drops
\* the record and sends no result, so this fails; the schedule then waits for ever.
KillIsCounted ==
  \A id \in Ids : Live(entries[id]) => \A f \in entries[id].running :
    task[f.task] = "killed" => Answered(f.task)

\* A point of a fixed cadence is fired once, also when the server crashes and
\* restores the schedule in between
FiresOnce ==
  [][\A id \in Ids : Live(entries[id]) /\ entries[id].opt.kind = "every"
         /\ ~entries[id].opt.adaptive /\ <<id, entries[id].deadline>> \in served
       => nextTask' = nextTask
            \/ \A f \in entries'[id].running : f.task # nextTask]_vars

\* An id is handed out once: a program that keeps one never finds another
\* schedule under it, not even after a crash
IdsNeverReused ==
  [][\A id \in Ids : buffered[id] = NoEntry /\ buffered'[id] # NoEntry
                        => id \notin handed]_vars

\* A firing is started for a live schedule whose time has come, though between
\* collecting an expiry and firing it the timer thread lets go of the lock and the
\* schedule may be stopped, retire or be given a later time
StartedInTime ==
  [][\A t \in TaskIds : task[t] = "none" /\ task'[t] # "none" =>
       \E id \in Ids : Live(entries[id]) /\ entries[id].nextRun <= now
                         /\ id \in {c[1] : c \in collected \ collected'}]_vars

AwaitsOneShot(id) ==
  /\ id \in Ids /\ Live(entries[id])
  /\ entries[id].opt.kind = "at" /\ entries[id].running = {}

\* A one-shot whose time has come is fired, unless it is stopped or the server
\* stops (or the bound on firings is reached)
OneShotFires ==
  \A id \in UNION {1..s.ids : s \in Scenarios} :
    AwaitsOneShot(id) /\ entries[id].nextRun <= MaxTime
      ~> ~AwaitsOneShot(id) \/ state # "Running" \/ nextTask > MaxTasks
=============================================================================
