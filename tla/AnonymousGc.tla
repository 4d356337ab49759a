---------------------------- MODULE AnonymousGc ----------------------------
(***************************************************************************)
(* The collection of anonymous objects: a mark phase over a database       *)
(* snapshot and the values of suspended tasks, concurrent with running     *)
(* tasks, and a sweep that is given up when the scheduler has recorded a   *)
(* mutation since the roots were gathered.                                 *)
(*                                                                         *)
(* Objects have one property each.  A task is the set of anonymous objects *)
(* its VM state refers to and a snapshot-isolated transaction; the worker  *)
(* commits before the scheduler's handler records the outcome under the    *)
(* lifecycle mutex, so the two are steps of their own.                     *)
(***************************************************************************)
EXTENDS Naturals, FiniteSets

CONSTANTS
  Tasks,       \* places for tasks; each is used for one after the other
  Anons,       \* ids of anonymous objects, each created at most once
  Root,        \* a regular object: permanent, and a root of the mark
  None,        \* the property holds no anonymous object
  Scenarios,   \* what programs may do
  MaxWrites    \* bound: objects one transaction creates or writes

EndingKinds == {"suspend", "renew", "fork", "exception", "kill", "limit", "rollback"}
EffectKinds == {"send", "schedule", "drop"}

\* existing: objects that exist when the server starts; gone: ids that are not
\* given out any more; endings: how the programs' transactions end, besides
\* success; effects: what the programs do besides reading and writing: buffer
\* messages and schedules, drop a reference; starts: a bound on the tasks that
\* players and schedules start
ScenarioType ==
  [existing : SUBSET Anons, gone : SUBSET Anons, endings : SUBSET EndingKinds,
   effects : SUBSET EffectKinds, starts : Nat]

ASSUME GcAssumption ==
  /\ IsFiniteSet(Anons) /\ MaxWrites \in Nat
  /\ Root \notin Anons /\ None \notin Anons
  /\ \A s \in Scenarios : s \in ScenarioType

Holders == Anons \cup {Root}

VARIABLES
  scenario,  \* what may happen in this behaviour; never changes
  phase,     \* GcPhase; Deleting is the part of Sweeping when no task is active
  valid,     \* last_mutation_timestamp is what it was when the roots were gathered
  roots,     \* MarkInput: anonymous objects that tasks and schedules refer to
  snapshot,  \* ... and the transaction of the mark
  doomed,    \* what the mark found unreachable
  db,        \* the database: objects that exist and their property
  used,      \* history: ids that were ever given out
  started,   \* number of tasks that players and schedules started
  where,     \* where the task's record is: TaskQ.active, TaskQ.suspended
  pc,        \* what its worker does, or what its last outcome was
  locals,    \* anonymous objects the VM state refers to
  saved,     \* ... and retry_state
  start,     \* ... and the TaskStart of a task that has no VM state yet
  view,      \* the transaction: the world it sees
  writes,    \* ... the objects it has created or written
  stale,     \* ... the objects others have written since it began
  effects,   \* PendingTaskEffects
  mail,      \* task_message_queues
  schedules, \* arguments of live schedules
  sleepers   \* history: tasks suspended since the roots were gathered

gcVars == <<phase, valid, roots, snapshot, doomed>>
txVars == <<view, writes, stale>>
vmVars == <<locals, saved, start>>
outVars == <<effects, mail, schedules>>

vars == <<scenario, gcVars, db, used, started, where, pc, vmVars, txVars, outVars, sleepers>>

Endings == scenario.endings
Effects == scenario.effects
MaxStarts == scenario.starts

Active == {t \in Tasks : where[t] = "active"}
Suspended == {t \in Tasks : where[t] = "suspended"}
BlocksAdmission == phase \in {"Sweeping", "Deleting"}

-----------------------------------------------------------------------------
\* The mark

EmptyDb == [exists |-> {}, prop |-> [h \in Holders |-> None]]

Property(d, S) == {d.prop[h] : h \in S} \ {None}

\* S and the regular object's references are in C, and so is what an existing
\* object of C refers to
Closed(d, S, C) ==
  /\ S \cup Property(d, {Root}) \subseteq C
  /\ Property(d, C \cap d.exists) \subseteq C

\* scan_anonymous_object_references, and the transitive closure over it
Reachable(d, S) == {x \in Anons : \A C \in SUBSET Anons : Closed(d, S, C) => x \in C}

\* Mutant: the state a retry restarts from is forgotten
TaskRoots_NoRetryState == UNION {locals[t] : t \in Suspended}

\* TaskQ::collect_anonymous_object_references: the VM state and the retry state of
\* every suspended task, which are both empty while it is pending
TaskRoots == UNION {locals[t] \cup saved[t] : t \in Suspended}

-----------------------------------------------------------------------------
\* Tasks

\* A new transaction for t
BeginTx(t) ==
  /\ view' = [view EXCEPT ![t] = db]
  /\ writes' = [writes EXCEPT ![t] = {}]
  /\ stale' = [stale EXCEPT ![t] = {}]

EndTx(t) ==
  /\ view' = [view EXCEPT ![t] = EmptyDb]
  /\ writes' = [writes EXCEPT ![t] = {}]
  /\ stale' = [stale EXCEPT ![t] = {}]

\* submit_task: a task with a delay, or that comes while a sweep is under way or a
\* collection is asked for, is parked with its start; others are dispatched at once
Places == {"suspended", "active"}

Submit(t, S, place) ==
  /\ place = "active" => ~BlocksAdmission
  /\ where' = [where EXCEPT ![t] = place]
  /\ start' = [start EXCEPT ![t] = IF place = "suspended" THEN S ELSE {}]
  /\ locals' = [locals EXCEPT ![t] = IF place = "active" THEN S ELSE {}]
  /\ saved' = [saved EXCEPT ![t] = IF place = "active" THEN S ELSE {}]
  /\ IF place = "active" THEN BeginTx(t) ELSE UNCHANGED txVars

Submitted(place) == IF place = "active" THEN "run" ELSE "pending"

\* A player's command, or a schedule that fires
Start(t, S, place) ==
  /\ where[t] = "none" /\ started < MaxStarts /\ S \subseteq schedules
  /\ started' = started + 1
  /\ Submit(t, S, place)
  /\ pc' = [pc EXCEPT ![t] = Submitted(place)]
  /\ UNCHANGED <<gcVars, db, used, outVars, sleepers>>

Create(t, x) ==
  /\ pc[t] = "run" /\ x \notin used /\ Cardinality(writes[t]) < MaxWrites
  /\ used' = used \cup {x}
  /\ view' = [view EXCEPT ![t].exists = @ \cup {x}]
  /\ writes' = [writes EXCEPT ![t] = @ \cup {x}]
  /\ locals' = [locals EXCEPT ![t] = @ \cup {x}]
  /\ UNCHANGED <<gcVars, db, started, where, pc, saved, start, stale, outVars, sleepers>>

\* What the program can name: the regular object, and objects it holds
Names(t) == {Root} \cup (locals[t] \cap view[t].exists)

Read(t, h) ==
  /\ pc[t] = "run" /\ h \in Names(t)
  /\ view[t].prop[h] \notin locals[t] \cup {None}
  /\ locals' = [locals EXCEPT ![t] = @ \cup {view[t].prop[h]}]
  /\ UNCHANGED <<gcVars, db, used, started, where, pc, saved, start, txVars, outVars, sleepers>>

Write(t, h, v) ==
  /\ pc[t] = "run" /\ h \in Names(t) /\ v \in (Names(t) \cup {None}) \ {Root}
  /\ view[t].prop[h] # v /\ Cardinality(writes[t] \cup {h}) <= MaxWrites
  /\ view' = [view EXCEPT ![t].prop[h] = v]
  /\ writes' = [writes EXCEPT ![t] = @ \cup {h}]
  /\ UNCHANGED <<gcVars, db, used, started, where, pc, vmVars, stale, outVars, sleepers>>

\* The last variable that held x goes out of scope
Drop(t, x) ==
  /\ pc[t] = "run" /\ "drop" \in Effects /\ x \in locals[t]
  /\ locals' = [locals EXCEPT ![t] = @ \ {x}]
  /\ UNCHANGED <<gcVars, db, used, started, where, pc, saved, start, txVars, outVars, sleepers>>

\* task_send, schedule_at: buffered until the task commits (bound: one for each
\* transaction)
Buffer(t, kind, u, x) ==
  /\ pc[t] = "run" /\ effects[t] = {} /\ x \in Names(t) \ {Root}
  /\ kind \in Effects /\ (kind = "schedule" <=> u = t)
  /\ effects' = [effects EXCEPT ![t] = {<<kind, u, x>>}]
  /\ UNCHANGED <<gcVars, db, used, started, where, pc, vmVars, txVars, mail, schedules, sleepers>>

\* A schedule is stopped
Unschedule(x) ==
  /\ x \in schedules
  /\ schedules' = schedules \ {x}
  /\ UNCHANGED <<gcVars, db, used, started, where, pc, vmVars, txVars, effects, mail, sleepers>>

\* The transaction of t is applied to the database and gone
Apply(t) ==
  /\ db' = [exists |-> db.exists \cup (writes[t] \ {Root}),
            prop |-> [h \in Holders |-> IF h \in writes[t] THEN view[t].prop[h] ELSE db.prop[h]]]
  /\ stale' = [u \in Tasks |-> IF pc[u] \in {"run", "forking"} /\ u # t THEN stale[u] \cup writes[t] ELSE {}]
  /\ view' = [view EXCEPT ![t] = EmptyDb]

\* The worker commits; the handler follows
Commit(t, ending) ==
  /\ pc[t] = "run" /\ ending \in (Endings \cup {"success"}) \ {"rollback"}
  /\ writes[t] \cap stale[t] = {}
  /\ Apply(t)
  /\ pc' = [pc EXCEPT ![t] = ending]
  /\ UNCHANGED <<gcVars, used, started, where, vmVars, writes, outVars, sleepers>>

\* The commit conflicts: the task is suspended for a retry
Conflict(t) ==
  /\ pc[t] = "run" /\ writes[t] \cap stale[t] # {}
  /\ pc' = [pc EXCEPT ![t] = "retry"]
  /\ where' = [where EXCEPT ![t] = "suspended"]
  /\ effects' = [effects EXCEPT ![t] = {}]
  /\ EndTx(t)
  /\ UNCHANGED <<gcVars, db, used, started, vmVars, mail, schedules, sleepers>>

\* PendingTaskEffects::publish
Publish(t) ==
  /\ mail' = [u \in Tasks |-> mail[u] \cup {e[3] : e \in {f \in effects[t] :
                                                    f[1] = "send" /\ f[2] = u}}]
  /\ schedules' = schedules \cup {e[3] : e \in {f \in effects[t] : f[1] = "schedule"}}
  /\ effects' = [effects EXCEPT ![t] = {}]

\* The VM and its transaction go
DropVm(t) ==
  /\ locals' = [locals EXCEPT ![t] = {}]
  /\ saved' = [saved EXCEPT ![t] = {}]
  /\ EndTx(t)

\* A limit with rollback_on_task_limit: what the transaction created is gone
LimitRollback(t) ==
  /\ pc[t] = "run" /\ "limit" \in Endings
  /\ pc' = [pc EXCEPT ![t] = "limit"]
  /\ locals' = [locals EXCEPT ![t] = @ \ writes[t]]
  /\ effects' = [effects EXCEPT ![t] = {}]
  /\ EndTx(t)
  /\ UNCHANGED <<gcVars, db, used, started, where, saved, start, mail, schedules, sleepers>>

\* The handlers' first lock.  A success, and a limit whose changes are kept,
\* record their mutation; an exception and a task that killed itself keep their
\* changes and record nothing.  After a limit the worker has left the stack, with
\* the objects S in its frames, to the handler.
Reserve(t, S) ==
  /\ pc[t] \in {"success", "limit", "exception", "kill"} /\ where[t] = "active"
  /\ S \subseteq locals[t] /\ (pc[t] # "limit" => S = {})
  /\ pc' = [pc EXCEPT ![t] = IF pc[t] = "limit" THEN "limited" ELSE "ended"]
  /\ valid' = (valid /\ (pc[t] \in {"success", "limit"} => writes[t] = {}))
  /\ start' = [start EXCEPT ![t] = S]
  /\ DropVm(t)
  /\ UNCHANGED <<phase, roots, snapshot, doomed, db, used, started, where, outVars, sleepers>>

\* The second lock, after the session's commit: the task's record goes
Finish(t) ==
  /\ pc[t] = "ended"
  /\ where' = [where EXCEPT ![t] = "none"]
  /\ pc' = [pc EXCEPT ![t] = "none"]
  /\ Publish(t)
  /\ UNCHANGED <<gcVars, db, used, started, vmVars, txVars, sleepers>>

\* ... and after a limit $handle_task_timeout is submitted with the stack.  The new
\* task takes the place of the one whose record goes.
FinishLimit(t, place) ==
  /\ pc[t] = "limited"
  /\ Submit(t, start[t], place)
  /\ pc' = [pc EXCEPT ![t] = Submitted(place)]
  /\ Publish(t)
  /\ UNCHANGED <<gcVars, db, used, started, sleepers>>

\* A task that ends without a commit
Rollback(t) ==
  /\ pc[t] = "run" /\ "rollback" \in Endings
  /\ where' = [where EXCEPT ![t] = "none"]
  /\ pc' = [pc EXCEPT ![t] = "none"]
  /\ DropVm(t)
  /\ effects' = [effects EXCEPT ![t] = {}]
  /\ UNCHANGED <<gcVars, db, used, started, start, mail, schedules, sleepers>>

\* handle_task_suspend
Suspend(t) ==
  /\ pc[t] = "suspend" /\ where[t] = "active"
  /\ where' = [where EXCEPT ![t] = "suspended"]
  /\ saved' = [saved EXCEPT ![t] = locals[t]]
  /\ EndTx(t)
  /\ Publish(t)
  /\ UNCHANGED <<gcVars, db, used, started, pc, locals, start, sleepers>>

\* A renewal: the task goes on in a new transaction, a fork after its request
Renew(t) ==
  /\ pc[t] \in {"renew", "fork"}
  /\ pc' = [pc EXCEPT ![t] = IF pc[t] = "fork" THEN "forking" ELSE "run"]
  /\ saved' = [saved EXCEPT ![t] = locals[t]]
  /\ BeginTx(t)
  /\ Publish(t)
  /\ UNCHANGED <<gcVars, db, used, started, where, locals, start, sleepers>>

\* request_fork: u is submitted with the activation of t, in a free place (a bound)
Fork(t, u, S, place) ==
  /\ pc[t] = "forking" /\ where[u] = "none" /\ S \subseteq locals[t]
  /\ Submit(u, S, place)
  /\ pc' = [pc EXCEPT ![t] = "run", ![u] = Submitted(place)]
  /\ UNCHANGED <<gcVars, db, used, started, outVars, sleepers>>

\* A suspended task goes on, with its messages, starts again after a conflict, or
\* starts: its VM state is set up then
Wake(t) ==
  /\ where[t] = "suspended" /\ ~BlocksAdmission
  /\ where' = [where EXCEPT ![t] = "active"]
  /\ pc' = [pc EXCEPT ![t] = "run"]
  /\ locals' = [locals EXCEPT ![t] = CASE pc[t] = "retry" -> saved[t]
                                       [] pc[t] = "pending" -> start[t]
                                       [] OTHER -> @ \cup mail[t]]
  /\ saved' = [saved EXCEPT ![t] = IF pc[t] = "pending" THEN start[t] ELSE @]
  /\ start' = [start EXCEPT ![t] = {}]
  /\ mail' = [mail EXCEPT ![t] = IF pc[t] = "suspend" THEN {} ELSE @]
  /\ BeginTx(t)
  /\ sleepers' = sleepers \ {t}
  /\ UNCHANGED <<gcVars, db, used, started, effects, schedules>>

-----------------------------------------------------------------------------
\* A collection cycle

others == <<db, used, started, where, pc, vmVars, txVars, outVars>>

\* What a cycle holds goes with it
EndCycle ==
  /\ phase' = "Idle" /\ valid' = FALSE
  /\ roots' = {} /\ snapshot' = EmptyDb /\ doomed' = {} /\ sleepers' = {}

\* GcCycle::begin, and prepare_mark under the lock: the roots and the timestamp
GatherRoots ==
  /\ phase = "Idle"
  /\ phase' = "Preparing"
  /\ roots' = TaskRoots \cup schedules
  /\ valid' = TRUE
  /\ sleepers' = Suspended
  /\ UNCHANGED <<snapshot, doomed, others>>

\* prepare_mark after it, and marking
OpenSnapshot ==
  /\ phase = "Preparing"
  /\ phase' = "Marking"
  /\ snapshot' = db
  /\ UNCHANGED <<valid, roots, doomed, others, sleepers>>

\* run_gc_mark_phase
Unreachable == snapshot.exists \ Reachable(snapshot, roots)

\* finish_mark, and sweep under its first lock
FinishMark ==
  /\ phase = "Marking"
  /\ IF Unreachable # {} /\ valid
       THEN /\ phase' = "Sweeping" /\ doomed' = Unreachable
            /\ roots' = {} /\ snapshot' = EmptyDb
            /\ UNCHANGED <<valid, sleepers>>
       ELSE EndCycle
  /\ UNCHANGED others

\* Mutant: the mutations of tasks that ended meanwhile are not looked at
AwaitTasks_NoRecheck ==
  /\ phase = "Sweeping" /\ Active = {}
  /\ phase' = "Deleting"
  /\ UNCHANGED <<valid, roots, snapshot, doomed, others, sleepers>>

\* Mutant: tasks that began before the sweep are not waited for
AwaitTasks_NoWait ==
  /\ phase = "Sweeping"
  /\ \/ valid /\ phase' = "Deleting"
        /\ UNCHANGED <<valid, roots, snapshot, doomed, sleepers>>
     \/ ~valid /\ EndCycle
  /\ UNCHANGED others

\* sweep: wait until no task is active, as long as nothing was mutated
AwaitTasks ==
  /\ phase = "Sweeping"
  /\ \/ valid /\ Active = {} /\ phase' = "Deleting"
        /\ UNCHANGED <<valid, roots, snapshot, doomed, sleepers>>
     \/ ~valid /\ EndCycle
  /\ UNCHANGED others

\* run_gc_sweep_phase; the drop of the cycle ends it, also when deletion fails
Delete ==
  /\ phase = "Deleting"
  /\ \/ db' = [exists |-> db.exists \ doomed,
               prop |-> [h \in Holders |-> IF h \in doomed THEN None ELSE db.prop[h]]]
     \/ UNCHANGED db
  /\ EndCycle
  /\ UNCHANGED <<used, started, where, pc, vmVars, txVars, outVars>>

-----------------------------------------------------------------------------
Init ==
  /\ phase = "Idle" /\ valid = FALSE /\ roots = {} /\ snapshot = EmptyDb /\ doomed = {}
  /\ scenario \in Scenarios
  /\ \E prop \in [Holders -> scenario.existing \cup {None}] :
       /\ \A h \in Anons \ scenario.existing : prop[h] = None
       /\ db = [exists |-> scenario.existing, prop |-> prop]
  /\ used = scenario.existing \cup scenario.gone /\ started = 0
  /\ where = [t \in Tasks |-> "none"] /\ pc = [t \in Tasks |-> "none"]
  /\ locals = [t \in Tasks |-> {}] /\ saved = [t \in Tasks |-> {}]
  /\ start = [t \in Tasks |-> {}]
  /\ view = [t \in Tasks |-> EmptyDb]
  /\ writes = [t \in Tasks |-> {}] /\ stale = [t \in Tasks |-> {}]
  /\ effects = [t \in Tasks |-> {}] /\ mail = [t \in Tasks |-> {}] /\ schedules = {}
  /\ sleepers = {}

Step ==
  \/ \E t \in Tasks, S \in SUBSET Anons, place \in Places : Start(t, S, place)
  \/ \E t, u \in Tasks, S \in SUBSET Anons, place \in Places : Fork(t, u, S, place)
  \/ \E t \in Tasks, S \in SUBSET Anons : Reserve(t, S)
  \/ \E t \in Tasks, place \in Places : FinishLimit(t, place)
  \/ \E t \in Tasks, x \in Anons : Create(t, x) \/ Drop(t, x)
  \/ \E t \in Tasks, h \in Holders : Read(t, h)
  \/ \E t \in Tasks, h \in Holders, v \in Anons \cup {None} : Write(t, h, v)
  \/ \E t, u \in Tasks, kind \in {"send", "schedule"}, x \in Anons : Buffer(t, kind, u, x)
  \/ \E x \in Anons : Unschedule(x)
  \/ \E t \in Tasks, e \in EndingKinds \cup {"success"} : Commit(t, e)
  \/ \E t \in Tasks : Conflict(t) \/ LimitRollback(t) \/ Finish(t) \/ Rollback(t)
                        \/ Suspend(t) \/ Renew(t) \/ Wake(t)
  \/ GatherRoots \/ OpenSnapshot \/ FinishMark \/ AwaitTasks \/ Delete

Next == Step /\ UNCHANGED scenario

Spec == Init /\ [][Next]_vars

-----------------------------------------------------------------------------
\* Properties

Dbs == [exists : SUBSET Anons, prop : [Holders -> Anons \cup {None}]]

Pcs == {"none", "pending", "run", "forking", "retry", "limited", "ended", "success"} \cup EndingKinds

\* Types
TypeOK ==
  /\ scenario \in Scenarios /\ used \subseteq Anons /\ started \in Nat
  /\ pc \in [Tasks -> Pcs] /\ sleepers \subseteq Tasks
  /\ effects \in [Tasks -> SUBSET ({"send", "schedule"} \X Tasks \X Anons)]
  /\ phase \in {"Idle", "Preparing", "Marking", "Sweeping", "Deleting"}
  /\ valid \in BOOLEAN /\ roots \subseteq Anons /\ doomed \subseteq Anons
  /\ snapshot \in Dbs /\ db \in Dbs /\ view \in [Tasks -> Dbs]
  /\ where \in [Tasks -> {"none", "active", "suspended"}]
  /\ locals \in [Tasks -> SUBSET Anons] /\ saved \in [Tasks -> SUBSET Anons]
  /\ start \in [Tasks -> SUBSET Anons]
  /\ writes \in [Tasks -> SUBSET Holders] /\ stale \in [Tasks -> SUBSET Holders]
  /\ mail \in [Tasks -> SUBSET Anons] /\ schedules \subseteq Anons

\* The programs run to their end: a transaction that suspends, renews, fails or
\* publishes between the gathering of the roots and the sweep is not noticed by it
RunToEnd == Endings \subseteq {"limit", "rollback"} /\ Effects = {}

\* No property of an object that exists refers to an object that was collected
NoDanglingProperty ==
  RunToEnd => \A h \in db.exists \cup {Root} : db.prop[h] \in db.exists \cup {None}

\* What a task goes on with: its start while it has no VM state, after a conflict
\* the state it restarts from, and what it has not created itself
Handles(t) ==
  CASE pc[t] = "pending" -> start[t]
    [] pc[t] = "retry" -> saved[t]
    [] OTHER -> locals[t] \ writes[t]

\* No task refers to an object that was collected, whatever it does
HandlesExist ==
  \A t \in Tasks : where[t] \in {"active", "suspended"} => Handles(t) \subseteq db.exists

\* t was started without references: it is no fork, schedule's firing or limit
\* handler that its starter gave some, and has not crossed a commit since
GivenNothing(t) == saved[t] \cup start[t] = {}

\* What a task that was started without references refers to exists
OwnHandlesExist ==
  \A t \in Tasks : where[t] \in {"active", "suspended"} /\ GivenNothing(t)
                      => Handles(t) \subseteq db.exists

\* As long as programs run to their end, no task that was started without references
\* refers to an object that was collected.  What a task was started with is in no
\* root set until it runs: the handler of a limit may find objects of its stack gone.
NoDanglingHandle == RunToEnd => OwnHandlesExist

\* No message refers to an object that was collected
NoDanglingMail == \A t \in Tasks : mail[t] \subseteq db.exists

\* No schedule refers to an object that was collected
NoDanglingSchedule == schedules \subseteq db.exists

\* A task that stays suspended while a cycle runs loses no object it refers to,
\* whatever the others do meanwhile, unless it still waits to be started
SleepersKeep ==
  [][\A t \in sleepers \cap Suspended :
       pc[t] # "pending" => Handles(t) \cap db.exists \subseteq db'.exists]_vars

\* ... and one that waits to be started keeps what its start refers to: the
\* manual's rule for suspended tasks, which the collection does not follow
PendingKeep ==
  [][\A t \in sleepers \cap Suspended :
       pc[t] = "pending" => Handles(t) \cap db.exists \subseteq db'.exists]_vars
=============================================================================
