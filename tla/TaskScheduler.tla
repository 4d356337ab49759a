--------------------------- MODULE TaskScheduler ---------------------------
(***************************************************************************)
(* The kernel's task scheduler: the active and suspended task sets behind  *)
(* one lifecycle mutex, the worker thread that runs each dispatch, the     *)
(* atomic TaskControl that arbitrates between cancellation and commit, the *)
(* wake queue with its generations, mailboxes, conflict retries, the       *)
(* garbage collector's admission gate and the shutdown that drains it all. *)
(*                                                                         *)
(* Each critical section of the mutex is one action; what a worker does    *)
(* outside the mutex (committing, session I/O, opening a transaction) is a *)
(* step of its own.  Programs, values, permissions and session output are  *)
(* left out: a scenario, chosen at the start, says which task's program    *)
(* may do what to which other task, and what may fail.                     *)
(***************************************************************************)
EXTENDS Naturals, FiniteSets

CONSTANTS
  Tasks,         \* task ids, each submitted at most once
  Player,        \* the player of each task
  Background,    \* tasks that are forks (prune_foreground_tasks spares them)
  Scenarios,     \* what programs and the environment may do
  MAX_RETRIES,   \* max_task_retries
  MAX_MAILBOX    \* max_task_mailbox

Builtins == {"wait", "send", "recv", "kill", "abort", "resume", "boot", "gc"}

FaultKinds == {"conflict", "reject", "session", "begin", "log", "notify",
               "panic", "timeout"}

WaitKinds == {"Never", "Time", "Task", "TaskMessage", "Input", "Worker"}

WakeKinds == WaitKinds \cup {"Immediate", "GCComplete", "Retry"}

\* calls: <<builtin, caller, target>>, what the programs may call; waits: how
\* they suspend; resumes: kinds of wait that resume() is aimed at; faults: what
\* may fail; collects: features.anonymous_objects, whether collections run;
\* boundaries: a bound on the yields, renewals and conflicts of one task
ScenarioType ==
  [calls : SUBSET (Builtins \X Tasks \X Tasks), waits : SUBSET WaitKinds,
   resumes : SUBSET WakeKinds, faults : SUBSET FaultKinds, collects : BOOLEAN,
   boundaries : Nat]

ASSUME SchedulerAssumption ==
  /\ IsFiniteSet(Tasks)
  /\ \A s \in Scenarios : s \in ScenarioType
  /\ MAX_RETRIES \in Nat
  /\ MAX_MAILBOX \in Nat

VARIABLES
  scenario,    \* what may happen in this behaviour; never changes
  state,       \* SchedulerState
  gc,          \* GcPhase; Preparing and Marking are one, collecting splits off
               \* the part of Sweeping that deletes
  gcForce,     \* gc_force_collect
  home,        \* where the task's record is: TaskQ.active, TaskQ.suspended
  live,        \* LiveTaskRegistry
  phase,       \* RunningTaskPhase
  control,     \* TaskControl
  effects,     \* PendingTaskEffects: targets of the messages not yet sent
               \* (bound: one for each target)
  mailbox,     \* task_message_queues: number of messages
  wake,        \* WakeCondition, with the task it waits for and whether that
               \* one was live when the wait began
  generation,  \* timer_generation
  signals,     \* immediate_wake_queue, as a set of task and generation
  pending,     \* pending_resume
  pc,          \* what the worker thread of the task's last dispatch does
  kept,        \* Kept of the outcome it is about to report
  tx,          \* its last transaction
  abandoned,   \* its VM state is that of an attempt that was rolled back
  retries,     \* Task.retries
  boundaries,  \* yields, renewals and conflicts so far
  result,      \* Kept of the outcome the task ended with
  settled      \* tasks whose outcome went to settled_results

gcVars == <<gc, gcForce>>
queueVars == <<home, live, wake, generation, signals, pending>>
messageVars == <<effects, mailbox>>
workerVars == <<pc, kept, tx, abandoned, retries, boundaries>>
outcomeVars == <<result, settled>>

schedulerVars == <<state, gcVars, queueVars, phase, control, messageVars, workerVars,
                   outcomeVars>>

vars == <<scenario, schedulerVars>>

Calls == scenario.calls
Waits == scenario.waits
ResumeKinds == scenario.resumes
Faults == scenario.faults
AnonymousObjects == scenario.collects
MaxBoundaries == scenario.boundaries

NoWake == [kind |-> "none"]

Active == {t \in Tasks : home[t] = "active"}
Suspended == {t \in Tasks : home[t] = "suspended"}

BlocksAdmission == gc \in {"sweeping", "collecting"}

\* is_running_dispatch: the worker's own record, still executing
RunningDispatch(t) == home[t] = "active" /\ phase[t] = "Running"

May(call, caller, target) == <<call, caller, target>> \in Calls

-----------------------------------------------------------------------------
\* TaskControl

IsCancelled(c) ==
  c \in {"Cancelled", "CancelAfterBoundaryCommit", "CancelAfterTerminalCommit"}

request_cancel(c) ==
  CASE c = "Running" -> "Cancelled"
    [] c = "BoundaryCommit" -> "CancelAfterBoundaryCommit"
    [] c = "TerminalCommit" -> "CancelAfterTerminalCommit"
    [] OTHER -> c

\* finish_boundary_commit, also the release of a claim whose commit failed
FinishBoundary(c) ==
  IF c = "BoundaryCommit" THEN "Running" ELSE "Cancelled"

FinishTerminal(c, committed) ==
  CASE committed -> "Finalizing"
    [] c = "TerminalCommit" -> "Running"
    [] OTHER -> "Cancelled"

-----------------------------------------------------------------------------
\* TaskQ and SuspensionQ

Signal(S) == {<<t, generation[t]>> : t \in S}

IsSignalled(t) == <<t, generation[t]>> \in signals

\* enqueue_dependents_for, for every task of S
Dependents(S) ==
  {u \in Suspended \ S : wake[u].kind = "Task" /\ wake[u].dep \in S}

\* message_waiting_tasks
Receivers(S) == {u \in Suspended \cap S : wake[u].kind = "TaskMessage"}

\* add_task: register_wake gives the wait a new generation and queues an
\* immediate wake.  A timer whose deadline has passed also goes there;
\* TimerExpires covers it.
Suspend(t, w) ==
  /\ home' = [home EXCEPT ![t] = "suspended"]
  /\ wake' = [wake EXCEPT ![t] = w]
  /\ generation' = [generation EXCEPT ![t] = @ + 1]

\* The tasks of S leave the queues and their registrations are dropped
Unregister(S) ==
  /\ home' = [t \in Tasks |-> IF t \in S THEN "ended" ELSE home[t]]
  /\ wake' = [t \in Tasks |-> IF t \in S THEN NoWake ELSE wake[t]]
  /\ pending' = [t \in Tasks |-> IF t \in S THEN FALSE ELSE pending[t]]
  /\ live' = live \ S
  /\ UNCHANGED generation

\* send_task_result_direct
SendResult(S, k) ==
  /\ result' = [t \in Tasks |-> IF t \in S THEN k ELSE result[t]]
  /\ settled' = settled \cup S

\* deliver_message for each pending message, then the mailboxes of the tasks
\* of S are removed
Deliver(sent, S) ==
  mailbox' = [u \in Tasks |-> IF u \in S THEN 0
                              ELSE IF u \in sent THEN mailbox[u] + 1
                              ELSE mailbox[u]]

\* Mutant: the effects are published whatever happened to the transaction
FinishTask_AlwaysPublishes(t, k) ==
  /\ Unregister({t})
  /\ SendResult({t}, k)
  /\ Deliver(effects[t], {t})
  /\ effects' = [effects EXCEPT ![t] = {}]
  /\ signals' = signals \cup Signal(Dependents({t}) \cup Receivers(effects[t]))

\* finish_task: settle_ending_task, then send_task_result
FinishTask(t, k) ==
  LET sent == IF k = "yes" THEN effects[t] ELSE {} IN
  /\ Unregister({t})
  /\ SendResult({t}, k)
  /\ Deliver(sent, {t})
  /\ effects' = [effects EXCEPT ![t] = {}]
  /\ signals' = signals \cup Signal(Dependents({t}) \cup Receivers(sent))

\* A continuation that has left suspension ends without a dispatch; sig is the
\* wake queue the caller leaves
EndUndispatched(S, k, sig) ==
  /\ Unregister(S)
  /\ SendResult(S, k)
  /\ Deliver({}, S)
  /\ signals' = sig \cup Signal(Dependents(S))
  /\ UNCHANGED <<phase, control, effects, workerVars>>

\* finish_failed_wakeup
FailedWakeup(t, sig) ==
  /\ "begin" \in Faults
  /\ EndUndispatched({t}, "no", sig)

\* dispatch_task and dispatch_retry_task: new control, new transaction, a
\* worker thread.  Only the second restores the VM state.
Dispatch(t, restore, sig, mail) ==
  \/ /\ home' = [home EXCEPT ![t] = "active"]
     /\ wake' = [wake EXCEPT ![t] = NoWake]
     /\ pending' = [pending EXCEPT ![t] = FALSE]
     /\ live' = live \cup {t}
     /\ phase' = [phase EXCEPT ![t] = "Running"]
     /\ control' = [control EXCEPT ![t] = "Running"]
     /\ effects' = [effects EXCEPT ![t] = {}]
     /\ pc' = [pc EXCEPT ![t] = "run"]
     /\ tx' = [tx EXCEPT ![t] = "open"]
     /\ abandoned' = [abandoned EXCEPT ![t] = @ /\ ~restore]
     /\ signals' = sig
     /\ mailbox' = mail
     /\ UNCHANGED <<generation, kept, retries, boundaries, outcomeVars>>
  \/ FailedWakeup(t, sig)

-----------------------------------------------------------------------------
\* Admission

\* submit_task: from a client, a fork, force_input or an error handler.  The
\* fork of a renewing task is submitted between RenewPublish and RenewOpen.
Submit(t, delayed) ==
  /\ state = "Running"
  /\ home[t] = "none"
  /\ \/ /\ delayed \/ BlocksAdmission \/ gcForce
        /\ Suspend(t, [kind |-> IF delayed THEN "Time" ELSE "GCComplete"])
        /\ live' = live \cup {t}
        /\ UNCHANGED <<signals, pending, phase, control, messageVars, workerVars,
                       outcomeVars>>
     \/ /\ ~delayed /\ ~BlocksAdmission /\ ~gcForce
        /\ Dispatch(t, FALSE, signals, mailbox)
  /\ UNCHANGED <<state, gcVars>>

-----------------------------------------------------------------------------
\* A worker thread

\* Mutant: the thread ends without a report
WorkerSeesCancel_Silent(t) ==
  /\ pc[t] = "run"
  /\ control[t] = "Cancelled"
  /\ tx' = [tx EXCEPT ![t] = "rolledback"]
  /\ pc' = [pc EXCEPT ![t] = "idle"]
  /\ UNCHANGED <<state, gcVars, queueVars, phase, control, messageVars, kept, abandoned,
                 retries, boundaries, outcomeVars>>

\* vm_dispatch sees the cancellation, or a claim is refused
WorkerSeesCancel(t) ==
  /\ pc[t] = "run"
  /\ control[t] = "Cancelled"
  /\ tx' = [tx EXCEPT ![t] = "rolledback"]
  /\ kept' = [kept EXCEPT ![t] = "no"]
  /\ pc' = [pc EXCEPT ![t] = "end"]
  /\ UNCHANGED <<state, gcVars, queueVars, phase, control, messageVars, abandoned,
                 retries, boundaries, outcomeVars>>

\* begin_commit: the CAS from Running
Claim(t, from, next) ==
  /\ pc[t] = "run"
  /\ control[t] = "Running"
  /\ control' = [control EXCEPT ![t] = from]
  /\ pc' = [pc EXCEPT ![t] = next]
  /\ UNCHANGED <<state, gcVars, queueVars, phase, messageVars, kept, tx, abandoned,
                 retries, outcomeVars>>

CountBoundary(t) ==
  /\ boundaries[t] < MaxBoundaries
  /\ boundaries' = [boundaries EXCEPT ![t] = @ + 1]

\* commit_yield_transaction, renew_transaction
Yield(t) == Claim(t, "BoundaryCommit", "yield") /\ CountBoundary(t)
Renew(t) == Claim(t, "BoundaryCommit", "renew") /\ CountBoundary(t)

\* commit_terminal_transaction, rollback_terminal_transaction
Complete(t) == Claim(t, "TerminalCommit", "terminal") /\ UNCHANGED boundaries

\* The database commits.  The claim of a boundary is kept until the scheduler
\* has the task back or the next transaction is open.
BoundaryCommits(t) ==
  /\ pc[t] \in {"yield", "renew"}
  /\ tx' = [tx EXCEPT ![t] = "committed"]
  /\ retries' = [retries EXCEPT ![t] = 0]
  /\ pc' = [pc EXCEPT ![t] = IF @ = "yield" THEN "yielded" ELSE "publish"]
  /\ UNCHANGED <<state, gcVars, queueVars, phase, control, messageVars, kept,
                 abandoned, boundaries, outcomeVars>>

\* What a worker does after a commit that failed with the given control:
\* conflict_outcome, commit_failure_outcome, or it was cancelled meanwhile
AfterFailure(t, c) ==
  /\ control' = [control EXCEPT ![t] = c]
  /\ tx' = [tx EXCEPT ![t] = "rolledback"]
  /\ \/ /\ c = "Running" /\ "conflict" \in Faults
        /\ pc' = [pc EXCEPT ![t] = "conflict"]
        /\ UNCHANGED kept
     \/ /\ c = "Cancelled" \/ "reject" \in Faults
        /\ pc' = [pc EXCEPT ![t] = "end"]
        /\ kept' = [kept EXCEPT ![t] = "no"]
  /\ UNCHANGED <<state, gcVars, queueVars, phase, messageVars, abandoned, retries,
                 outcomeVars>>

CommitMayFail == Faults \cap {"conflict", "reject"} # {}

BoundaryFails(t) ==
  /\ pc[t] \in {"yield", "renew"}
  /\ CommitMayFail
  /\ AfterFailure(t, FinishBoundary(control[t]))
  /\ UNCHANGED boundaries

TerminalFails(t) ==
  /\ pc[t] = "terminal"
  /\ CommitMayFail
  /\ CountBoundary(t)
  /\ AfterFailure(t, FinishTerminal(control[t], FALSE))

\* The terminal commit succeeds, or the task rolled back: rollback(), stopped,
\* or a limit with rollback_on_task_limit
TerminalEnds(t, k) ==
  /\ pc[t] = "terminal"
  /\ control' = [control EXCEPT ![t] = FinishTerminal(@, TRUE)]
  /\ tx' = [tx EXCEPT ![t] = IF k = "yes" THEN "committed" ELSE "rolledback"]
  /\ kept' = [kept EXCEPT ![t] = k]
  /\ pc' = [pc EXCEPT ![t] = "end"]
  /\ UNCHANGED <<state, gcVars, queueVars, phase, messageVars, abandoned, retries,
                 boundaries, outcomeVars>>

\* dispatch_retry: rollback_current_transaction and run again
ExplicitRetry(t) ==
  /\ pc[t] = "run"
  /\ "conflict" \in Faults
  /\ CountBoundary(t)
  /\ tx' = [tx EXCEPT ![t] = "rolledback"]
  /\ pc' = [pc EXCEPT ![t] = "conflict"]
  /\ UNCHANGED <<state, gcVars, queueVars, phase, control, messageVars, kept,
                 abandoned, retries, outcomeVars>>

\* The task could not be set up, or its command does not parse: no claim
CommandFails(t) ==
  /\ pc[t] = "run"
  /\ tx' = [tx EXCEPT ![t] = "rolledback"]
  /\ kept' = [kept EXCEPT ![t] = "no"]
  /\ pc' = [pc EXCEPT ![t] = "end"]
  /\ UNCHANGED <<state, gcVars, queueVars, phase, control, messageVars, abandoned,
                 retries, boundaries, outcomeVars>>

-----------------------------------------------------------------------------
\* Handing a task back at a yield

\* The rest of the worker's state when only its thread ends
WorkerLeaves(t) ==
  /\ pc' = [pc EXCEPT ![t] = "idle"]
  /\ UNCHANGED <<kept, tx, abandoned, retries, boundaries>>

\* CommitClaim::drop
DropClaim(t) == control' = [control EXCEPT ![t] = "Cancelled"]

\* Mutant: during shutdown the task is dropped, its record stays active
SuspendPrepare_LeavesActive(t) ==
  /\ pc[t] = "yielded"
  /\ RunningDispatch(t)
  /\ \/ /\ state = "Running"
        /\ phase' = [phase EXCEPT ![t] = "Suspending"]
        /\ pc' = [pc EXCEPT ![t] = "suspend"]
        /\ UNCHANGED <<control, kept, tx, abandoned, retries, boundaries>>
     \/ /\ state # "Running"
        /\ DropClaim(t)
        /\ WorkerLeaves(t)
        /\ UNCHANGED phase
  /\ UNCHANGED <<state, gcVars, queueVars, messageVars, outcomeVars>>

\* SuspensionTransition::prepare
SuspendPrepare(t) ==
  /\ pc[t] = "yielded"
  /\ RunningDispatch(t)
  /\ \/ /\ state = "Running"
        /\ phase' = [phase EXCEPT ![t] = "Suspending"]
        /\ pc' = [pc EXCEPT ![t] = "suspend"]
        /\ UNCHANGED <<queueVars, control, messageVars, kept, tx, abandoned, retries,
                       boundaries, outcomeVars>>
     \/ /\ state # "Running"
        /\ FinishTask(t, "yes")
        /\ DropClaim(t)
        /\ WorkerLeaves(t)
        /\ UNCHANGED phase
  /\ UNCHANGED <<state, gcVars>>

\* The record was replaced or detached: the task is dropped with its claim
SuspendStale(t) ==
  /\ \/ pc[t] = "yielded" /\ ~RunningDispatch(t)
     \/ pc[t] = "suspend" /\ home[t] # "active"
  /\ DropClaim(t)
  /\ WorkerLeaves(t)
  /\ UNCHANGED <<state, gcVars, queueVars, phase, messageVars, outcomeVars>>

\* The waits a program may ask for; task_recv finds the given mailbox
WaitFor(t, mail) ==
  {[kind |-> k] : k \in Waits \ {"Task", "TaskMessage"}}
    \cup {[kind |-> "Task", dep |-> d, depLive |-> d \in live] :
            d \in {u \in Tasks : "Task" \in Waits /\ May("wait", t, u)}}
    \cup {[kind |-> IF mail > 0 THEN "Immediate" ELSE k] : k \in Waits \cap {"TaskMessage"}}

\* Mutant: the wait keeps the generation of the last one
SuspendWait_SameGeneration(t) ==
  LET sent == effects[t]
      mail == [u \in Tasks |-> IF u \in sent THEN mailbox[u] + 1 ELSE mailbox[u]] IN
  /\ \E w \in WaitFor(t, mail[t]) :
       /\ home' = [home EXCEPT ![t] = "suspended"]
       /\ wake' = [wake EXCEPT ![t] = w]
       /\ mailbox' = IF w.kind = "Immediate" THEN [mail EXCEPT ![t] = 0] ELSE mail
       /\ signals' = signals \cup Signal(Receivers(sent))
            \cup IF w.kind = "Immediate" THEN {<<t, generation[t]>>} ELSE {}
  /\ effects' = [effects EXCEPT ![t] = {}]
  /\ UNCHANGED generation

\* publish_task_effects, then the wake condition is chosen and registered; a
\* task_recv takes the messages that are there, its own included
SuspendWait(t) ==
  LET sent == effects[t]
      mail == [u \in Tasks |-> IF u \in sent THEN mailbox[u] + 1 ELSE mailbox[u]] IN
  /\ \E w \in WaitFor(t, mail[t]) :
       /\ Suspend(t, w)
       /\ mailbox' = IF w.kind = "Immediate" THEN [mail EXCEPT ![t] = 0] ELSE mail
       /\ signals' = signals \cup Signal(Receivers(sent))
            \cup IF w.kind = "Immediate" THEN {<<t, generation[t] + 1>>} ELSE {}
  /\ effects' = [effects EXCEPT ![t] = {}]

\* Mutant: a cancellation that came during the session commit is not seen
SuspendFinish_IgnoresCancel(t) ==
  /\ pc[t] = "suspend"
  /\ home[t] = "active"
  /\ \/ /\ state = "Running"
        /\ control' = [control EXCEPT ![t] = FinishBoundary(@)]
        /\ SuspendWait(t)
        /\ UNCHANGED <<live, pending, outcomeVars>>
     \/ /\ state # "Running"
        /\ FinishTask(t, "yes")
        /\ DropClaim(t)
  /\ WorkerLeaves(t)
  /\ UNCHANGED <<state, gcVars, phase>>

\* handle_task_suspend and handle_task_request_input after the session commit
SuspendFinish(t) ==
  /\ pc[t] = "suspend"
  /\ home[t] = "active"
  /\ \/ /\ state = "Running" /\ control[t] = "BoundaryCommit"
        /\ control' = [control EXCEPT ![t] = FinishBoundary(@)]
        /\ SuspendWait(t)
        /\ UNCHANGED <<live, pending, outcomeVars>>
     \/ /\ state # "Running" \/ control[t] = "CancelAfterBoundaryCommit"
        /\ FinishTask(t, "yes")
        /\ DropClaim(t)
  /\ WorkerLeaves(t)
  /\ UNCHANGED <<state, gcVars, phase>>

\* The session could not commit or ask for input, or no worker took a request
SuspendFails(t) ==
  /\ pc[t] = "suspend"
  /\ home[t] = "active"
  /\ "session" \in Faults
  /\ FinishTask(t, "yes")
  /\ DropClaim(t)
  /\ WorkerLeaves(t)
  /\ UNCHANGED <<state, gcVars, phase>>

-----------------------------------------------------------------------------
\* Renewing the transaction of a task that keeps its thread

\* handle_request_new_transaction_for_dispatch
RenewPublish(t) ==
  /\ pc[t] = "publish"
  /\ RunningDispatch(t)
  /\ Deliver(effects[t], {})
  /\ effects' = [effects EXCEPT ![t] = {}]
  /\ signals' = signals \cup Signal(Receivers(effects[t]))
  /\ pc' = [pc EXCEPT ![t] = "open"]
  /\ UNCHANGED <<state, gcVars, home, live, wake, generation, pending, phase, control,
                 kept, tx, abandoned, retries, boundaries, outcomeVars>>

\* The next transaction is open and the boundary's claim is released
RenewOpen(t) ==
  /\ pc[t] = "open"
  /\ RunningDispatch(t)
  /\ control' = [control EXCEPT ![t] = FinishBoundary(@)]
  /\ \/ /\ control[t] = "BoundaryCommit"
        /\ pc' = [pc EXCEPT ![t] = "run"]
        /\ tx' = [tx EXCEPT ![t] = "open"]
        /\ UNCHANGED kept
     \/ /\ control[t] = "CancelAfterBoundaryCommit"
        /\ pc' = [pc EXCEPT ![t] = "end"]
        /\ tx' = [tx EXCEPT ![t] = "rolledback"]
        /\ kept' = [kept EXCEPT ![t] = "no"]
  /\ UNCHANGED <<state, gcVars, queueVars, phase, messageVars, abandoned, retries,
                 boundaries, outcomeVars>>

\* No transaction could be opened, or the task was detached
RenewBeginFails(t) ==
  /\ \/ pc[t] \in {"publish", "open"} /\ ~RunningDispatch(t)
     \/ pc[t] = "open" /\ "begin" \in Faults
  /\ control' = [control EXCEPT ![t] = FinishBoundary(@)]
  /\ kept' = [kept EXCEPT ![t] = IF control[t] = "BoundaryCommit" THEN "yes" ELSE "no"]
  /\ pc' = [pc EXCEPT ![t] = "end"]
  /\ UNCHANGED <<state, gcVars, queueVars, phase, messageVars, tx, abandoned, retries,
                 boundaries, outcomeVars>>

-----------------------------------------------------------------------------
\* Ending, retrying and cancelling a task

\* TaskCompletion::reserve: the result is fixed, session I/O follows unlocked
Reserve(t) ==
  /\ pc[t] = "end"
  /\ RunningDispatch(t)
  /\ phase' = [phase EXCEPT ![t] = "Completing"]
  /\ pc' = [pc EXCEPT ![t] = "finish"]
  /\ UNCHANGED <<state, gcVars, queueVars, control, messageVars, kept, tx, abandoned,
                 retries, boundaries, outcomeVars>>

\* The record is gone: the worker's report is ignored
ReportStale(t) ==
  /\ \/ pc[t] \in {"end", "conflict"} /\ ~RunningDispatch(t)
     \/ pc[t] = "finish" /\ home[t] # "active"
  /\ WorkerLeaves(t)
  /\ UNCHANGED <<state, gcVars, queueVars, phase, control, messageVars, outcomeVars>>

\* TaskCompletion::finish
Finish(t) ==
  /\ pc[t] = "finish"
  /\ home[t] = "active"
  /\ FinishTask(t, kept[t])
  /\ WorkerLeaves(t)
  /\ UNCHANGED <<state, gcVars, phase, control>>

\* handle_task_conflict_retry.  A task out of retries is reported and dropped;
\* its dependents and its mailbox are left as they are.
ConflictRetry(t) ==
  /\ pc[t] = "conflict"
  /\ RunningDispatch(t)
  /\ control' = [control EXCEPT ![t] = request_cancel(@)]
  /\ \/ /\ state # "Running"
        /\ FinishTask(t, "no")
        /\ UNCHANGED <<retries, abandoned>>
     \/ /\ state = "Running" /\ retries[t] >= MAX_RETRIES
        /\ Unregister({t})
        /\ SendResult({t}, "no")
        /\ effects' = [effects EXCEPT ![t] = {}]
        /\ UNCHANGED <<signals, mailbox, retries, abandoned>>
     \/ /\ state = "Running" /\ retries[t] < MAX_RETRIES
        /\ effects' = [effects EXCEPT ![t] = {}]
        /\ retries' = [retries EXCEPT ![t] = @ + 1]
        /\ abandoned' = [abandoned EXCEPT ![t] = TRUE]
        /\ Suspend(t, [kind |-> "Retry"])
        /\ UNCHANGED <<live, signals, pending, mailbox, outcomeVars>>
  /\ pc' = [pc EXCEPT ![t] = "idle"]
  /\ UNCHANGED <<state, gcVars, phase, kept, tx, boundaries>>

\* Mutant: the tasks that wait for a killed task are not queued
RemoveTerminal_Silent(S) == Unregister(S) /\ UNCHANGED signals

\* Suspended tasks are removed for good: nobody is told, their mailboxes stay
RemoveTerminal(S) ==
  /\ Unregister(S)
  /\ signals' = signals \cup Signal(Dependents(S))

\* Mutant: the claim a commit holds is not looked at
CancelTask_Detaches(v) ==
  /\ home[v] = "active" /\ phase[v] # "Completing"
  /\ RemoveTerminal({v})
  /\ control' = [control EXCEPT ![v] = request_cancel(@)]
  /\ UNCHANGED <<state, gcVars, phase, messageVars, workerVars, outcomeVars>>

\* cancel_task: a kill of another task, or abort_task by whoever gave up waiting
\* for v.  The record of an active task goes only if no commit is claimed.
CancelTask(v) ==
  /\ \/ home[v] = "suspended" /\ RemoveTerminal({v}) /\ UNCHANGED control
     \/ /\ home[v] = "active" /\ phase[v] # "Completing"
        /\ control' = [control EXCEPT ![v] = request_cancel(@)]
        /\ IF request_cancel(control[v]) = "Cancelled"
             THEN RemoveTerminal({v})
             ELSE UNCHANGED queueVars
  /\ UNCHANGED <<state, gcVars, phase, messageVars, workerVars, outcomeVars>>

\* kill_task(v) by task k; a task that kills itself completes instead
Kill(k, v) ==
  /\ k # v /\ May("kill", k, v)
  /\ pc[k] = "run" /\ RunningDispatch(k)
  /\ CancelTask(v)

\* abort_task(v), for a caller outside the world that gave up on v
Abort(v) == May("abort", v, v) /\ CancelTask(v)

\* disconnect_task: boot_player(p) by task k
Boot(k, p) ==
  LET pruned == {u \in Suspended \ Background : Player[u] = p} IN
  /\ \E u \in Tasks : May("boot", k, u) /\ Player[u] = p
  /\ pc[k] = "run" /\ RunningDispatch(k)
  /\ control' = [u \in Tasks |-> IF u # k /\ home[u] = "active" /\ Player[u] # p
                                   THEN request_cancel(control[u]) ELSE control[u]]
  /\ RemoveTerminal(pruned)
  /\ UNCHANGED <<state, gcVars, phase, messageVars, workerVars, outcomeVars>>

\* handle_notify_error_for_dispatch
NotifyFails(t) ==
  /\ "notify" \in Faults
  /\ pc[t] = "run" /\ RunningDispatch(t)
  /\ control' = [control EXCEPT ![t] = request_cancel(@)]
  /\ UNCHANGED <<state, gcVars, queueVars, phase, messageVars, workerVars, outcomeVars>>

\* handle_log_event_for_dispatch: the outcome is sent, the worker is not told
LogEventFails(t) ==
  /\ "log" \in Faults
  /\ pc[t] = "run" /\ RunningDispatch(t)
  /\ FinishTask(t, "no")
  /\ UNCHANGED <<state, gcVars, phase, control, workerVars>>

\* handle_task_abort_panicked_for_dispatch, after the thread has unwound
Panic(t) ==
  /\ "panic" \in Faults
  /\ pc[t] # "idle"
  /\ control' = [control EXCEPT ![t] =
       IF pc[t] \in {"yield", "renew", "terminal", "yielded", "suspend", "publish", "open"}
         THEN "Cancelled" ELSE @]
  /\ tx' = [tx EXCEPT ![t] = IF @ = "open" THEN "rolledback" ELSE @]
  /\ pc' = [pc EXCEPT ![t] = "idle"]
  /\ \/ home[t] = "active" /\ FinishTask(t, "unknown")
     \/ home[t] # "active" /\ UNCHANGED <<queueVars, messageVars, outcomeVars>>
  /\ UNCHANGED <<state, gcVars, phase, kept, abandoned, retries, boundaries>>

-----------------------------------------------------------------------------
\* Messages

\* handle_task_send_for_dispatch: the message is buffered until t commits
Send(t, u) ==
  /\ May("send", t, u)
  /\ pc[t] = "run" /\ RunningDispatch(t)
  /\ u \in live
  /\ u \notin effects[t]
  /\ mailbox[u] < MAX_MAILBOX
  /\ effects' = [effects EXCEPT ![t] = @ \cup {u}]
  /\ UNCHANGED <<state, gcVars, queueVars, phase, control, mailbox, workerVars,
                 outcomeVars>>

\* handle_task_recv_for_dispatch, after the renewal of task_recv(0)
Receive(t) ==
  /\ May("recv", t, t)
  /\ pc[t] = "run" /\ RunningDispatch(t)
  /\ mailbox[t] > 0
  /\ mailbox' = [mailbox EXCEPT ![t] = 0]
  /\ UNCHANGED <<state, gcVars, queueVars, phase, control, effects, workerVars,
                 outcomeVars>>

-----------------------------------------------------------------------------
\* Waking a suspended task

\* enqueue_expired_wakes
TimerExpires(t) ==
  /\ state # "Stopped"
  /\ home[t] = "suspended"
  /\ wake[t].kind \in {"Time", "Retry", "TaskMessage"}
  /\ ~IsSignalled(t)
  /\ signals' = signals \cup {<<t, generation[t]>>}
  /\ UNCHANGED <<state, gcVars, home, live, wake, generation, pending, phase, control,
                 messageVars, workerVars, outcomeVars>>

\* Mutant: a retry resumes where the abandoned attempt was
DrainWake_NoRestore(t) ==
  /\ state = "Running" /\ ~BlocksAdmission
  /\ home[t] = "suspended" /\ IsSignalled(t)
  /\ Dispatch(t, FALSE, signals \ {<<t, generation[t]>>},
       IF wake[t].kind = "TaskMessage" /\ ~pending[t]
         THEN [mailbox EXCEPT ![t] = 0] ELSE mailbox)
  /\ UNCHANGED <<state, gcVars>>

\* Mutant: a signal that comes up during a sweep is consumed
DrainWake_LostInSweep(t) ==
  /\ state = "Running"
  /\ home[t] = "suspended" /\ IsSignalled(t)
  /\ \/ /\ ~BlocksAdmission
        /\ Dispatch(t, wake[t].kind = "Retry", signals \ {<<t, generation[t]>>},
             IF wake[t].kind = "TaskMessage" /\ ~pending[t]
               THEN [mailbox EXCEPT ![t] = 0] ELSE mailbox)
     \/ /\ BlocksAdmission
        /\ signals' = signals \ {<<t, generation[t]>>}
        /\ UNCHANGED <<home, live, wake, generation, pending, phase, control, messageVars,
                       workerVars, outcomeVars>>
  /\ UNCHANGED <<state, gcVars>>

\* drain_immediate_wakes, one signal of the current generation; a task that
\* waited for messages takes those that are there
DrainWake(t) ==
  /\ state = "Running" /\ ~BlocksAdmission
  /\ home[t] = "suspended" /\ IsSignalled(t)
  /\ Dispatch(t, wake[t].kind = "Retry", signals \ {<<t, generation[t]>>},
       IF wake[t].kind = "TaskMessage" /\ ~pending[t]
         THEN [mailbox EXCEPT ![t] = 0] ELSE mailbox)
  /\ UNCHANGED <<state, gcVars>>

\* pop_immediate_wake passes over the signal of an earlier wait
DiscardSignal(t, g) ==
  /\ state = "Running" /\ ~BlocksAdmission
  /\ <<t, g>> \in signals
  /\ home[t] # "suspended" \/ g # generation[t]
  /\ signals' = signals \ {<<t, g>>}
  /\ UNCHANGED <<state, gcVars, home, live, wake, generation, pending, phase, control,
                 messageVars, workerVars, outcomeVars>>

\* defer_resume: the response is kept until the sweep is over
DeferResume(t) ==
  /\ Suspend(t, [kind |-> "Immediate"])
  /\ pending' = [pending EXCEPT ![t] = TRUE]
  /\ signals' = signals \cup {<<t, generation[t] + 1>>}
  /\ UNCHANGED <<live, phase, control, messageVars, workerVars, outcomeVars>>

\* cancel_undispatched_task: any wait but a retry's began with a commit
CancelUndispatched(S) ==
  EndUndispatched(S,
    IF \E t \in S : wake[t].kind = "Retry" THEN "no" ELSE "yes", signals)

\* Mutant: a response is dispatched in the middle of a sweep
WakeSuspended_DuringSweep(t) ==
  \/ state # "Running" /\ CancelUndispatched({t})
  \/ state = "Running" /\ Dispatch(t, FALSE, signals, mailbox)

\* wake_suspended_task
WakeSuspended(t) ==
  \/ state # "Running" /\ CancelUndispatched({t})
  \/ state = "Running" /\ BlocksAdmission /\ DeferResume(t)
  \/ state = "Running" /\ ~BlocksAdmission /\ Dispatch(t, FALSE, signals, mailbox)

\* submit_task_input_inner and handle_worker_response; the request is forgotten
\* with the wait, so a second response finds nothing
Respond(t) ==
  /\ state # "Stopped"
  /\ home[t] = "suspended"
  /\ wake[t].kind \in {"Input", "Worker"}
  /\ WakeSuspended(t)
  /\ UNCHANGED <<state, gcVars>>

\* resume_task: resume(t) by task r
Resume(r, t) ==
  /\ r # t /\ May("resume", r, t)
  /\ pc[r] = "run" /\ RunningDispatch(r)
  /\ home[t] = "suspended" /\ wake[t].kind \in ResumeKinds
  /\ ~pending[t]
  /\ WakeSuspended(t)
  /\ UNCHANGED <<state, gcVars>>

-----------------------------------------------------------------------------
\* Garbage collection as the scheduler sees it

\* handle_force_gc, handle_request_gc
ForceGc(t) ==
  /\ May("gc", t, t)
  /\ pc[t] = "run" /\ RunningDispatch(t)
  /\ AnonymousObjects /\ ~gcForce
  /\ gcForce' = TRUE
  /\ UNCHANGED <<state, gc, queueVars, phase, control, messageVars, workerVars,
                 outcomeVars>>

GcStep == UNCHANGED <<state, home, live, wake, generation, pending, phase, control,
                      messageVars, workerVars, outcomeVars>>

\* GcCycle::begin
BeginGc ==
  /\ AnonymousObjects
  /\ state = "Running" /\ gc = "idle"
  /\ gc' = "marking"
  /\ gcForce' = FALSE
  /\ GcStep /\ UNCHANGED signals

\* GcCycle::sweep, validated: admission is closed
StartSweep ==
  /\ state = "Running" /\ gc = "marking"
  /\ gc' = "sweeping"
  /\ GcStep /\ UNCHANGED <<gcForce, signals>>

\* No task is active any more: run_gc_sweep_phase begins
Collect ==
  /\ state = "Running" /\ gc = "sweeping"
  /\ Active = {}
  /\ gc' = "collecting"
  /\ GcStep /\ UNCHANGED <<gcForce, signals>>

\* GcCycle::drop
ReleaseGc ==
  /\ gc' = "idle"
  /\ signals' = signals \cup Signal({t \in Suspended : wake[t].kind = "GCComplete"})
  /\ GcStep /\ UNCHANGED gcForce

\* The mark found nothing, failed or was invalidated; the deletion is over
EndGc == gc \in {"marking", "collecting"} /\ ReleaseGc

\* A sweep gives up when the world changed or the scheduler is stopping
AbandonSweep == gc = "sweeping" /\ ReleaseGc

-----------------------------------------------------------------------------
\* Shutdown

\* Scheduler::stop: accepted responses are settled, active tasks are cancelled
Stop ==
  LET accepted == {t \in Tasks : pending[t]} IN
  /\ state = "Running"
  /\ state' = "Stopping"
  /\ control' = [t \in Tasks |-> IF home[t] = "active" THEN request_cancel(control[t])
                                 ELSE control[t]]
  /\ Unregister(accepted)
  /\ SendResult(accepted, "yes")
  /\ Deliver({}, accepted)
  /\ signals' = signals \cup Signal(Dependents(accepted))
  /\ UNCHANGED <<gcVars, phase, effects, workerVars>>

\* The deadline has passed: what is still active is detached and may yet commit
Detach ==
  /\ "timeout" \in Faults
  /\ state = "Stopping"
  /\ Active # {}
  /\ Unregister(Active)
  /\ SendResult(Active, "unknown")
  /\ Deliver({}, Active)
  /\ effects' = [t \in Tasks |-> IF home[t] = "active" THEN {} ELSE effects[t]]
  /\ signals' = signals \cup Signal(Dependents(Active))
  /\ UNCHANGED <<state, gcVars, phase, control, workerVars>>

\* No task is active, the collector is joined, the service loops are released
Stopped ==
  /\ state = "Stopping"
  /\ Active = {} /\ gc = "idle"
  /\ state' = "Stopped"
  /\ UNCHANGED <<gcVars, queueVars, phase, control, messageVars, workerVars, outcomeVars>>

-----------------------------------------------------------------------------
Init ==
  /\ scenario \in Scenarios
  /\ state = "Running"
  /\ gc = "idle" /\ gcForce = FALSE
  /\ home = [t \in Tasks |-> "none"]
  /\ live = {}
  /\ phase = [t \in Tasks |-> "Running"]
  /\ control = [t \in Tasks |-> "Running"]
  /\ effects = [t \in Tasks |-> {}]
  /\ mailbox = [t \in Tasks |-> 0]
  /\ wake = [t \in Tasks |-> NoWake]
  /\ generation = [t \in Tasks |-> 0]
  /\ signals = {}
  /\ pending = [t \in Tasks |-> FALSE]
  /\ pc = [t \in Tasks |-> "idle"]
  /\ kept = [t \in Tasks |-> "none"]
  /\ tx = [t \in Tasks |-> "none"]
  /\ abandoned = [t \in Tasks |-> FALSE]
  /\ retries = [t \in Tasks |-> 0]
  /\ boundaries = [t \in Tasks |-> 0]
  /\ result = [t \in Tasks |-> "none"]
  /\ settled = {}

\* Steps a worker thread takes by itself; every one of them ends the stretch it
\* is in, since tick and time limits end a program that does not
Worker(t) ==
  \/ WorkerSeesCancel(t) \/ Yield(t) \/ Renew(t) \/ Complete(t)
  \/ BoundaryCommits(t) \/ BoundaryFails(t)
  \/ TerminalFails(t) \/ TerminalEnds(t, "yes") \/ TerminalEnds(t, "no")
  \/ ExplicitRetry(t) \/ CommandFails(t)
  \/ SuspendPrepare(t) \/ SuspendStale(t) \/ SuspendFinish(t) \/ SuspendFails(t)
  \/ RenewPublish(t) \/ RenewOpen(t) \/ RenewBeginFails(t)
  \/ Reserve(t) \/ ReportStale(t) \/ Finish(t) \/ ConflictRetry(t)

Request(t) ==
  \/ \E u \in Tasks : Kill(t, u) \/ Send(t, u) \/ Resume(t, u) \/ Boot(t, Player[u])
  \/ Receive(t) \/ ForceGc(t)

Collector == BeginGc \/ StartSweep \/ Collect \/ EndGc \/ AbandonSweep

Step ==
  \/ \E t \in Tasks :
       \/ \E delayed \in BOOLEAN : Submit(t, delayed)
       \/ Worker(t) \/ Request(t)
       \/ NotifyFails(t) \/ LogEventFails(t) \/ Panic(t) \/ Abort(t)
       \/ TimerExpires(t) \/ DrainWake(t) \/ Respond(t)
       \/ \E g \in 0..generation[t] : DiscardSignal(t, g)
  \/ Collector
  \/ Stop \/ Detach \/ Stopped

Next == Step /\ UNCHANGED scenario

Spec == Init /\ [][Next]_vars

\* Worker threads are scheduled.  The timer loop runs every tick, and collections
\* are further apart than ticks, so a wake signal is not passed over for ever.  The
\* collector thread finishes its mark and its deletion, and a sweep looks at the
\* active set every 50 ms.  A stop is not assumed to be asked for, nor its deadline
\* to pass.
Fairness ==
  /\ \A t \in Tasks : WF_schedulerVars(Worker(t)) /\ SF_schedulerVars(DrainWake(t))
                        /\ WF_schedulerVars(TimerExpires(t))
  /\ WF_schedulerVars(BeginGc /\ gcForce)
  /\ WF_schedulerVars(EndGc)
  /\ WF_schedulerVars(Collect)
  /\ WF_schedulerVars(AbandonSweep /\ state # "Running")
  /\ WF_schedulerVars(Stopped)

FairSpec == Spec /\ Fairness

-----------------------------------------------------------------------------
\* Properties

Controls == {"Running", "Cancelled", "BoundaryCommit", "CancelAfterBoundaryCommit",
             "TerminalCommit", "CancelAfterTerminalCommit", "Finalizing"}

Pcs == {"idle", "run", "yield", "yielded", "suspend", "renew", "publish", "open",
        "terminal", "conflict", "end", "finish"}

Kepts == {"none", "yes", "no", "unknown"}

Wakes == [kind : (WakeKinds \ {"Task"}) \cup {"none"}]
           \cup [kind : {"Task"}, dep : Tasks, depLive : BOOLEAN]

TypeOK ==
  /\ scenario \in Scenarios
  /\ state \in {"Running", "Stopping", "Stopped"}
  /\ gc \in {"idle", "marking", "sweeping", "collecting"}
  /\ gcForce \in BOOLEAN
  /\ home \in [Tasks -> {"none", "active", "suspended", "ended"}]
  /\ live \subseteq Tasks
  /\ phase \in [Tasks -> {"Running", "Suspending", "Completing"}]
  /\ control \in [Tasks -> Controls]
  /\ effects \in [Tasks -> SUBSET Tasks]
  /\ mailbox \in [Tasks -> Nat]
  /\ wake \in [Tasks -> Wakes]
  /\ generation \in [Tasks -> Nat]
  /\ signals \subseteq Tasks \X Nat
  /\ pending \in [Tasks -> BOOLEAN]
  /\ pc \in [Tasks -> Pcs]
  /\ kept \in [Tasks -> Kepts]
  /\ tx \in [Tasks -> {"none", "open", "committed", "rolledback"}]
  /\ abandoned \in [Tasks -> BOOLEAN]
  /\ retries \in [Tasks -> Nat]
  /\ boundaries \in [Tasks -> Nat]
  /\ result \in [Tasks -> Kepts]
  /\ settled \subseteq Tasks

\* The lock-free LiveTaskRegistry holds exactly the tasks that are active or
\* suspended, across every hand-over between the two and every way to end
RegistryExact == live = Active \cup Suspended

\* While the collector deletes, no worker can still commit: none is active, and
\* one that was killed and has not noticed yet can claim no commit
SweepAlone ==
  gc = "collecting" =>
    \A t \in Tasks : pc[t] \in {"idle", "conflict", "end", "finish"}
                       \/ control[t] = "Cancelled"

\* A response accepted during a sweep is queued until it is dispatched, and settled
\* by a shutdown, which would not save it
NoMissedResponse ==
  \A t \in Tasks :
    /\ home[t] = "suspended" /\ (pending[t] \/ wake[t].kind = "Immediate") => IsSignalled(t)
    /\ pending[t] => state = "Running"

\* A task that waits for an answer, or for nobody, is not queued by a signal meant
\* for an earlier wait
NoSpuriousWake ==
  \A t \in Tasks : home[t] = "suspended" /\ wake[t].kind \in {"Never", "Input", "Worker"}
                     => ~IsSignalled(t)

\* A task that waits for messages and has one is queued
NoMissedMessage ==
  \A t \in Tasks : home[t] = "suspended" /\ wake[t].kind = "TaskMessage" /\ mailbox[t] > 0
                     => IsSignalled(t)

\* A task held back by a collection is queued once none is running or asked for
NoMissedCollection ==
  \A t \in Tasks : home[t] = "suspended" /\ wake[t].kind = "GCComplete"
                     => gcForce \/ gc # "idle" \/ IsSignalled(t)

\* The task that gave up after its last retry: aborted, nothing kept, its dispatch
\* cancelled (AbortReason::ConflictRetriesExhausted).  A last attempt that was cancelled
\* from outside, or by a shutdown, looks the same.
OutOfRetries(d) ==
  retries[d] >= MAX_RETRIES /\ control[d] = "Cancelled" /\ result[d] = "no"

\* A task that waits for another is queued when that one, live when the wait began,
\* has ended (wait_task): completed, killed, booted, panicked, detached or refused.
\* The one end that queues nobody is that of a task out of retries, which
\* handle_task_conflict_retry drops without a word to its dependents.
NoMissedEnd ==
  \A t \in Tasks :
    home[t] = "suspended" /\ wake[t].kind = "Task"
      /\ wake[t].depLive /\ home[wake[t].dep] = "ended" /\ ~OutOfRetries(wake[t].dep)
      => IsSignalled(t)

\* Every wait whose condition has come true is queued, the wait for a task that runs
\* out of retries excepted
NoMissedWake == NoMissedResponse /\ NoMissedMessage /\ NoMissedCollection /\ NoMissedEnd

\* A task that waits for one that has already ended is queued
WaitEnds ==
  \A t \in Tasks : home[t] = "suspended" /\ wake[t].kind = "Task"
                     /\ home[wake[t].dep] = "ended" => IsSignalled(t)

\* The outcome says whether the last transaction committed (TaskOutcome.kept)
KeptTruthful ==
  \A t \in Tasks :
    /\ result[t] = "yes" => tx[t] \in {"none", "committed"}
    /\ result[t] = "no" => tx[t] # "committed"

\* A program never runs on from the VM state of an attempt that was rolled back
RestoredBeforeRun == \A t \in Tasks : pc[t] = "run" => ~abandoned[t]

\* Every task that ended went through settled_results
EndedSettled == \A t \in Tasks : home[t] = "ended" => t \in settled

\* A task that has ended has no mailbox
NoOrphanMailbox == \A t \in Tasks : home[t] = "ended" => mailbox[t] = 0

\* A mailbox holds at most max_task_mailbox messages
MailboxBounded == \A t \in Tasks : mailbox[t] <= MAX_MAILBOX

\* A cancelled dispatch leaves the active set only by ending
CancelledEnds ==
  [][\A t \in Tasks : home[t] = "active" /\ IsCancelled(control[t])
                        => home'[t] \in {"active", "ended"}]_vars

\* A message reaches a mailbox only when its sender's transaction has committed
EffectsFollowCommit ==
  [][\A u \in Tasks : mailbox'[u] > mailbox[u] =>
       \E t \in Tasks : u \in effects[t] /\ effects'[t] = {} /\ tx[t] = "committed"]_vars

\* boot_player cancels tasks of the booted player only
BootSparesOthers ==
  [][\A k \in Tasks, p \in {Player[u] : u \in Tasks} :
       Boot(k, p) => \A u \in Tasks : Player[u] # p => control'[u] = control[u]]_vars

\* A stop that has begun completes, without help from its deadline
StopCompletes == state = "Stopping" ~> state = "Stopped"

\* A queued wake is dispatched, unless the task ends first or the scheduler stops
WakeDelivered ==
  \A t \in Tasks : home[t] = "suspended" /\ IsSignalled(t)
                     ~> home[t] # "suspended" \/ state # "Running"

\* A cancelled task stops
CancelHonoured ==
  \A t \in Tasks : home[t] = "active" /\ IsCancelled(control[t]) ~> home[t] # "active"

\* The scheduler keeps the contract of each task
Contract == INSTANCE TaskContract WITH
  status <- [t \in Tasks |-> IF t \in live THEN "live" ELSE
                             IF home[t] = "none" THEN "none" ELSE "ended"],
  told <- result

KeepsContract == Contract!Spec
=============================================================================
