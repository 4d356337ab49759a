------------------------ MODULE TaskSchedulerProofs ------------------------
(***************************************************************************)
(* Proofs about the task scheduler, for any tasks, programs, faults and    *)
(* limits.                                                                 *)
(***************************************************************************)
EXTENDS TaskScheduler, TLAPS

-----------------------------------------------------------------------------
\* The inductive invariant, in parts

\* A task's record, the thread of its last dispatch and its wait agree
RecordAgrees ==
  \A t \in Tasks :
    /\ home[t] = "none" => tx[t] = "none"
    /\ home[t] \in {"none", "suspended"} => pc[t] = "idle"
    /\ home[t] = "active" => pc[t] # "idle"
    /\ home[t] = "active" /\ phase[t] # "Running" => pc[t] \in {"suspend", "finish"}
    /\ home[t] # "ended" => result[t] = "none"
    /\ pending[t] => home[t] = "suspended" /\ wake[t].kind = "Immediate"

\* What a thread is doing tells the state of its transaction and of its TaskControl
WorkerAgrees ==
  \A t \in Tasks :
    /\ pc[t] \in {"run", "yield", "renew", "terminal"} => tx[t] = "open"
    /\ pc[t] \in {"yielded", "suspend", "publish", "open"} => tx[t] = "committed"
    /\ pc[t] = "conflict" => tx[t] = "rolledback"
    /\ pc[t] \in {"run", "conflict"} => control[t] \in {"Running", "Cancelled"}
    /\ pc[t] \in {"yield", "renew", "yielded", "suspend", "publish", "open"} =>
         control[t] \in {"BoundaryCommit", "CancelAfterBoundaryCommit"}
    /\ pc[t] = "terminal" => control[t] \in {"TerminalCommit", "CancelAfterTerminalCommit"}
    /\ pc[t] \in {"end", "finish"} /\ kept[t] = "yes" => tx[t] = "committed"

\* A signal is of the current wait or an earlier one
SignalsPast == \A s \in signals : s[2] <= generation[s[1]]

CoreInv == TypeOK /\ RegistryExact /\ RecordAgrees /\ WorkerAgrees /\ SignalsPast

\* A thread whose task has ended can commit only if the outcome left that open; a
\* failed event log ends a task behind its thread's back (LogEventFails)
EndedCannotCommit ==
  "log" \notin Faults =>
    \A t \in Tasks :
      home[t] = "ended" /\ pc[t] \notin {"idle", "conflict", "end", "finish"} =>
        result[t] = "unknown" \/ (pc[t] = "run" /\ control[t] = "Cancelled")

\* ... which only the deadline of a shutdown does, and not during a deletion
DetachedByStop ==
  \A t \in Tasks : result[t] = "unknown" /\ pc[t] # "idle" => state # "Running" /\ gc # "collecting"

\* Nothing is active while the collector deletes
CollectsAlone == gc = "collecting" => Active = {}

\* The outcome a thread reports as not kept did not commit, unless it was the opening
\* of the next transaction that failed
ReportTruthful ==
  "begin" \notin Faults =>
    \A t \in Tasks :
      home[t] = "active" /\ pc[t] \in {"end", "finish"} /\ kept[t] = "no" => tx[t] # "committed"

\* A wait begins with a commit, or is a retry; resume() of a retry blurs that
WaitsCommitted ==
  "Retry" \notin ResumeKinds =>
    \A t \in Tasks : home[t] = "suspended" =>
      IF wake[t].kind = "Retry" THEN tx[t] = "rolledback" ELSE tx[t] \in {"none", "committed"}

\* A VM state to be restored is that of a task waiting for its retry
AbandonedWaits ==
  "Retry" \notin ResumeKinds =>
    \A t \in Tasks : abandoned[t] =>
      \/ home[t] = "suspended" /\ wake[t].kind = "Retry"
      \/ home[t] = "ended" /\ pc[t] = "idle"

\* Nothing marks a running task as cancelled and leaves its record active
NoSoftCancel == "notify" \notin Faults /\ \A t, u \in Tasks : ~May("boot", t, u)

CancelSeen ==
  NoSoftCancel =>
    \A t \in Tasks : state = "Running" /\ home[t] = "active" /\ pc[t] \in {"run", "conflict"} =>
                       control[t] = "Running"

NoConflicts == "conflict" \notin Faults => \A t \in Tasks : pc[t] # "conflict"

-----------------------------------------------------------------------------
\* The actions, as one disjunction
LEMMA StepCases ==
  ASSUME [Next]_vars
  PROVE  /\ UNCHANGED scenario
         /\ \/ \E t \in Tasks, delayed \in BOOLEAN : Submit(t, delayed)
            \/ \E t \in Tasks : Worker(t)
            \/ \E t, u \in Tasks : Kill(t, u) \/ Send(t, u) \/ Resume(t, u) \/ Boot(t, Player[u])
            \/ \E t \in Tasks : Receive(t) \/ ForceGc(t)
            \/ \E t \in Tasks : NotifyFails(t) \/ LogEventFails(t) \/ Panic(t) \/ Abort(t)
            \/ \E t \in Tasks : TimerExpires(t) \/ DrainWake(t) \/ Respond(t)
            \/ \E t \in Tasks : \E g \in 0..generation[t] : DiscardSignal(t, g)
            \/ Collector \/ Stop \/ Detach \/ Stopped
            \/ UNCHANGED vars
BY DEF Next, Step, Request, vars

\* The waits of a scenario, and of the model, are wake conditions
LEMMA WakeTypes ==
  /\ NoWake \in Wakes
  /\ \A k \in WakeKinds \ {"Task"} : [kind |-> k] \in Wakes
  /\ \A w \in Wakes : w.kind = "Task" => w.dep \in Tasks
BY DEF NoWake, Wakes

\* What a program may wait for
LEMMA WaitForTypes ==
  ASSUME TypeOK, NEW t \in Tasks, NEW m, NEW w \in WaitFor(t, m)
  PROVE  /\ w \in Wakes
         /\ w.kind \in Waits \cup {"Immediate"}
         /\ w.kind \in WaitKinds \cup {"Immediate"}
         /\ w.kind = "Immediate" => m > 0
         /\ w.kind = "TaskMessage" => ~(m > 0)
         /\ w.kind = "Task" => w.dep \in Tasks /\ (w.depLive => w.dep \in live)
<1>1. Waits \subseteq WaitKinds
  BY SchedulerAssumption DEF TypeOK, ScenarioType, Waits
<1>2. CASE w \in {[kind |-> k] : k \in Waits \ {"Task", "TaskMessage"}}
  BY <1>1, <1>2 DEF Wakes, WakeKinds, WaitKinds
<1>3. CASE w \in {[kind |-> "Task", dep |-> d, depLive |-> d \in live] :
                    d \in {u \in Tasks : "Task" \in Waits /\ May("wait", t, u)}}
  <2>1. PICK d \in Tasks : /\ w = [kind |-> "Task", dep |-> d, depLive |-> d \in live]
                           /\ "Task" \in Waits
    BY <1>3
  <2>2. w.kind = "Task" /\ w.dep = d  BY <2>1
  <2>3. w.depLive => d \in live  BY <2>1
  <2>4. (d \in live) \in BOOLEAN  OBVIOUS
  <2>5. w \in [kind : {"Task"}, dep : Tasks, depLive : BOOLEAN]  BY <2>1, <2>4
  <2> QED BY <1>1, <2>1, <2>2, <2>3, <2>5 DEF Wakes, WaitKinds
<1>4. CASE w \in {[kind |-> IF m > 0 THEN "Immediate" ELSE k] : k \in Waits \cap {"TaskMessage"}}
  BY <1>1, <1>4 DEF Wakes, WakeKinds, WaitKinds
<1> QED BY <1>2, <1>3, <1>4 DEF WaitFor

-----------------------------------------------------------------------------
\* Types

\* The registrations and the outcomes keep their types, whichever tasks end
LEMMA UnregisterTypes ==
  ASSUME TypeOK, NEW S \in SUBSET Tasks, Unregister(S)
  PROVE  /\ home' \in [Tasks -> {"none", "active", "suspended", "ended"}]
         /\ wake' \in [Tasks -> Wakes]
         /\ pending' \in [Tasks -> BOOLEAN]
         /\ live' \subseteq Tasks
         /\ generation' \in [Tasks -> Nat]
<1>1. pending' \in [Tasks -> BOOLEAN]  BY Zenon DEF Unregister, TypeOK
<1> QED BY <1>1, WakeTypes DEF Unregister, TypeOK

\* Wake-ups are signals of tasks with a generation
LEMMA SignalTypes ==
  ASSUME TypeOK, NEW S \in SUBSET Tasks
  PROVE  /\ Signal(S) \subseteq Tasks \X Nat
         /\ Dependents(S) \subseteq Tasks
         /\ Receivers(S) \subseteq Tasks
BY DEF TypeOK, Signal, Dependents, Receivers, Suspended

\* A task that ends through finish_task leaves every queue well-typed
LEMMA FinishTaskTypes ==
  ASSUME TypeOK, NEW t \in Tasks, NEW k \in Kepts, FinishTask(t, k)
  PROVE  /\ home' \in [Tasks -> {"none", "active", "suspended", "ended"}]
         /\ wake' \in [Tasks -> Wakes]
         /\ pending' \in [Tasks -> BOOLEAN]
         /\ live' \subseteq Tasks
         /\ generation' \in [Tasks -> Nat]
         /\ result' \in [Tasks -> Kepts] /\ settled' \subseteq Tasks
         /\ mailbox' \in [Tasks -> Nat] /\ effects' \in [Tasks -> SUBSET Tasks]
         /\ signals' \subseteq Tasks \X Nat
<1>1. Unregister({t})  BY DEF FinishTask
<1>2. result' \in [Tasks -> Kepts] /\ settled' \subseteq Tasks
  BY DEF FinishTask, SendResult, TypeOK
<1>3. mailbox' \in [Tasks -> Nat] /\ effects' \in [Tasks -> SUBSET Tasks]
  BY DEF FinishTask, Deliver, TypeOK
<1>4. PICK sent \in SUBSET Tasks : signals' = signals \cup Signal(Dependents({t}) \cup Receivers(sent))
  BY DEF FinishTask, TypeOK
<1>5. signals' \subseteq Tasks \X Nat
  BY <1>4, SignalTypes DEF TypeOK
<1> QED BY <1>1, <1>2, <1>3, <1>5, UnregisterTypes

\* Ending tasks that were not dispatched leaves every queue well-typed
LEMMA EndUndispatchedTypes ==
  ASSUME TypeOK, NEW S \in SUBSET Tasks, NEW k \in Kepts, NEW sig \in SUBSET (Tasks \X Nat),
         EndUndispatched(S, k, sig), UNCHANGED <<scenario, state, gcVars>>
  PROVE  TypeOK'
<1>1. Unregister(S)  BY DEF EndUndispatched
<1>2. result' \in [Tasks -> Kepts] /\ settled' \subseteq Tasks /\ mailbox' \in [Tasks -> Nat]
  BY DEF EndUndispatched, SendResult, Deliver, TypeOK
<1>3. signals' \subseteq Tasks \X Nat
  BY SignalTypes DEF EndUndispatched
<1> QED BY <1>1, <1>2, <1>3, UnregisterTypes DEF EndUndispatched, TypeOK, gcVars, workerVars

\* Dispatching a task, or failing to, leaves every queue well-typed
LEMMA DispatchTypes ==
  ASSUME TypeOK, NEW t \in Tasks, NEW restore \in BOOLEAN, NEW sig \in SUBSET (Tasks \X Nat),
         NEW mail \in [Tasks -> Nat], Dispatch(t, restore, sig, mail),
         UNCHANGED <<scenario, state, gcVars>>
  PROVE  TypeOK'
<1>1. CASE FailedWakeup(t, sig)
  BY <1>1, EndUndispatchedTypes DEF FailedWakeup, Kepts
<1>2. CASE ~FailedWakeup(t, sig)
  <2>1. pending' \in [Tasks -> BOOLEAN] /\ abandoned' \in [Tasks -> BOOLEAN]
    BY <1>2 DEF Dispatch, TypeOK
  <2>2. wake' \in [Tasks -> Wakes] /\ live' \subseteq Tasks /\ effects' \in [Tasks -> SUBSET Tasks]
    BY <1>2, WakeTypes DEF Dispatch, TypeOK
  <2>3. control' \in [Tasks -> Controls] /\ pc' \in [Tasks -> Pcs]
    BY <1>2 DEF Dispatch, TypeOK, Controls, Pcs
  <2> QED BY <1>2, <2>1, <2>2, <2>3 DEF Dispatch, TypeOK, gcVars, outcomeVars
<1> QED BY <1>1, <1>2

\* Waking a suspended task leaves every queue well-typed
LEMMA WakeSuspendedTypes ==
  ASSUME TypeOK, NEW t \in Tasks, WakeSuspended(t), UNCHANGED <<scenario, state, gcVars>>
  PROVE  TypeOK'
<1>1. CASE CancelUndispatched({t})
  BY <1>1, EndUndispatchedTypes DEF CancelUndispatched, Kepts, TypeOK
<1>2. CASE DeferResume(t)
  <2>1. signals' \subseteq Tasks \X Nat /\ generation' \in [Tasks -> Nat]
    BY <1>2 DEF DeferResume, Suspend, TypeOK
  <2>2. pending' \in [Tasks -> BOOLEAN]  BY <1>2 DEF DeferResume, TypeOK
  <2> QED
    BY <1>2, <2>1, <2>2, WakeTypes
    DEF DeferResume, Suspend, TypeOK, gcVars, messageVars, workerVars, outcomeVars, WakeKinds
<1>3. CASE Dispatch(t, FALSE, signals, mailbox)
  BY <1>3, DispatchTypes DEF TypeOK
<1> QED BY <1>1, <1>2, <1>3 DEF WakeSuspended

\* Every step keeps the types
LEMMA TypeStep ==
  ASSUME TypeOK, [Next]_vars
  PROVE  TypeOK'
<1> USE DEF gcVars, queueVars, messageVars, workerVars, outcomeVars
<1>0. UNCHANGED scenario  BY StepCases
<1>1. ASSUME NEW t \in Tasks, NEW delayed \in BOOLEAN, Submit(t, delayed) PROVE TypeOK'
  <2>1. CASE Dispatch(t, FALSE, signals, mailbox)
    BY <1>0, <1>1, <2>1, DispatchTypes DEF Submit, TypeOK
  <2>2. CASE ~Dispatch(t, FALSE, signals, mailbox)
    <3>1. PICK k \in WakeKinds \ {"Task"} : Suspend(t, [kind |-> k])
      BY <1>1, <2>2 DEF Submit, WakeKinds, WaitKinds
    <3>2. wake' \in [Tasks -> Wakes] /\ generation' \in [Tasks -> Nat]
      BY <3>1, WakeTypes DEF Suspend, TypeOK
    <3> QED BY <1>0, <1>1, <2>2, <3>1, <3>2 DEF Submit, Suspend, TypeOK
  <2> QED BY <2>1, <2>2
<1>2. ASSUME NEW t \in Tasks, WorkerSeesCancel(t) \/ ExplicitRetry(t) \/ CommandFails(t) PROVE TypeOK'
  BY <1>0, <1>2 DEF WorkerSeesCancel, ExplicitRetry, CommandFails, CountBoundary, TypeOK, Pcs, Kepts
<1>3. ASSUME NEW t \in Tasks, Yield(t) \/ Renew(t) \/ Complete(t) PROVE TypeOK'
  BY <1>0, <1>3 DEF Yield, Renew, Complete, Claim, CountBoundary, TypeOK, Pcs, Controls
<1>4. ASSUME NEW t \in Tasks, BoundaryCommits(t) PROVE TypeOK'
  BY <1>0, <1>4 DEF BoundaryCommits, TypeOK, Pcs
<1>5. ASSUME NEW t \in Tasks, NEW c \in Controls, AfterFailure(t, c), CountBoundary(t) \/ UNCHANGED boundaries
      PROVE  TypeOK'
  <2>1. boundaries' \in [Tasks -> Nat]
    BY <1>5 DEF CountBoundary, TypeOK
  <2>2. pc' \in [Tasks -> Pcs] /\ kept' \in [Tasks -> Kepts]
    <3>1. CASE pc' = [pc EXCEPT ![t] = "conflict"] /\ UNCHANGED kept  BY <3>1 DEF TypeOK, Pcs
    <3>2. CASE pc' = [pc EXCEPT ![t] = "end"] /\ kept' = [kept EXCEPT ![t] = "no"]
      BY <3>2 DEF TypeOK, Pcs, Kepts
    <3> QED BY <1>5, <3>1, <3>2 DEF AfterFailure
  <2>3. /\ control' \in [Tasks -> Controls]
        /\ tx' \in [Tasks -> {"none", "open", "committed", "rolledback"}]
    BY <1>5 DEF AfterFailure, TypeOK
  <2>4. UNCHANGED <<state, gcVars, queueVars, phase, messageVars, abandoned, retries, outcomeVars>>
    BY <1>5 DEF AfterFailure
  <2> QED BY <1>0, <2>1, <2>2, <2>3, <2>4 DEF TypeOK
<1>6. ASSUME NEW t \in Tasks, BoundaryFails(t) \/ TerminalFails(t) PROVE TypeOK'
  BY <1>5, <1>6 DEF BoundaryFails, TerminalFails, FinishBoundary, FinishTerminal, Controls
<1>7. ASSUME NEW t \in Tasks, NEW k \in {"yes", "no"}, TerminalEnds(t, k) PROVE TypeOK'
  BY <1>0, <1>7 DEF TerminalEnds, FinishTerminal, TypeOK, Pcs, Kepts, Controls
<1>8. ASSUME NEW t \in Tasks, NEW k \in Kepts, FinishTask(t, k), WorkerLeaves(t), DropClaim(t),
             UNCHANGED <<state, gcVars, phase>>
      PROVE  TypeOK'
  BY <1>0, <1>8, FinishTaskTypes DEF WorkerLeaves, DropClaim, TypeOK, Pcs, Controls
<1>9. ASSUME NEW t \in Tasks, SuspendPrepare(t) PROVE TypeOK'
  <2>1. CASE state = "Running"
    BY <1>0, <1>9, <2>1 DEF SuspendPrepare, TypeOK, Pcs
  <2>2. CASE state # "Running"
    BY <1>9, <1>8, <2>2 DEF SuspendPrepare, Kepts
  <2> QED BY <2>1, <2>2
<1>10. ASSUME NEW t \in Tasks, SuspendStale(t) PROVE TypeOK'
  BY <1>0, <1>10 DEF SuspendStale, DropClaim, WorkerLeaves, TypeOK, Pcs, Controls
<1>11. ASSUME NEW t \in Tasks, SuspendFinish(t) PROVE TypeOK'
  <2>1. CASE FinishTask(t, "yes") /\ DropClaim(t)
    BY <1>8, <1>11, <2>1 DEF SuspendFinish, Kepts
  <2>2. CASE ~(FinishTask(t, "yes") /\ DropClaim(t))
    <3>1. SuspendWait(t) /\ UNCHANGED <<live, pending, outcomeVars>> /\ control' \in [Tasks -> Controls]
      BY <1>11, <2>2 DEF SuspendFinish, FinishBoundary, TypeOK, Controls
    <3> DEFINE mail == [u \in Tasks |-> IF u \in effects[t] THEN mailbox[u] + 1 ELSE mailbox[u]]
    <3>2. PICK w \in WaitFor(t, mail[t]) :
            /\ Suspend(t, w)
            /\ mailbox' = IF w.kind = "Immediate" THEN [mail EXCEPT ![t] = 0] ELSE mail
            /\ signals' = signals \cup Signal(Receivers(effects[t]))
                 \cup IF w.kind = "Immediate" THEN {<<t, generation[t] + 1>>} ELSE {}
      BY <3>1 DEF SuspendWait
    <3>3. mailbox' \in [Tasks -> Nat]  BY <3>2 DEF TypeOK
    <3>4. effects[t] \in SUBSET Tasks  BY DEF TypeOK
    <3>5. signals' \subseteq Tasks \X Nat
      <4>1. Signal(Receivers(effects[t])) \subseteq Tasks \X Nat  BY <3>4, SignalTypes
      <4>2. <<t, generation[t] + 1>> \in Tasks \X Nat  BY DEF TypeOK
      <4> QED BY <3>2, <4>1, <4>2 DEF TypeOK
    <3>6. w \in Wakes  BY WaitForTypes
    <3>7. effects' \in [Tasks -> SUBSET Tasks]  BY <3>1 DEF SuspendWait, TypeOK
    <3>8. wake' \in [Tasks -> Wakes] /\ generation' \in [Tasks -> Nat]
            /\ home' \in [Tasks -> {"none", "active", "suspended", "ended"}]
      BY <3>2, <3>6 DEF Suspend, TypeOK
    <3> QED
      BY <1>0, <1>11, <3>1, <3>3, <3>5, <3>7, <3>8
      DEF SuspendFinish, WorkerLeaves, TypeOK, Pcs
  <2> QED BY <2>1, <2>2
<1>12. ASSUME NEW t \in Tasks, SuspendFails(t) PROVE TypeOK'
  BY <1>8, <1>12 DEF SuspendFails, Kepts
<1>13. ASSUME NEW t \in Tasks, RenewPublish(t) PROVE TypeOK'
  <2>1. signals' \subseteq Tasks \X Nat
    BY <1>13, SignalTypes DEF RenewPublish, TypeOK
  <2> QED BY <1>0, <1>13, <2>1 DEF RenewPublish, Deliver, TypeOK, Pcs
<1>14. ASSUME NEW t \in Tasks, RenewOpen(t) \/ RenewBeginFails(t) PROVE TypeOK'
  BY <1>0, <1>14 DEF RenewOpen, RenewBeginFails, FinishBoundary, TypeOK, Pcs, Kepts, Controls
<1>15. ASSUME NEW t \in Tasks, Reserve(t) \/ ReportStale(t) PROVE TypeOK'
  BY <1>0, <1>15 DEF Reserve, ReportStale, WorkerLeaves, TypeOK, Pcs
<1>16. ASSUME NEW t \in Tasks, Finish(t) PROVE TypeOK'
  BY <1>0, <1>16, FinishTaskTypes DEF Finish, WorkerLeaves, TypeOK, Pcs
<1>17. ASSUME NEW t \in Tasks, ConflictRetry(t) PROVE TypeOK'
  <2> USE DEF TypeOK, Pcs
  <2>0. control' \in [Tasks -> Controls] /\ pc' \in [Tasks -> Pcs]
    BY <1>17 DEF ConflictRetry, request_cancel, Controls
  <2>1. CASE FinishTask(t, "no") /\ UNCHANGED <<retries, abandoned>>
    BY <1>0, <1>17, <2>0, <2>1, FinishTaskTypes DEF ConflictRetry, Kepts
  <2>2. CASE Unregister({t}) /\ SendResult({t}, "no") /\ effects' = [effects EXCEPT ![t] = {}]
               /\ UNCHANGED <<signals, mailbox, retries, abandoned>>
    BY <1>0, <1>17, <2>0, <2>2, UnregisterTypes DEF ConflictRetry, SendResult, Kepts
  <2>3. CASE /\ effects' = [effects EXCEPT ![t] = {}]
             /\ retries' = [retries EXCEPT ![t] = @ + 1]
             /\ abandoned' = [abandoned EXCEPT ![t] = TRUE]
             /\ Suspend(t, [kind |-> "Retry"])
             /\ UNCHANGED <<live, signals, pending, mailbox, outcomeVars>>
    BY <1>0, <1>17, <2>0, <2>3, WakeTypes DEF ConflictRetry, Suspend, WakeKinds
  <2> QED BY <1>17, <2>1, <2>2, <2>3 DEF ConflictRetry
<1>18. ASSUME NEW S \in SUBSET Tasks, RemoveTerminal(S), control' \in [Tasks -> Controls],
              UNCHANGED <<state, gcVars, phase, messageVars, workerVars, outcomeVars>>
       PROVE  TypeOK'
  <2>1. signals' \subseteq Tasks \X Nat  BY <1>18, SignalTypes DEF RemoveTerminal, TypeOK
  <2>2. Unregister(S)  BY <1>18 DEF RemoveTerminal
  <2> QED BY <1>0, <1>18, <2>1, <2>2, UnregisterTypes DEF TypeOK
<1>19. ASSUME NEW v \in Tasks, CancelTask(v) PROVE TypeOK'
  <2>1. control' \in [Tasks -> Controls]
    BY <1>19 DEF CancelTask, request_cancel, TypeOK, Controls
  <2>2. CASE RemoveTerminal({v})  BY <1>18, <1>19, <2>1, <2>2 DEF CancelTask
  <2>3. CASE UNCHANGED queueVars  BY <1>0, <1>19, <2>1, <2>3 DEF CancelTask, TypeOK
  <2> QED BY <1>19, <2>2, <2>3 DEF CancelTask
<1>20. ASSUME NEW t \in Tasks, NEW p, Boot(t, p) PROVE TypeOK'
  <2>1. control' \in [Tasks -> Controls]
    BY <1>20 DEF Boot, request_cancel, TypeOK, Controls
  <2> QED BY <1>18, <1>20, <2>1 DEF Boot, Suspended
<1>21. ASSUME NEW t \in Tasks, NotifyFails(t) PROVE TypeOK'
  BY <1>0, <1>21 DEF NotifyFails, request_cancel, TypeOK, Controls
<1>22. ASSUME NEW t \in Tasks, LogEventFails(t) PROVE TypeOK'
  BY <1>0, <1>22, FinishTaskTypes DEF LogEventFails, TypeOK, Kepts
<1>23. ASSUME NEW t \in Tasks, Panic(t) PROVE TypeOK'
  <2>1. control' \in [Tasks -> Controls] /\ pc' \in [Tasks -> Pcs]
          /\ tx' \in [Tasks -> {"none", "open", "committed", "rolledback"}]
    BY <1>23 DEF Panic, TypeOK, Controls, Pcs
  <2>2. CASE FinishTask(t, "unknown")
    BY <1>0, <1>23, <2>1, <2>2, FinishTaskTypes DEF Panic, TypeOK, Kepts
  <2>3. CASE UNCHANGED <<queueVars, messageVars, outcomeVars>>
    BY <1>0, <1>23, <2>1, <2>3 DEF Panic, TypeOK
  <2> QED BY <1>23, <2>2, <2>3 DEF Panic
<1>24. ASSUME NEW t \in Tasks, NEW u \in Tasks, Send(t, u) \/ Receive(t) \/ ForceGc(t) PROVE TypeOK'
  <2>1. CASE Send(t, u)
    <3>1. effects' \in [Tasks -> SUBSET Tasks]  BY <2>1 DEF Send, TypeOK
    <3> QED BY <1>0, <2>1, <3>1 DEF Send, TypeOK
  <2>2. CASE Receive(t)
    <3>1. mailbox' \in [Tasks -> Nat]  BY <2>2 DEF Receive, TypeOK
    <3> QED BY <1>0, <2>2, <3>1 DEF Receive, TypeOK
  <2>3. CASE ForceGc(t)  BY <1>0, <2>3 DEF ForceGc, TypeOK
  <2> QED BY <1>24, <2>1, <2>2, <2>3
<1>25. ASSUME NEW t \in Tasks, TimerExpires(t) PROVE TypeOK'
  BY <1>0, <1>25 DEF TimerExpires, TypeOK
<1>26. ASSUME NEW t \in Tasks, DrainWake(t) PROVE TypeOK'
  <2> DEFINE mail == IF wake[t].kind = "TaskMessage" /\ ~pending[t]
                       THEN [mailbox EXCEPT ![t] = 0] ELSE mailbox
             sig == signals \ {<<t, generation[t]>>}
  <2>1. mail \in [Tasks -> Nat] /\ sig \in SUBSET (Tasks \X Nat)  BY DEF TypeOK
  <2>2. Dispatch(t, wake[t].kind = "Retry", sig, mail)  BY <1>26 DEF DrainWake
  <2>3. (wake[t].kind = "Retry") \in BOOLEAN  OBVIOUS
  <2> HIDE DEF mail, sig
  <2> QED BY <1>0, <1>26, <2>1, <2>2, <2>3, DispatchTypes DEF DrainWake
<1>27. ASSUME NEW t \in Tasks, NEW g, DiscardSignal(t, g) PROVE TypeOK'
  BY <1>0, <1>27 DEF DiscardSignal, TypeOK
<1>28. ASSUME NEW t \in Tasks, NEW r \in Tasks, Respond(t) \/ Resume(r, t) PROVE TypeOK'
  BY <1>0, <1>28, WakeSuspendedTypes DEF Respond, Resume
<1>29. CASE Collector
  <2>1. Signal({t \in Suspended : wake[t].kind = "GCComplete"}) \subseteq Tasks \X Nat
    BY SignalTypes DEF Suspended
  <2> QED
    BY <1>0, <1>29, <2>1
    DEF Collector, BeginGc, StartSweep, Collect, EndGc, AbandonSweep, ReleaseGc, GcStep, TypeOK
<1>30. CASE Stop
  <2>1. {t \in Tasks : pending[t]} \in SUBSET Tasks  OBVIOUS
  <2>2. control' \in [Tasks -> Controls]
    BY <1>30 DEF Stop, request_cancel, TypeOK, Controls
  <2>3. signals' \subseteq Tasks \X Nat  BY <1>30, <2>1, SignalTypes DEF Stop, TypeOK
  <2>4. mailbox' \in [Tasks -> Nat] /\ result' \in [Tasks -> Kepts] /\ settled' \subseteq Tasks
    BY <1>30 DEF Stop, Deliver, SendResult, TypeOK, Kepts
  <2>5. Unregister({t \in Tasks : pending[t]})  BY <1>30 DEF Stop
  <2> QED BY <1>0, <1>30, <2>1, <2>2, <2>3, <2>4, <2>5, UnregisterTypes DEF Stop, TypeOK
<1>31. CASE Detach
  <2>1. Active \in SUBSET Tasks  BY DEF Active
  <2>2. signals' \subseteq Tasks \X Nat  BY <1>31, <2>1, SignalTypes DEF Detach, TypeOK
  <2>3. mailbox' \in [Tasks -> Nat] /\ result' \in [Tasks -> Kepts] /\ settled' \subseteq Tasks
          /\ effects' \in [Tasks -> SUBSET Tasks]
    BY <1>31, <2>1 DEF Detach, Deliver, SendResult, TypeOK, Kepts
  <2> QED BY <1>0, <1>31, <2>1, <2>2, <2>3, UnregisterTypes DEF Detach, TypeOK
<1>32. CASE Stopped  BY <1>0, <1>32 DEF Stopped, TypeOK
<1>33. CASE UNCHANGED vars  BY <1>33 DEF vars, schedulerVars, TypeOK
<1>34. ASSUME NEW t \in Tasks, Worker(t) PROVE TypeOK'
  BY <1>34, <1>2, <1>3, <1>4, <1>6, <1>7, <1>9, <1>10, <1>11, <1>12, <1>13, <1>14, <1>15, <1>16, <1>17
  DEF Worker
<1> QED
  BY <1>1, <1>34, <1>19, <1>20, <1>21, <1>22, <1>23, <1>24, <1>25, <1>26, <1>27, <1>28, <1>29,
     <1>30, <1>31, <1>32, <1>33, StepCases DEF Kill, Abort

-----------------------------------------------------------------------------
\* Records, threads and the registry

\* One task leaves the queues
LEMMA UnregisterOne ==
  ASSUME TypeOK, NEW t \in Tasks, Unregister({t})
  PROVE  /\ home' = [home EXCEPT ![t] = "ended"]
         /\ wake' = [wake EXCEPT ![t] = NoWake]
         /\ pending' = [pending EXCEPT ![t] = FALSE]
         /\ live' = live \ {t}
         /\ generation' = generation
BY DEF TypeOK, Unregister

\* What FinishTask leaves alone
LEMMA FinishTaskFrame ==
  ASSUME TypeOK, NEW t \in Tasks, NEW k, FinishTask(t, k)
  PROVE  /\ home' = [home EXCEPT ![t] = "ended"]
         /\ wake' = [wake EXCEPT ![t] = NoWake]
         /\ pending' = [pending EXCEPT ![t] = FALSE]
         /\ live' = live \ {t}
         /\ generation' = generation
         /\ result' = [result EXCEPT ![t] = k]
BY UnregisterOne DEF TypeOK, FinishTask, SendResult

\* A dispatch goes through, or ends the task
LEMMA DispatchCases ==
  ASSUME TypeOK, NEW t \in Tasks, NEW restore, NEW sig, NEW mail, Dispatch(t, restore, sig, mail)
  PROVE  \/ /\ home' = [home EXCEPT ![t] = "active"]
            /\ wake' = [wake EXCEPT ![t] = NoWake]
            /\ pending' = [pending EXCEPT ![t] = FALSE]
            /\ live' = live \cup {t}
            /\ phase' = [phase EXCEPT ![t] = "Running"]
            /\ control' = [control EXCEPT ![t] = "Running"]
            /\ pc' = [pc EXCEPT ![t] = "run"]
            /\ tx' = [tx EXCEPT ![t] = "open"]
            /\ UNCHANGED <<kept, retries, boundaries, result, settled>>
         \/ /\ "begin" \in Faults
            /\ home' = [home EXCEPT ![t] = "ended"]
            /\ wake' = [wake EXCEPT ![t] = NoWake]
            /\ pending' = [pending EXCEPT ![t] = FALSE]
            /\ live' = live \ {t}
            /\ result' = [result EXCEPT ![t] = "no"]
            /\ UNCHANGED <<phase, control, workerVars>>
<1>1. CASE FailedWakeup(t, sig)
  BY <1>1, UnregisterOne DEF FailedWakeup, EndUndispatched, SendResult, TypeOK
<1>2. CASE ~FailedWakeup(t, sig)
  BY <1>2 DEF Dispatch, outcomeVars
<1> QED BY <1>1, <1>2

\* Every step keeps the registry exact and the records in agreement with the threads
LEMMA CoreStep ==
  ASSUME CoreInv, TypeOK', [Next]_vars
  PROVE  RegistryExact' /\ RecordAgrees' /\ WorkerAgrees'
<1> DEFINE Good == RegistryExact' /\ RecordAgrees' /\ WorkerAgrees'
<1> SUFFICES Good  OBVIOUS
<1> USE DEF CoreInv, TypeOK, RegistryExact, RecordAgrees, WorkerAgrees, Active, Suspended,
            gcVars, queueVars, messageVars, workerVars, outcomeVars
<1>1. ASSUME NEW t \in Tasks, NEW k, EndUndispatched({t}, k, signals), home[t] \in {"none", "suspended"}
      PROVE  Good
  BY <1>1 DEF EndUndispatched, Unregister, SendResult, NoWake
<1>2. ASSUME NEW t \in Tasks, NEW restore, NEW sig, NEW mail, Dispatch(t, restore, sig, mail),
             home[t] \in {"none", "suspended"}
      PROVE  Good
  <2>1. RegistryExact'  BY <1>2, DispatchCases
  <2>2. RecordAgrees'  BY <1>2, DispatchCases
  <2>3. WorkerAgrees'  BY <1>2, DispatchCases
  <2> QED BY <2>1, <2>2, <2>3
<1>3. ASSUME NEW t \in Tasks, NEW delayed \in BOOLEAN, Submit(t, delayed) PROVE Good
  <2>1. CASE Dispatch(t, FALSE, signals, mailbox)  BY <1>2, <1>3, <2>1 DEF Submit
  <2>2. CASE ~Dispatch(t, FALSE, signals, mailbox)
    <3>1. /\ home[t] = "none" /\ home' = [home EXCEPT ![t] = "suspended"] /\ live' = live \cup {t}
          /\ \A u \in Tasks \ {t} : wake'[u] = wake[u]
          /\ UNCHANGED <<pending, phase, control, pc, kept, tx, result>>
      <4>1. PICK w : Suspend(t, w)  BY <1>3, <2>2 DEF Submit
      <4>2. /\ home[t] = "none" /\ live' = live \cup {t}
            /\ UNCHANGED <<pending, phase, control, workerVars, outcomeVars>>
        BY <1>3, <2>2 DEF Submit
      <4> QED BY <4>1, <4>2 DEF Suspend
    <3>2. RegistryExact'  BY <3>1
    <3>3. RecordAgrees'  BY <3>1
    <3>4. WorkerAgrees'  BY <3>1
    <3> QED BY <3>2, <3>3, <3>4
  <2> QED BY <2>1, <2>2
<1>4. ASSUME NEW t \in Tasks, WorkerSeesCancel(t) \/ ExplicitRetry(t) \/ CommandFails(t) PROVE Good
  BY <1>4 DEF WorkerSeesCancel, ExplicitRetry, CommandFails
<1>5. ASSUME NEW t \in Tasks, Yield(t) \/ Renew(t) \/ Complete(t) PROVE Good
  BY <1>5 DEF Yield, Renew, Complete, Claim
<1>6. ASSUME NEW t \in Tasks, BoundaryCommits(t) PROVE Good
  BY <1>6 DEF BoundaryCommits
<1>7. ASSUME NEW t \in Tasks, BoundaryFails(t) \/ TerminalFails(t) PROVE Good
  BY <1>7 DEF BoundaryFails, TerminalFails, AfterFailure, FinishBoundary, FinishTerminal
<1>8. ASSUME NEW t \in Tasks, NEW k \in {"yes", "no"}, TerminalEnds(t, k) PROVE Good
  BY <1>8 DEF TerminalEnds, FinishTerminal
<1>9. ASSUME NEW t \in Tasks, NEW k, FinishTask(t, k), pc' = [pc EXCEPT ![t] = "idle"],
             \A u \in Tasks \ {t} : control'[u] = control[u] /\ tx'[u] = tx[u],
             UNCHANGED <<phase, kept>>
      PROVE  Good
  <2>1. RegistryExact'  BY <1>9, FinishTaskFrame
  <2>2. RecordAgrees'  BY <1>9, FinishTaskFrame
  <2>3. WorkerAgrees'  BY <1>9
  <2> QED BY <2>1, <2>2, <2>3
<1>10. ASSUME NEW t \in Tasks, SuspendPrepare(t) PROVE Good
  BY <1>9, <1>10 DEF SuspendPrepare, RunningDispatch, DropClaim, WorkerLeaves
<1>11. ASSUME NEW t \in Tasks, SuspendStale(t) PROVE Good
  BY <1>11 DEF SuspendStale, RunningDispatch, DropClaim, WorkerLeaves
<1>12. ASSUME NEW t \in Tasks, SuspendFinish(t) PROVE Good
  <2>1. CASE FinishTask(t, "yes") /\ DropClaim(t)
    BY <1>9, <1>12, <2>1 DEF SuspendFinish, DropClaim, WorkerLeaves
  <2>2. CASE ~(FinishTask(t, "yes") /\ DropClaim(t))
    <3>1. /\ control' = [control EXCEPT ![t] = FinishBoundary(@)]
          /\ home' = [home EXCEPT ![t] = "suspended"]
          /\ \A u \in Tasks \ {t} : wake'[u] = wake[u]
          /\ UNCHANGED <<live, pending, result, phase, kept, tx>>
          /\ pc' = [pc EXCEPT ![t] = "idle"]
      BY <1>12, <2>2 DEF SuspendFinish, SuspendWait, Suspend, WorkerLeaves
    <3>2. pc[t] = "suspend" /\ home[t] = "active"  BY <1>12 DEF SuspendFinish
    <3>3. RegistryExact'  BY <3>1, <3>2
    <3>4. RecordAgrees'  BY <3>1, <3>2
    <3>5. WorkerAgrees'  BY <3>1, <3>2
    <3> QED BY <3>3, <3>4, <3>5
  <2> QED BY <2>1, <2>2
<1>13. ASSUME NEW t \in Tasks, SuspendFails(t) PROVE Good
  BY <1>9, <1>13 DEF SuspendFails, DropClaim, WorkerLeaves
<1>14. ASSUME NEW t \in Tasks, RenewPublish(t) PROVE Good
  BY <1>14 DEF RenewPublish
<1>15. ASSUME NEW t \in Tasks, RenewOpen(t) PROVE Good
  BY <1>15 DEF RenewOpen, FinishBoundary, RunningDispatch
<1>16. ASSUME NEW t \in Tasks, RenewBeginFails(t) PROVE Good
  BY <1>16 DEF RenewBeginFails, FinishBoundary, RunningDispatch
<1>17. ASSUME NEW t \in Tasks, Reserve(t) \/ ReportStale(t) PROVE Good
  BY <1>17 DEF Reserve, ReportStale, WorkerLeaves, RunningDispatch
<1>18. ASSUME NEW t \in Tasks, Finish(t) PROVE Good
  BY <1>9, <1>18 DEF Finish, WorkerLeaves
<1>19. ASSUME NEW t \in Tasks, ConflictRetry(t) PROVE Good
  <2>0. /\ pc' = [pc EXCEPT ![t] = "idle"] /\ UNCHANGED <<phase, kept, tx>>
        /\ \A u \in Tasks \ {t} : control'[u] = control[u]
        /\ home[t] = "active"
    BY <1>19 DEF ConflictRetry, RunningDispatch
  <2>1. CASE FinishTask(t, "no")
    <3>1. \A u \in Tasks \ {t} : control'[u] = control[u] /\ tx'[u] = tx[u]  BY <2>0
    <3> HIDE DEF CoreInv
    <3> QED BY <1>9, <2>0, <2>1, <3>1
  <2>2. CASE Unregister({t}) /\ SendResult({t}, "no")
    <3>1. RegistryExact'  BY <2>0, <2>2, UnregisterOne
    <3>2. RecordAgrees'  BY <2>0, <2>2, UnregisterOne DEF SendResult
    <3>3. WorkerAgrees'  BY <2>0
    <3> QED BY <3>1, <3>2, <3>3
  <2>3. CASE Suspend(t, [kind |-> "Retry"]) /\ UNCHANGED <<live, pending, outcomeVars>>
    <3>1. RegistryExact'  BY <2>0, <2>3 DEF Suspend
    <3>2. RecordAgrees'  BY <2>0, <2>3 DEF Suspend
    <3>3. WorkerAgrees'  BY <2>0
    <3> QED BY <3>1, <3>2, <3>3
  <2> QED BY <1>19, <2>1, <2>2, <2>3 DEF ConflictRetry
<1>20. ASSUME NEW v \in Tasks, CancelTask(v) PROVE Good
  <2>0. UNCHANGED <<phase, kept, pc, tx, result>> /\ home[v] \in {"suspended", "active"}
    BY <1>20 DEF CancelTask
  <2>1. RegistryExact' /\ RecordAgrees'
    <3>1. CASE RemoveTerminal({v})
      BY <2>0, <3>1, UnregisterOne DEF RemoveTerminal
    <3>2. CASE UNCHANGED queueVars
      BY <2>0, <3>2
    <3> QED BY <1>20, <3>1, <3>2 DEF CancelTask
  <2>2. WorkerAgrees'
    <3>1. control' = control \/ control' = [control EXCEPT ![v] = request_cancel(@)]
      BY <1>20 DEF CancelTask
    <3> QED BY <2>0, <3>1 DEF request_cancel
  <2> QED BY <2>1, <2>2
<1>21. ASSUME NEW t \in Tasks, NEW p, Boot(t, p) PROVE Good
  BY <1>21 DEF Boot, RemoveTerminal, Unregister, request_cancel
<1>22. ASSUME NEW t \in Tasks, NotifyFails(t) PROVE Good
  BY <1>22 DEF NotifyFails, request_cancel
<1>23. ASSUME NEW t \in Tasks, LogEventFails(t) PROVE Good
  BY <1>23, FinishTaskFrame DEF LogEventFails, RunningDispatch
<1>24. ASSUME NEW t \in Tasks, Panic(t) PROVE Good
  <2>1. CASE FinishTask(t, "unknown")  BY <1>9, <1>24, <2>1 DEF Panic
  <2>2. CASE UNCHANGED <<queueVars, messageVars, outcomeVars>>
    <3>1. home[t] = "ended" \/ FinishTask(t, "unknown")  BY <1>24 DEF Panic
    <3>2. CASE home[t] = "ended"  BY <1>24, <2>2, <3>2 DEF Panic
    <3> QED BY <2>1, <3>1, <3>2
  <2> QED BY <1>24, <2>1, <2>2 DEF Panic
<1>25. ASSUME NEW t \in Tasks, DrainWake(t) PROVE Good
  BY <1>2, <1>25 DEF DrainWake
<1>26. ASSUME NEW t \in Tasks, NEW r \in Tasks, Respond(t) \/ Resume(r, t) PROVE Good
  <2>0. WakeSuspended(t) /\ home[t] = "suspended"  BY <1>26 DEF Respond, Resume
  <2>1. CASE CancelUndispatched({t})  BY <1>1, <2>0, <2>1 DEF CancelUndispatched
  <2>2. CASE DeferResume(t)
    <3>1. RegistryExact'  BY <2>0, <2>2 DEF DeferResume, Suspend
    <3>2. RecordAgrees'  BY <2>0, <2>2 DEF DeferResume, Suspend
    <3>3. WorkerAgrees'  BY <2>2 DEF DeferResume
    <3> QED BY <3>1, <3>2, <3>3
  <2>3. CASE Dispatch(t, FALSE, signals, mailbox)  BY <1>2, <2>0, <2>3
  <2> QED BY <2>0, <2>1, <2>2, <2>3 DEF WakeSuspended
<1>27. CASE Stop
  BY <1>27 DEF Stop, Unregister, SendResult, request_cancel
<1>28. CASE Detach
  BY <1>28 DEF Detach, Unregister, SendResult
<1>29. CASE UNCHANGED <<home, live, phase, control, wake, pending, pc, kept, tx, result>>
  BY <1>29
<1>30. ASSUME NEW t \in Tasks, Worker(t) PROVE Good
  BY <1>30, <1>4, <1>5, <1>6, <1>7, <1>8, <1>10, <1>11, <1>12, <1>13, <1>14, <1>15, <1>16, <1>17,
     <1>18, <1>19
  DEF Worker
<1>31. CASE Collector \/ Stopped \/ UNCHANGED vars
  BY <1>29, <1>31
  DEF Collector, BeginGc, StartSweep, Collect, EndGc, AbandonSweep, ReleaseGc, GcStep, Stopped, vars,
      schedulerVars
<1>32. ASSUME NEW t \in Tasks, NEW u \in Tasks, NEW g,
              Send(t, u) \/ Receive(t) \/ ForceGc(t) \/ TimerExpires(t) \/ DiscardSignal(t, g)
       PROVE  Good
  BY <1>29, <1>32 DEF Send, Receive, ForceGc, TimerExpires, DiscardSignal
<1> HIDE DEF Good, CoreInv, TypeOK, RegistryExact, RecordAgrees, WorkerAgrees
<1> QED
  BY <1>3, <1>20, <1>21, <1>22, <1>23, <1>24, <1>25, <1>26, <1>27, <1>28, <1>30, <1>31, <1>32,
     StepCases
  DEF Kill, Abort

-----------------------------------------------------------------------------
\* Waits and signals

\* The kinds of wait that something else than an answer ends
QueuedKinds == {"Time", "Retry", "TaskMessage", "Task", "Immediate", "GCComplete"}

\* t goes on with the wait it is in
Stays(t) == /\ home[t] = "suspended" /\ home'[t] = "suspended"
            /\ wake'[t] = wake[t] /\ generation'[t] = generation[t]

\* t is not in a wait after the step, goes on with one, or enters one, which has a
\* generation of its own
WaitChange(t) ==
  \/ home'[t] # "suspended" /\ generation'[t] = generation[t]
  \/ Stays(t)
  \/ generation'[t] = generation[t] + 1

\* s is a signal for the wait its task is in
Meant(s) ==
  \E t \in Tasks :
    /\ s = <<t, generation[t]>>
    /\ home[t] = "suspended" => wake[t].kind \in QueuedKinds

\* The signals after a step: new ones are for waits that something else than an answer
\* ends, and only the signal of a wait that is over is lost
SignalChange ==
  /\ \A s \in signals' : s \in signals \/ Meant(s)'
  /\ \A t \in Tasks : Stays(t) /\ IsSignalled(t) => IsSignalled(t)'

\* Signals for the tasks that wait for those that end, and for those that get mail
LEMMA SignalsMeant ==
  ASSUME TypeOK, NEW S \in SUBSET Tasks, NEW sent \in SUBSET Tasks,
         NEW s \in Signal(Dependents(S) \cup Receivers(sent)),
         \A u \in Tasks \ S : home'[u] = home[u] /\ wake'[u] = wake[u],
         \A u \in S \cap sent : home[u] # "suspended",
         \A u \in Suspended \ S : generation'[u] = generation[u]
  PROVE  Meant(s)'
<1>1. PICK u \in Dependents(S) \cup Receivers(sent) : s = <<u, generation[u]>>  BY DEF Signal
<1>2. u \in Tasks /\ home[u] = "suspended" /\ wake[u].kind \in {"Task", "TaskMessage"}
  BY <1>1 DEF Dependents, Receivers, Suspended
<1>3. u \notin S  BY <1>1, <1>2 DEF Dependents, Receivers, Suspended
<1> QED BY <1>1, <1>2, <1>3 DEF Meant, QueuedKinds, Suspended

\* The tasks of S end
LEMMA EndChanges ==
  ASSUME TypeOK, NEW S \in SUBSET Tasks, NEW sent \in SUBSET Tasks, NEW sig \in SUBSET signals,
         Unregister(S), signals' = sig \cup Signal(Dependents(S) \cup Receivers(sent)),
         \A u \in S \cap sent : home[u] # "suspended",
         \A u \in Tasks \ S : <<u, generation[u]>> \in signals => <<u, generation[u]>> \in sig
  PROVE  (\A t \in Tasks : WaitChange(t)) /\ SignalChange
<1>1. ASSUME NEW t \in Tasks PROVE WaitChange(t)
  BY DEF TypeOK, Unregister, WaitChange, Stays
<1>2. ASSUME NEW s \in signals' PROVE s \in signals \/ Meant(s)'
  <2>1. \A u \in Tasks \ S : home'[u] = home[u] /\ wake'[u] = wake[u]  BY DEF Unregister
  <2>2. \A u \in Suspended \ S : generation'[u] = generation[u]  BY DEF Unregister
  <2>3. CASE s \in Signal(Dependents(S) \cup Receivers(sent))  BY <2>1, <2>2, <2>3, SignalsMeant
  <2> QED BY <2>3
<1>3. ASSUME NEW t \in Tasks, Stays(t), IsSignalled(t) PROVE IsSignalled(t)'
  BY <1>3 DEF Stays, IsSignalled, Unregister
<1> QED BY <1>1, <1>2, <1>3 DEF SignalChange

\* ... without mail for anyone
LEMMA SilentEndChanges ==
  ASSUME TypeOK, NEW S \in SUBSET Tasks, NEW sig \in SUBSET signals,
         Unregister(S), signals' = sig \cup Signal(Dependents(S)),
         \A u \in Tasks \ S : <<u, generation[u]>> \in signals => <<u, generation[u]>> \in sig
  PROVE  (\A t \in Tasks : WaitChange(t)) /\ SignalChange
<1>1. Receivers({}) = {}  BY DEF Receivers
<1> QED BY <1>1, EndChanges

\* A task that is not suspended ends with finish_task
LEMMA FinishTaskChanges ==
  ASSUME TypeOK, NEW t \in Tasks, NEW k, FinishTask(t, k), home[t] # "suspended"
  PROVE  (\A u \in Tasks : WaitChange(u)) /\ SignalChange
<1>1. PICK sent \in SUBSET Tasks : signals' = signals \cup Signal(Dependents({t}) \cup Receivers(sent))
  BY DEF FinishTask, TypeOK
<1> QED BY <1>1, EndChanges DEF FinishTask

\* A dispatch ends a wait
LEMMA DispatchChanges ==
  ASSUME TypeOK, NEW t \in Tasks, NEW restore, NEW sig \in SUBSET signals, NEW mail,
         Dispatch(t, restore, sig, mail), signals \ sig \subseteq {<<t, generation[t]>>}
  PROVE  (\A u \in Tasks : WaitChange(u)) /\ SignalChange
<1>1. \A u \in Tasks \ {t} : <<u, generation[u]>> \in signals => <<u, generation[u]>> \in sig
  OBVIOUS
<1>2. CASE FailedWakeup(t, sig)
  BY <1>1, <1>2, SilentEndChanges DEF FailedWakeup, EndUndispatched
<1>3. CASE ~FailedWakeup(t, sig)
  <2>1. /\ home' = [home EXCEPT ![t] = "active"] /\ wake' = [wake EXCEPT ![t] = NoWake]
        /\ signals' = sig /\ generation' = generation
    BY <1>3 DEF Dispatch
  <2>2. \A u \in Tasks : WaitChange(u)  BY <2>1 DEF WaitChange, Stays, TypeOK
  <2>3. SignalChange  BY <1>1, <2>1 DEF SignalChange, Stays, IsSignalled, TypeOK
  <2> QED BY <2>2, <2>3
<1> QED BY <1>2, <1>3

\* A task enters a wait, and so signals it when it is over at once
LEMMA SuspendChanges ==
  ASSUME TypeOK, NEW t \in Tasks, NEW w, Suspend(t, w), NEW sent \in SUBSET Tasks,
         NEW extra, extra \in SUBSET {<<t, generation[t] + 1>>}, extra # {} => w.kind = "Immediate",
         home[t] # "suspended" \/ sent = {},
         signals' = (signals \cup Signal(Receivers(sent))) \cup extra
  PROVE  (\A u \in Tasks : WaitChange(u)) /\ SignalChange
<1>1. /\ home' = [home EXCEPT ![t] = "suspended"] /\ wake' = [wake EXCEPT ![t] = w]
      /\ generation' = [generation EXCEPT ![t] = @ + 1]
  BY DEF Suspend
<1>2. \A u \in Tasks : WaitChange(u)  BY <1>1 DEF WaitChange, Stays, TypeOK
<1>3. ASSUME NEW s \in signals' PROVE s \in signals \/ Meant(s)'
  <2>1. CASE s \in Signal(Receivers(sent))
    <3>1. PICK u \in Receivers(sent) : s = <<u, generation[u]>>  BY <2>1 DEF Signal
    <3>2. u \in Tasks /\ u # t /\ wake[u].kind = "TaskMessage"  BY <3>1 DEF Receivers, Suspended
    <3> QED BY <1>1, <3>1, <3>2 DEF Meant, QueuedKinds, TypeOK
  <2>2. CASE s \in extra
    BY <1>1, <2>2 DEF Meant, QueuedKinds, TypeOK
  <2> QED BY <2>1, <2>2
<1>4. ASSUME NEW u \in Tasks, Stays(u), IsSignalled(u) PROVE IsSignalled(u)'
  BY <1>4 DEF Stays, IsSignalled
<1> QED BY <1>2, <1>3, <1>4 DEF SignalChange

\* Every step changes waits and signals in one of these ways
LEMMA WaitSteps ==
  ASSUME CoreInv, [Next]_vars
  PROVE  (\A u \in Tasks : WaitChange(u)) /\ SignalChange
<1> DEFINE Good == (\A u \in Tasks : WaitChange(u)) /\ SignalChange
<1> SUFFICES Good  OBVIOUS
<1> HIDE DEF Good
<1>0. TypeOK  BY DEF CoreInv
<1>1. ASSUME UNCHANGED <<home, wake, generation, signals>> PROVE Good
  BY <1>0, <1>1 DEF Good, WaitChange, SignalChange, Stays, IsSignalled, TypeOK
<1>2. ASSUME NEW S \in SUBSET Tasks, RemoveTerminal(S) PROVE Good
  BY <1>0, <1>2, SilentEndChanges DEF RemoveTerminal, Good
<1>3. ASSUME NEW t \in Tasks, NEW k, FinishTask(t, k), home[t] = "active" PROVE Good
  BY <1>0, <1>3, FinishTaskChanges DEF Good
<1>4. ASSUME NEW t \in Tasks, NEW w, Suspend(t, w), UNCHANGED signals PROVE Good
  <2>1. signals' = (signals \cup Signal(Receivers({}))) \cup {}
    BY <1>4 DEF Receivers, Signal
  <2> QED BY <1>0, <1>4, <2>1, SuspendChanges DEF Good
<1>5. ASSUME NEW t \in Tasks, NEW delayed \in BOOLEAN, Submit(t, delayed) PROVE Good
  <2>1. CASE Dispatch(t, FALSE, signals, mailbox)  BY <1>0, <2>1, DispatchChanges DEF Good
  <2>2. CASE ~Dispatch(t, FALSE, signals, mailbox)
    <3>1. PICK w : Suspend(t, w)  BY <1>5, <2>2 DEF Submit
    <3> QED BY <1>4, <1>5, <2>2, <3>1 DEF Submit
  <2> QED BY <2>1, <2>2
<1>6. ASSUME NEW t \in Tasks,
             \/ WorkerSeesCancel(t) \/ ExplicitRetry(t) \/ CommandFails(t)
             \/ Yield(t) \/ Renew(t) \/ Complete(t) \/ BoundaryCommits(t)
             \/ BoundaryFails(t) \/ TerminalFails(t)
             \/ TerminalEnds(t, "yes") \/ TerminalEnds(t, "no")
             \/ SuspendStale(t) \/ RenewOpen(t) \/ RenewBeginFails(t) \/ Reserve(t) \/ ReportStale(t)
      PROVE  Good
  BY <1>1, <1>6
  DEF WorkerSeesCancel, ExplicitRetry, CommandFails, Yield, Renew, Complete, Claim, BoundaryCommits,
      BoundaryFails, TerminalFails, AfterFailure, TerminalEnds, SuspendStale, RenewOpen,
      RenewBeginFails, Reserve, ReportStale, queueVars
<1>7. ASSUME NEW t \in Tasks, SuspendPrepare(t) PROVE Good
  BY <1>1, <1>3, <1>7 DEF SuspendPrepare, RunningDispatch, queueVars
<1>8. ASSUME NEW t \in Tasks, SuspendFinish(t) PROVE Good
  <2>1. CASE FinishTask(t, "yes")  BY <1>3, <1>8, <2>1 DEF SuspendFinish
  <2>2. CASE ~FinishTask(t, "yes")
    <3> DEFINE mail == [u \in Tasks |-> IF u \in effects[t] THEN mailbox[u] + 1 ELSE mailbox[u]]
    <3>1. SuspendWait(t)  BY <1>8, <2>2 DEF SuspendFinish
    <3>2. PICK w \in WaitFor(t, mail[t]) :
            /\ Suspend(t, w)
            /\ signals' = signals \cup Signal(Receivers(effects[t]))
                 \cup IF w.kind = "Immediate" THEN {<<t, generation[t] + 1>>} ELSE {}
      BY <3>1 DEF SuspendWait
    <3>3. PICK extra \in SUBSET {<<t, generation[t] + 1>>} :
            /\ extra # {} => w.kind = "Immediate"
            /\ signals' = (signals \cup Signal(Receivers(effects[t]))) \cup extra
      BY <3>2
    <3>4. effects[t] \in SUBSET Tasks /\ home[t] # "suspended"
      BY <1>0, <1>8 DEF SuspendFinish, TypeOK
    <3> QED BY <1>0, <3>2, <3>3, <3>4, SuspendChanges DEF Good
  <2> QED BY <2>1, <2>2
<1>9. ASSUME NEW t \in Tasks, SuspendFails(t) \/ Finish(t) \/ LogEventFails(t) PROVE Good
  BY <1>3, <1>9 DEF SuspendFails, Finish, LogEventFails, RunningDispatch
<1>10. ASSUME NEW t \in Tasks, RenewPublish(t) PROVE Good
  <2>1. effects[t] \in SUBSET Tasks  BY <1>0 DEF TypeOK
  <2>2. /\ UNCHANGED <<home, wake, generation>>
        /\ signals' = signals \cup Signal(Receivers(effects[t]))
    BY <1>10 DEF RenewPublish
  <2>3. \A u \in Tasks : WaitChange(u)  BY <1>0, <2>2 DEF WaitChange, Stays, TypeOK
  <2>4. Dependents({}) = {}  BY DEF Dependents
  <2>5. \A s \in signals' : s \in signals \/ Meant(s)'
    BY <1>0, <2>1, <2>2, <2>4, SignalsMeant
  <2> QED BY <2>2, <2>3, <2>5 DEF Good, SignalChange, Stays, IsSignalled
<1>11. ASSUME NEW t \in Tasks, ConflictRetry(t) PROVE Good
  <2>1. CASE FinishTask(t, "no")  BY <1>3, <1>11, <2>1 DEF ConflictRetry, RunningDispatch
  <2>2. CASE Unregister({t}) /\ UNCHANGED signals
    <3>1. home' = [home EXCEPT ![t] = "ended"] /\ wake' = [wake EXCEPT ![t] = NoWake] /\ generation' = generation
      BY <1>0, <2>2, UnregisterOne
    <3> QED BY <1>0, <2>2, <3>1 DEF Good, WaitChange, SignalChange, Stays, IsSignalled, TypeOK
  <2>3. CASE Suspend(t, [kind |-> "Retry"]) /\ UNCHANGED signals
    BY <1>4, <2>3
  <2> QED BY <1>11, <2>1, <2>2, <2>3 DEF ConflictRetry
<1>12. ASSUME NEW v \in Tasks, CancelTask(v) PROVE Good
  BY <1>1, <1>2, <1>12 DEF CancelTask, queueVars
<1>13. ASSUME NEW t \in Tasks, NEW p, Boot(t, p) PROVE Good
  BY <1>2, <1>13 DEF Boot, Suspended
<1>14. ASSUME NEW t \in Tasks, Panic(t) PROVE Good
  BY <1>1, <1>3, <1>14 DEF Panic, queueVars
<1>15. ASSUME NEW t \in Tasks, NEW u \in Tasks,
              NotifyFails(t) \/ Send(t, u) \/ Receive(t) \/ ForceGc(t)
       PROVE  Good
  BY <1>1, <1>15 DEF NotifyFails, Send, Receive, ForceGc, queueVars
<1>16. ASSUME NEW t \in Tasks, TimerExpires(t) PROVE Good
  <2>1. /\ UNCHANGED <<home, wake, generation>> /\ wake[t].kind \in QueuedKinds
        /\ signals' = signals \cup {<<t, generation[t]>>}
    BY <1>16 DEF TimerExpires, QueuedKinds
  <2> QED BY <1>0, <2>1 DEF Good, WaitChange, SignalChange, Stays, IsSignalled, Meant, TypeOK
<1>17. ASSUME NEW t \in Tasks, DrainWake(t) PROVE Good
  <2> DEFINE mail == IF wake[t].kind = "TaskMessage" /\ ~pending[t]
                       THEN [mailbox EXCEPT ![t] = 0] ELSE mailbox
             sig == signals \ {<<t, generation[t]>>}
  <2>1. Dispatch(t, wake[t].kind = "Retry", sig, mail)  BY <1>17 DEF DrainWake
  <2>2. sig \in SUBSET signals /\ signals \ sig \subseteq {<<t, generation[t]>>}  OBVIOUS
  <2> HIDE DEF mail, sig
  <2> QED BY <1>0, <2>1, <2>2, DispatchChanges DEF Good
<1>18. ASSUME NEW t \in Tasks, NEW g, DiscardSignal(t, g) PROVE Good
  <2>1. /\ UNCHANGED <<home, wake, generation>> /\ (home[t] # "suspended" \/ g # generation[t])
        /\ signals' = signals \ {<<t, g>>}
    BY <1>18 DEF DiscardSignal
  <2>2. \A u \in Tasks : WaitChange(u)  BY <1>0, <2>1 DEF WaitChange, Stays, TypeOK
  <2>3. ASSUME NEW u \in Tasks, Stays(u), IsSignalled(u) PROVE IsSignalled(u)'
    <3>1. <<u, generation[u]>> # <<t, g>>  BY <2>1, <2>3 DEF Stays
    <3> QED BY <2>1, <2>3, <3>1 DEF IsSignalled
  <2> QED BY <2>1, <2>2, <2>3 DEF Good, SignalChange
<1>19. ASSUME NEW t \in Tasks, WakeSuspended(t) PROVE Good
  <2>1. CASE CancelUndispatched({t})
    BY <1>0, <2>1, SilentEndChanges DEF CancelUndispatched, EndUndispatched, Good
  <2>2. CASE DeferResume(t)
    <3>1. signals' = (signals \cup Signal(Receivers({}))) \cup {<<t, generation[t] + 1>>}
      BY <2>2 DEF DeferResume, Receivers, Signal
    <3>2. Suspend(t, [kind |-> "Immediate"])  BY <2>2 DEF DeferResume
    <3>3. \E extra \in SUBSET {<<t, generation[t] + 1>>} :
            signals' = (signals \cup Signal(Receivers({}))) \cup extra
      BY <3>1
    <3>4. [kind |-> "Immediate"].kind = "Immediate"  OBVIOUS
    <3> QED BY <1>0, <3>2, <3>3, <3>4, SuspendChanges DEF Good
  <2>3. CASE Dispatch(t, FALSE, signals, mailbox)  BY <1>0, <2>3, DispatchChanges DEF Good
  <2> QED BY <1>19, <2>1, <2>2, <2>3 DEF WakeSuspended
<1>20. CASE Collector
  <2>1. CASE UNCHANGED signals
    BY <1>1, <1>20, <2>1
    DEF Collector, BeginGc, StartSweep, Collect, EndGc, AbandonSweep, ReleaseGc, GcStep
  <2>2. CASE ~UNCHANGED signals
    <3> DEFINE held == {t \in Suspended : wake[t].kind = "GCComplete"}
    <3>1. signals' = signals \cup Signal(held) /\ UNCHANGED <<home, wake, generation>>
      BY <1>20, <2>2
      DEF Collector, BeginGc, StartSweep, Collect, EndGc, AbandonSweep, ReleaseGc, GcStep
    <3>2. ASSUME NEW s \in Signal(held) PROVE Meant(s)'
      BY <3>1 DEF Signal, Suspended, Meant, QueuedKinds
    <3> HIDE DEF held
    <3> QED BY <1>0, <3>1, <3>2 DEF Good, WaitChange, SignalChange, Stays, IsSignalled, TypeOK
  <2> QED BY <2>1, <2>2
<1>21. CASE Stop
  <2>1. {t \in Tasks : pending[t]} \in SUBSET Tasks  OBVIOUS
  <2> QED BY <1>0, <1>21, <2>1, SilentEndChanges DEF Stop, Good
<1>22. CASE Detach
  BY <1>0, <1>22, SilentEndChanges DEF Detach, Active, Good
<1>23. CASE Stopped \/ UNCHANGED vars
  BY <1>1, <1>23 DEF Stopped, vars, schedulerVars, queueVars
<1>24. ASSUME NEW t \in Tasks, Worker(t) PROVE Good
  BY <1>24, <1>6, <1>7, <1>8, <1>9, <1>10, <1>11 DEF Worker
<1> QED
  BY <1>5, <1>9, <1>12, <1>13, <1>14, <1>15, <1>16, <1>17, <1>18, <1>19, <1>20, <1>21, <1>22, <1>23,
     <1>24, StepCases DEF Kill, Abort, Respond, Resume

\* Signals stay those of the current wait or an earlier one, and none is for a wait
\* that only an answer ends
LEMMA SignalsStep ==
  ASSUME CoreInv, TypeOK', [Next]_vars
  PROVE  SignalsPast' /\ (NoSpuriousWake => NoSpuriousWake')
<1>1. (\A u \in Tasks : WaitChange(u)) /\ SignalChange  BY WaitSteps
<1>2. \A u \in Tasks : generation[u] \in Nat /\ generation'[u] \in Nat /\ generation'[u] >= generation[u]
  BY <1>1 DEF WaitChange, Stays, CoreInv, TypeOK
<1>3. \A s \in signals : s[1] \in Tasks /\ s[2] \in Nat /\ s[2] <= generation[s[1]]
  BY DEF CoreInv, TypeOK, SignalsPast
<1>4. SignalsPast'
  <2> SUFFICES ASSUME NEW s \in signals' PROVE s[2] <= generation'[s[1]]  BY DEF SignalsPast
  <2>1. CASE s \in signals  BY <1>2, <1>3, <2>1
  <2>2. CASE Meant(s)'
    <3>1. PICK u \in Tasks : s = <<u, generation'[u]>>  BY <2>2 DEF Meant
    <3> QED BY <1>2, <3>1
  <2> QED BY <1>1, <2>1, <2>2 DEF SignalChange
<1>5. ASSUME NoSpuriousWake, NEW t \in Tasks, home'[t] = "suspended",
             wake'[t].kind \in {"Never", "Input", "Worker"}, IsSignalled(t)'
      PROVE  FALSE
  <2>1. CASE Meant(<<t, generation[t]>>)'
    <3>1. PICK u \in Tasks :
            /\ <<t, generation'[t]>> = <<u, generation'[u]>>
            /\ home'[u] = "suspended" => wake'[u].kind \in QueuedKinds
      BY <2>1 DEF Meant
    <3> QED BY <1>5, <3>1 DEF QueuedKinds
  <2>2. CASE <<t, generation'[t]>> \in signals
    <3>1. generation'[t] <= generation[t]  BY <1>3, <2>2
    <3>2. Stays(t)  BY <1>1, <1>2, <1>5, <3>1 DEF WaitChange
    <3> QED BY <1>5, <2>2, <3>2 DEF Stays, NoSpuriousWake, IsSignalled
  <2> QED BY <1>1, <1>5, <2>1, <2>2 DEF SignalChange, IsSignalled
<1> QED BY <1>4, <1>5 DEF NoSpuriousWake

\* Types, registry, records, threads and signals agree in every state
THEOREM CoreInvariant == Spec => []CoreInv
<1>1. Init => CoreInv
  <2> SUFFICES ASSUME Init PROVE CoreInv  OBVIOUS
  <2>1. TypeOK  BY WakeTypes DEF Init, TypeOK, Controls, Pcs, Kepts
  <2> QED
    BY <2>1 DEF Init, CoreInv, RegistryExact, RecordAgrees, WorkerAgrees, SignalsPast, Active, Suspended
<1>2. CoreInv /\ [Next]_vars => CoreInv'
  BY TypeStep, CoreStep, SignalsStep DEF CoreInv
<1> QED BY <1>1, <1>2, PTL DEF Spec

\* Type correctness
THEOREM TypeCorrect == Spec => []TypeOK
<1>1. CoreInv => TypeOK  BY DEF CoreInv
<1> QED BY <1>1, CoreInvariant, PTL

\* No signal of an earlier wait wakes a task that waits for an answer, or for nobody:
\* register_wake gives each wait a generation of its own
THEOREM SignalsAreMeant == Spec => []NoSpuriousWake
<1>1. Init => NoSpuriousWake  BY DEF Init, NoSpuriousWake
<1>2. CoreInv /\ CoreInv' /\ NoSpuriousWake /\ [Next]_vars => NoSpuriousWake'
  BY SignalsStep DEF CoreInv
<1> QED BY <1>1, <1>2, CoreInvariant, PTL DEF Spec

-----------------------------------------------------------------------------
\* Messages

\* u gets mail only from a task that has committed and has nothing left to send, and
\* is signalled if it waits for mail
MailChange(u) ==
  mailbox'[u] > mailbox[u] =>
    /\ \E t \in Tasks : u \in effects[t] /\ effects'[t] = {} /\ tx[t] = "committed"
    /\ home[u] = "suspended" /\ wake[u].kind = "TaskMessage" => <<u, generation[u]>> \in signals'

\* Every step delivers mail that way
LEMMA MailSteps ==
  ASSUME CoreInv, [Next]_vars, NEW u \in Tasks
  PROVE  MailChange(u)
<1> SUFFICES ASSUME mailbox'[u] > mailbox[u]
             PROVE  /\ \E t \in Tasks : u \in effects[t] /\ effects'[t] = {} /\ tx[t] = "committed"
                    /\ home[u] = "suspended" /\ wake[u].kind = "TaskMessage"
                         => <<u, generation[u]>> \in signals'
  BY DEF MailChange
<1>0. TypeOK /\ mailbox[u] \in Nat  BY DEF CoreInv, TypeOK
<1>1. mailbox' # mailbox  BY <1>0
<1>2. ASSUME NEW t \in Tasks, u \in effects[t], effects' = [effects EXCEPT ![t] = {}],
             tx[t] = "committed", Signal(Receivers(effects[t])) \subseteq signals'
      PROVE  MailChange(u)
  BY <1>0, <1>2 DEF MailChange, Signal, Receivers, Suspended, TypeOK
<1>3. ASSUME NEW S, Deliver({}, S) PROVE FALSE
  BY <1>0, <1>3 DEF Deliver, TypeOK
<1>4. ASSUME NEW t \in Tasks, NEW k, FinishTask(t, k), k = "yes" => tx[t] = "committed"
      PROVE  MailChange(u)
  <2>1. k = "yes"  BY <1>3, <1>4 DEF FinishTask
  <2>2. u \in effects[t]  BY <1>0, <1>4 DEF FinishTask, Deliver, TypeOK
  <2>3. Signal(Receivers(effects[t])) \subseteq signals'  BY <1>4, <2>1 DEF FinishTask, Signal
  <2> QED BY <1>2, <1>4, <2>1, <2>2, <2>3 DEF FinishTask
<1>5. ASSUME NEW t \in Tasks, NEW k, NEW sig, EndUndispatched({t}, k, sig) PROVE FALSE
  BY <1>3, <1>5 DEF EndUndispatched
<1>6. ASSUME NEW t \in Tasks, NEW restore, NEW sig, Dispatch(t, restore, sig, mailbox) PROVE FALSE
  BY <1>1, <1>5, <1>6 DEF Dispatch, FailedWakeup
<1>7. ASSUME NEW t \in Tasks, NEW delayed, Submit(t, delayed) PROVE FALSE
  BY <1>1, <1>6, <1>7 DEF Submit, messageVars
<1>8. ASSUME NEW t \in Tasks, SuspendPrepare(t) PROVE MailChange(u)
  BY <1>1, <1>4, <1>8 DEF SuspendPrepare, messageVars, CoreInv, WorkerAgrees
<1>9. ASSUME NEW t \in Tasks, SuspendFinish(t) PROVE MailChange(u)
  <2>0. tx[t] = "committed"  BY <1>9 DEF SuspendFinish, CoreInv, WorkerAgrees
  <2>1. CASE FinishTask(t, "yes")  BY <1>4, <2>0, <2>1
  <2>2. CASE ~FinishTask(t, "yes")
    <3>1. SuspendWait(t)  BY <1>9, <2>2 DEF SuspendFinish
    <3>2. u \in effects[t]  BY <1>0, <3>1 DEF SuspendWait, TypeOK
    <3>3. Signal(Receivers(effects[t])) \subseteq signals' /\ effects' = [effects EXCEPT ![t] = {}]
      BY <3>1 DEF SuspendWait
    <3> QED BY <1>2, <2>0, <3>2, <3>3
  <2> QED BY <2>1, <2>2
<1>10. ASSUME NEW t \in Tasks, SuspendFails(t) PROVE MailChange(u)
  BY <1>4, <1>10 DEF SuspendFails, CoreInv, WorkerAgrees
<1>11. ASSUME NEW t \in Tasks, RenewPublish(t) PROVE MailChange(u)
  <2>1. u \in effects[t]  BY <1>0, <1>11 DEF RenewPublish, Deliver, TypeOK
  <2> QED BY <1>2, <1>11, <2>1 DEF RenewPublish, CoreInv, WorkerAgrees
<1>12. ASSUME NEW t \in Tasks, Finish(t) PROVE MailChange(u)
  BY <1>4, <1>12 DEF Finish, CoreInv, WorkerAgrees
<1>13. ASSUME NEW t \in Tasks, ConflictRetry(t) PROVE MailChange(u)
  BY <1>1, <1>4, <1>13 DEF ConflictRetry
<1>14. ASSUME NEW t \in Tasks, LogEventFails(t) \/ Panic(t) PROVE MailChange(u)
  BY <1>1, <1>4, <1>14 DEF LogEventFails, Panic, messageVars
<1>15. ASSUME NEW t \in Tasks, Receive(t) PROVE FALSE
  BY <1>0, <1>15 DEF Receive, TypeOK
<1>16. ASSUME NEW t \in Tasks, DrainWake(t) PROVE FALSE
  <2> DEFINE mail == IF wake[t].kind = "TaskMessage" /\ ~pending[t]
                       THEN [mailbox EXCEPT ![t] = 0] ELSE mailbox
             sig == signals \ {<<t, generation[t]>>}
  <2>1. Dispatch(t, wake[t].kind = "Retry", sig, mail)  BY <1>16 DEF DrainWake
  <2>2. CASE FailedWakeup(t, sig)  BY <1>5, <2>2 DEF FailedWakeup
  <2>3. CASE mailbox' = mail  BY <1>0, <2>3 DEF TypeOK
  <2> QED BY <2>1, <2>2, <2>3 DEF Dispatch
<1>17. ASSUME NEW t \in Tasks, WakeSuspended(t) PROVE FALSE
  BY <1>1, <1>5, <1>6, <1>17 DEF WakeSuspended, CancelUndispatched, DeferResume, messageVars
<1>18. CASE Stop \/ Detach
  BY <1>3, <1>18 DEF Stop, Detach
<1>19. ASSUME NEW t \in Tasks, Worker(t) PROVE MailChange(u)
  <2>1. CASE \/ SuspendPrepare(t) \/ SuspendFinish(t) \/ SuspendFails(t) \/ RenewPublish(t)
             \/ Finish(t) \/ ConflictRetry(t)
    BY <1>8, <1>9, <1>10, <1>11, <1>12, <1>13, <2>1
  <2>2. CASE mailbox' = mailbox  BY <1>1, <2>2
  <2> QED
    BY <1>19, <2>1, <2>2
    DEF Worker, WorkerSeesCancel, ExplicitRetry, CommandFails, Yield, Renew, Complete, Claim,
        BoundaryCommits, BoundaryFails, TerminalFails, AfterFailure, TerminalEnds, SuspendStale,
        RenewOpen, RenewBeginFails, Reserve, ReportStale, messageVars
<1>20. CASE Collector \/ Stopped \/ UNCHANGED vars
  BY <1>1, <1>20
  DEF Collector, BeginGc, StartSweep, Collect, EndGc, AbandonSweep, ReleaseGc, GcStep, Stopped, vars,
      schedulerVars, messageVars
<1>21. ASSUME NEW t \in Tasks, NEW v \in Tasks, NEW p, NEW g,
              \/ CancelTask(v) \/ Send(t, v) \/ Boot(t, p) \/ ForceGc(t)
              \/ NotifyFails(t) \/ TimerExpires(t) \/ DiscardSignal(t, g)
       PROVE  FALSE
  BY <1>1, <1>21
  DEF CancelTask, Send, Boot, ForceGc, NotifyFails, TimerExpires, DiscardSignal, messageVars
<1> QED
  BY <1>7, <1>14, <1>15, <1>16, <1>17, <1>18, <1>19, <1>20, <1>21, StepCases
  DEF MailChange, Kill, Abort, Respond, Resume

\* A message leaves its sender only when the sender's transaction has committed
THEOREM EffectsAreCommitted == Spec => EffectsFollowCommit
<1>1. CoreInv /\ [Next]_vars =>
        [\A u \in Tasks : mailbox'[u] > mailbox[u] =>
           \E t \in Tasks : u \in effects[t] /\ effects'[t] = {} /\ tx[t] = "committed"]_vars
  BY MailSteps DEF MailChange
<1> QED BY <1>1, CoreInvariant, PTL DEF Spec, EffectsFollowCommit

-----------------------------------------------------------------------------
\* Waits that have come true

\* What holds of a wait when it begins
WaitBegins(t) ==
  /\ wake[t].kind = "Immediate" => IsSignalled(t)
  /\ wake[t].kind = "TaskMessage" => ~(mailbox[t] > 0)
  /\ wake[t].kind = "GCComplete" => gcForce \/ gc # "idle"
  /\ wake[t].kind = "Task" => "Task" \in Waits /\ (wake[t].depLive => home[wake[t].dep] # "ended")

\* ... and a wait that a step leaves a task in began with it or goes on
LEMMA WaitsBegin ==
  ASSUME CoreInv, [Next]_vars, NEW u \in Tasks, home'[u] = "suspended", ~Stays(u)
  PROVE  WaitBegins(u)'
<1>0. TypeOK  BY DEF CoreInv
<1>1. generation'[u] # generation[u]
  <2>1. WaitChange(u)  BY WaitSteps
  <2>2. generation[u] \in Nat  BY <1>0 DEF TypeOK
  <2> QED BY <2>1, <2>2 DEF WaitChange
<1>2. ASSUME generation' = generation PROVE FALSE  BY <1>1, <1>2
<1>3. ASSUME NEW t \in Tasks, NEW w, Suspend(t, w) PROVE u = t /\ wake'[u] = w /\ generation'[u] = generation[u] + 1
  BY <1>0, <1>1, <1>3 DEF Suspend, TypeOK
<1>4. ASSUME NEW t \in Tasks, NEW restore, NEW sig, NEW mail, Dispatch(t, restore, sig, mail) PROVE FALSE
  BY <1>2, <1>4 DEF Dispatch, FailedWakeup, EndUndispatched, Unregister
<1>5. ASSUME NEW t \in Tasks, NEW delayed \in BOOLEAN, Submit(t, delayed) PROVE WaitBegins(u)'
  <2>1. Suspend(t, [kind |-> IF delayed THEN "Time" ELSE "GCComplete"])
    BY <1>4, <1>5 DEF Submit
  <2>2. wake'[u].kind = IF delayed THEN "Time" ELSE "GCComplete"  BY <1>3, <2>1
  <2>3. delayed \/ gcForce \/ gc # "idle"  BY <1>4, <1>5 DEF Submit, BlocksAdmission
  <2>4. UNCHANGED <<gc, gcForce>>  BY <1>5 DEF Submit, gcVars
  <2> QED BY <2>2, <2>3, <2>4 DEF WaitBegins
<1>6. ASSUME NEW t \in Tasks, SuspendFinish(t) PROVE WaitBegins(u)'
  <2> DEFINE mail == [v \in Tasks |-> IF v \in effects[t] THEN mailbox[v] + 1 ELSE mailbox[v]]
  <2>1. SuspendWait(t) /\ live' = live
    BY <1>2, <1>6 DEF SuspendFinish, FinishTask, Unregister
  <2>2. PICK w \in WaitFor(t, mail[t]) :
          /\ Suspend(t, w)
          /\ mailbox' = IF w.kind = "Immediate" THEN [mail EXCEPT ![t] = 0] ELSE mail
          /\ signals' = signals \cup Signal(Receivers(effects[t]))
               \cup IF w.kind = "Immediate" THEN {<<t, generation[t] + 1>>} ELSE {}
    BY <2>1 DEF SuspendWait
  <2>3. u = t /\ wake'[u] = w /\ generation'[u] = generation[u] + 1  BY <1>3, <2>2
  <2>4. CASE w.kind = "Immediate"
    BY <2>2, <2>3, <2>4 DEF WaitBegins, IsSignalled
  <2>5. CASE w.kind = "TaskMessage"
    <3>1. mailbox'[t] = mail[t]  BY <2>2, <2>5
    <3>2. ~(mail[t] > 0)  BY <1>0, <2>5, WaitForTypes
    <3> QED BY <2>3, <2>5, <3>1, <3>2 DEF WaitBegins
  <2>6. CASE w.kind = "Task"
    <3>1. w.dep \in Tasks /\ (w.depLive => w.dep \in live) /\ "Task" \in Waits
      BY <1>0, <2>6, WaitForTypes
    <3>2. w.depLive => home[w.dep] \in {"active", "suspended"}
      BY <3>1 DEF CoreInv, RegistryExact, Active, Suspended
    <3>3. home' = [home EXCEPT ![t] = "suspended"]  BY <2>2 DEF Suspend
    <3>4. w.depLive => home'[w.dep] # "ended"  BY <1>0, <3>1, <3>2, <3>3 DEF TypeOK
    <3>5. UNCHANGED scenario  BY StepCases
    <3> QED BY <2>3, <2>6, <3>1, <3>4, <3>5 DEF WaitBegins, Waits
  <2>7. w.kind # "GCComplete"  BY <1>0, WaitForTypes DEF WaitKinds
  <2> QED BY <2>3, <2>4, <2>5, <2>6, <2>7 DEF WaitBegins
<1>7. ASSUME NEW t \in Tasks, ConflictRetry(t) PROVE WaitBegins(u)'
  <2>1. Suspend(t, [kind |-> "Retry"])
    BY <1>2, <1>7 DEF ConflictRetry, FinishTask, Unregister
  <2>2. wake'[u].kind = "Retry"  BY <1>3, <2>1
  <2> QED BY <2>2 DEF WaitBegins
<1>8. ASSUME NEW t \in Tasks, WakeSuspended(t) PROVE WaitBegins(u)'
  <2>1. DeferResume(t)
    BY <1>2, <1>4, <1>8 DEF WakeSuspended, CancelUndispatched, EndUndispatched, Unregister
  <2>2. u = t /\ wake'[u].kind = "Immediate" /\ generation'[u] = generation[u] + 1
    BY <1>3, <2>1 DEF DeferResume
  <2> QED BY <2>1, <2>2 DEF DeferResume, WaitBegins, IsSignalled
<1>9. ASSUME NEW t \in Tasks, Worker(t) PROVE WaitBegins(u)'
  <2>1. CASE SuspendFinish(t) \/ ConflictRetry(t)  BY <1>6, <1>7, <2>1
  <2>2. CASE generation' = generation  BY <1>2, <2>2
  <2> QED
    BY <1>9, <2>1, <2>2
    DEF Worker, WorkerSeesCancel, ExplicitRetry, CommandFails, Yield, Renew, Complete, Claim,
        BoundaryCommits, BoundaryFails, TerminalFails, AfterFailure, TerminalEnds, SuspendPrepare,
        SuspendStale, SuspendFails, RenewPublish, RenewOpen, RenewBeginFails, Reserve, ReportStale,
        Finish, FinishTask, Unregister, queueVars
<1>10. ASSUME NEW t \in Tasks, NEW v \in Tasks, NEW p, NEW g,
              \/ CancelTask(v) \/ Send(t, v) \/ Boot(t, p) \/ Receive(t) \/ ForceGc(t)
              \/ NotifyFails(t) \/ LogEventFails(t) \/ Panic(t)
              \/ TimerExpires(t) \/ DrainWake(t) \/ DiscardSignal(t, g)
       PROVE  FALSE
  BY <1>2, <1>4, <1>10
  DEF CancelTask, RemoveTerminal, Send, Boot, Receive, ForceGc, NotifyFails, LogEventFails, Panic,
      FinishTask, Unregister, TimerExpires, DrainWake, DiscardSignal, queueVars
<1>11. CASE Collector \/ Stop \/ Detach \/ Stopped \/ UNCHANGED vars
  BY <1>2, <1>11
  DEF Collector, BeginGc, StartSweep, Collect, EndGc, AbandonSweep, ReleaseGc, GcStep, Stop, Detach,
      Unregister, Stopped, vars, schedulerVars, queueVars
<1> QED
  BY <1>5, <1>8, <1>9, <1>10, <1>11, StepCases DEF Kill, Abort, Respond, Resume

\* Without conflicts no worker reports one
LEMMA ConflictStep ==
  ASSUME CoreInv, NoConflicts, [Next]_vars
  PROVE  NoConflicts'
<1>0. UNCHANGED scenario /\ pc \in [Tasks -> Pcs]  BY StepCases DEF CoreInv, TypeOK
<1> DEFINE Good == NoConflicts'
<1> SUFFICES Good  OBVIOUS
<1> USE <1>0 DEF NoConflicts, Faults, workerVars
<1>1. ASSUME \A t \in Tasks : pc'[t] = "conflict" => pc[t] = "conflict" \/ "conflict" \in Faults
      PROVE  Good
  BY <1>1
<1>2. CASE UNCHANGED pc  BY <1>1, <1>2
<1>3. ASSUME NEW t \in Tasks, NEW next \in Pcs, pc' = [pc EXCEPT ![t] = next],
             next = "conflict" => "conflict" \in Faults
      PROVE  Good
  BY <1>1, <1>3
<1> HIDE DEF Good, NoConflicts, Faults
<1>8. ASSUME NEW t \in Tasks, NEW restore, NEW sig, NEW mail, Dispatch(t, restore, sig, mail) PROVE Good
  BY <1>2, <1>3, <1>8 DEF Dispatch, FailedWakeup, EndUndispatched, Pcs
<1>10. ASSUME NEW t \in Tasks, Worker(t) PROVE Good
  <2>1. CASE WorkerSeesCancel(t) \/ Yield(t) \/ Renew(t) \/ Complete(t) \/ CommandFails(t)
    BY <1>3, <2>1 DEF WorkerSeesCancel, Yield, Renew, Complete, Claim, CommandFails, Pcs
  <2>2. CASE BoundaryCommits(t)
    <3>1. pc' = [pc EXCEPT ![t] = IF pc[t] = "yield" THEN "yielded" ELSE "publish"]
      BY <2>2 DEF BoundaryCommits
    <3> QED BY <1>3, <3>1 DEF Pcs
  <2>3. CASE BoundaryFails(t) \/ TerminalFails(t) \/ ExplicitRetry(t)
    BY <1>3, <2>3 DEF BoundaryFails, TerminalFails, AfterFailure, ExplicitRetry, Pcs
  <2>4. CASE \/ TerminalEnds(t, "yes") \/ TerminalEnds(t, "no") \/ RenewPublish(t) \/ RenewOpen(t)
             \/ RenewBeginFails(t) \/ Reserve(t) \/ ConflictRetry(t)
    BY <1>3, <2>4
    DEF TerminalEnds, RenewPublish, RenewOpen, RenewBeginFails, Reserve, ConflictRetry, Pcs
  <2>5. CASE \/ SuspendPrepare(t) \/ SuspendStale(t) \/ SuspendFinish(t) \/ SuspendFails(t)
             \/ ReportStale(t) \/ Finish(t)
    BY <1>3, <2>5
    DEF SuspendPrepare, SuspendStale, SuspendFinish, SuspendFails, ReportStale, Finish,
        WorkerLeaves, Pcs
  <2> QED BY <1>10, <2>1, <2>2, <2>3, <2>4, <2>5 DEF Worker
<1>11. ASSUME NEW t \in Tasks, Panic(t) PROVE Good
  BY <1>3, <1>11 DEF Panic, Pcs
<1>12. ASSUME NEW t \in Tasks, NEW delayed, Submit(t, delayed) PROVE Good
  BY <1>2, <1>8, <1>12 DEF Submit
<1>13. ASSUME NEW t \in Tasks, WakeSuspended(t) \/ DrainWake(t) PROVE Good
  BY <1>2, <1>8, <1>13 DEF WakeSuspended, CancelUndispatched, EndUndispatched, DeferResume, DrainWake
<1>14. ASSUME NEW t \in Tasks, NEW v \in Tasks, NEW p, NEW g,
              \/ CancelTask(v) \/ Send(t, v) \/ Boot(t, p) \/ Receive(t) \/ ForceGc(t)
              \/ NotifyFails(t) \/ LogEventFails(t) \/ TimerExpires(t) \/ DiscardSignal(t, g)
       PROVE  Good
  BY <1>2, <1>14
  DEF CancelTask, Send, Boot, Receive, ForceGc, NotifyFails, LogEventFails, TimerExpires, DiscardSignal
<1>15. CASE Collector \/ Stop \/ Detach \/ Stopped \/ UNCHANGED vars
  BY <1>2, <1>15
  DEF Collector, BeginGc, StartSweep, Collect, EndGc, AbandonSweep, ReleaseGc, GcStep, Stop, Detach,
      Stopped, vars, schedulerVars
<1>16. ASSUME NEW t \in Tasks, NEW v \in Tasks, Kill(t, v) \/ Abort(v) \/ Respond(t) \/ Resume(v, t)
       PROVE  Good
  BY <1>13, <1>14, <1>16 DEF Kill, Abort, Respond, Resume
<1> QED
  BY <1>10, <1>11, <1>12, <1>13, <1>14, <1>15, <1>16, StepCases

\* A task that gave up stays as it ended
LEMMA GivenUpStays ==
  ASSUME CoreInv, [Next]_vars, NEW d \in Tasks, home[d] = "ended", OutOfRetries(d)
  PROVE  OutOfRetries(d)'
<1>0. /\ home \in [Tasks -> {"none", "active", "suspended", "ended"}]
      /\ control \in [Tasks -> Controls] /\ retries \in [Tasks -> Nat]
      /\ result \in [Tasks -> Kepts]
  BY DEF CoreInv, TypeOK
<1>a. control[d] = "Cancelled" /\ ~RunningDispatch(d)  BY DEF OutOfRetries, RunningDispatch
<1>b. pc[d] \notin {"yield", "renew", "yielded", "suspend", "publish", "open", "terminal"}
  BY <1>a DEF CoreInv, WorkerAgrees
<1> DEFINE Good == OutOfRetries(d)'
<1> SUFFICES Good  OBVIOUS
<1>1. ASSUME control'[d] = control[d], retries'[d] = retries[d], result'[d] = result[d] PROVE Good
  BY <1>1 DEF OutOfRetries
<1>2. ASSUME UNCHANGED <<control, retries, result>> PROVE Good  BY <1>1, <1>2
<1> HIDE DEF Good
<1>3. ASSUME NEW S, NEW k, SendResult(S, k), d \notin S, control'[d] = control[d],
             retries'[d] = retries[d]
      PROVE  Good
  BY <1>1, <1>3 DEF SendResult
<1>8. ASSUME NEW t \in Tasks, t # d, NEW restore, NEW sig, NEW mail, Dispatch(t, restore, sig, mail)
      PROVE  Good
  BY <1>0, <1>1, <1>3, <1>8 DEF Dispatch, FailedWakeup, EndUndispatched, workerVars, outcomeVars
<1>9. ASSUME Worker(d) PROVE Good
  <2>1. WorkerSeesCancel(d) \/ ExplicitRetry(d) \/ CommandFails(d) \/ ReportStale(d)
    BY <1>9, <1>a, <1>b
    DEF Worker, Yield, Renew, Complete, Claim, BoundaryCommits, BoundaryFails, TerminalFails,
        TerminalEnds, SuspendPrepare, SuspendStale, SuspendFinish, SuspendFails, RenewPublish,
        RenewOpen, RenewBeginFails, Reserve, Finish, ConflictRetry
  <2> QED
    BY <1>2, <2>1
    DEF WorkerSeesCancel, ExplicitRetry, CommandFails, ReportStale, WorkerLeaves, outcomeVars
<1>10. ASSUME NEW t \in Tasks, t # d, Worker(t) PROVE Good
  <2>1. CASE WorkerSeesCancel(t) \/ Yield(t) \/ Renew(t) \/ Complete(t) \/ CommandFails(t)
    BY <1>0, <1>1, <1>10, <2>1
    DEF WorkerSeesCancel, Yield, Renew, Complete, Claim, CommandFails, outcomeVars
  <2>2. CASE BoundaryCommits(t) \/ BoundaryFails(t) \/ TerminalFails(t) \/ ExplicitRetry(t)
    BY <1>0, <1>1, <1>10, <2>2
    DEF BoundaryCommits, BoundaryFails, TerminalFails, AfterFailure, ExplicitRetry, outcomeVars
  <2>3. CASE \/ TerminalEnds(t, "yes") \/ TerminalEnds(t, "no") \/ RenewPublish(t) \/ RenewOpen(t)
             \/ RenewBeginFails(t) \/ Reserve(t)
    BY <1>0, <1>1, <1>10, <2>3
    DEF TerminalEnds, RenewPublish, RenewOpen, RenewBeginFails, Reserve, outcomeVars
  <2>4. CASE ConflictRetry(t)
    <3>1. control'[d] = control[d]  BY <1>0, <1>10, <2>4 DEF ConflictRetry
    <3>2. retries'[d] = retries[d]  BY <1>0, <1>10, <2>4 DEF ConflictRetry
    <3>3. CASE SendResult({t}, "no")  BY <1>3, <1>10, <3>1, <3>2, <3>3
    <3>4. CASE UNCHANGED outcomeVars  BY <1>1, <3>1, <3>2, <3>4 DEF outcomeVars
    <3> QED BY <2>4, <3>3, <3>4 DEF ConflictRetry, FinishTask
  <2>5. CASE SuspendPrepare(t) \/ SuspendStale(t) \/ SuspendFinish(t) \/ SuspendFails(t)
    <3>1. control'[d] = control[d] /\ retries' = retries
      BY <1>0, <1>10, <2>5
      DEF SuspendPrepare, SuspendStale, SuspendFinish, SuspendFails, DropClaim, WorkerLeaves
    <3>2. SendResult({t}, "yes") \/ UNCHANGED outcomeVars
      BY <2>5 DEF SuspendPrepare, SuspendStale, SuspendFinish, SuspendFails, FinishTask
    <3> QED BY <1>1, <1>3, <1>10, <3>1, <3>2 DEF outcomeVars
  <2>6. CASE ReportStale(t) \/ Finish(t)
    BY <1>1, <1>3, <1>10, <2>6 DEF ReportStale, Finish, FinishTask, WorkerLeaves, outcomeVars
  <2> QED BY <1>10, <2>1, <2>2, <2>3, <2>4, <2>5, <2>6 DEF Worker
<1>11. ASSUME NEW t \in Tasks, Panic(t) PROVE Good
  <2>1. control'[d] = control[d]  BY <1>0, <1>a, <1>b, <1>11 DEF Panic
  <2>2. retries' = retries  BY <1>11 DEF Panic
  <2>3. CASE home[t] = "active" /\ FinishTask(t, "unknown")
    BY <1>3, <2>1, <2>2, <2>3 DEF FinishTask
  <2>4. CASE UNCHANGED outcomeVars  BY <1>1, <2>1, <2>2, <2>4 DEF outcomeVars
  <2> QED BY <1>11, <2>3, <2>4 DEF Panic
<1>12. ASSUME NEW t \in Tasks, NEW delayed, Submit(t, delayed) PROVE Good
  BY <1>2, <1>8, <1>12 DEF Submit, workerVars, outcomeVars
<1>13. ASSUME NEW t \in Tasks, home[t] = "suspended", WakeSuspended(t) \/ DrainWake(t) PROVE Good
  <2>1. CASE CancelUndispatched({t})
    BY <1>3, <1>13, <2>1 DEF CancelUndispatched, EndUndispatched, workerVars
  <2>2. CASE DeferResume(t)  BY <1>2, <2>2 DEF DeferResume, workerVars, outcomeVars
  <2> QED BY <1>8, <1>13, <2>1, <2>2 DEF WakeSuspended, DrainWake
<1>14. ASSUME NEW v \in Tasks, CancelTask(v) PROVE Good
  BY <1>0, <1>1, <1>14 DEF CancelTask, workerVars, outcomeVars
<1>15. ASSUME NEW t \in Tasks, NEW p, Boot(t, p) \/ NotifyFails(t) PROVE Good
  BY <1>0, <1>1, <1>a, <1>15 DEF Boot, NotifyFails, workerVars, outcomeVars
<1>16. ASSUME NEW t \in Tasks, LogEventFails(t) PROVE Good
  BY <1>3, <1>a, <1>16 DEF LogEventFails, FinishTask, workerVars
<1>17. ASSUME NEW t \in Tasks, NEW v \in Tasks, NEW g,
              \/ Send(t, v) \/ Receive(t) \/ ForceGc(t) \/ TimerExpires(t) \/ DiscardSignal(t, g)
       PROVE  Good
  BY <1>2, <1>17
  DEF Send, Receive, ForceGc, TimerExpires, DiscardSignal, workerVars, outcomeVars
<1>18. CASE Collector \/ Stopped \/ UNCHANGED vars
  BY <1>2, <1>18
  DEF Collector, BeginGc, StartSweep, Collect, EndGc, AbandonSweep, ReleaseGc, GcStep, Stopped, vars,
      schedulerVars, workerVars, outcomeVars
<1>19. CASE Stop
  <2>1. d \notin {t \in Tasks : pending[t]}  BY DEF CoreInv, RecordAgrees
  <2> QED BY <1>3, <1>19, <2>1 DEF Stop, workerVars
<1>20. CASE Detach  BY <1>3, <1>20 DEF Detach, Active, workerVars
<1>21. ASSUME NEW t \in Tasks, NEW v \in Tasks, Kill(t, v) \/ Abort(v) \/ Respond(t) \/ Resume(v, t)
       PROVE  Good
  BY <1>13, <1>14, <1>21 DEF Kill, Abort, Respond, Resume
<1>22. ASSUME NEW t \in Tasks, DrainWake(t) PROVE Good  BY <1>13, <1>22 DEF DrainWake
<1> QED
  BY <1>9, <1>10, <1>11, <1>12, <1>15, <1>16, <1>17, <1>18, <1>19, <1>20, <1>21, <1>22, StepCases

\* A task that waits for d is signalled by the step that ends d, unless d gave up
LEMMA EndSteps ==
  ASSUME CoreInv, [Next]_vars,
         NEW d \in Tasks, home[d] # "ended", home'[d] = "ended", ~OutOfRetries(d)',
         NEW u \in Tasks, Stays(u), wake[u].kind = "Task", wake[u].dep = d
  PROVE  <<u, generation[u]>> \in signals'
<1> DEFINE Good == <<u, generation[u]>> \in signals'
<1> SUFFICES Good  OBVIOUS
<1>0. TypeOK /\ home[u] = "suspended" /\ home'[u] = "suspended"  BY DEF CoreInv, Stays
<1>1. ASSUME NEW S, Unregister(S), Signal(Dependents(S)) \subseteq signals' PROVE Good
  <2>1. d \in S /\ u \notin S  BY <1>0, <1>1 DEF Unregister
  <2>2. u \in Dependents(S)  BY <1>0, <2>1 DEF Dependents, Suspended
  <2> QED BY <1>1, <2>2 DEF Signal
<1>2. ASSUME NEW t \in Tasks, NEW k, FinishTask(t, k) PROVE Good
  BY <1>1, <1>2 DEF FinishTask, Signal
<1>3. ASSUME home' = home PROVE FALSE  BY <1>3
<1>4. ASSUME NEW t \in Tasks, NEW h \in {"active", "suspended"}, home' = [home EXCEPT ![t] = h] PROVE FALSE
  BY <1>0, <1>4 DEF TypeOK
<1> HIDE DEF Good
<1>5. ASSUME NEW S, NEW k, NEW sig, EndUndispatched(S, k, sig) PROVE Good
  BY <1>1, <1>5 DEF EndUndispatched
<1>6. ASSUME NEW t \in Tasks, NEW restore, NEW sig, NEW mail, Dispatch(t, restore, sig, mail) PROVE Good
  BY <1>4, <1>5, <1>6 DEF Dispatch, FailedWakeup
<1>7. ASSUME NEW t \in Tasks, NEW delayed, Submit(t, delayed) PROVE Good
  BY <1>4, <1>6, <1>7 DEF Submit, Suspend
<1>8. ASSUME NEW t \in Tasks, ConflictRetry(t) PROVE Good
  <2>1. CASE /\ state = "Running" /\ retries[t] >= MAX_RETRIES /\ Unregister({t})
             /\ SendResult({t}, "no") /\ UNCHANGED retries
    <3>1. t = d  BY <1>0, <2>1 DEF Unregister
    <3>2. control[t] \in {"Running", "Cancelled"}
      BY <1>8 DEF ConflictRetry, CoreInv, WorkerAgrees
    <3>3. control'[t] = "Cancelled"
      BY <1>0, <1>8, <3>2 DEF ConflictRetry, request_cancel, TypeOK
    <3>4. result'[t] = "no" /\ retries'[t] >= MAX_RETRIES  BY <2>1 DEF SendResult
    <3> QED BY <3>1, <3>3, <3>4 DEF OutOfRetries
  <2>2. CASE FinishTask(t, "no")  BY <1>2, <2>2
  <2>3. CASE Suspend(t, [kind |-> "Retry"])  BY <1>4, <2>3 DEF Suspend
  <2> QED BY <1>8, <2>1, <2>2, <2>3 DEF ConflictRetry
<1>9. ASSUME NEW t \in Tasks, SuspendPrepare(t) \/ SuspendFinish(t) \/ SuspendFails(t) \/ Finish(t)
      PROVE  Good
  BY <1>2, <1>3, <1>4, <1>9
  DEF SuspendPrepare, SuspendFinish, SuspendFails, Finish, SuspendWait, Suspend, queueVars
<1>10. ASSUME NEW t \in Tasks, Worker(t) PROVE Good
  <2>1. CASE \/ ConflictRetry(t) \/ SuspendPrepare(t) \/ SuspendFinish(t) \/ SuspendFails(t)
             \/ Finish(t)
    BY <1>8, <1>9, <2>1
  <2>2. CASE home' = home  BY <1>3, <2>2
  <2> QED
    BY <1>10, <2>1, <2>2
    DEF Worker, WorkerSeesCancel, ExplicitRetry, CommandFails, Yield, Renew, Complete, Claim,
        BoundaryCommits, BoundaryFails, TerminalFails, AfterFailure, TerminalEnds,
        SuspendStale, RenewPublish, RenewOpen, RenewBeginFails, Reserve, ReportStale, queueVars
<1>11. ASSUME NEW t \in Tasks, LogEventFails(t) \/ Panic(t) PROVE Good
  BY <1>2, <1>3, <1>11 DEF LogEventFails, Panic, queueVars
<1>12. ASSUME NEW v \in Tasks, CancelTask(v) PROVE Good
  BY <1>1, <1>3, <1>12 DEF CancelTask, RemoveTerminal, queueVars
<1>13. ASSUME NEW t \in Tasks, NEW p, Boot(t, p) PROVE Good
  BY <1>1, <1>13 DEF Boot, RemoveTerminal
<1>14. ASSUME NEW t \in Tasks, WakeSuspended(t) \/ DrainWake(t) PROVE Good
  BY <1>4, <1>5, <1>6, <1>14 DEF WakeSuspended, CancelUndispatched, DeferResume, Suspend, DrainWake
<1>15. ASSUME NEW t \in Tasks, NEW v \in Tasks, NEW g,
              \/ Send(t, v) \/ Receive(t) \/ ForceGc(t) \/ NotifyFails(t) \/ TimerExpires(t)
              \/ DiscardSignal(t, g)
       PROVE  Good
  BY <1>3, <1>15 DEF Send, Receive, ForceGc, NotifyFails, TimerExpires, DiscardSignal, queueVars
<1>16. CASE Stop \/ Detach
  BY <1>1, <1>16 DEF Stop, Detach
<1>17. CASE Collector \/ Stopped \/ UNCHANGED vars
  BY <1>3, <1>17
  DEF Collector, BeginGc, StartSweep, Collect, EndGc, AbandonSweep, ReleaseGc, GcStep, Stopped, vars,
      schedulerVars, queueVars
<1>18. ASSUME NEW t \in Tasks, NEW v \in Tasks, Kill(t, v) \/ Abort(v) \/ Respond(t) \/ Resume(v, t)
       PROVE  Good
  BY <1>12, <1>14, <1>18 DEF Kill, Abort, Respond, Resume
<1> QED
  BY <1>7, <1>10, <1>11, <1>13, <1>14, <1>15, <1>16, <1>17, <1>18, StepCases

\* A task held back by a collection is signalled by the step that ends the collection
LEMMA CollectionSteps ==
  ASSUME CoreInv, [Next]_vars, NEW u \in Tasks, home[u] = "suspended", wake[u].kind = "GCComplete",
         gcForce \/ gc # "idle"
  PROVE  gcForce' \/ gc' # "idle" \/ <<u, generation[u]>> \in signals'
<1> DEFINE Good == gcForce' \/ gc' # "idle" \/ <<u, generation[u]>> \in signals'
<1> SUFFICES Good  OBVIOUS
<1>1. ASSUME UNCHANGED gcVars PROVE Good  BY <1>1 DEF gcVars
<1>2. CASE BeginGc \/ StartSweep \/ Collect  BY <1>2 DEF BeginGc, StartSweep, Collect
<1>3. CASE EndGc \/ AbandonSweep
  <2>1. u \in {t \in Suspended : wake[t].kind = "GCComplete"}  BY DEF Suspended
  <2> QED BY <1>3, <2>1 DEF EndGc, AbandonSweep, ReleaseGc, Signal
<1>4. ASSUME NEW t \in Tasks, ForceGc(t) PROVE Good  BY <1>4 DEF ForceGc
<1> HIDE DEF Good
<1>5. ASSUME NEW t \in Tasks, Worker(t) PROVE Good
  BY <1>1, <1>5
  DEF Worker, WorkerSeesCancel, ExplicitRetry, CommandFails, Yield, Renew, Complete, Claim,
      BoundaryCommits, BoundaryFails, TerminalFails, AfterFailure, TerminalEnds, SuspendPrepare,
      SuspendStale, SuspendFinish, SuspendFails, RenewPublish, RenewOpen, RenewBeginFails, Reserve,
      ReportStale, Finish, ConflictRetry
<1>6. ASSUME NEW t \in Tasks, NEW v \in Tasks, NEW delayed,
             \/ Submit(t, delayed) \/ Kill(t, v) \/ Abort(t) \/ Send(t, v) \/ Receive(t)
             \/ NotifyFails(t) \/ LogEventFails(t) \/ Panic(t)
      PROVE  Good
  BY <1>1, <1>6
  DEF Submit, Kill, Abort, CancelTask, Send, Receive, NotifyFails, LogEventFails, Panic
<1>7. ASSUME NEW t \in Tasks, NEW v \in Tasks, NEW g, NEW p,
             \/ TimerExpires(t) \/ DrainWake(t) \/ Respond(t) \/ Resume(v, t) \/ DiscardSignal(t, g)
             \/ Boot(t, p)
      PROVE  Good
  BY <1>1, <1>7 DEF TimerExpires, DrainWake, Respond, Resume, DiscardSignal, Boot
<1>8. CASE Stop \/ Detach \/ Stopped \/ UNCHANGED vars
  BY <1>1, <1>8 DEF Stop, Detach, Stopped, vars, schedulerVars
<1> QED BY <1>2, <1>3, <1>4, <1>5, <1>6, <1>7, <1>8, StepCases DEF Collector

\* Only a running scheduler keeps a response for later
PendingRuns == \A t \in Tasks : pending[t] => state = "Running"

\* A resumption is pending only while the scheduler runs, whatever step is taken
LEMMA PendingStep ==
  ASSUME TypeOK, [Next]_vars, PendingRuns
  PROVE  PendingRuns'
<1> DEFINE Good == PendingRuns'
<1> SUFFICES Good  OBVIOUS
<1>1. ASSUME state' = state, pending' = pending PROVE Good
  BY <1>1 DEF PendingRuns
<1>2. ASSUME state' = state, NEW S, Unregister(S) PROVE Good
  BY <1>2 DEF PendingRuns, Unregister
<1>3. ASSUME state' = state, NEW t \in Tasks, pending' = [pending EXCEPT ![t] = FALSE] PROVE Good
  BY <1>3 DEF PendingRuns, TypeOK
<1>4. ASSUME state' = state, state = "Running" PROVE Good
  BY <1>4 DEF PendingRuns
<1>5. CASE Stop
  BY <1>5 DEF Stop, Unregister, PendingRuns
<1>6. CASE Stopped
  BY <1>6 DEF Stopped, PendingRuns, queueVars
<1> HIDE DEF Good
<1>7. ASSUME state' = state, NEW t \in Tasks, NEW restore, NEW sig, NEW mail,
             Dispatch(t, restore, sig, mail)
      PROVE  Good
  BY <1>2, <1>3, <1>7 DEF Dispatch, FailedWakeup, EndUndispatched
<1>8. ASSUME NEW t \in Tasks, Worker(t) PROVE Good
  <2>1. CASE \/ SuspendPrepare(t) \/ SuspendFinish(t) \/ SuspendFails(t) \/ Finish(t)
             \/ ConflictRetry(t)
    BY <1>1, <1>2, <1>4, <2>1
    DEF SuspendPrepare, SuspendFinish, SuspendFails, Finish, ConflictRetry, FinishTask, queueVars
  <2>2. CASE state' = state /\ pending' = pending  BY <1>1, <2>2
  <2> QED
    BY <1>8, <2>1, <2>2
    DEF Worker, WorkerSeesCancel, ExplicitRetry, CommandFails, Yield, Renew, Complete, Claim,
        BoundaryCommits, BoundaryFails, TerminalFails, AfterFailure, TerminalEnds,
        SuspendStale, RenewPublish, RenewOpen, RenewBeginFails, Reserve, ReportStale, queueVars
<1>9. ASSUME NEW t \in Tasks, NEW delayed, Submit(t, delayed) PROVE Good
  BY <1>4, <1>9 DEF Submit
<1>10. ASSUME NEW v \in Tasks, CancelTask(v) PROVE Good
  BY <1>1, <1>2, <1>10 DEF CancelTask, RemoveTerminal, queueVars
<1>11. ASSUME NEW t \in Tasks, NEW p, Boot(t, p) PROVE Good
  BY <1>2, <1>11 DEF Boot, RemoveTerminal
<1>12. ASSUME NEW t \in Tasks, LogEventFails(t) \/ Panic(t) PROVE Good
  BY <1>1, <1>2, <1>12 DEF LogEventFails, Panic, FinishTask, queueVars
<1>13. ASSUME NEW t \in Tasks, DrainWake(t) PROVE Good
  BY <1>7, <1>13 DEF DrainWake
<1>14. ASSUME NEW t \in Tasks, NEW r \in Tasks, Respond(t) \/ Resume(r, t) PROVE Good
  BY <1>2, <1>4, <1>14
  DEF Respond, Resume, WakeSuspended, CancelUndispatched, EndUndispatched
<1>15. ASSUME NEW t \in Tasks, NEW v \in Tasks, NEW g,
              \/ Send(t, v) \/ Receive(t) \/ ForceGc(t) \/ NotifyFails(t) \/ TimerExpires(t)
              \/ DiscardSignal(t, g)
       PROVE  Good
  BY <1>1, <1>15 DEF Send, Receive, ForceGc, NotifyFails, TimerExpires, DiscardSignal, queueVars
<1>16. CASE Detach  BY <1>2, <1>16 DEF Detach
<1>17. CASE Collector \/ UNCHANGED vars
  BY <1>1, <1>17
  DEF Collector, BeginGc, StartSweep, Collect, EndGc, AbandonSweep, ReleaseGc, GcStep, vars,
      schedulerVars, queueVars
<1>18. ASSUME NEW t \in Tasks, NEW v \in Tasks, Kill(t, v) \/ Abort(v) PROVE Good
  BY <1>10, <1>18 DEF Kill, Abort
<1> QED
  BY <1>5, <1>6, <1>8, <1>9, <1>11, <1>12, <1>13, <1>14, <1>15, <1>16, <1>17, <1>18, StepCases

\* What the waits rest on, besides the core
WaitInv == CoreInv /\ NoConflicts /\ PendingRuns

\* It holds in every state
LEMMA WaitInvariant == Spec => []WaitInv
<1>1. Init => NoConflicts /\ PendingRuns
  BY DEF Init, NoConflicts, PendingRuns
<1>2. WaitInv /\ CoreInv' /\ [Next]_vars => WaitInv'
  BY ConflictStep, PendingStep DEF WaitInv, CoreInv
<1>3. Init /\ CoreInv => WaitInv  BY <1>1 DEF WaitInv
<1> QED BY <1>2, <1>3, CoreInvariant, PTL DEF Spec

\* Every wait whose condition has come true is queued: a response kept for after a
\* sweep, mail, the end of a collection, the end of the task waited for, whatever ended
\* it but the exhaustion of its retries; for any programs, faults and limits
THEOREM NoWakeIsMissed == Spec => []NoMissedWake
<1>1. Init => NoMissedWake
  BY DEF Init, NoMissedWake, NoMissedResponse, NoMissedMessage, NoMissedCollection, NoMissedEnd
<1>2. WaitInv /\ WaitInv' /\ NoMissedWake /\ [Next]_vars => NoMissedWake'
  <2> SUFFICES ASSUME WaitInv, WaitInv', NoMissedWake, [Next]_vars
               PROVE  NoMissedWake'
    OBVIOUS
  <2>0. SignalChange /\ CoreInv  BY WaitSteps DEF WaitInv
  <2>1. NoMissedResponse'
    <3> SUFFICES ASSUME NEW t \in Tasks
                 PROVE  /\ home'[t] = "suspended" /\ (pending'[t] \/ wake'[t].kind = "Immediate")
                              => IsSignalled(t)'
                        /\ pending'[t] => state' = "Running"
      BY DEF NoMissedResponse
    <3>1. pending'[t] => wake'[t].kind = "Immediate"  BY DEF WaitInv, CoreInv, RecordAgrees
    <3>2. ASSUME home'[t] = "suspended", wake'[t].kind = "Immediate" PROVE IsSignalled(t)'
      <4>1. CASE Stays(t)
        BY <2>0, <3>2, <4>1 DEF Stays, SignalChange, NoMissedWake, NoMissedResponse
      <4>2. CASE ~Stays(t)  BY <2>0, <3>2, <4>2, WaitsBegin DEF WaitBegins
      <4> QED BY <4>1, <4>2
    <3> QED BY <3>1, <3>2 DEF WaitInv, PendingRuns
  <2>2. NoMissedMessage'
    <3> SUFFICES ASSUME NEW t \in Tasks, home'[t] = "suspended", wake'[t].kind = "TaskMessage",
                        mailbox'[t] > 0
                 PROVE  IsSignalled(t)'
      BY DEF NoMissedMessage
    <3>1. CASE Stays(t)
      <4>1. CASE mailbox[t] > 0
        BY <2>0, <3>1, <4>1 DEF Stays, SignalChange, NoMissedWake, NoMissedMessage
      <4>2. CASE ~(mailbox[t] > 0)
        <5>1. mailbox[t] \in Nat /\ mailbox'[t] \in Nat  BY DEF WaitInv, CoreInv, TypeOK
        <5>2. mailbox'[t] > mailbox[t]  BY <4>2, <5>1
        <5> QED BY <2>0, <3>1, <5>2, MailSteps DEF MailChange, Stays, IsSignalled
      <4> QED BY <4>1, <4>2
    <3>2. CASE ~Stays(t)  BY <2>0, <3>2, WaitsBegin DEF WaitBegins
    <3> QED BY <3>1, <3>2
  <2>3. NoMissedCollection'
    <3> SUFFICES ASSUME NEW t \in Tasks, home'[t] = "suspended", wake'[t].kind = "GCComplete"
                 PROVE  gcForce' \/ gc' # "idle" \/ IsSignalled(t)'
      BY DEF NoMissedCollection
    <3>1. CASE Stays(t)
      <4>1. CASE IsSignalled(t)  BY <2>0, <3>1, <4>1 DEF SignalChange
      <4>2. CASE gcForce \/ gc # "idle"
        BY <2>0, <3>1, <4>2, CollectionSteps DEF Stays, IsSignalled
      <4> QED BY <3>1, <4>1, <4>2 DEF Stays, NoMissedWake, NoMissedCollection
    <3>2. CASE ~Stays(t)  BY <2>0, <3>2, WaitsBegin DEF WaitBegins
    <3> QED BY <3>1, <3>2
  <2>4. NoMissedEnd'
    <3> SUFFICES ASSUME NEW t \in Tasks, home'[t] = "suspended", wake'[t].kind = "Task",
                        wake'[t].depLive, home'[wake'[t].dep] = "ended",
                        ~OutOfRetries(wake[t].dep)' \/ ~Stays(t)
                 PROVE  IsSignalled(t)'
      BY DEF NoMissedEnd, OutOfRetries, Stays
    <3>1. CASE Stays(t)
      <4>1. wake[t].dep \in Tasks
        BY <3>1, WakeTypes DEF Stays, WaitInv, CoreInv, TypeOK
      <4>d. PICK d \in Tasks : d = wake[t].dep  BY <4>1
      <4>o. ~OutOfRetries(d)' /\ home'[d] = "ended"  BY <3>1, <4>d DEF OutOfRetries, Stays
      <4>2. CASE home[d] = "ended"
        <5>1. ~OutOfRetries(d)  BY <2>0, <4>o, <4>2, GivenUpStays
        <5> QED
          BY <2>0, <3>1, <4>d, <4>2, <5>1 DEF Stays, SignalChange, NoMissedWake, NoMissedEnd
      <4>3. CASE home[d] # "ended"
        BY <2>0, <3>1, <4>d, <4>o, <4>3, EndSteps DEF Stays, IsSignalled
      <4> QED BY <4>2, <4>3
    <3>2. CASE ~Stays(t)  BY <2>0, <3>2, WaitsBegin DEF WaitBegins
    <3> QED BY <3>1, <3>2
  <2> QED BY <2>1, <2>2, <2>3, <2>4 DEF NoMissedWake
<1> QED BY <1>1, <1>2, WaitInvariant, PTL DEF Spec

-----------------------------------------------------------------------------
\* What a step does to one task

SameRecord(u) == home'[u] = home[u] /\ wake'[u] = wake[u] /\ result'[u] = result[u]

SameThread(u) ==
  pc'[u] = pc[u] /\ tx'[u] = tx[u] /\ kept'[u] = kept[u] /\ abandoned'[u] = abandoned[u]

\* Others act; they may mark u as cancelled, and its record stays active only if a
\* commit is claimed, the scheduler stops, or the cancellation is a soft one
Aside(u) ==
  /\ SameRecord(u) /\ SameThread(u)
  /\ \/ control'[u] = control[u]
     \/ /\ home[u] = "active" /\ control'[u] = request_cancel(control[u])
        /\ control'[u] # "Cancelled" \/ control[u] = "Cancelled" \/ state' # "Running" \/ ~NoSoftCancel

\* u is killed, booted or given up: nobody is told
Removed(u) ==
  /\ home[u] \in {"active", "suspended"} /\ home'[u] = "ended" /\ result'[u] = result[u]
  /\ home[u] = "active" => control'[u] = "Cancelled"
  /\ SameThread(u)

\* u is submitted and has to wait, or its wait goes on until a sweep is over
Held(u) ==
  /\ home'[u] = "suspended" /\ result'[u] = result[u] /\ SameThread(u)
  /\ \/ home[u] = "none"
     \/ home[u] = "suspended" /\ (wake[u].kind = "Retry" => "Retry" \in ResumeKinds)
  /\ wake'[u].kind \in {"Time", "GCComplete", "Immediate"}

\* u is dispatched; a retry restores its VM state, unless it was resumed
Dispatched(u) ==
  /\ home[u] \in {"none", "suspended"} /\ home'[u] = "active"
  /\ state' = "Running" /\ gc' # "collecting"
  /\ control'[u] = "Running" /\ pc'[u] = "run" /\ tx'[u] = "open"
  /\ home[u] = "suspended" /\ wake[u].kind = "Retry" /\ "Retry" \notin ResumeKinds => ~abandoned'[u]
  /\ abandoned'[u] => abandoned[u]
  /\ kept'[u] = kept[u] /\ result'[u] = result[u]

\* u ends without a dispatch: no transaction could be opened, or the scheduler stops
Refused(u) ==
  /\ home[u] \in {"none", "suspended"} /\ home'[u] = "ended" /\ SameThread(u)
  /\ \/ "begin" \in Faults /\ result'[u] = "no"
     \/ home[u] = "suspended" /\ result'[u] = IF wake[u].kind = "Retry" THEN "no" ELSE "yes"

\* u is still active at the deadline of a stop
Detached(u) ==
  /\ home[u] = "active" /\ home'[u] = "ended" /\ result'[u] = "unknown"
  /\ control'[u] = control[u] /\ SameThread(u) /\ state' # "Running"

\* An event of u could not be logged
Unlogged(u) ==
  /\ "log" \in Faults
  /\ home[u] = "active" /\ home'[u] = "ended" /\ result'[u] = "no"
  /\ control'[u] = control[u] /\ SameThread(u)

\* The thread of u panics
Panicked(u) ==
  /\ pc[u] # "idle" /\ pc'[u] = "idle" /\ tx'[u] = IF tx[u] = "open" THEN "rolledback" ELSE tx[u]
  /\ abandoned'[u] = abandoned[u]
  /\ \/ home[u] = "active" /\ home'[u] = "ended" /\ result'[u] = "unknown"
     \/ home[u] # "active" /\ SameRecord(u)

\* The thread of u takes a step of its own
Works(u) ==
  /\ SameRecord(u) /\ abandoned'[u] = abandoned[u]
  /\ \/ /\ pc[u] = "run" /\ pc'[u] = "end" /\ kept'[u] = "no"
        /\ tx'[u] = "rolledback" /\ control'[u] = control[u]
     \/ /\ pc[u] = "run" /\ pc'[u] \in {"yield", "renew", "terminal"}
        /\ control[u] = "Running" /\ tx'[u] = tx[u]
     \/ /\ pc[u] \in {"yield", "renew"} /\ pc'[u] \in {"yielded", "publish"}
        /\ tx'[u] = "committed"
     \/ /\ pc[u] \in {"yield", "renew", "terminal"} /\ pc'[u] = "conflict"
        /\ tx'[u] = "rolledback" /\ control'[u] = "Running"
     \/ /\ pc[u] \in {"yield", "renew", "terminal"} /\ pc'[u] = "end" /\ kept'[u] = "no"
        /\ tx'[u] = "rolledback"
     \/ /\ pc[u] = "terminal" /\ pc'[u] = "end" /\ kept'[u] = "yes" /\ tx'[u] = "committed"
     \/ /\ pc[u] = "run" /\ pc'[u] = "conflict" /\ control'[u] = control[u] /\ tx'[u] = "rolledback"
     \/ /\ pc[u] \in {"yielded", "publish"} /\ pc'[u] \in {"suspend", "open"} /\ tx'[u] = tx[u]
     \/ /\ home[u] = "active" /\ pc[u] = "open" /\ pc'[u] = "run" /\ control'[u] = "Running"
        /\ tx'[u] = "open"
     \/ /\ home[u] = "active" /\ pc[u] = "open" /\ pc'[u] = "end" /\ kept'[u] = "no"
        /\ tx'[u] = "rolledback"
     \/ /\ pc[u] \in {"publish", "open"} /\ pc'[u] = "end" /\ tx'[u] = tx[u]
        /\ home[u] # "active" \/ "begin" \in Faults
     \/ /\ pc[u] = "end" /\ pc'[u] = "finish" /\ kept'[u] = kept[u] /\ tx'[u] = tx[u]
     \/ /\ home[u] # "active" /\ pc'[u] = "idle" /\ tx'[u] = tx[u]

\* The thread of u hands it back and goes: it waits, or has to retry, or ends
Returns(u) ==
  /\ home[u] = "active" /\ pc'[u] = "idle" /\ tx'[u] = tx[u]
  /\ \/ /\ home'[u] = "suspended" /\ pc[u] = "suspend" /\ control[u] = "BoundaryCommit"
        /\ wake'[u].kind \in WaitKinds \cup {"Immediate"}
        /\ result'[u] = result[u] /\ abandoned'[u] = abandoned[u]
     \/ /\ home'[u] = "suspended" /\ pc[u] = "conflict" /\ wake'[u].kind = "Retry"
        /\ state = "Running" /\ result'[u] = result[u]
     \/ /\ home'[u] = "ended" /\ abandoned'[u] = abandoned[u]
        /\ \/ pc[u] \in {"yielded", "suspend"} /\ result'[u] = "yes"
           \/ pc[u] = "conflict" /\ result'[u] = "no"
           \/ pc[u] = "finish" /\ result'[u] = kept[u]

TaskChange(u) ==
  \/ Aside(u) \/ Removed(u) \/ Held(u) \/ Dispatched(u) \/ Refused(u) \/ Detached(u) \/ Unlogged(u)
  \/ Panicked(u) \/ Works(u) \/ Returns(u)

\* What a step may do to one task: the cases that the proofs about fates share
LEMMA TaskSteps ==
  ASSUME CoreInv, [Next]_vars, NEW u \in Tasks
  PROVE  TaskChange(u)
<1> DEFINE Good == TaskChange(u)
<1> SUFFICES Good  OBVIOUS
<1>0. TypeOK /\ RecordAgrees /\ WorkerAgrees  BY DEF CoreInv
<1>t. /\ home \in [Tasks -> {"none", "active", "suspended", "ended"}]
      /\ pc \in [Tasks -> Pcs] /\ control \in [Tasks -> Controls] /\ wake \in [Tasks -> Wakes]
      /\ tx \in [Tasks -> {"none", "open", "committed", "rolledback"}]
      /\ kept \in [Tasks -> Kepts] /\ result \in [Tasks -> Kepts] /\ abandoned \in [Tasks -> BOOLEAN]
  BY <1>0 DEF TypeOK
<1> USE DEF gcVars, queueVars, messageVars, workerVars, outcomeVars
<1>1. ASSUME SameRecord(u), SameThread(u), control'[u] = control[u] PROVE Good
  BY <1>1 DEF TaskChange, Aside
<1>2. ASSUME UNCHANGED <<home, control, wake, result, pc, tx, kept, abandoned>> PROVE Good
  BY <1>1, <1>2 DEF SameRecord, SameThread
<1> HIDE DEF Good
<1>3. ASSUME NEW t \in Tasks, UNCHANGED <<home, wake, result, abandoned>>,
             \A v \in Tasks \ {t} : /\ pc'[v] = pc[v] /\ tx'[v] = tx[v] /\ kept'[v] = kept[v]
                                    /\ control'[v] = control[v],
             t = u => Works(t)
      PROVE  Good
  BY <1>1, <1>3 DEF Good, SameRecord, SameThread, TaskChange
<1>4. ASSUME NEW t \in Tasks, WorkerSeesCancel(t) \/ CommandFails(t) PROVE Good
  <2>1. /\ pc[t] = "run" /\ UNCHANGED <<home, wake, result, abandoned, control>>
        /\ tx' = [tx EXCEPT ![t] = "rolledback"] /\ kept' = [kept EXCEPT ![t] = "no"]
        /\ pc' = [pc EXCEPT ![t] = "end"]
    BY <1>4 DEF WorkerSeesCancel, CommandFails
  <2>2. Works(t)  BY <1>t, <2>1 DEF Works, SameRecord
  <2> QED BY <1>3, <1>t, <2>1, <2>2
<1>5. ASSUME NEW t \in Tasks, Yield(t) \/ Renew(t) \/ Complete(t) PROVE Good
  <2>1. PICK from, next : Claim(t, from, next) /\ next \in {"yield", "renew", "terminal"}
    BY <1>5 DEF Yield, Renew, Complete
  <2>2. abandoned' = abandoned  BY <2>1 DEF Claim
  <2>3. Works(t)  BY <1>t, <2>1 DEF Works, SameRecord, Claim
  <2> QED BY <1>3, <1>t, <2>1, <2>2, <2>3 DEF Claim
<1>6. ASSUME NEW t \in Tasks, BoundaryCommits(t) PROVE Good
  <2>1. Works(t)  BY <1>t, <1>6 DEF Works, SameRecord, BoundaryCommits
  <2> QED BY <1>3, <1>t, <1>6, <2>1 DEF BoundaryCommits
<1>7. ASSUME NEW t \in Tasks, BoundaryFails(t) \/ TerminalFails(t) PROVE Good
  <2>1. PICK c : AfterFailure(t, c)  BY <1>7 DEF BoundaryFails, TerminalFails
  <2>2. pc[t] \in {"yield", "renew", "terminal"}  BY <1>7 DEF BoundaryFails, TerminalFails
  <2>3. Works(t)  BY <1>t, <2>1, <2>2 DEF Works, SameRecord, AfterFailure
  <2> QED BY <1>3, <1>t, <2>1, <2>3 DEF AfterFailure
<1>8. ASSUME NEW t \in Tasks, TerminalEnds(t, "yes") \/ TerminalEnds(t, "no") PROVE Good
  <2>1. Works(t)  BY <1>t, <1>8 DEF Works, SameRecord, TerminalEnds
  <2> QED BY <1>3, <1>t, <1>8, <2>1 DEF TerminalEnds
<1>9. ASSUME NEW t \in Tasks, ExplicitRetry(t) PROVE Good
  <2>1. Works(t)  BY <1>t, <1>9 DEF Works, SameRecord, ExplicitRetry
  <2> QED BY <1>3, <1>t, <1>9, <2>1 DEF ExplicitRetry
<1>10. ASSUME NEW t \in Tasks, NEW k, home[t] = "active", FinishTask(t, k), UNCHANGED <<tx, kept, abandoned>>,
              \A v \in Tasks \ {t} : control'[v] = control[v], pc' = [pc EXCEPT ![t] = "idle"],
              \/ pc[t] \in {"yielded", "suspend"} /\ k = "yes"
              \/ pc[t] = "conflict" /\ k = "no"
              \/ pc[t] = "finish" /\ k = kept[t]
       PROVE  Good
  <2>1. /\ home' = [home EXCEPT ![t] = "ended"] /\ wake' = [wake EXCEPT ![t] = NoWake]
        /\ result' = [result EXCEPT ![t] = k]
    BY <1>0, <1>10, FinishTaskFrame
  <2>2. CASE u = t
    BY <1>t, <1>10, <2>1, <2>2 DEF Good, TaskChange, Returns
  <2>3. CASE u # t
    BY <1>1, <1>t, <1>10, <2>1, <2>3 DEF SameRecord, SameThread
  <2> QED BY <2>2, <2>3
<1>11. ASSUME NEW t \in Tasks, SuspendPrepare(t) PROVE Good
  <2>1. CASE state = "Running"
    <3>1. Works(t)  BY <1>t, <1>11, <2>1 DEF Works, SameRecord, SuspendPrepare
    <3> QED BY <1>3, <1>t, <1>11, <2>1, <3>1 DEF SuspendPrepare
  <2>2. CASE state # "Running"
    BY <1>t, <1>10, <1>11, <2>2 DEF SuspendPrepare, RunningDispatch, DropClaim, WorkerLeaves
  <2> QED BY <2>1, <2>2
<1>12. ASSUME NEW t \in Tasks, SuspendStale(t) PROVE Good
  <2>1. home[t] # "active"
    BY <1>0, <1>12 DEF SuspendStale, RunningDispatch, RecordAgrees
  <2>2. Works(t)  BY <1>t, <1>12, <2>1 DEF Works, SameRecord, SuspendStale, WorkerLeaves
  <2> QED BY <1>3, <1>t, <1>12, <2>2 DEF SuspendStale, WorkerLeaves, DropClaim
<1>13. ASSUME NEW t \in Tasks, SuspendFinish(t) PROVE Good
  <2>1. CASE FinishTask(t, "yes") /\ DropClaim(t)
    BY <1>t, <1>10, <1>13, <2>1 DEF SuspendFinish, DropClaim, WorkerLeaves
  <2>2. CASE ~(FinishTask(t, "yes") /\ DropClaim(t))
    <3>1. /\ SuspendWait(t) /\ control[t] = "BoundaryCommit" /\ WorkerLeaves(t)
          /\ control' = [control EXCEPT ![t] = FinishBoundary(@)] /\ result' = result
      BY <1>13, <2>2 DEF SuspendFinish
    <3> DEFINE mail == [v \in Tasks |-> IF v \in effects[t] THEN mailbox[v] + 1 ELSE mailbox[v]]
    <3>2. PICK w \in WaitFor(t, mail[t]) : Suspend(t, w)
      BY <3>1 DEF SuspendWait
    <3> HIDE DEF mail
    <3>3. w.kind \in WaitKinds \cup {"Immediate"}  BY <1>0, <3>2, WaitForTypes
    <3>4. CASE u = t
      BY <1>t, <1>13, <3>1, <3>2, <3>3, <3>4
      DEF SuspendFinish, WorkerLeaves, Suspend, Good, TaskChange, Returns
    <3>5. CASE u # t
      BY <1>1, <1>t, <3>1, <3>2, <3>5 DEF WorkerLeaves, Suspend, SameRecord, SameThread
    <3> QED BY <3>4, <3>5
  <2> QED BY <2>1, <2>2
<1>14. ASSUME NEW t \in Tasks, SuspendFails(t) PROVE Good
  BY <1>t, <1>10, <1>14 DEF SuspendFails, DropClaim, WorkerLeaves
<1>15. ASSUME NEW t \in Tasks, RenewPublish(t) PROVE Good
  <2>1. Works(t)  BY <1>t, <1>15 DEF Works, SameRecord, RenewPublish
  <2> QED BY <1>3, <1>t, <1>15, <2>1 DEF RenewPublish
<1>16. ASSUME NEW t \in Tasks, RenewOpen(t) PROVE Good
  <2>1. Works(t)  BY <1>t, <1>16 DEF Works, SameRecord, RenewOpen, RunningDispatch, FinishBoundary
  <2> QED BY <1>3, <1>t, <1>16, <2>1 DEF RenewOpen
<1>17. ASSUME NEW t \in Tasks, RenewBeginFails(t) PROVE Good
  <2>1. pc[t] \in {"publish", "open"} /\ (home[t] # "active" \/ "begin" \in Faults)
    BY <1>0, <1>17 DEF RenewBeginFails, RunningDispatch, RecordAgrees
  <2>2. Works(t)  BY <1>t, <1>17, <2>1 DEF Works, SameRecord, RenewBeginFails
  <2> QED BY <1>3, <1>t, <1>17, <2>2 DEF RenewBeginFails
<1>18. ASSUME NEW t \in Tasks, Reserve(t) PROVE Good
  <2>1. Works(t)  BY <1>t, <1>18 DEF Works, SameRecord, Reserve
  <2> QED BY <1>3, <1>t, <1>18, <2>1 DEF Reserve
<1>19. ASSUME NEW t \in Tasks, ReportStale(t) PROVE Good
  <2>1. home[t] # "active"
    BY <1>0, <1>19 DEF ReportStale, RunningDispatch, RecordAgrees
  <2>2. Works(t)  BY <1>t, <1>19, <2>1 DEF Works, SameRecord, ReportStale, WorkerLeaves
  <2> QED BY <1>3, <1>t, <1>19, <2>2 DEF ReportStale, WorkerLeaves
<1>20. ASSUME NEW t \in Tasks, Finish(t) PROVE Good
  BY <1>t, <1>10, <1>20 DEF Finish, WorkerLeaves
<1>21. ASSUME NEW t \in Tasks, ConflictRetry(t) PROVE Good
  <2>0. /\ pc' = [pc EXCEPT ![t] = "idle"] /\ UNCHANGED <<kept, tx>> /\ pc[t] = "conflict"
        /\ \A v \in Tasks \ {t} : control'[v] = control[v]
        /\ home[t] = "active"
    BY <1>t, <1>21 DEF ConflictRetry, RunningDispatch
  <2>1. CASE FinishTask(t, "no") /\ UNCHANGED abandoned  BY <1>10, <2>0, <2>1
  <2>2. CASE Unregister({t}) /\ SendResult({t}, "no") /\ UNCHANGED abandoned
    <3>1. /\ home' = [home EXCEPT ![t] = "ended"] /\ wake' = [wake EXCEPT ![t] = NoWake]
          /\ result' = [result EXCEPT ![t] = "no"]
      BY <1>0, <1>t, <2>2, UnregisterOne DEF SendResult
    <3>2. CASE u = t  BY <1>t, <2>0, <2>2, <3>1, <3>2 DEF Good, TaskChange, Returns
    <3>3. CASE u # t  BY <1>1, <1>t, <2>0, <2>2, <3>1, <3>3 DEF SameRecord, SameThread
    <3> QED BY <3>2, <3>3
  <2>3. CASE /\ Suspend(t, [kind |-> "Retry"]) /\ state = "Running" /\ result' = result
             /\ abandoned' = [abandoned EXCEPT ![t] = TRUE]
    <3>1. /\ home' = [home EXCEPT ![t] = "suspended"]
          /\ \A v \in Tasks \ {t} : wake'[v] = wake[v]
          /\ wake'[t].kind = "Retry"
      BY <1>t, <2>3 DEF Suspend
    <3>2. CASE u = t  BY <1>t, <2>0, <2>3, <3>1, <3>2 DEF Good, TaskChange, Returns
    <3>3. CASE u # t  BY <1>1, <1>t, <2>0, <2>3, <3>1, <3>3 DEF SameRecord, SameThread
    <3> QED BY <3>2, <3>3
  <2> QED BY <1>21, <2>1, <2>2, <2>3 DEF ConflictRetry
<1>22. ASSUME NEW t \in Tasks, Worker(t) PROVE Good
  BY <1>4, <1>5, <1>6, <1>7, <1>8, <1>9, <1>11, <1>12, <1>13, <1>14, <1>15, <1>16, <1>17, <1>18,
     <1>19, <1>20, <1>21, <1>22
  DEF Worker
\* Tasks that leave the queues while their threads go on
<1>23. ASSUME NEW S \in SUBSET Tasks, Unregister(S),
              UNCHANGED <<pc, tx, kept, abandoned>>,
              u \notin S => result'[u] = result[u] /\ (control'[u] = control[u] \/ Aside(u)),
              u \in S => Removed(u) \/ Refused(u) \/ Detached(u)
       PROVE  Good
  <2>1. CASE u \in S  BY <1>23, <2>1 DEF Good, TaskChange
  <2>2. CASE u \notin S
    <3>1. SameRecord(u) /\ SameThread(u)
      BY <1>23, <2>2 DEF Unregister, SameRecord, SameThread
    <3> QED BY <1>1, <1>23, <2>2, <3>1 DEF Good, TaskChange
  <2> QED BY <2>1, <2>2
<1>24. ASSUME NEW v \in Tasks, CancelTask(v) PROVE Good
  <2>0. /\ UNCHANGED <<pc, tx, kept, abandoned, result>>
        /\ \A w \in Tasks \ {v} : control'[w] = control[w]
    BY <1>t, <1>24 DEF CancelTask
  <2>1. CASE RemoveTerminal({v})
    <3>1. Unregister({v})  BY <2>1 DEF RemoveTerminal
    <3>2. home[v] \in {"active", "suspended"} /\ (home[v] = "active" => control'[v] = "Cancelled")
      <4>1. CASE home[v] = "suspended"  BY <4>1
      <4>2. CASE home[v] # "suspended"
        <5>1. /\ home[v] = "active"
              /\ control' = [control EXCEPT ![v] = request_cancel(@)]
              /\ \/ request_cancel(control[v]) = "Cancelled"
                 \/ UNCHANGED queueVars
          BY <1>24, <4>2 DEF CancelTask
        <5>2. home'[v] = "ended"  BY <3>1 DEF Unregister
        <5> QED BY <1>t, <5>1, <5>2
      <4> QED BY <4>1, <4>2
    <3>3. u = v => Removed(u)
      BY <2>0, <3>1, <3>2 DEF Removed, SameThread, Unregister
    <3> QED BY <1>23, <2>0, <3>1, <3>3
  <2>2. CASE UNCHANGED queueVars
    <3>1. u # v => control'[u] = control[u]  BY <2>0
    <3>2. u = v => Aside(u) \/ control'[u] = control[u] \/ Removed(u)
      <4>1. CASE home[v] = "suspended" /\ RemoveTerminal({v})
        BY <1>24, <4>1 DEF CancelTask
      <4>2. CASE ~(home[v] = "suspended" /\ RemoveTerminal({v}))
        <5>1. /\ home[v] = "active"
              /\ control' = [control EXCEPT ![v] = request_cancel(@)]
              /\ \/ request_cancel(control[v]) # "Cancelled"
                 \/ RemoveTerminal({v})
          BY <1>24, <4>2 DEF CancelTask
        <5>2. ~RemoveTerminal({v})  BY <2>2, <5>1 DEF RemoveTerminal, Unregister
        <5> QED BY <1>t, <2>0, <2>2, <5>1, <5>2 DEF Aside, SameRecord, SameThread
      <4> QED BY <4>1, <4>2
    <3>3. SameRecord(u) /\ SameThread(u)  BY <2>0, <2>2 DEF SameRecord, SameThread
    <3> QED BY <1>1, <3>1, <3>2, <3>3 DEF Good, TaskChange
  <2> QED BY <1>24, <2>1, <2>2 DEF CancelTask
<1>25. ASSUME NEW t \in Tasks, NEW p, Boot(t, p) PROVE Good
  <2> DEFINE pruned == {v \in Suspended \ Background : Player[v] = p}
  <2>1. /\ Unregister(pruned) /\ UNCHANGED <<pc, tx, kept, abandoned, result>>
        /\ control'[u] = control[u] \/ (home[u] = "active" /\ control'[u] = request_cancel(control[u]))
    BY <1>25 DEF Boot, RemoveTerminal
  <2>2. ~NoSoftCancel  BY <1>25 DEF Boot, NoSoftCancel
  <2>3. pruned \subseteq Tasks /\ \A v \in pruned : home[v] = "suspended"  BY DEF Suspended
  <2> HIDE DEF pruned
  <2>4. u \in pruned => Removed(u)  BY <2>1, <2>3 DEF Removed, SameThread, Unregister
  <2>5. u \notin pruned => Aside(u)
    BY <2>1, <2>2 DEF Aside, SameRecord, SameThread, Unregister
  <2> QED BY <1>23, <2>1, <2>3, <2>4, <2>5
<1>26. ASSUME NEW t \in Tasks, NotifyFails(t) PROVE Good
  <2>1. ~NoSoftCancel  BY <1>26 DEF NotifyFails, NoSoftCancel
  <2>2. CASE u = t
    <3>1. home[u] = "active" /\ control'[u] = request_cancel(control[u])
      BY <1>t, <1>26, <2>2 DEF NotifyFails, RunningDispatch
    <3>2. SameRecord(u) /\ SameThread(u)  BY <1>26 DEF NotifyFails, SameRecord, SameThread
    <3> QED BY <2>1, <3>1, <3>2 DEF Good, TaskChange, Aside
  <2>3. CASE u # t
    BY <1>1, <1>t, <1>26, <2>3 DEF NotifyFails, SameRecord, SameThread
  <2> QED BY <2>2, <2>3
<1>27. ASSUME NEW t \in Tasks, LogEventFails(t) PROVE Good
  <2>1. /\ home' = [home EXCEPT ![t] = "ended"] /\ wake' = [wake EXCEPT ![t] = NoWake]
        /\ result' = [result EXCEPT ![t] = "no"]
    BY <1>0, <1>27, FinishTaskFrame DEF LogEventFails
  <2>2. CASE u = t
    BY <1>t, <1>27, <2>1, <2>2 DEF LogEventFails, RunningDispatch, Good, TaskChange, Unlogged, SameThread
  <2>3. CASE u # t
    BY <1>1, <1>t, <1>27, <2>1, <2>3 DEF LogEventFails, SameRecord, SameThread
  <2> QED BY <2>2, <2>3
<1>28. ASSUME NEW t \in Tasks, Panic(t) PROVE Good
  <2>0. /\ pc[t] # "idle" /\ pc' = [pc EXCEPT ![t] = "idle"] /\ UNCHANGED <<kept, abandoned>>
        /\ tx' = [tx EXCEPT ![t] = IF @ = "open" THEN "rolledback" ELSE @]
        /\ \A v \in Tasks \ {t} : control'[v] = control[v]
    BY <1>t, <1>28 DEF Panic
  <2>1. CASE home[t] = "active" /\ FinishTask(t, "unknown")
    <3>1. /\ home' = [home EXCEPT ![t] = "ended"] /\ wake' = [wake EXCEPT ![t] = NoWake]
          /\ result' = [result EXCEPT ![t] = "unknown"]
      BY <1>0, <2>1, FinishTaskFrame
    <3>2. CASE u = t  BY <1>t, <2>0, <2>1, <3>1, <3>2 DEF Good, TaskChange, Panicked
    <3>3. CASE u # t  BY <1>1, <1>t, <2>0, <3>1, <3>3 DEF SameRecord, SameThread
    <3> QED BY <3>2, <3>3
  <2>2. CASE home[t] # "active" /\ UNCHANGED <<queueVars, messageVars, outcomeVars>>
    <3>1. SameRecord(u)  BY <2>2 DEF SameRecord
    <3>2. CASE u = t  BY <1>t, <2>0, <2>2, <3>1, <3>2 DEF Good, TaskChange, Panicked
    <3>3. CASE u # t  BY <1>1, <1>t, <2>0, <3>1, <3>3 DEF SameThread
    <3> QED BY <3>2, <3>3
  <2> QED BY <1>28, <2>1, <2>2 DEF Panic
<1>29. ASSUME NEW t \in Tasks, NEW restore \in BOOLEAN, NEW sig, NEW mail,
              Dispatch(t, restore, sig, mail), home[t] \in {"none", "suspended"},
              state = "Running", gc # "collecting", UNCHANGED <<state, gc>>,
              home[t] = "suspended" /\ wake[t].kind = "Retry" /\ "Retry" \notin ResumeKinds => restore
       PROVE  Good
  <2>1. CASE FailedWakeup(t, sig)
    <3>1. /\ Unregister({t}) /\ UNCHANGED <<pc, tx, kept, abandoned, control>>
          /\ result' = [result EXCEPT ![t] = "no"] /\ "begin" \in Faults
      BY <1>t, <2>1 DEF FailedWakeup, EndUndispatched, SendResult
    <3>2. u = t => Refused(u)
      BY <1>t, <1>29, <3>1 DEF Refused, SameThread, Unregister
    <3> QED BY <1>t, <1>23, <3>1, <3>2
  <2>2. CASE ~FailedWakeup(t, sig)
    <3>1. /\ home' = [home EXCEPT ![t] = "active"] /\ wake' = [wake EXCEPT ![t] = NoWake]
          /\ control' = [control EXCEPT ![t] = "Running"] /\ pc' = [pc EXCEPT ![t] = "run"]
          /\ tx' = [tx EXCEPT ![t] = "open"] /\ UNCHANGED <<kept, result>>
          /\ abandoned' = [abandoned EXCEPT ![t] = @ /\ ~restore]
      BY <1>29, <2>2 DEF Dispatch
    <3>2. CASE u = t
      <4>1. abandoned'[u] <=> abandoned[u] /\ ~restore  BY <1>t, <3>1, <3>2
      <4> QED BY <1>t, <1>29, <3>1, <3>2, <4>1 DEF Good, TaskChange, Dispatched
    <3>3. CASE u # t  BY <1>1, <1>t, <3>1, <3>3 DEF SameRecord, SameThread
    <3> QED BY <3>2, <3>3
  <2> QED BY <2>1, <2>2
<1>30. ASSUME NEW t \in Tasks, NEW k \in {"Time", "GCComplete", "Immediate"}, Suspend(t, [kind |-> k]),
              UNCHANGED <<control, workerVars, outcomeVars>>,
              \/ home[t] = "none"
              \/ home[t] = "suspended" /\ (wake[t].kind = "Retry" => "Retry" \in ResumeKinds)
       PROVE  Good
  <2>1. CASE u = t
    BY <1>t, <1>30, <2>1 DEF Suspend, Good, TaskChange, Held, SameThread
  <2>2. CASE u # t
    BY <1>1, <1>t, <1>30, <2>2 DEF Suspend, SameRecord, SameThread
  <2> QED BY <2>1, <2>2
<1>31. ASSUME NEW t \in Tasks, NEW delayed \in BOOLEAN, Submit(t, delayed) PROVE Good
  <2>1. CASE delayed \/ BlocksAdmission \/ gcForce
    BY <1>30, <1>31, <2>1 DEF Submit
  <2>2. CASE ~(delayed \/ BlocksAdmission \/ gcForce)
    BY <1>29, <1>31, <2>2 DEF Submit, BlocksAdmission
  <2> QED BY <2>1, <2>2
<1>32. ASSUME NEW t \in Tasks, DrainWake(t) PROVE Good
  <2>1. (wake[t].kind = "Retry") \in BOOLEAN  OBVIOUS
  <2> QED BY <1>29, <1>32, <2>1 DEF DrainWake, BlocksAdmission
<1>33. ASSUME NEW t \in Tasks, WakeSuspended(t), home[t] = "suspended", UNCHANGED <<state, gcVars>>,
              wake[t].kind = "Retry" => "Retry" \in ResumeKinds
       PROVE  Good
  <2>1. CASE CancelUndispatched({t})
    <3>1. /\ Unregister({t}) /\ UNCHANGED <<pc, tx, kept, abandoned, control>>
          /\ result' = [result EXCEPT ![t] = IF wake[t].kind = "Retry" THEN "no" ELSE "yes"]
      BY <1>t, <2>1 DEF CancelUndispatched, EndUndispatched, SendResult
    <3>2. u = t => Refused(u)
      BY <1>t, <1>33, <3>1 DEF Refused, SameThread, Unregister
    <3> QED BY <1>t, <1>23, <3>1, <3>2
  <2>2. CASE DeferResume(t)
    BY <1>30, <1>33, <2>2 DEF DeferResume
  <2>3. CASE state = "Running" /\ ~BlocksAdmission /\ Dispatch(t, FALSE, signals, mailbox)
    BY <1>29, <1>33, <2>3 DEF BlocksAdmission
  <2> QED BY <1>33, <2>1, <2>2, <2>3 DEF WakeSuspended
<1>34. ASSUME NEW t \in Tasks, Respond(t) PROVE Good
  BY <1>33, <1>34 DEF Respond
<1>35. ASSUME NEW r \in Tasks, NEW t \in Tasks, Resume(r, t) PROVE Good
  BY <1>33, <1>35 DEF Resume
<1>36. CASE Stop
  <2> DEFINE accepted == {t \in Tasks : pending[t]}
  <2>1. /\ Unregister(accepted) /\ UNCHANGED <<pc, tx, kept, abandoned>> /\ state' = "Stopping"
        /\ control'[u] = IF home[u] = "active" THEN request_cancel(control[u]) ELSE control[u]
        /\ result'[u] = IF u \in accepted THEN "yes" ELSE result[u]
    BY <1>36 DEF Stop, SendResult
  <2>2. \A t \in accepted : home[t] = "suspended" /\ wake[t].kind = "Immediate"
    BY <1>0 DEF RecordAgrees
  <2>3. accepted \in SUBSET Tasks  OBVIOUS
  <2> HIDE DEF accepted
  <2>4. u \in accepted => Refused(u)
    BY <2>1, <2>2 DEF Refused, SameThread, Unregister
  <2>5. u \notin accepted => Aside(u)
    BY <2>1 DEF Aside, SameRecord, SameThread, Unregister
  <2> QED BY <1>23, <2>1, <2>3, <2>4, <2>5
<1>37. CASE Detach
  <2>1. /\ Unregister(Active) /\ UNCHANGED <<pc, tx, kept, abandoned, control, state>>
        /\ state = "Stopping"
        /\ result'[u] = IF u \in Active THEN "unknown" ELSE result[u]
    BY <1>37 DEF Detach, SendResult
  <2>2. Active \in SUBSET Tasks /\ \A t \in Active : home[t] = "active"  BY DEF Active
  <2>3. u \in Active => Detached(u)
    BY <2>1, <2>2 DEF Detached, SameThread, Unregister
  <2> QED BY <1>23, <2>1, <2>2, <2>3
<1>38. CASE Collector \/ Stopped \/ UNCHANGED vars
  BY <1>2, <1>38
  DEF Collector, BeginGc, StartSweep, Collect, EndGc, AbandonSweep, ReleaseGc, GcStep, Stopped,
      vars, schedulerVars
<1>39. ASSUME NEW t \in Tasks, NEW v, Send(t, v) \/ Receive(t) \/ ForceGc(t) \/ TimerExpires(t)
       PROVE  Good
  BY <1>2, <1>39 DEF Send, Receive, ForceGc, TimerExpires
<1>40. ASSUME NEW t \in Tasks, NEW g, DiscardSignal(t, g) PROVE Good
  BY <1>2, <1>40 DEF DiscardSignal
<1>41. ASSUME NEW t \in Tasks, NEW v \in Tasks, Kill(t, v) PROVE Good
  BY <1>24, <1>41 DEF Kill
<1>42. ASSUME NEW t \in Tasks, Abort(t) PROVE Good
  BY <1>24, <1>42 DEF Abort
<1> QED
  BY <1>22, <1>25, <1>26, <1>27, <1>28, <1>31, <1>32, <1>34, <1>35, <1>36, <1>37, <1>38, <1>39,
     <1>40, <1>41, <1>42, StepCases

\* What a step does to the scheduler as a whole: it stays stopped, and a deletion
\* begins when nothing is active
LEMMA SchedulerSteps ==
  ASSUME CoreInv, [Next]_vars
  PROVE  /\ state' = "Running" => state = "Running"
         /\ gc' = "collecting" => gc = "collecting" \/ (Active = {} /\ state = "Running" /\ UNCHANGED home)
<1> DEFINE Good == /\ state' = "Running" => state = "Running"
                   /\ gc' = "collecting" => gc = "collecting" \/ (Active = {} /\ state = "Running" /\ UNCHANGED home)
<1> SUFFICES Good  OBVIOUS
<1>1. ASSUME UNCHANGED <<state, gcVars>> PROVE Good  BY <1>1 DEF gcVars
<1>2. CASE Collector
  BY <1>2
  DEF Collector, BeginGc, StartSweep, Collect, EndGc, AbandonSweep, ReleaseGc, GcStep
<1>3. CASE Stop \/ Stopped  BY <1>3 DEF Stop, Stopped, gcVars
<1>4. ASSUME NEW t \in Tasks, ForceGc(t) PROVE Good  BY <1>4 DEF ForceGc
<1> HIDE DEF Good
<1>5. ASSUME NEW t \in Tasks, Worker(t) PROVE Good
  BY <1>1, <1>5
  DEF Worker, WorkerSeesCancel, ExplicitRetry, CommandFails, Yield, Renew, Complete, Claim,
      BoundaryCommits, BoundaryFails, TerminalFails, AfterFailure, TerminalEnds, SuspendPrepare,
      SuspendStale, SuspendFinish, SuspendFails, RenewPublish, RenewOpen, RenewBeginFails, Reserve,
      ReportStale, Finish, ConflictRetry
<1>6. ASSUME NEW t \in Tasks, NEW v \in Tasks, NEW delayed,
             \/ Submit(t, delayed) \/ Kill(t, v) \/ Abort(t) \/ Send(t, v) \/ Receive(t)
             \/ NotifyFails(t) \/ LogEventFails(t) \/ Panic(t)
      PROVE  Good
  BY <1>1, <1>6
  DEF Submit, Kill, Abort, CancelTask, Send, Receive, NotifyFails, LogEventFails, Panic
<1>7. ASSUME NEW t \in Tasks, NEW v \in Tasks, NEW g, NEW p,
             \/ TimerExpires(t) \/ DrainWake(t) \/ Respond(t) \/ Resume(v, t) \/ DiscardSignal(t, g)
             \/ Boot(t, p)
      PROVE  Good
  BY <1>1, <1>7 DEF TimerExpires, DrainWake, Respond, Resume, DiscardSignal, Boot
<1>8. CASE Detach \/ UNCHANGED vars
  BY <1>1, <1>8 DEF Detach, vars, schedulerVars
<1> QED BY <1>2, <1>3, <1>4, <1>5, <1>6, <1>7, <1>8, StepCases

-----------------------------------------------------------------------------
\* What becomes of a task

FateInv ==
  /\ CoreInv
  /\ EndedCannotCommit /\ DetachedByStop /\ CollectsAlone
  /\ ReportTruthful /\ WaitsCommitted /\ AbandonedWaits /\ CancelSeen

\* It holds in every state
LEMMA FateInvariant == Spec => []FateInv
<1>1. Init /\ CoreInv => FateInv
  BY DEF Init, FateInv, EndedCannotCommit, DetachedByStop, CollectsAlone, ReportTruthful,
         WaitsCommitted, AbandonedWaits, CancelSeen, Active
<1>2. FateInv /\ CoreInv' /\ [Next]_vars => FateInv'
  <2> SUFFICES ASSUME FateInv, CoreInv', [Next]_vars PROVE FateInv'  OBVIOUS
  <2>1. /\ UNCHANGED scenario
        /\ state' = "Running" => state = "Running"
        /\ gc' = "collecting" => gc = "collecting" \/ (Active = {} /\ state = "Running" /\ UNCHANGED home)
    BY StepCases, SchedulerSteps DEF FateInv
  <2>2. RecordAgrees /\ WorkerAgrees /\ RecordAgrees' /\ WorkerAgrees' /\ CoreInv
    BY DEF FateInv, CoreInv
  <2>3. \A u \in Tasks : TaskChange(u)  BY <2>2, TaskSteps
  <2>4. UNCHANGED <<Faults, ResumeKinds, NoSoftCancel>>
    BY <2>1 DEF Faults, ResumeKinds, NoSoftCancel, May, Calls
  <2> USE DEF TaskChange, Aside, Removed, Held, Dispatched, Refused, Detached, Unlogged, Panicked,
              Works, Returns, SameRecord, SameThread
  <2>5. EndedCannotCommit'
    <3> SUFFICES ASSUME "log" \notin Faults, NEW u \in Tasks, home'[u] = "ended",
                        pc'[u] \notin {"idle", "conflict", "end", "finish"}
                 PROVE  result'[u] = "unknown" \/ (pc'[u] = "run" /\ control'[u] = "Cancelled")
      BY <2>4 DEF EndedCannotCommit
    <3>1. home[u] = "ended" =>
            result[u] = "unknown" \/ (pc[u] = "run" /\ control[u] = "Cancelled")
              \/ pc[u] \in {"idle", "conflict", "end", "finish"}
      BY DEF FateInv, EndedCannotCommit
    <3>2. CASE Aside(u)  BY <3>1, <3>2
    <3>3. CASE Removed(u)
      <4>1. pc[u] # "idle" => control'[u] = "Cancelled"  BY <2>2, <3>3 DEF RecordAgrees
      <4>2. pc'[u] # "run" => control'[u] # "Cancelled"  BY <2>2, <3>3 DEF CoreInv, TypeOK, Pcs, WorkerAgrees
      <4> QED BY <3>3, <4>1, <4>2
    <3>4. CASE Works(u)  BY <2>2, <3>1, <3>4 DEF RecordAgrees, WorkerAgrees
    <3>5. CASE Refused(u) \/ Panicked(u) \/ Returns(u)  BY <2>2, <3>5 DEF RecordAgrees
    <3>6. CASE Held(u) \/ Dispatched(u) \/ Detached(u) \/ Unlogged(u)  BY <3>6
    <3> QED BY <2>3, <3>2, <3>3, <3>4, <3>5, <3>6
  <2>6. DetachedByStop'
    <3> SUFFICES ASSUME NEW u \in Tasks, result'[u] = "unknown", pc'[u] # "idle"
                 PROVE  state' # "Running" /\ gc' # "collecting"
      BY DEF DetachedByStop
    <3>1. CASE Detached(u)
      BY <2>1, <3>1 DEF FateInv, CollectsAlone, Active
    <3>2. CASE ~Detached(u)
      <4>1. result[u] = "unknown" /\ pc[u] # "idle"
        BY <2>2, <2>3, <3>2 DEF RecordAgrees
      <4> QED BY <2>1, <4>1 DEF FateInv, DetachedByStop
    <3> QED BY <3>1, <3>2
  <2>7. CollectsAlone'
    <3> SUFFICES ASSUME gc' = "collecting", NEW u \in Tasks, home'[u] = "active" PROVE FALSE
      BY DEF CollectsAlone, Active
    <3> QED BY <2>1, <2>3 DEF FateInv, CollectsAlone, Active
  <2>8. ReportTruthful'
    <3> SUFFICES ASSUME "begin" \notin Faults, NEW u \in Tasks, home'[u] = "active",
                        pc'[u] \in {"end", "finish"}, kept'[u] = "no"
                 PROVE  tx'[u] # "committed"
      BY <2>4 DEF ReportTruthful
    <3> QED BY <2>2, <2>3 DEF FateInv, ReportTruthful, RecordAgrees
  <2>9. WaitsCommitted'
    <3> SUFFICES ASSUME "Retry" \notin ResumeKinds, NEW u \in Tasks, home'[u] = "suspended"
                 PROVE  IF wake'[u].kind = "Retry" THEN tx'[u] = "rolledback"
                                                   ELSE tx'[u] \in {"none", "committed"}
      BY <2>4 DEF WaitsCommitted
    <3> QED BY <2>2, <2>3 DEF FateInv, WaitsCommitted, RecordAgrees, WorkerAgrees, WaitKinds
  <2>10. AbandonedWaits'
    <3> SUFFICES ASSUME "Retry" \notin ResumeKinds, NEW u \in Tasks, abandoned'[u]
                 PROVE  \/ home'[u] = "suspended" /\ wake'[u].kind = "Retry"
                        \/ home'[u] = "ended" /\ pc'[u] = "idle"
      BY <2>4 DEF AbandonedWaits
    <3> QED BY <2>2, <2>3 DEF FateInv, AbandonedWaits, RecordAgrees
  <2>11. CancelSeen'
    <3> SUFFICES ASSUME NoSoftCancel, NEW u \in Tasks, state' = "Running", home'[u] = "active",
                        pc'[u] \in {"run", "conflict"}
                 PROVE  control'[u] = "Running"
      BY <2>4 DEF CancelSeen
    <3> QED BY <2>1, <2>2, <2>3 DEF FateInv, CancelSeen, request_cancel, WorkerAgrees
  <2> QED BY <2>2, <2>5, <2>6, <2>7, <2>8, <2>9, <2>10, <2>11 DEF FateInv
<1> QED BY <1>1, <1>2, CoreInvariant, PTL DEF Spec

\* While the collector deletes, no worker can still commit, whatever was killed,
\* detached or panicked meanwhile; provided that the event log works, since a task that
\* a failed log has ended goes on running (LogEventFails)
THEOREM DeletionIsAlone == Spec => []("log" \notin Faults => SweepAlone)
<1>1. FateInv => ("log" \notin Faults => SweepAlone)
  <2> SUFFICES ASSUME FateInv, "log" \notin Faults, gc = "collecting", NEW t \in Tasks
               PROVE  pc[t] \in {"idle", "conflict", "end", "finish"} \/ control[t] = "Cancelled"
    BY DEF SweepAlone
  <2>1. home[t] # "active"  BY DEF FateInv, CollectsAlone, Active
  <2>2. home[t] \in {"none", "suspended"} => pc[t] = "idle"  BY DEF FateInv, CoreInv, RecordAgrees
  <2>3. home[t] \in {"none", "active", "suspended", "ended"}  BY DEF FateInv, CoreInv, TypeOK
  <2> QED BY <2>1, <2>2, <2>3 DEF FateInv, EndedCannotCommit, DetachedByStop
<1> QED BY <1>1, FateInvariant, PTL

\* A program never runs on from the VM state of an attempt that was rolled back: every
\* way back to a worker goes through the retry that restores it, resume() excepted
THEOREM RetriesRestore == Spec => []("Retry" \notin ResumeKinds => RestoredBeforeRun)
<1>1. FateInv => ("Retry" \notin ResumeKinds => RestoredBeforeRun)
  BY DEF FateInv, CoreInv, RecordAgrees, AbandonedWaits, RestoredBeforeRun
<1> QED BY <1>1, FateInvariant, PTL

\* Where a task may have to retry, no cancellation is left to its next commit
CancelSettled == "conflict" \in Faults => NoSoftCancel

\* A cancelled dispatch leaves the active set only by ending: no wait, no retry
THEOREM CancellationEnds == Spec /\ CancelSettled => CancelledEnds
<1>1. CancelSettled /\ [Next]_vars => CancelSettled'
  <2> SUFFICES ASSUME [Next]_vars PROVE UNCHANGED CancelSettled  OBVIOUS
  <2> QED BY StepCases DEF CancelSettled, NoSoftCancel, Faults, May, Calls
<1>2. ASSUME FateInv, WaitInv, CancelSettled, [Next]_vars, NEW t \in Tasks, home[t] = "active",
             IsCancelled(control[t])
      PROVE  home'[t] \in {"active", "ended"}
  <2>1. TaskChange(t)  BY <1>2, TaskSteps DEF FateInv
  <2> QED
    BY <1>2, <2>1
    DEF TaskChange, Aside, Removed, Held, Dispatched, Refused, Detached, Unlogged, Panicked,
        Works, Returns, SameRecord, IsCancelled, FateInv, WaitInv, CancelSettled, CancelSeen, NoConflicts
<1>3. FateInv /\ WaitInv /\ CancelSettled /\ [Next]_vars
        => [\A t \in Tasks : home[t] = "active" /\ IsCancelled(control[t])
                               => home'[t] \in {"active", "ended"}]_vars
  BY <1>2
<1> QED BY <1>1, <1>3, FateInvariant, WaitInvariant, PTL DEF Spec, CancelledEnds

\* Neither a failed event log nor a failed opening of a transaction ends a task, and no
\* program resumes a task that waits for its retry: in each of these the code reports an
\* outcome that the transaction belies (README, deviations)
TruthfulScenario == Faults \cap {"log", "begin"} = {} /\ "Retry" \notin ResumeKinds

\* The scheduler keeps the contract of every task: it ends at most once, the outcome
\* says truly whether its last transaction was kept, and nothing commits after that
THEOREM ContractIsKept == Spec /\ TruthfulScenario => KeepsContract
<1> DEFINE status == [t \in Tasks |-> IF t \in live THEN "live" ELSE
                                      IF home[t] = "none" THEN "none" ELSE "ended"]
<1>1. Init => Contract!Init
  BY DEF Init, Contract!Init
<1>2. TruthfulScenario /\ [Next]_vars => TruthfulScenario'
  <2> SUFFICES ASSUME [Next]_vars PROVE UNCHANGED TruthfulScenario  OBVIOUS
  <2> QED BY StepCases DEF TruthfulScenario, Faults, ResumeKinds
<1>3. FateInv /\ CoreInv' /\ TruthfulScenario /\ [Next]_vars => Contract!Next
  <2> SUFFICES ASSUME FateInv, CoreInv', TruthfulScenario, [Next]_vars, NEW t \in Tasks
               PROVE  \/ Contract!Same(t) \/ Contract!Accept(t) \/ Contract!Begin(t)
                      \/ Contract!Commit(t) \/ Contract!Rollback(t) \/ Contract!End(t)
    BY DEF Contract!Next
  <2>1. TaskChange(t)  BY TaskSteps DEF FateInv
  <2>2. /\ status[t] = CASE home[t] = "none" -> "none" [] home[t] = "ended" -> "ended" [] OTHER -> "live"
        /\ status'[t] = CASE home'[t] = "none" -> "none" [] home'[t] = "ended" -> "ended" [] OTHER -> "live"
    BY DEF FateInv, CoreInv, RegistryExact, Active, Suspended, TypeOK
  <2>3. RecordAgrees /\ WorkerAgrees /\ RecordAgrees'  BY DEF FateInv, CoreInv
  <2>4. /\ home[t] \in {"none", "active", "suspended", "ended"}
        /\ home'[t] \in {"none", "active", "suspended", "ended"}
        /\ kept[t] \in Kepts
    BY DEF FateInv, CoreInv, TypeOK
  <2>5. /\ home[t] = "suspended" =>
             IF wake[t].kind = "Retry" THEN tx[t] = "rolledback" ELSE tx[t] \in {"none", "committed"}
        /\ home[t] = "active" /\ pc[t] \in {"end", "finish"} /\ kept[t] = "no" => tx[t] # "committed"
        /\ home[t] = "ended" /\ pc[t] \in {"yield", "renew", "terminal"} => result[t] = "unknown"
    BY DEF FateInv, TruthfulScenario, WaitsCommitted, ReportTruthful, EndedCannotCommit
  <2>6. {"log", "begin"} \cap Faults = {}  BY DEF TruthfulScenario
  <2> USE DEF Contract!Same, Contract!Accept, Contract!Begin, Contract!Commit, Contract!Rollback,
              Contract!End
  <2>7. CASE Aside(t)  BY <2>2, <2>7 DEF Aside, SameRecord, SameThread
  <2>8. CASE Removed(t)  BY <2>2, <2>3, <2>8 DEF Removed, SameThread, RecordAgrees
  <2>9. CASE Held(t)  BY <2>2, <2>3, <2>9 DEF Held, SameThread, RecordAgrees
  <2>10. CASE Dispatched(t)  BY <2>2, <2>3, <2>5, <2>10 DEF Dispatched, RecordAgrees
  <2>11. CASE Refused(t)  BY <2>2, <2>3, <2>5, <2>6, <2>11 DEF Refused, SameThread, RecordAgrees
  <2>12. CASE Detached(t)  BY <2>2, <2>3, <2>12 DEF Detached, SameThread, RecordAgrees
  <2>13. CASE Unlogged(t)  BY <2>6, <2>13 DEF Unlogged
  <2>14. CASE Panicked(t)
    BY <2>2, <2>3, <2>4, <2>14 DEF Panicked, SameRecord, RecordAgrees
  <2>15. CASE Works(t)
    BY <2>2, <2>3, <2>4, <2>5, <2>6, <2>15 DEF Works, SameRecord, RecordAgrees, WorkerAgrees
  <2>16. CASE Returns(t)
    BY <2>2, <2>3, <2>4, <2>5, <2>16 DEF Returns, RecordAgrees, WorkerAgrees, Kepts
  <2> QED
    BY <2>1, <2>7, <2>8, <2>9, <2>10, <2>11, <2>12, <2>13, <2>14, <2>15, <2>16 DEF TaskChange
<1> QED BY <1>1, <1>2, <1>3, FateInvariant, CoreInvariant, PTL DEF Spec, KeepsContract, Contract!Spec
=============================================================================
