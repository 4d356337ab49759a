---------------------------- MODULE TaskContract ----------------------------
(***************************************************************************)
(* What the scheduler promises whoever submitted a task: it ends at most   *)
(* once, the outcome it is told says truly whether the task's last         *)
(* transaction was kept, and a task that was killed, or reported as not    *)
(* kept, commits nothing afterwards.  Only an outcome of Kept::Unknown     *)
(* leaves a commit possible.                                               *)
(***************************************************************************)
CONSTANT Tasks

VARIABLES
  status,   \* "none", "live" or "ended"
  tx,       \* the last transaction of the task
  told      \* Kept of the outcome, "none" when there is none

vars == <<status, tx, told>>

Init ==
  /\ status = [t \in Tasks |-> "none"]
  /\ tx = [t \in Tasks |-> "none"]
  /\ told = [t \in Tasks |-> "none"]

Same(t) == status'[t] = status[t] /\ tx'[t] = tx[t] /\ told'[t] = told[t]

Accept(t) ==
  /\ status[t] = "none" /\ status'[t] = "live"
  /\ tx'[t] \in {"none", "open"}
  /\ told'[t] = told[t]

Begin(t) ==
  /\ status[t] = "live" /\ status'[t] = "live"
  /\ tx[t] # "open" /\ tx'[t] = "open"
  /\ told'[t] = told[t]

Commit(t) ==
  /\ status[t] = "live" \/ told[t] = "unknown"
  /\ tx[t] = "open" /\ tx'[t] = "committed"
  /\ status'[t] = status[t] /\ told'[t] = told[t]

Rollback(t) ==
  /\ status[t] = "live" \/ tx[t] = "open"
  /\ tx'[t] = "rolledback"
  /\ status'[t] = status[t] /\ told'[t] = told[t]

\* A refused task ends as it is accepted
End(t) ==
  /\ status[t] # "ended" /\ status'[t] = "ended"
  /\ \/ tx'[t] = tx[t]
     \/ tx[t] = "open" /\ tx'[t] = "rolledback"
  /\ told[t] = "none"
  /\ \/ told'[t] = "yes" /\ tx[t] \in {"none", "committed"}
     \/ told'[t] = "no" /\ tx[t] # "committed"
     \/ told'[t] \in {"unknown", "none"}

Next ==
  \A t \in Tasks :
    Same(t) \/ Accept(t) \/ Begin(t) \/ Commit(t) \/ Rollback(t) \/ End(t)

Spec == Init /\ [][Next]_vars
=============================================================================
