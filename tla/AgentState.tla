----------------------------- MODULE AgentState -----------------------------
(***************************************************************************)
(* The closed state machine of an agent run (src-tauri/src/agent/state.rs) *)
(* and the state a run is given when the application starts again          *)
(* (recover_on_startup in src-tauri/src/agent/sqlite.rs).                  *)
(***************************************************************************)

Terminal  == {"Completed", "Failed", "Cancelled"}
Interrupt == {"AwaitingApproval", "AwaitingUser", "Paused"}
Phases    == {"Created", "Running", "Reasoning", "Acting", "Observing",
              "Diagnosed", "PlanningChange", "ExecutingChange", "Verifying",
              "RollingBack"}
RunStates == Terminal \cup Interrupt \cup Phases

\* pause() and can_transition_to agree: a side effect in flight never pauses.
Pausable  == {"Running", "Reasoning", "Acting", "Observing", "Diagnosed",
              "PlanningChange"}

Successors(s) ==
  CASE s = "Created"          -> {"Running"}
    [] s = "Running"          -> {"Reasoning", "Paused"}
    [] s = "Reasoning"        -> {"Acting", "AwaitingApproval", "AwaitingUser",
                                  "PlanningChange", "Diagnosed", "Completed",
                                  "Paused"}
    [] s = "Acting"           -> {"Observing", "AwaitingApproval", "Paused"}
    [] s = "Observing"        -> {"Reasoning", "Diagnosed", "Paused"}
    [] s = "AwaitingApproval" -> {"Acting", "ExecutingChange", "Reasoning"}
    [] s = "AwaitingUser"     -> {"Reasoning"}
    [] s = "Diagnosed"        -> {"PlanningChange", "Reasoning", "Completed",
                                  "Paused"}
    [] s = "PlanningChange"   -> {"AwaitingApproval", "ExecutingChange",
                                  "Reasoning", "Paused"}
    [] s = "ExecutingChange"  -> {"Verifying", "RollingBack", "Reasoning"}
    [] s = "Verifying"        -> {"Completed", "Reasoning", "RollingBack"}
    [] s = "RollingBack"      -> {"Reasoning", "Completed"}
    [] s = "Paused"           -> {"Running", "Reasoning"}
    [] OTHER                  -> {}

\* Cancellation and hard failure are open to every run that has not ended.
CanTransitionTo(s, next) ==
  /\ s \notin Terminal
  /\ next \in Successors(s) \cup {"Cancelled", "Failed"}

\* A run found in the middle of the loop is parked; the others stay put.
Recovered(s) == IF s \in Terminal \cup Interrupt \cup {"Created"}
                THEN s ELSE "Paused"

=============================================================================
