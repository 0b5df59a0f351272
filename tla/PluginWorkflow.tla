--------------------------- MODULE PluginWorkflow ---------------------------
(***************************************************************************)
(* The workflow executor of plugins/workflow, on top of the registry.  A    *)
(* workflow of the plugin is planned; the writes that map onto ChangeSet    *)
(* steps are drafted as one ChangeSet; execute() takes the plan, executes   *)
(* its ChangeSet and then runs the other steps one after the other.  Every  *)
(* execute() is a call of its own; the registry changes under all of them.  *)
(***************************************************************************)
EXTENDS PluginRegistry

CONSTANTS
  Steps,  \* the workflow: [uses, perm, change, conditional, max_attempts, abort]
  Plans,  \* plan ids
  Calls   \* execute() requests

VARIABLES
  plan,    \* the plans kept in memory, and the run row of each plan
  call,    \* the execute() requests
  applied, \* executions of the ChangeSet of each plan
  down     \* restarts so far

workflowVars == <<plan, call, applied, down>>

vars == <<registryVars, workflowVars>>

MaxRetryAttempts == 5

ChangeKinds == {"read", "managed", "mapped", "unmapped"}

(* The steps have unique ids (their positions) and a bounded retry.         *)
validate_workflow ==
  /\ Steps # <<>>
  /\ \A i \in DOMAIN Steps : Steps[i].max_attempts \in 1..MaxRetryAttempts

ASSUME WorkflowAssumption ==
  /\ validate_workflow
  /\ \A i \in DOMAIN Steps : Steps[i].change \in ChangeKinds /\ Steps[i].perm \in Permissions

RunStates == {"AwaitingApproval", "Running", "Succeeded", "Failed", "Cancelled", "Interrupted"}

StepStates == {"Pending", "Running", "Succeeded", "Failed", "Skipped", "Cancelled"}

(* Writes the plugin makes itself, under its capabilities.                  *)
PluginManaged(i) == Steps[i].change = "managed"

planned_change_is_mutating(i) == Steps[i].change # "read"

change_to_draft(i) == Steps[i].change = "mapped"

(* The steps whose writes become steps of a ChangeSet.                      *)
Covered == {i \in DOMAIN Steps : planned_change_is_mutating(i) /\ ~PluginManaged(i) /\ change_to_draft(i)}

native_tool_for_planned_change(i) == Steps[i].change \in {"read", "mapped"}

require_tool_policy_for_change(i) ==
  planned_change_is_mutating(i) /\ ~PluginManaged(i) => native_tool_for_planned_change(i)

(* Every mutating change is the plugin's own, or maps, or the plan is       *)
(* refused.                                                                 *)
enforce_changeset_mappability ==
  \A i \in DOMAIN Steps :
    /\ require_tool_policy_for_change(i)
    /\ planned_change_is_mutating(i) => PluginManaged(i) \/ i \in Covered

require_enabled == /\ get_active # NoVersion /\ rows[get_active].enabled
                   /\ require_not_revoked(get_active)
                   /\ get_active \in dirs

require_for_host(perm) == perm \in granted

(* The planner asks for the permission of every step it plans.              *)
planner_permits == \A i \in DOMAIN Steps : require_for_host(Steps[i].perm)

preflight_permissions == \A i \in DOMAIN Steps : require_for_host(Steps[i].perm)

NoPlan == [state |-> "none"]

Idle == [pc |-> "idle"]

Init ==
  /\ RegistryInit
  /\ plan = [p \in Plans |-> NoPlan]
  /\ call = [e \in Calls |-> Idle]
  /\ applied = [p \in Plans |-> {}]
  /\ down = 0

-----------------------------------------------------------------------------
(* The draft of the ChangeSet may be refused by the policy.                 *)
draft_plugin_changeset(permitted) == Covered # {} => permitted

(* plan()                                                                   *)
make_plan(p, permitted) ==
  /\ plan[p] = NoPlan
  /\ require_enabled /\ planner_permits /\ enforce_changeset_mappability
  /\ draft_plugin_changeset(permitted)
  /\ plan' = [plan EXCEPT ![p] = [state |-> "stored", version |-> get_active, row |-> "AwaitingApproval"]]
  /\ UNCHANGED <<registryVars, call, applied, down>>

(* Mutant: the plan stays where it is.                                      *)
TakePlanCopy(p) == plan

TakePlan(p) == [plan EXCEPT ![p].state = "taken"]

(* execute(): the plan is gone, whatever the checks say.                    *)
execute(e, p) ==
  /\ call[e].pc = "idle" /\ plan[p].state = "stored"
  /\ plan' = TakePlan(p)
  /\ call' = [call EXCEPT ![e] =
       IF require_enabled /\ get_active = plan[p].version /\ preflight_permissions
       THEN [pc |-> IF Covered = {} THEN "start" ELSE "changeset", plan |-> p,
             version |-> plan[p].version, step |-> 1, tries |-> 0, token |-> "live", row |-> "none",
             steps |-> [i \in DOMAIN Steps |-> "Pending"]]
       ELSE [pc |-> "returned"]]
  /\ UNCHANGED <<registryVars, applied, down>>

(* approve_with_preconditions and execute_with_policy of the ChangeSet: an  *)
(* error ends the call, an answer does not, whatever state it reports.      *)
execute_bound_changeset(e, answer) ==
  /\ call[e].pc = "changeset"
  /\ applied' = [applied EXCEPT ![call[e].plan] =
       IF answer = "Refused" THEN @ ELSE @ \cup {<<e, answer>>}]
  /\ call' = [call EXCEPT ![e] =
       IF answer \in {"Refused", "Err"} THEN [pc |-> "returned"] ELSE [@ EXCEPT !.pc = "start"]]
  /\ UNCHANGED <<registryVars, plan, down>>

StartRun(e) ==
  /\ call[e].pc = "start"
  /\ call' = [call EXCEPT ![e].pc = "step", ![e].row = "Running"]
  /\ UNCHANGED <<registryVars, plan, applied, down>>

Ended(c, state) == [c EXCEPT !.pc = "returned", !.row = state]

NextStep(c, state) == [c EXCEPT !.pc = "step", !.steps[c.step] = state, !.step = @ + 1, !.tries = 0]

(* The head of the loop: cancelled, skipped by its condition, covered by    *)
(* the ChangeSet, or on to the attempts.  A condition that cannot be        *)
(* evaluated leaves run_steps at once, and the row as it is.                *)
RunStep(e, condition) ==
  /\ call[e].pc = "step" /\ call[e].step \in DOMAIN Steps
  /\ LET c == call[e]
         i == c.step
     IN /\ ~Steps[i].conditional => condition = "holds"
        /\ call' = [call EXCEPT ![e] =
             CASE c.token = "cancelled" ->
                    [Ended(c, "Cancelled") EXCEPT !.steps =
                       [j \in DOMAIN Steps |-> IF j >= i THEN "Cancelled" ELSE c.steps[j]]]
               [] c.token = "live" /\ condition = "error" -> [c EXCEPT !.pc = "returned"]
               [] c.token = "live" /\ condition = "fails" -> NextStep(c, "Skipped")
               [] c.token = "live" /\ condition = "holds" /\ i \in Covered -> NextStep(c, "Succeeded")
               [] OTHER -> [c EXCEPT !.pc = "attempt", !.steps[i] = "Running"]]
  /\ UNCHANGED <<registryVars, plan, applied, down>>

MayAct(c) ==
  require_enabled /\ get_active = c.version /\ require_for_host(Steps[c.step].perm)

Attempt(e) ==
  /\ call[e].pc = "attempt" /\ call[e].tries < Steps[call[e].step].max_attempts
  /\ call[e].token = "live"
  /\ call' = [call EXCEPT ![e].tries = @ + 1,
                          ![e].pc = IF MayAct(call[e]) THEN "acting" ELSE "attempt"]
  /\ UNCHANGED <<registryVars, plan, applied, down>>

ActionDone(e, ok) ==
  /\ call[e].pc = "acting"
  /\ call' = [call EXCEPT ![e] = IF ok THEN NextStep(@, "Succeeded") ELSE [@ EXCEPT !.pc = "attempt"]]
  /\ UNCHANGED <<registryVars, plan, applied, down>>

(* No attempt is left, or the run was cancelled before the next one.        *)
StepFails(e) ==
  /\ call[e].pc = "attempt"
  /\ \/ call[e].tries = Steps[call[e].step].max_attempts
     \/ call[e].token = "cancelled"
  /\ LET c == call[e]
         why == IF c.token = "cancelled" /\ c.tries < Steps[c.step].max_attempts
                THEN "Cancelled" ELSE "Failed"
     IN call' = [call EXCEPT ![e] =
          IF Steps[c.step].abort THEN [Ended(c, why) EXCEPT !.steps[c.step] = "Failed"]
          ELSE NextStep(c, "Failed")]
  /\ UNCHANGED <<registryVars, plan, applied, down>>

RunSucceeds(e) ==
  /\ call[e].pc = "step" /\ call[e].step \notin DOMAIN Steps
  /\ call' = [call EXCEPT ![e] = Ended(@, "Succeeded")]
  /\ UNCHANGED <<registryVars, plan, applied, down>>

(* The token exists from the insert of the run to the return of execute().  *)
cancel(e) ==
  /\ call[e].pc \in {"step", "attempt", "acting"} /\ call[e].token = "live"
  /\ call' = [call EXCEPT ![e].token = "cancelled", ![e].row = "Cancelled"]
  /\ UNCHANGED <<registryVars, plan, applied, down>>

Interrupted(row) == IF row \in {"AwaitingApproval", "Running"} THEN "Interrupted" ELSE row

(* Plans, tokens and reviews are in memory only; startup_recovery marks the *)
(* rows of runs that were under way.                                        *)
startup_recovery ==
  /\ down = 0 /\ down' = 1
  /\ RegistryRestart
  /\ plan' = [p \in Plans |-> IF plan[p] = NoPlan THEN NoPlan
                              ELSE [plan[p] EXCEPT !.state = "lost", !.row = Interrupted(@)]]
  /\ call' = [e \in Calls |-> IF call[e].pc \in {"step", "attempt", "acting"}
                              THEN Ended(call[e], Interrupted(call[e].row))
                              ELSE IF call[e].pc \in {"changeset", "start"} THEN [pc |-> "returned"]
                              ELSE call[e]]
  /\ UNCHANGED applied

WorkflowNext ==
  \/ \E p \in Plans, ok \in BOOLEAN : make_plan(p, ok)
  \/ \E e \in Calls, p \in Plans : execute(e, p)
  \/ \E e \in Calls, a \in {"Refused", "Err", "Committed", "Failed", "RolledBack"} :
       execute_bound_changeset(e, a)
  \/ \E e \in Calls : StartRun(e) \/ Attempt(e) \/ StepFails(e) \/ RunSucceeds(e) \/ cancel(e)
  \/ \E e \in Calls, c \in {"holds", "fails", "error"} : RunStep(e, c)
  \/ \E e \in Calls, ok \in BOOLEAN : ActionDone(e, ok)

Next ==
  \/ RegistryNext /\ UNCHANGED workflowVars
  \/ WorkflowNext
  \/ startup_recovery

Spec == Init /\ [][Next]_vars

TypeOK ==
  /\ \A v \in Versions : rows[v].pub \in Publishers \cup {"none"}
  /\ active \in Versions \cup {NoVersion}
  /\ granted \subseteq Permissions /\ listed \subseteq Permissions /\ dirs \subseteq Versions
  /\ \A e \in Calls : call[e].pc \in {"idle", "changeset", "start", "step", "attempt", "acting", "returned"}

-----------------------------------------------------------------------------
(* The ChangeSet of a plan is executed at most once, however many execute() *)
(* requests name the plan (executor.rs execute).                            *)
PlanRunsOnce == \A p \in Plans : Cardinality(applied[p]) <= 1

(* The comment on the result of a bound ChangeSet: "Mutating steps already  *)
(* committed via ChangeSetService."  A step that is reported as executed    *)
(* via its ChangeSet has been committed by it.                              *)
CoveredIsCommitted ==
  \A e \in Calls : call[e].pc # "idle" /\ "steps" \in DOMAIN call[e] =>
    \A i \in Covered : call[e].steps[i] = "Succeeded" => <<e, "Committed">> \in applied[call[e].plan]
=============================================================================
