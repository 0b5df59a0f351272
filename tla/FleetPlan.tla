----------------------------- MODULE FleetPlan -----------------------------
(***************************************************************************)
(* The fleet coordinator of Agent Runtime V2: one fleet run, its approval,  *)
(* the stages it schedules and the child agent runs it leases, as           *)
(* agent/service.rs, agent/fleet_coordinator.rs and agent/fleet_run.rs      *)
(* drive them.  The fleet lives in memory behind one lock and is written to *)
(* SQLite at the end of every operation; approvals live in SQLite only and  *)
(* are read before that lock is taken.  A child is identified by its stage, *)
(* its target and its attempt, as is its agent run.  What a child does is   *)
(* the business of AgentRun: here it is open (working, or waiting for the   *)
(* user, who may answer whatever has become of the fleet) until it ends.    *)
(***************************************************************************)
EXTENDS Integers, FiniteSets, FiniteSetsExt

CONSTANTS
  Stages,       \* 1..n, in the order of FleetRunV2::stages
  Targets,      \* 1..m, in the order of FleetRunV2::targets
  StageTargets, \* the targets of each stage
  DependsOn,    \* the stages each stage waits for
  Strategy,     \* "Sequential", "Canary", "RollingBatch" or "Parallel"
  Limit,        \* concurrency_limit of each stage
  Capacity,     \* MAX_FLEET_ACTIVE_CHILDREN
  PlanFailurePolicies, \* the failure policies a draft may choose
  MaxAttempts,  \* bound on the attempts of one target in one stage
  MaxPolicy,    \* bound on the versions of the command policy
  MaxCalls,     \* bound on the requests between their reads and their lock
  MaxFailures   \* bound on the transactions that fail

-----------------------------------------------------------------------------
(* FleetRunV2::draft refuses any other plan, and so does every load.        *)
ValidTargets == Targets \subseteq Nat /\ IsFiniteSet(Targets)

ValidStages ==
  /\ Stages \subseteq Nat /\ IsFiniteSet(Stages)
  /\ StageTargets \in [Stages -> SUBSET Targets \ {{}}]
  /\ DependsOn \in [Stages -> SUBSET Stages]
  /\ Strategy \in [Stages -> {"Sequential", "Canary", "RollingBatch", "Parallel"}]
  /\ \A s \in Stages : /\ s \notin DependsOn[s]
                       /\ Limit[s] \in 1..Cardinality(StageTargets[s])
                       /\ Strategy[s] = "Sequential" => Limit[s] = 1

(* validate_acyclic: every set of stages has one that waits for none of it. *)
Acyclic == \A S \in SUBSET Stages \ {{}} : \E s \in S : DependsOn[s] \cap S = {}

(* validate_metadata                                                        *)
ValidPlan == ValidTargets /\ ValidStages /\ Acyclic

ASSUME PlanAssumption == ValidPlan

ASSUME BoundAssumption ==
  /\ PlanFailurePolicies \subseteq {"Stop", "PauseForReview", "Continue", "Rollback"}
  /\ Capacity \in Nat /\ MaxAttempts \in Nat /\ MaxPolicy \in Nat
  /\ MaxCalls \in Nat /\ MaxFailures \in Nat

VARIABLES
  fleet,    \* the run in active_fleets: state, failure policy, stages
  child,    \* the children of the run, by stage, target and attempt
  saved,    \* the run's row and its children in SQLite
  approval, \* the fleet's approval row
  planPolicy,   \* the version of the command policy in force
  calls,    \* requests that have read the approval and wait for the lock
  proc      \* what the agent run of a child does

vars == <<fleet, child, saved, approval, planPolicy, calls, proc>>

FleetStates == {"Draft", "Planning", "AwaitingApproval", "Approved", "Executing", "Verifying",
                "PausedForReview", "Failed", "RollingBack", "Interrupted", "Cancelled"}

StageStates == {"Pending", "Running", "Succeeded", "Failed", "Blocked"}

Children == {c \in Stages \X Targets \X (1..MaxAttempts) : c[2] \in StageTargets[c[1]]}

StepApprovals == {"None", "Pending", "Granted", "Rejected", "Invalidated"}

(* FleetRunStateV2::is_terminal, of the states this program reaches.        *)
Terminal == {"Failed", "Interrupted", "Cancelled"}

is_active(state) == state = "Running"

is_settled(state) == state \in {"Succeeded", "Failed", "Cancelled"}

(***************************************************************************)
(* FleetRunStateV2::can_transition_to, for the moves the code asks for.     *)
(* "Draft" to "AwaitingApproval" stands for the four moves that             *)
(* request_fleet_approval makes under one lock.                             *)
(***************************************************************************)
CanTransition(from, to) ==
  /\ from \notin Terminal
  /\ \/ to \in {"Cancelled", "Failed"}
     \/ <<from, to>> \in {<<"Draft", "AwaitingApproval">>, <<"AwaitingApproval", "Approved">>,
                          <<"AwaitingApproval", "Planning">>, <<"Approved", "Executing">>,
                          <<"Executing", "Verifying">>, <<"Executing", "PausedForReview">>,
                          <<"Executing", "RollingBack">>, <<"PausedForReview", "Executing">>}

TypeOK ==
  /\ fleet \in [state : FleetStates, live : BOOLEAN, policy : PlanFailurePolicies,
                stage : [Stages -> StageStates]]
  /\ child \in [Children -> StageStates \cup {"None", "Cancelled"}]
  /\ saved \in [fleet : FleetStates, child : [Children -> StageStates \cup {"None", "Cancelled"}],
                failures : 0..MaxFailures]
  /\ approval \in [state : StepApprovals, policy : 0..MaxPolicy]
  /\ planPolicy \in 0..MaxPolicy
  /\ \A r \in calls : /\ r.op \in {"grant", "reject", "start", "continue"}
                      /\ r.seen \in [state : StepApprovals, policy : 0..MaxPolicy]
                      /\ r.policy \in 0..MaxPolicy
  /\ proc \in [Children -> {"none", "claimed", "open", "cancelling", "ended", "lost"}]

(* create_fleet_draft: the fleet is in memory and in SQLite.                *)
PlanInit ==
  /\ \E p \in PlanFailurePolicies :
       fleet = [state |-> "Draft", live |-> TRUE, policy |-> p, stage |-> [s \in Stages |-> "Pending"]]
  /\ child = [c \in Children |-> "None"]
  /\ saved = [fleet |-> "Draft", child |-> child, failures |-> 0]
  /\ approval = [state |-> "None", policy |-> 0]
  /\ planPolicy = 0
  /\ calls = {}
  /\ proc = [c \in Children |-> "none"]

Outcomes == IF saved.failures < MaxFailures THEN BOOLEAN ELSE {TRUE}

(***************************************************************************)
(* The transaction at the end of an operation.  When it fails the request   *)
(* is refused, but the run in memory has already changed.                   *)
(***************************************************************************)
\* Mutant: the children are not written.
PersistStateOnly(stored) ==
  saved' = IF stored THEN [saved EXCEPT !.fleet = fleet'.state]
           ELSE [saved EXCEPT !.failures = @ + 1]

Persist(stored) ==
  saved' = IF stored
           THEN [saved EXCEPT !.fleet = fleet'.state, !.child = child']
           ELSE [saved EXCEPT !.failures = @ + 1]

(* The approval's row is inserted, and later decided, in the transaction    *)
(* that saves the fleet; a request reads it whole, in a read of its own.    *)
insert_fleet_approval_row(stored) ==
  approval' = IF stored THEN [state |-> "Pending", policy |-> planPolicy] ELSE approval

decide_fleet_approval_row(stored, seen, verdict) ==
  approval' = IF stored THEN [seen EXCEPT !.state = verdict] ELSE approval

load_fleet_approval(op) == [op |-> op, seen |-> approval, policy |-> planPolicy]

request_fleet_approval ==
  /\ fleet.live /\ CanTransition(fleet.state, "AwaitingApproval")
  /\ fleet' = [fleet EXCEPT !.state = "AwaitingApproval"]
  /\ UNCHANGED <<child, planPolicy, calls, proc>>
  /\ \E stored \in Outcomes :
       /\ Persist(stored)
       /\ insert_fleet_approval_row(stored)

(* approve, reject, start and continue read the approval and the policy in  *)
(* force first; the fleet is locked afterwards.                             *)
Request(op) ==
  /\ fleet.live /\ approval.state # "None"
  /\ Cardinality(calls) < MaxCalls
  /\ calls' = calls \cup {load_fleet_approval(op)}
  /\ UNCHANGED <<fleet, child, saved, approval, planPolicy, proc>>

(* FleetApprovalV2::validate.                                               *)
Valid(r) ==
  /\ r.seen.state = "Pending"
  /\ fleet.state = "AwaitingApproval"
  /\ r.seen.policy = r.policy

decide_fleet_approval(r) ==
  /\ r.op \in {"grant", "reject"}
  /\ calls' = calls \ {r}
  /\ LET verdict == IF ~Valid(r) THEN "Invalidated"
                    ELSE IF r.op = "grant" THEN "Granted" ELSE "Rejected"
         next == IF fleet.state # "AwaitingApproval" THEN fleet.state
                 ELSE IF verdict = "Granted" THEN "Approved" ELSE "Planning"
     IN /\ fleet' = [fleet EXCEPT !.state = next]
        /\ UNCHANGED <<child, planPolicy, proc>>
        /\ \E stored \in Outcomes :
             /\ Persist(stored)
             /\ decide_fleet_approval_row(stored, r.seen, verdict)

(* validate_authority_for_states.                                           *)
Authority(r, states) ==
  /\ fleet.state \in states
  /\ r.seen.state = "Granted"
  /\ r.seen.policy = r.policy

(***************************************************************************)
(* claim_ready, over the children kids and the stages stage of the run.     *)
(***************************************************************************)
Attempts(kids, s, t) == {n \in 1..MaxAttempts : <<s, t, n>> \in Children /\ kids[<<s, t, n>>] # "None"}

ChildOf(kids, s, t, states) == \E n \in Attempts(kids, s, t) : kids[<<s, t, n>>] \in states

Active(kids, S) == {c \in Children : c[1] \in S /\ is_active(kids[c])}

(* refresh_blocked_stages                                                   *)
RefreshBlocked(stage) ==
  [s \in Stages |-> IF /\ stage[s] = "Pending"
                       /\ \E d \in DependsOn[s] : stage[d] \in {"Failed", "Blocked"}
                    THEN "Blocked" ELSE stage[s]]

CanaryOf(s) == Min(StageTargets[s])

CanaryDone(kids, s) == ChildOf(kids, s, CanaryOf(s), {"Succeeded"})

\* Mutant: only success settles a target.
EligibleUnlessDone(kids, stage, s) ==
  IF \/ stage[s] \notin {"Pending", "Running"}
     \/ \E d \in DependsOn[s] : stage[d] # "Succeeded"
  THEN {}
  ELSE {t \in StageTargets[s] :
          /\ ~ChildOf(kids, s, t, {"Succeeded", "Running"})
          /\ Strategy[s] # "Canary" \/ t = CanaryOf(s) \/ CanaryDone(kids, s)}

(* The targets of stage s that may get a new attempt, before any limit.     *)
Eligible(kids, stage, s) ==
  IF \/ stage[s] \notin {"Pending", "Running"}
     \/ \E d \in DependsOn[s] : stage[d] # "Succeeded"
  THEN {}
  ELSE {t \in StageTargets[s] :
          /\ ~ChildOf(kids, s, t, {"Succeeded", "Failed", "Cancelled", "Running"})
          /\ \/ Strategy[s] # "Canary"
             \/ t = CanaryOf(s)
             \/ CanaryDone(kids, s)}

(* The first eligible targets of each stage, up to its concurrency limit;   *)
(* the limit of a sequential stage is one, and a canary that has not        *)
(* succeeded is the only eligible target of its stage.                      *)
Offered(kids, stage) ==
  {p \in Stages \X Targets :
     LET eligible == Eligible(kids, stage, p[1])
     IN /\ p[2] \in eligible
        /\ Cardinality({t \in eligible : t < p[2]}) < Limit[p[1]] - Cardinality(Active(kids, {p[1]}))}

Before(p, q) == p[1] < q[1] \/ (p[1] = q[1] /\ p[2] < q[2])

(* Stages are served in order until the capacity asked for is used up.      *)
Leases(kids, stage, capacity) ==
  LET offered == Offered(kids, stage)
      free == Min({capacity, Capacity}) - Cardinality(Active(kids, Stages))
  IN {p \in offered : Cardinality({q \in offered : Before(q, p)}) < free}

NewChildren(kids, leases) ==
  {c \in Children : <<c[1], c[2]>> \in leases /\ c[3] = Cardinality(Attempts(kids, c[1], c[2])) + 1}

(***************************************************************************)
(* claim_fleet_children: the children exist and are durable before any of   *)
(* them is launched; when the transaction fails nothing launches them.      *)
(***************************************************************************)
claim_fleet_children(r) ==
  /\ r.op = "start"
  /\ calls' = calls \ {r}
  /\ IF ~Authority(r, {"Approved", "Executing"})
     THEN UNCHANGED <<fleet, child, saved, proc>>
     ELSE \E capacity \in 1..Capacity, stored \in Outcomes :
            LET stage == RefreshBlocked(fleet.stage)
                leases == Leases(child, stage, capacity)
                new == NewChildren(child, leases)
            IN /\ Cardinality(new) = Cardinality(leases)
               /\ fleet' = [fleet EXCEPT !.state = "Executing",
                              !.stage = [s \in Stages |-> IF \E t \in Targets : <<s, t>> \in leases
                                                          THEN "Running" ELSE stage[s]]]
               /\ child' = [c \in Children |-> IF c \in new THEN "Running" ELSE child[c]]
               /\ Persist(stored)
               /\ proc' = [c \in Children |-> IF c \notin new THEN proc[c]
                                              ELSE IF stored THEN "claimed" ELSE "lost"]
  /\ UNCHANGED <<approval, planPolicy>>

(* start_fleet_children goes on to launch the children it claimed, without  *)
(* another look at the fleet.                                               *)
Launch(c) ==
  /\ proc[c] = "claimed"
  /\ proc' = [proc EXCEPT ![c] = "open"]
  /\ UNCHANGED <<fleet, child, saved, approval, planPolicy, calls>>

(***************************************************************************)
(* AgentRuntimeV2Service::cancel of the agent runs in set C: an open run    *)
(* that waits for the user, or one not launched yet, is over; one that      *)
(* works is only signalled and goes on until it notices.                    *)
(***************************************************************************)
Cancel(C) ==
  \E working \in SUBSET {c \in C : proc[c] = "open"} :
    proc' = [c \in Children |-> IF c \in working THEN "cancelling"
                               ELSE IF c \in C /\ proc[c] \in {"claimed", "open"} THEN "ended"
                               ELSE proc[c]]

(* continue_after_review: a stage goes on when one of its targets is not    *)
(* settled.                                                                 *)
Reopened(stage) ==
  [s \in Stages |-> IF /\ stage[s] \in {"Failed", "Blocked"}
                       /\ \E t \in StageTargets[s] : ~ChildOf(child, s, t, {"Succeeded", "Failed", "Cancelled"})
                    THEN "Running" ELSE stage[s]]

continue_fleet(r) ==
  /\ r.op = "continue"
  /\ IF ~Authority(r, {"PausedForReview"})
     THEN /\ calls' = calls \ {r}
          /\ UNCHANGED <<fleet, child, saved, proc>>
     ELSE /\ fleet' = [fleet EXCEPT !.state = "Executing", !.stage = Reopened(fleet.stage)]
          /\ UNCHANGED child
          /\ \E stored \in Outcomes :
               /\ Persist(stored)
               /\ IF stored THEN Cancel({c \in Children : child[c] = "Blocked"}) ELSE UNCHANGED proc
               /\ calls' = (calls \ {r}) \cup
                    IF stored THEN {load_fleet_approval("start")} ELSE {}
  /\ UNCHANGED <<approval, planPolicy>>

(* The children that are active get state, in pause and in cancel.          *)
Settle(kids, state) == [c \in Children |-> IF is_active(kids[c]) THEN state ELSE kids[c]]

Pause(kids) == Settle(kids, "Blocked")

(* The runs of the children of a paused fleet are then asked to pause,      *)
(* which takes effect once they wait.                                       *)
pause_fleet ==
  /\ fleet.live /\ fleet.state = "Executing"
  /\ fleet' = [fleet EXCEPT !.state = "PausedForReview"]
  /\ child' = Pause(child)
  /\ \E stored \in Outcomes : Persist(stored)
  /\ UNCHANGED <<approval, planPolicy, calls, proc>>

cancel_fleet ==
  /\ fleet.live /\ fleet.state \notin Terminal
  /\ fleet' = [fleet EXCEPT !.state = "Cancelled"]
  /\ child' = Settle(child, "Cancelled")
  /\ \E stored \in Outcomes :
       /\ Persist(stored)
       /\ IF stored THEN Cancel({c \in Children : is_active(child[c])}) ELSE UNCHANGED proc
  /\ UNCHANGED <<approval, planPolicy, calls>>

-----------------------------------------------------------------------------
(* refresh_stage, after the child states became kids.                       *)
RefreshStage(kids, s) ==
  IF \E c \in Children : c[1] = s /\ kids[c] = "Failed" THEN "Failed"
  ELSE IF \A t \in StageTargets[s] : ChildOf(kids, s, t, {"Succeeded"}) THEN "Succeeded"
  ELSE IF Active(kids, {s}) # {} THEN "Running" ELSE fleet.stage[s]

(* apply_failure_policy and the check for the last stage.                   *)
AfterOutcome(stage) ==
  IF \E s \in Stages : stage[s] = "Failed"
  THEN CASE fleet.policy = "Stop" -> "Failed"
         [] fleet.policy = "PauseForReview" -> "PausedForReview"
         [] fleet.policy = "Rollback" -> "RollingBack"
         [] OTHER -> fleet.state
  ELSE IF \A s \in Stages : stage[s] = "Succeeded" THEN "Verifying" ELSE fleet.state

(* record_fleet_child_outcome; without a fleet that executes, or for a      *)
(* child that is not active, the outcome is dropped.                        *)
Recordable(c) == fleet.live /\ fleet.state = "Executing" /\ is_active(child[c])

record_fleet_child_outcome(c, outcome) ==
  IF ~Recordable(c)
  THEN UNCHANGED <<fleet, child, saved>>
  ELSE LET kids == [child EXCEPT ![c] = outcome]
           stage == [fleet.stage EXCEPT ![c[1]] = RefreshStage(kids, c[1])]
           next == AfterOutcome(stage)
       IN /\ fleet' = [fleet EXCEPT !.stage = stage, !.state = next]
          /\ child' = IF next = "PausedForReview" THEN Pause(kids) ELSE kids
          /\ \E stored \in Outcomes : Persist(stored)

(* finish_outcome, when a run ends in the task that launched it or in a     *)
(* request of the user; the launching task then starts further children.    *)
finish_outcome(c, outcome) ==
  /\ proc[c] \in {"open", "cancelling"}
  /\ outcome = "Cancelled" => proc[c] = "cancelling"
  /\ record_fleet_child_outcome(c, outcome)
  /\ proc' = [proc EXCEPT ![c] = "ended"]
  /\ \/ UNCHANGED calls
     \/ /\ fleet.live /\ Cardinality(calls) < MaxCalls
        /\ calls' = calls \cup {load_fleet_approval("start")}
  /\ UNCHANGED <<approval, planPolicy>>

(* The user cancels the agent run of a child by itself.                     *)
CancelChild(c) ==
  /\ proc[c] = "open"
  /\ Cancel({c})
  /\ UNCHANGED <<fleet, child, saved, approval, planPolicy, calls>>

PlanPolicyChanges ==
  /\ planPolicy < MaxPolicy
  /\ planPolicy' = planPolicy + 1
  /\ UNCHANGED <<fleet, child, saved, approval, calls, proc>>

Interrupted(state) ==
  IF state \in {"Planning", "Approved", "Executing", "Verifying", "RollingBack"} THEN "Interrupted" ELSE state

(* load_fleet_run: the row with its children, and nothing that ran.         *)
Loaded(row) ==
  /\ fleet' = [fleet EXCEPT !.live = FALSE, !.state = row.fleet]
  /\ child' = row.child

(***************************************************************************)
(* The program restarts.  recover_fleet_runs interrupts what was in flight, *)
(* takes the authority from every approval and leaves metadata only: no     *)
(* fleet is in memory any more and no request about one is accepted.        *)
(***************************************************************************)
PlanRestart ==
  /\ fleet.live
  /\ saved' = [saved EXCEPT !.fleet = Interrupted(saved.fleet)]
  /\ Loaded(saved')
  /\ approval' = IF approval.state \in {"Pending", "Granted"}
                 THEN [approval EXCEPT !.state = "Invalidated"] ELSE approval
  /\ calls' = {}
  /\ proc' = [c \in Children |-> "none"]
  /\ UNCHANGED planPolicy

PlanNext ==
  \/ request_fleet_approval \/ pause_fleet \/ cancel_fleet \/ PlanPolicyChanges \/ PlanRestart
  \/ \E op \in {"grant", "reject", "start", "continue"} : Request(op)
  \/ \E r \in calls : decide_fleet_approval(r) \/ claim_fleet_children(r) \/ continue_fleet(r)
  \/ \E c \in Children :
       \/ Launch(c) \/ CancelChild(c)
       \/ \E outcome \in {"Succeeded", "Failed", "Cancelled"} : finish_outcome(c, outcome)

PlanSpec == PlanInit /\ [][PlanNext]_vars

-----------------------------------------------------------------------------
(* A child exists only once every stage its stage depends on has succeeded. *)
DependenciesFirst ==
  \A c \in Children : child[c] # "None" => \A d \in DependsOn[c[1]] : fleet.stage[d] = "Succeeded"

(* In a canary stage no other target is tried before the canary succeeded.  *)
CanaryFirst ==
  \A c \in Children :
    (child[c] # "None" /\ Strategy[c[1]] = "Canary" /\ c[2] # CanaryOf(c[1])) => CanaryDone(child, c[1])

(* No stage has more active children than its limit, the fleet no more than *)
(* its capacity.                                                            *)
WithinLimits ==
  /\ \A s \in Stages : Cardinality(Active(child, {s})) <= Limit[s]
  /\ Cardinality(Active(child, Stages)) <= Capacity

(* The schedule follows the approved plan (claim_ready): dependencies and   *)
(* canaries first and within the limits, through pauses, lost outcomes and  *)
(* any number of concurrent start requests.                                 *)
FollowsPlan == DependenciesFirst /\ CanaryFirst /\ WithinLimits

(* continue_after_review: "Failed or cancelled targets remain settled and   *)
(* are never retried implicitly".  Once an attempt has an outcome, its      *)
(* target gets no further attempt in that stage.                            *)
NeverRetriesSettled ==
  \A c, d \in Children :
    (is_settled(child[c]) /\ d[1] = c[1] /\ d[2] = c[2] /\ d[3] > c[3]) => child[d] = "None"

(* claim_fleet_children "persists ownership before any child controller may *)
(* start": the row of a child that runs or may still be launched is in the  *)
(* database, so a restart knows every run that may have changed a host.     *)
OwnershipDurable ==
  \A c \in Children : proc[c] \notin {"none", "lost"} => saved.child[c] # "None"

(* A fleet that reached verification has a successful attempt for every     *)
(* target of every stage.                                                   *)
VerifyingIsEarned ==
  fleet.state = "Verifying" =>
    \A s \in Stages : \A t \in StageTargets[s] : ChildOf(child, s, t, {"Succeeded"})

(* continue_fleet retires old controllers first: "This prevents two Runtime *)
(* V2 runs owning one target step".  No two runs work on one target in one  *)
(* stage.                                                                   *)
OneOwnerPerStep ==
  \A c, d \in Children :
    (/\ c[1] = d[1] /\ c[2] = d[2]
     /\ proc[c] \in {"open", "cancelling"} /\ proc[d] \in {"open", "cancelling"}) => c = d
=============================================================================
