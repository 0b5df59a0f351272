--------------------------- MODULE FleetExecution ---------------------------
(***************************************************************************)
(* The fleet execution service of agentic/fleet.rs: one ChangeSet for each  *)
(* target, approved together, executed in batches and rolled back together. *)
(* It is composed with ChangeSets: the ChangeSet of target c is c, and the  *)
(* job a fleet request starts for it is <<k, c>>.  As there, the lock is    *)
(* free between the steps, and several requests may be under way.           *)
(***************************************************************************)
EXTENDS ChangeSets

CONSTANTS
  Calls,           \* requests about the fleet
  FailurePolicies, \* what the draft may say about failures
  BatchOf          \* strategy: the batch of the n-th pending target of m

ASSUME FleetAssumption == Jobs = Calls \X Sets /\ Sets \subseteq Int

VARIABLES
  run,    \* the MultiChangeSet: its state, failure policy and targets
  call,   \* the fleet requests under way
  parent  \* the fleet run it was drafted for: "bound", "moved" or "gone"

fleetVars == <<run, call, parent, cs, bound, job, host, policy, up, drifts>>

TargetStates == {"Pending", "Executing", "Succeeded", "Failed", "RollbackPending", "RolledBack",
                 "RollbackFailed"}

InFlight == {"Executing", "Verifying", "RollingBack"}

IdleCall == [pc |-> "idle"]

(* draft_bound, draft_inner and bind_policy of agentic/fleet.rs.            *)
NewFleetRun(p) ==
  [state |-> "Draft", live |-> TRUE, approved |-> FALSE, policy |-> p,
   target |-> [c \in Sets |-> "Pending"], local |-> [c \in Sets |-> FALSE]]

(* agent/fleet_changeset.rs drafts one ChangeSet for each target, checks    *)
(* the policy for it and captures its preconditions before anything else.   *)
FleetDraft ==
  /\ cs = [c \in Sets |-> [Draft(c) EXCEPT !.policy = 0]]
  /\ host = [c \in Sets |-> [i \in Indices(c) |-> "old"]]
  /\ bound = host
  /\ job = [j \in Jobs |-> NoExecution]
  /\ policy = 0 /\ up = "up" /\ drifts = 0
  /\ \E p \in FailurePolicies : run = NewFleetRun(p)
  /\ call = [k \in Calls |-> IdleCall]
  /\ parent = "bound"

KeepChanges == UNCHANGED <<cs, bound, job, host, policy, up, drifts>>

-----------------------------------------------------------------------------
(* The fleet run of Agent Runtime V2 the draft is bound to goes on to       *)
(* another version or state, or one of its sessions ends.                   *)
ParentChanges(to) ==
  /\ parent = "bound" /\ parent' = to
  /\ UNCHANGED <<run, call>> /\ KeepChanges

revalidate_fleet_run_sessions == parent # "gone"

(* validate_parent and the digests: the binding is that of the draft.       *)
validate_execution_binding == parent # "moved"

(* A request about the fleet comes with the fleet run it belongs to.        *)
Requested(k) ==
  /\ call[k] = IdleCall /\ run.live
  /\ revalidate_fleet_run_sessions /\ validate_execution_binding
  /\ UNCHANGED parent

(* invalidate: the approval of the fleet is taken away.                     *)
Invalidated == [run EXCEPT !.approved = FALSE, !.state = "Draft"]

(* approve reads the run and the ChangeSets, approves these one by one and  *)
(* then marks the run approved, whatever has become of it meanwhile.        *)
fleet_approve(k) ==
  /\ Requested(k) /\ run.state = "Draft"
  /\ IF \A c \in Sets : cs[c].exec = "NotStarted" /\ cs[c].live
     THEN call' = [call EXCEPT ![k] = [pc |-> "approving", todo |-> Sets]] /\ UNCHANGED run
     ELSE run' = Invalidated /\ UNCHANGED call
  /\ KeepChanges

ApproveTarget(k, c) ==
  /\ call[k].pc = "approving" /\ c \in call[k].todo
  /\ \A d \in call[k].todo : c <= d
  /\ \/ approve(c, 1) /\ call' = [call EXCEPT ![k].todo = @ \ {c}]
     \/ /\ ~Editable(c, 1) \/ ~Permits(cs[c].policy)
        /\ call' = [call EXCEPT ![k] = IdleCall]
        /\ KeepChanges
  /\ UNCHANGED run

MarkApproved(k) ==
  /\ call[k].pc = "approving" /\ call[k].todo = {}
  /\ run' = IF run.live THEN [run EXCEPT !.approved = TRUE, !.state = "Approved"] ELSE run
  /\ call' = [call EXCEPT ![k] = IdleCall]
  /\ KeepChanges

-----------------------------------------------------------------------------
(* claim_execution checks a snapshot of the run and every ChangeSet; a      *)
(* ChangeSet whose approval is gone takes the approval of the fleet away.   *)
fleet_execute(k) ==
  /\ Requested(k) /\ run.approved /\ run.state \in {"Approved", "PausedForReview"}
  /\ IF \A c \in Sets : cs[c].approval = "Approved" /\ cs[c].approved = 1
     THEN call' = [call EXCEPT ![k] = [pc |-> "claiming"]] /\ UNCHANGED run
     ELSE run' = Invalidated /\ UNCHANGED call
  /\ KeepChanges

(* execution_batches, over the targets that are still pending.              *)
Pending == {c \in Sets : run.target[c] = "Pending"}

Rank(c) == Cardinality({d \in Pending : d < c})

Batches == {{c \in Pending : BatchOf[Rank(c) + 1] = b} : b \in {BatchOf[Rank(c) + 1] : c \in Pending}}

(* The claim itself looks at nothing.  Without a pending target the request *)
(* fails afterwards and leaves the run executing.                           *)
ClaimFleet(k) ==
  /\ call[k].pc = "claiming"
  /\ run' = [run EXCEPT !.state = "Executing"]
  /\ call' = [call EXCEPT ![k] = IF Pending = {} THEN IdleCall
                                 ELSE [pc |-> "batches", todo |-> Batches]]
  /\ KeepChanges

First(b, batches) == \A d \in batches : \A x \in b, y \in d : b = d \/ x < y

(* The next batch: its targets are marked and their ChangeSets executed.    *)
StartBatch(k) ==
  /\ call[k].pc = "batches"
  /\ \E batch \in call[k].todo :
        /\ First(batch, call[k].todo)
        /\ run' = [run EXCEPT !.target = [c \in Sets |-> IF c \in batch THEN "Executing" ELSE @[c]]]
        /\ call' = [call EXCEPT ![k] = [pc |-> "running", todo |-> @.todo \ {batch}, batch |-> batch,
                                        open |-> batch, failed |-> FALSE]]
  /\ KeepChanges

(* execute_with_policy of one target of the batch begins.                   *)
ExecuteTarget(k, c) ==
  /\ call[k].pc = "running" /\ c \in call[k].open
  /\ \/ execute_with_policy(<<k, c>>, c, 1)
     \/ /\ ~(cs[c].policy # NoPolicy /\ cs[c].live)
        /\ job' = [job EXCEPT ![<<k, c>>] = [op |-> "done", c |-> c, answer |-> "Err"]]
        /\ UNCHANGED <<cs, bound, host, policy, up, drifts>>
  /\ call' = [call EXCEPT ![k].open = @ \ {c}]
  /\ UNCHANGED run

(* record_execution_result, once the whole batch has returned.              *)
TargetState(answer) ==
  CASE answer = "Committed" -> "Succeeded"
    [] answer \in {"RolledBack", "RollbackFailed"} -> answer
    [] OTHER -> "Failed"

RecordBatch(k) ==
  /\ call[k].pc = "running" /\ call[k].open = {}
  /\ \A c \in call[k].batch : job[<<k, c>>].op = "done"
  /\ LET Answer(c) == job[<<k, c>>].answer
     IN /\ run' = [run EXCEPT
                     !.target = [c \in Sets |-> IF c \in call[k].batch THEN TargetState(Answer(c)) ELSE @[c]],
                     !.local = [c \in Sets |-> IF c \in call[k].batch THEN Answer(c) = "Committed" ELSE @[c]]]
        /\ call' = [call EXCEPT ![k] =
                      IF \E c \in call[k].batch : Answer(c) # "Committed"
                      THEN [pc |-> "failed", todo |-> @.todo] ELSE [pc |-> "batches", todo |-> @.todo]]
        /\ job' = [j \in Jobs |-> IF j[1] = k THEN NoExecution ELSE job[j]]
  /\ UNCHANGED <<cs, bound, host, policy, up, drifts>>

apply_failure_policy(k) ==
  /\ call[k].pc = "failed"
  /\ call' = [call EXCEPT ![k] = CASE run.policy = "Continue" -> [pc |-> "batches", todo |-> @.todo]
                                   [] run.policy = "Rollback" -> [pc |-> "rollback"]
                                   [] OTHER -> [pc |-> "batches", todo |-> {}]]
  /\ run' = CASE run.policy = "Stop" -> [run EXCEPT !.state = "Failed"]
              [] run.policy = "PauseForReview" -> [run EXCEPT !.state = "PausedForReview"]
              [] OTHER -> run
  /\ KeepChanges

(* After the last batch the fleet is verified, unless it was stopped.       *)
EndExecution(k) ==
  /\ call[k].pc = "batches" /\ call[k].todo = {}
  /\ IF run.state \in {"PausedForReview", "Failed", "RolledBack", "RollbackFailed"}
     THEN call' = [call EXCEPT ![k] = IdleCall] /\ UNCHANGED run
     ELSE /\ run' = [run EXCEPT !.state = "Verifying"]
          /\ call' = [call EXCEPT ![k] = [pc |-> "verify"]]
  /\ KeepChanges

\* Mutant: only the targets that were executed are judged.
LocalOkOfExecuted == \A c \in Sets : run.target[c] = "Succeeded" => run.local[c]

(* verification_outcome                                                     *)
LocalOk == \A c \in Sets : run.local[c]

(* verify_fleet: the services of the targets are looked at (external), then *)
(* the run is judged by what its targets recorded.                          *)
verify_fleet(k, serviceOk) ==
  /\ call[k].pc = "verify"
  /\ LET ok == serviceOk /\ LocalOk
     IN /\ run' = [run EXCEPT !.state = IF ok THEN "Succeeded"
                                        ELSE IF run.policy = "PauseForReview" THEN "PausedForReview"
                                        ELSE "Failed"]
        /\ call' = [call EXCEPT ![k] = IF ~ok /\ run.policy = "Rollback"
                                       THEN [pc |-> "rollback"] ELSE IdleCall]
  /\ KeepChanges

-----------------------------------------------------------------------------
(* rollback_explicit                                                        *)
rollback_explicit(k) ==
  /\ Requested(k) /\ run.state \in {"PausedForReview", "Failed", "Succeeded"}
  /\ \E c \in Sets : /\ run.target[c] = "Succeeded"
                     /\ \E i \in Indices(c) : cs[c].step[i] = "Succeeded" /\ Kinds[c][i] = "file"
  /\ call' = [call EXCEPT ![k] = [pc |-> "rollback"]]
  /\ UNCHANGED run /\ KeepChanges

(* rollback_completed: the targets that had succeeded, the last one first.  *)
CompletedTargets == {c \in Sets : run.target[c] = "Succeeded"}

rollback_completed(k) ==
  /\ call[k].pc = "rollback"
  /\ run' = [run EXCEPT !.state = "RollingBack"]
  /\ call' = [call EXCEPT ![k] = [pc |-> "next", todo |-> CompletedTargets,
                                  failed |-> \E c \in Sets : run.target[c] = "RollbackFailed"]]
  /\ KeepChanges

LastTarget(c, S) == \A d \in S : d <= c

RollbackTarget(k) ==
  /\ call[k].pc = "next"
  /\ \E c \in call[k].todo :
        /\ LastTarget(c, call[k].todo)
        /\ run' = [run EXCEPT !.target[c] = "RollbackPending"]
        /\ call' = [call EXCEPT ![k].pc = "reversing"]
        /\ \/ rollback(<<k, c>>, c, 1)
           \/ /\ cs[c].exec \notin {"Committed", "Failed"} \/ ~cs[c].live
              /\ job' = [job EXCEPT ![<<k, c>>] = [op |-> "done", c |-> c, answer |-> "Err"]]
              /\ UNCHANGED <<cs, bound, host, policy, up, drifts>>

RecordRollback(k) ==
  /\ call[k].pc = "reversing"
  /\ \E c \in call[k].todo :
        /\ LastTarget(c, call[k].todo) /\ job[<<k, c>>].op = "done"
        /\ LET ok == job[<<k, c>>].answer = "RolledBack"
           IN /\ run' = [run EXCEPT !.target[c] = IF ok THEN "RolledBack" ELSE "RollbackFailed"]
              /\ call' = [call EXCEPT ![k] = [pc |-> "next", todo |-> @.todo \ {c}, failed |-> @.failed \/ ~ok]]
        /\ job' = [job EXCEPT ![<<k, c>>] = NoExecution]
  /\ UNCHANGED <<cs, bound, host, policy, up, drifts>>

EndRollback(k) ==
  /\ call[k].pc = "next" /\ call[k].todo = {}
  /\ run' = [run EXCEPT !.state = IF call[k].failed THEN "RollbackFailed" ELSE "RolledBack"]
  /\ call' = [call EXCEPT ![k] = IdleCall]
  /\ KeepChanges

(* recovered_run: metadata only, and what was in flight is interrupted.     *)
RestartFleet ==
  /\ ChangesRestart
  /\ run' = [run EXCEPT !.live = FALSE, !.approved = FALSE,
                        !.state = IF @ \in InFlight THEN "Interrupted" ELSE @]
  /\ call' = [k \in Calls |-> IdleCall]
  /\ parent' = "gone"

(* The user rejects the ChangeSet of a target by itself.                    *)
RejectTarget(c) == reject(c, 1) /\ UNCHANGED <<run, call, parent>>

FleetStep(k) ==
  \/ MarkApproved(k) \/ ClaimFleet(k) \/ StartBatch(k) \/ RecordBatch(k) \/ apply_failure_policy(k)
  \/ EndExecution(k) \/ rollback_completed(k) \/ RollbackTarget(k) \/ RecordRollback(k) \/ EndRollback(k)
  \/ \E ok \in BOOLEAN : verify_fleet(k, ok)
  \/ \E c \in Sets : ApproveTarget(k, c) \/ ExecuteTarget(k, c)

FleetNext ==
  \/ \E k \in Calls :
       \/ fleet_approve(k) \/ fleet_execute(k) \/ rollback_explicit(k)
       \/ UNCHANGED parent /\ FleetStep(k)
  \/ (JobStep \/ PolicyChanges \/ \E c \in Sets : \E i \in Indices(c) : Drift(c, i)) /\ UNCHANGED <<run, call, parent>>
  \/ \E to \in {"moved", "gone"} : ParentChanges(to)
  \/ RestartFleet
  \/ \E c \in Sets : RejectTarget(c)

FleetSpec == FleetDraft /\ [][FleetNext]_fleetVars

-----------------------------------------------------------------------------
AtRest == \A k \in Calls : call[k] = IdleCall

Committed(c) == cs[c].exec = "Committed"

(* What a fleet says when it is over is true of its targets: one that       *)
(* succeeded has every target committed (verify_fleet), and one that was    *)
(* rolled back left in place, on any of its targets, at most the write of a *)
(* step its ChangeSet reports as Failed (rollback_completed).               *)
OutcomeOfTargets ==
  AtRest =>
    /\ run.state = "Succeeded" => \A c \in Sets : Committed(c)
    /\ run.state = "RolledBack" => \A c \in Sets : \A i \in Indices(c) :
         host[c][i] = "new" => cs[c].step[i] = "Failed"
=============================================================================
