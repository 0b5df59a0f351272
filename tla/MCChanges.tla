------------------------------ MODULE MCChanges ------------------------------
(* An instance for TLC of the records of the agents' changes: the plan and  *)
(* the ChangeSets of a fleet, and the log of an agent run.  A ChangeSet by  *)
(* itself and one of a fleet share their module; otherwise the parts share  *)
(* no variable, and every behaviour is one part's.                          *)
(*   plan   two targets at once, then a canary stage over both that waits   *)
(*          for them; a failing transaction or a change of the policy       *)
(*   sets   the ChangeSet 1 alone, with two requests                        *)
(*   fleet  three ChangeSets in two batches, one fleet request at a time    *)
(*   store  one run and one panel                                           *)
EXTENDS FleetPlan, FleetExecution, AgentStore, TLC

VARIABLE part

MCStages == 1..2

MCTargets == 1..2

MCStageTargets == [s \in MCStages |-> {1, 2}]

MCDependsOn == [s \in MCStages |-> IF s = 1 THEN {} ELSE {1}]

MCStrategy == [s \in MCStages |-> IF s = 1 THEN "RollingBatch" ELSE "Canary"]

MCLimit == [s \in MCStages |-> IF s = 1 THEN 2 ELSE 1]

MCJobs == Calls \X Sets

MCKinds == <<<<"file", "file">>, <<"file", "service">>, <<"file">>>>

(* A policy that asks for one approval, one for each step's, and a denial.  *)
MCDecision == [p \in 0..2 |-> <<"RequireApproval", "RequireStepApproval", "Deny">>[p + 1]]

(* A rolling batch of one, then one of the others.                          *)
MCBatchOf == [n \in Sets |-> IF n = 1 THEN 1 ELSE 2]

(* Only ChangeSet 1 is worked on, by the first two jobs, of which the       *)
(* second only starts while the first is at work; a change of the host, of  *)
(* the policy and of the ChangeSet are not combined.                        *)
MCSetOne ==
  /\ \A c \in Sets \ {1} : /\ cs'[c].approval \in {"Awaiting", "Invalidated"}
                           /\ cs'[c].version = 1 /\ cs'[c].policy = NoPolicy
                           /\ host'[c] = host[c]
  /\ \A j \in Jobs : job'[j] # NoExecution => j[2] # 3 /\ job'[j].c = 1
  /\ \A j, k \in Jobs : j[2] = 1 /\ k[2] = 2 /\ Free(j) /\ Free(k) => job'[k] = job[k]
  /\ drifts' + policy' + cs'[1].version - 1 <= 1

MCInit ==
  /\ part \in {"plan", "sets", "fleet", "store"}
  /\ PlanInit /\ (part # "plan" => fleet.policy = "Stop")
  /\ AgentStoreInit
  /\ IF part = "fleet" THEN FleetDraft
     ELSE /\ ChangesInit /\ run = [NewFleetRun("Stop") EXCEPT !.live = FALSE]
          /\ call = [k \in Calls |-> IdleCall] /\ parent = "gone"

MCNext ==
  /\ UNCHANGED part
  /\ \/ /\ part = "plan" /\ PlanNext /\ (saved'.failures = 0 \/ (planPolicy' = 0 /\ fleet.policy = "Stop"))
        /\ UNCHANGED <<fleetVars, storeVars>>
     \/ /\ part = "sets" /\ ChangesNext /\ MCSetOne
        /\ UNCHANGED <<vars, run, call, parent, storeVars>>
     \/ /\ part = "fleet" /\ FleetNext
        /\ UNCHANGED <<vars, storeVars>>
     \/ /\ part = "store" /\ AgentStoreNext
        /\ UNCHANGED <<vars, fleetVars>>

MCSpec == MCInit /\ [][MCNext]_<<part, vars, fleetVars, storeVars>>
=============================================================================
