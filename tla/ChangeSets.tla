----------------------------- MODULE ChangeSets -----------------------------
(***************************************************************************)
(* The ChangeSet service of agentic/changes.rs.  A ChangeSet is a list of   *)
(* typed steps for one host.  It is drafted, checked against the policy,    *)
(* bound to what the host looks like, approved, executed step by step and   *)
(* rolled back when a step fails or the user asks for it.  All ChangeSets   *)
(* are behind one lock, which is free while a tool runs on the host: check, *)
(* capture, execute and rollback are jobs of several steps, and any number  *)
(* of them may run at once.  Every change is written to disk in the step    *)
(* that makes it.                                                           *)
(***************************************************************************)
EXTENDS Integers, Sequences, FiniteSets

CONSTANTS
  Sets,       \* ChangeSets
  Jobs,       \* requests that need more than one step
  Kinds,      \* the kinds of the steps of each ChangeSet
  Decision,   \* what each version of the policy decides: 0..n -> decision
  MaxVersion, \* bound on the revisions of a ChangeSet
  MaxDrifts   \* bound on the changes others make to a host

Versions == 1..MaxVersion

Policies == DOMAIN Decision

Indices(c) == DOMAIN Kinds[c]

ASSUME ChangeSetAssumption ==
  /\ \A c \in Sets : Kinds[c] \in Seq({"file", "service", "docker"}) /\ Kinds[c] # <<>>
  /\ Decision \in [Policies -> {"Allow", "RequireApproval", "RequireStepApproval", "Deny"}]
  /\ 0 \in Policies /\ \A p \in Policies : p \in Nat
  /\ MaxVersion \in Nat \ {0} /\ MaxDrifts \in Nat

VARIABLES
  cs,     \* the public record of each ChangeSet
  bound,  \* the precondition bindings of each ChangeSet: what was observed
  job,    \* the requests under way
  host,   \* the file or unit each step is about: "old", "new" or "drift"
  policy, \* the version of the policy in force
  up,     \* "up", or "failed" when the last start of the program failed
  drifts

changeVars == <<cs, bound, job, host, policy, up, drifts>>

ExecutionStates == {"NotStarted", "Executing", "Committed", "Failed", "RolledBack",
                    "RollbackFailed", "Interrupted"}

ApprovalStates == {"Awaiting", "Approved", "Rejected", "Invalidated"}

NoPolicy == -1

NoBinding == <<>>

NoExecution == [op |-> "none"]

Draft(c) ==
  [version |-> 1, approval |-> "Awaiting", approved |-> 0, exec |-> "NotStarted", live |-> TRUE,
   policy |-> NoPolicy, approvedSteps |-> {}, step |-> [i \in Indices(c) |-> "Pending"]]

ChangesInit ==
  /\ cs = [c \in Sets |-> Draft(c)]
  /\ bound = [c \in Sets |-> NoBinding]
  /\ job = [j \in Jobs |-> NoExecution]
  /\ host = [c \in Sets |-> [i \in Indices(c) |-> "old"]]
  /\ policy = 0
  /\ up = "up"
  /\ drifts = 0

(* A policy permits the execution unless it denies it.                      *)
Permits(p) == p # NoPolicy /\ Decision[p] # "Deny"

Editable(c, v) == cs[c].version = v /\ cs[c].exec = "NotStarted" /\ cs[c].live

-----------------------------------------------------------------------------
(* Operations that keep the lock to their end.                              *)

revise(c) ==
  /\ up = "up" /\ cs[c].version < MaxVersion
  /\ Editable(c, cs[c].version)
  /\ cs' = [cs EXCEPT ![c].version = @ + 1, ![c].approval = "Invalidated", ![c].approved = 0,
                      ![c].policy = NoPolicy, ![c].approvedSteps = {}]
  /\ bound' = [bound EXCEPT ![c] = NoBinding]
  /\ UNCHANGED <<job, host, policy, up, drifts>>

approve(c, v) ==
  /\ up = "up" /\ Editable(c, v)
  /\ Permits(cs[c].policy) /\ Decision[cs[c].policy] # "RequireStepApproval"
  /\ cs' = [cs EXCEPT ![c].approval = "Approved", ![c].approved = v]
  /\ UNCHANGED <<bound, job, host, policy, up, drifts>>

approve_step(c, v, i) ==
  /\ up = "up" /\ Editable(c, v)
  /\ cs[c].policy # NoPolicy /\ Decision[cs[c].policy] = "RequireStepApproval"
  /\ LET steps == cs[c].approvedSteps \cup {i}
         marked == [cs EXCEPT ![c].approvedSteps = steps]
     IN cs' = IF steps = Indices(c)
              THEN [marked EXCEPT ![c].approval = "Approved", ![c].approved = v] ELSE marked
  /\ UNCHANGED <<bound, job, host, policy, up, drifts>>

reject(c, v) ==
  /\ up = "up" /\ Editable(c, v)
  /\ cs' = [cs EXCEPT ![c].approval = "Rejected", ![c].approved = 0]
  /\ UNCHANGED <<bound, job, host, policy, up, drifts>>

(* invalidate_for_policy_change, invalidate_for_precondition_change         *)
Invalidate(c, v) ==
  cs' = IF cs[c].version = v
        THEN [cs EXCEPT ![c].approval = "Invalidated", ![c].approved = 0] ELSE cs

-----------------------------------------------------------------------------
(* Jobs.  A job that returns keeps its answer: the state of the ChangeSet   *)
(* as the caller sees it, or "Err".                                         *)

Returned(j, answer) == job' = [job EXCEPT ![j] = [op |-> "done", c |-> job[j].c, answer |-> answer]]

Free(j) == job[j].op \in {"none", "done"}

(* check_policy reads the ChangeSet, evaluates every step without the lock  *)
(* and then stores the result if the version is still the same.             *)
Evaluating(c, v, for) == [op |-> "evaluate", c |-> c, version |-> v, policy |-> policy, for |-> for]

check_policy(j, c, v) ==
  /\ up = "up" /\ Free(j)
  /\ cs[c].version = v /\ cs[c].live
  /\ job' = [job EXCEPT ![j] = Evaluating(c, v, "check")]
  /\ UNCHANGED <<cs, bound, host, policy, up, drifts>>

Evaluated(c, p) ==
  IF Permits(p) THEN [cs EXCEPT ![c].policy = p]
  ELSE [cs EXCEPT ![c].policy = p, ![c].approval = "Invalidated", ![c].approved = 0]

StoreEvaluation(j) ==
  LET c == job[j].c p == job[j].policy v == job[j].version
      same == cs[c].version = v
  IN /\ job[j].op = "evaluate"
     /\ cs' = IF same THEN Evaluated(c, p) ELSE cs
     /\ IF job[j].for = "check" \/ ~same \/ ~Permits(p) \/ bound[c] = NoBinding
        THEN Returned(j, IF same /\ job[j].for = "check" THEN cs'[c].exec ELSE "Err")
        ELSE job' = [job EXCEPT ![j] = [op |-> "recheck", c |-> c, version |-> v, bound |-> bound[c]]]
     /\ UNCHANGED <<bound, host, policy, up, drifts>>

capture_preconditions(j, c, v) ==
  /\ up = "up" /\ Free(j)
  /\ Editable(c, v)
  /\ job' = [job EXCEPT ![j] = [op |-> "capture", c |-> c, version |-> v]]
  /\ UNCHANGED <<cs, bound, host, policy, up, drifts>>

(* The checks run on the host; their results are bound unless the ChangeSet *)
(* was revised or claimed meanwhile.                                        *)
StoreBindings(j) ==
  LET c == job[j].c
      open == cs[c].version = job[j].version /\ cs[c].exec = "NotStarted"
  IN /\ job[j].op = "capture"
     /\ bound' = IF open THEN [bound EXCEPT ![c] = host[c]] ELSE bound
     /\ Returned(j, IF open THEN cs[c].exec ELSE "Err")
     /\ UNCHANGED <<cs, host, policy, up, drifts>>

(* execute_with_policy, up to its own check_policy.                         *)
execute_with_policy(j, c, v) ==
  /\ up = "up" /\ Free(j)
  /\ cs[c].policy # NoPolicy /\ cs[c].live
  /\ IF cs[c].policy # policy
     THEN /\ Invalidate(c, v)
          /\ job' = [job EXCEPT ![j] = [op |-> "done", c |-> c, answer |-> "Err"]]
     ELSE /\ job' = [job EXCEPT ![j] = IF cs[c].version = v THEN Evaluating(c, v, "execute")
                                       ELSE [op |-> "done", c |-> c, answer |-> "Err"]]
          /\ UNCHANGED cs
  /\ UNCHANGED <<bound, host, policy, up, drifts>>

Recheck(j) ==
  LET c == job[j].c
  IN /\ job[j].op = "recheck"
     /\ IF host[c] # job[j].bound
        THEN Invalidate(c, job[j].version) /\ Returned(j, "Err")
        ELSE /\ job' = [job EXCEPT ![j] = [op |-> "claim", c |-> c, version |-> job[j].version]]
             /\ UNCHANGED cs
     /\ UNCHANGED <<bound, host, policy, up, drifts>>

\* Mutant: the claim does not look at the execution state.
MayClaimAgain(c, v) ==
  /\ cs[c].version = v /\ cs[c].approved = v /\ cs[c].approval = "Approved" /\ cs[c].live

MayClaim(c, v) ==
  /\ cs[c].version = v /\ cs[c].approved = v /\ cs[c].approval = "Approved"
  /\ cs[c].exec = "NotStarted" /\ cs[c].live

(* The claim is on disk before the first step runs.  From here on the job   *)
(* works on its own copy of the record and stores it whole.                 *)
Claim(j) ==
  LET c == job[j].c
  IN /\ job[j].op = "claim"
     /\ IF ~MayClaim(c, job[j].version)
        THEN Returned(j, "Err") /\ UNCHANGED cs
        ELSE /\ cs' = [cs EXCEPT ![c].exec = "Executing"]
             /\ job' = [job EXCEPT ![j] = [op |-> "run", c |-> c, own |-> cs'[c], next |-> 1]]
     /\ UNCHANGED <<bound, host, policy, up, drifts>>

(* store_execution_snapshot                                                 *)
Store(c, own) == cs' = [cs EXCEPT ![c] = own]

(* Tool execution (external): a file patch applies only to the content it   *)
(* expects; everything may fail, before or after the write.                 *)
Apply(c, i, from, to) ==
  IF Kinds[c][i] = "file"
  THEN host[c][i] = from /\ host' = [host EXCEPT ![c][i] = to]
  ELSE UNCHANGED host

(* One step succeeded: it is stored, after the last one as a commit.        *)
StepSucceeds(j) ==
  LET c == job[j].c i == job[j].next
      done == [job[j].own EXCEPT !.step[i] = "Succeeded"]
      last == i = Len(Kinds[c])
      own == IF last THEN [done EXCEPT !.exec = "Committed"] ELSE done
  IN /\ job[j].op = "run"
     /\ Apply(c, i, "old", "new")
     /\ Store(c, own)
     /\ IF last THEN Returned(j, own.exec)
        ELSE job' = [job EXCEPT ![j].own = own, ![j].next = i + 1]
     /\ UNCHANGED <<bound, policy, up, drifts>>

Completed(c, own) == {i \in Indices(c) : own.step[i] = "Succeeded"}

Files(c, I) == {i \in I : Kinds[c][i] = "file"}

(* A failed tool call may have done its work: file_patch writes before it   *)
(* reads back and verifies, restores at best, and the call may time out or  *)
(* fail to be audited after the write.                                      *)
MayApply(c, i, from, to) == Apply(c, i, from, to) \/ UNCHANGED host

(* A step failed: the completed file steps are reversed next, the failed    *)
(* one is not among them.                                                   *)
StepFails(j) ==
  LET c == job[j].c i == job[j].next
      own == [job[j].own EXCEPT !.step[i] = "Failed", !.exec = "Failed"]
  IN /\ job[j].op = "run"
     /\ MayApply(c, i, "old", "new")
     /\ job' = [job EXCEPT ![j] = [op |-> "reverse", c |-> c, own |-> own,
                                   todo |-> Files(c, Completed(c, own)),
                                   tried |-> Files(c, Completed(c, own)) # {},
                                   failed |-> Files(c, Completed(c, own)) # Completed(c, own)]]
     /\ UNCHANGED <<cs, bound, policy, up, drifts>>

(* rollback takes no claim: it reads the record and goes to work.           *)
rollback(j, c, v) ==
  /\ up = "up" /\ Free(j)
  /\ cs[c].version = v /\ cs[c].live /\ cs[c].exec \in {"Committed", "Failed"}
  /\ job' = [job EXCEPT ![j] = [op |-> "reverse", c |-> c,
                                own |-> [cs[c] EXCEPT !.exec = "RollbackFailed"],
                                todo |-> Files(c, Completed(c, cs[c])),
                                tried |-> Files(c, Completed(c, cs[c])) # {},
                                failed |-> Files(c, Completed(c, cs[c])) # Completed(c, cs[c])]]
  /\ UNCHANGED <<cs, bound, host, policy, up, drifts>>

(* rollback_files reverses the last completed file step.                    *)
LastFile(j) == CHOOSE i \in job[j].todo : \A k \in job[j].todo : k <= i

ReverseFile(j) ==
  LET c == job[j].c i == LastFile(j)
  IN /\ job[j].op = "reverse" /\ job[j].todo # {}
     /\ \/ /\ Apply(c, i, "new", "old")
           /\ job' = [job EXCEPT ![j].own.step[i] = "RolledBack", ![j].todo = @ \ {i}]
        \/ /\ MayApply(c, i, "new", "old")
           /\ job' = [job EXCEPT ![j].failed = TRUE, ![j].todo = @ \ {i}]
     /\ UNCHANGED <<cs, bound, policy, up, drifts>>

\* Mutant: failed steps of the rollback are forgotten.
ReversedAnyway(j) ==
  /\ job[j].op = "reverse" /\ job[j].todo = {}
  /\ Store(job[j].c, [job[j].own EXCEPT !.exec = "RolledBack"])
  /\ Returned(j, "RolledBack")
  /\ UNCHANGED <<bound, host, policy, up, drifts>>

(* The end of rollback_files: the outcome is set if anything was tried, and *)
(* the job's copy replaces the record.                                      *)
Reversed(j) ==
  LET exec == IF ~job[j].tried THEN job[j].own.exec
              ELSE IF job[j].failed THEN "RollbackFailed" ELSE "RolledBack"
  IN /\ job[j].op = "reverse" /\ job[j].todo = {}
     /\ Store(job[j].c, [job[j].own EXCEPT !.exec = exec])
     /\ Returned(j, exec)
     /\ UNCHANGED <<bound, host, policy, up, drifts>>

-----------------------------------------------------------------------------
PolicyChanges ==
  /\ policy + 1 \in Policies
  /\ policy' = policy + 1
  /\ UNCHANGED <<cs, bound, job, host, up, drifts>>

(* Somebody else changes what a step is about.                              *)
Drift(c, i) ==
  /\ drifts < MaxDrifts /\ host[c][i] # "drift"
  /\ host' = [host EXCEPT ![c][i] = "drift"]
  /\ drifts' = drifts + 1
  /\ UNCHANGED <<cs, bound, job, policy, up>>

(* recovered_change_set knows the tools whose records may be loaded.        *)
Recoverable(c) == \A i \in Indices(c) : Kinds[c][i] \in {"file", "service"}

Recovered(r) ==
  [r EXCEPT !.exec = IF @ = "Executing" THEN "Interrupted" ELSE @,
            !.approval = "Invalidated", !.approved = 0, !.live = FALSE]

(* The program stops anywhere and starts again; load() keeps metadata only, *)
(* and one record it cannot load makes the start fail.                      *)
ChangesRestart ==
  /\ job' = [j \in Jobs |-> NoExecution]
  /\ bound' = [c \in Sets |-> NoBinding]
  /\ IF \A c \in Sets : Recoverable(c)
     THEN cs' = [c \in Sets |-> Recovered(cs[c])] /\ up' = "up"
     ELSE UNCHANGED cs /\ up' = "failed"
  /\ UNCHANGED <<host, policy, drifts>>

ServiceStep ==
  \/ \E c \in Sets : revise(c) \/ \E v \in Versions :
       \/ approve(c, v) \/ reject(c, v)
       \/ \E i \in Indices(c) : approve_step(c, v, i)
       \/ \E j \in Jobs : check_policy(j, c, v) \/ capture_preconditions(j, c, v)
                          \/ execute_with_policy(j, c, v) \/ rollback(j, c, v)

JobStep ==
  \E j \in Jobs : \/ StoreEvaluation(j) \/ StoreBindings(j) \/ Recheck(j) \/ Claim(j)
                  \/ StepSucceeds(j) \/ StepFails(j) \/ ReverseFile(j) \/ Reversed(j)

Environment == PolicyChanges \/ ChangesRestart \/ \E c \in Sets : \E i \in Indices(c) : Drift(c, i)

ChangesNext == ServiceStep \/ JobStep \/ Environment

ChangesSpec == ChangesInit /\ [][ChangesNext]_changeVars

-----------------------------------------------------------------------------
(* Requests that have claimed ChangeSet c and apply its steps.              *)
Running(c) == {j \in Jobs : job[j].op = "run" /\ job[j].c = c}

Reversing(c) == {j \in Jobs : job[j].op = "reverse" /\ job[j].c = c}

(* execute_with_policy: "A second caller now fails closed".  Two requests   *)
(* never apply one ChangeSet at the same time.                              *)
OneExecution == \A c \in Sets : Cardinality(Running(c)) <= 1

(* Once execution has begun, no stored snapshot, late evaluation, revision  *)
(* or restart makes the ChangeSet executable again.                         *)
NeverRestarts ==
  [][\A c \in Sets : cs[c].exec # "NotStarted" => cs'[c].exec # "NotStarted"]_changeVars

(* The steps that run are those of the version the user approved, although  *)
(* revisions, rejections and policy changes arrive between the check of the *)
(* policy, the check of the preconditions and the claim.                    *)
RunsApprovedVersion ==
  \A c \in Sets : \A j \in Running(c) :
    /\ job[j].own.approval = "Approved"
    /\ job[j].own.approved = cs[c].version
    /\ job[j].own.version = cs[c].version

(* What the record says of the host, unless somebody else changed it since: *)
(* a committed file step is in place while nobody reverses it; a ChangeSet  *)
(* that failed or was rolled back left in place at most the write of the    *)
(* one step it reports as Failed, and one that was rolled back has no step  *)
(* left that is reported as done (rollback_files).  "Rolled back" does not  *)
(* mean that nothing is left: the failing step may have written.            *)
(* A rollback that a restart cuts short is not on disk, so the first part   *)
(* is about records of a process that runs, and that they are of.           *)
OutcomeIsTrue ==
  \A c \in Sets :
    /\ (up = "up" /\ cs[c].exec = "Committed" /\ cs[c].live /\ Reversing(c) = {}) =>
         \A i \in Indices(c) : /\ cs[c].step[i] = "Succeeded"
                               /\ Kinds[c][i] = "file" => host[c][i] # "old"
    /\ cs[c].exec \in {"Failed", "RolledBack"} =>
         \A i \in Indices(c) : host[c][i] = "new" => cs[c].step[i] = "Failed"
    /\ cs[c].exec = "RolledBack" => \A i \in Indices(c) : cs[c].step[i] # "Succeeded"

(* "A process restart can report an interrupted transaction": a record says *)
(* Executing only while a request of this process executes it.              *)
ExecutingIsLive ==
  \A c \in Sets : cs[c].exec = "Executing" =>
    Running(c) \cup Reversing(c) # {}
=============================================================================
