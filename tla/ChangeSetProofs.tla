--------------------------- MODULE ChangeSetProofs ---------------------------
(***************************************************************************)
(* What ChangeSets guarantees for any ChangeSets, requests, policies and    *)
(* revisions: a ChangeSet is executed by one request at most, in the        *)
(* version that was approved, never becomes executable again, and what its  *)
(* record says of the host is true.  What a fleet of ChangeSets says of     *)
(* them when it is over is true, if one request about it is made at a time. *)
(* And what the plan of a fleet guarantees for any stages and targets: no   *)
(* settled target is tried again, and no child works that the store does    *)
(* not know.                                                                *)
(***************************************************************************)
EXTENDS FleetPlan, FleetExecution, FiniteSetTheorems, TLAPS

-----------------------------------------------------------------------------
(* Types.                                                                   *)

StepMaps == UNION {[Indices(c) -> {"Pending", "Succeeded", "Failed", "RolledBack"}] : c \in Sets}

HostMaps == UNION {[Indices(c) -> {"old", "new", "drift"}] : c \in Sets}

Record ==
  [version : Versions, approval : ApprovalStates, approved : {0} \cup Versions,
   exec : ExecutionStates, live : BOOLEAN, policy : Policies \cup {NoPolicy},
   approvedSteps : SUBSET Nat, step : StepMaps]

Answers == ExecutionStates \cup {"Err"}

Done == [op : {"done"}, c : Sets, answer : Answers]

Evaluations == [op : {"evaluate"}, c : Sets, version : Versions, policy : Policies,
                for : {"check", "execute"}]

Rechecks == [op : {"recheck"}, c : Sets, version : Versions, bound : HostMaps \cup {NoBinding}]

Waiting == [op : {"capture", "claim"}, c : Sets, version : Versions]

Runs == [op : {"run"}, c : Sets, own : Record, next : Nat]

Reversals == [op : {"reverse"}, c : Sets, own : Record, todo : SUBSET Nat,
              tried : BOOLEAN, failed : BOOLEAN]

JobRecords == {NoExecution} \cup Done \cup Evaluations \cup Rechecks \cup Waiting \cup Runs \cup Reversals

(* The records, the requests and the hosts hold what their types allow.     *)
ChangesTypeOK ==
  /\ cs \in [Sets -> Record]
  /\ bound \in [Sets -> HostMaps \cup {NoBinding}]
  /\ job \in [Jobs -> JobRecords]
  /\ host \in [Sets -> HostMaps]
  /\ policy \in Policies

-----------------------------------------------------------------------------
(* The inductive invariant.                                                 *)

Busy(j) == job[j].op \in {"run", "reverse"}

(* The copy a busy request works on, and the record it is a copy of, are    *)
(* past NotStarted.                                                         *)
BusyIsBegun ==
  \A j \in Jobs : Busy(j) => /\ job[j].own.exec # "NotStarted"
                             /\ cs[job[j].c].exec # "NotStarted"

(* While a request applies steps, its ChangeSet says so, it is the only one *)
(* that works on it, and its copy is of the version that was approved.      *)
RunIsAlone ==
  \A j \in Jobs : job[j].op = "run" =>
    /\ cs[job[j].c].exec = "Executing" /\ job[j].own.exec = "Executing"
    /\ \A k \in Jobs : Busy(k) /\ job[k].c = job[j].c => k = j

RunIsApproved ==
  \A j \in Jobs : job[j].op = "run" =>
    /\ job[j].own.approval = "Approved"
    /\ job[j].own.approved = cs[job[j].c].version
    /\ job[j].own.version = cs[job[j].c].version

ChangesInv == ChangesTypeOK /\ BusyIsBegun /\ RunIsAlone /\ RunIsApproved

-----------------------------------------------------------------------------
(* Records.                                                                 *)

(* A record with another decision, policy, step result or state is one.     *)
LEMMA RecordFields ==
  ASSUME NEW r \in Record
  PROVE  /\ \A a \in ApprovalStates, v \in {0} \cup Versions :
              [r EXCEPT !.approval = a, !.approved = v] \in Record
         /\ \A p \in Policies \cup {NoPolicy} : [r EXCEPT !.policy = p] \in Record
         /\ \A e \in ExecutionStates : /\ [r EXCEPT !.exec = e] \in Record
                                        /\ [r EXCEPT !.exec = e].exec = e
         /\ \A S \in SUBSET Nat : [r EXCEPT !.approvedSteps = S] \in Record
         /\ r.exec \in ExecutionStates /\ r.version \in Versions
         /\ r.approvedSteps \in SUBSET Nat /\ r.step \in StepMaps
BY DEF Record

(* The result of a step may be set whatever its index.                      *)
LEMMA StepField ==
  ASSUME NEW r \in Record, NEW i, NEW s \in {"Pending", "Succeeded", "Failed", "RolledBack"}
  PROVE  [r EXCEPT !.step[i] = s] \in Record
<1>1. PICK c \in Sets : r.step \in [Indices(c) -> {"Pending", "Succeeded", "Failed", "RolledBack"}]
  BY DEF Record, StepMaps
<1>2. [r.step EXCEPT ![i] = s] \in [Indices(c) -> {"Pending", "Succeeded", "Failed", "RolledBack"}]
  BY <1>1
<1>3. [r.step EXCEPT ![i] = s] \in StepMaps
  BY <1>2 DEF StepMaps
<1>4. QED  BY <1>3 DEF Record

(* A request that moves on keeps its kind and its ChangeSet.                *)
Advanced(q, own, n) == [q EXCEPT !.own = own, !.next = n]

LEMMA RunFields ==
  ASSUME NEW q \in Runs, NEW own \in Record, NEW n \in Nat
  PROVE  /\ Advanced(q, own, n) \in Runs
         /\ Advanced(q, own, n).own = own /\ Advanced(q, own, n).c = q.c
BY DEF Runs, Advanced

Undone(q, own, T) == [q EXCEPT !.own = own, !.todo = T]

Skipped(q, T) == [q EXCEPT !.failed = TRUE, !.todo = T]

LEMMA ReversalFields ==
  ASSUME NEW q \in Reversals, NEW own \in Record, NEW T \in SUBSET Nat
  PROVE  /\ Undone(q, own, T) \in Reversals
         /\ Undone(q, own, T).own = own /\ Undone(q, own, T).c = q.c
         /\ Skipped(q, T) \in Reversals
         /\ Skipped(q, T).own = q.own /\ Skipped(q, T).c = q.c
BY DEF Reversals, Undone, Skipped

(* The kind of request tells the fields it has.                             *)
LEMMA JobFields ==
  ASSUME ChangesTypeOK, NEW j \in Jobs
  PROVE  /\ job[j].op # "none" => job[j].c \in Sets
         /\ job[j].op = "evaluate" => job[j] \in Evaluations
         /\ job[j].op = "recheck" => job[j] \in Rechecks
         /\ job[j].op \in {"capture", "claim"} => job[j] \in Waiting
         /\ job[j].op = "run" => job[j] \in Runs
         /\ job[j].op = "reverse" => job[j] \in Reversals
<1>1. job[j] \in JobRecords  BY DEF ChangesTypeOK
<1>2. CASE job[j] = NoExecution  BY <1>2 DEF NoExecution
<1>3. CASE job[j] \in Done  BY <1>3 DEF Done
<1>4. CASE job[j] \in Evaluations  BY <1>4 DEF Evaluations
<1>5. CASE job[j] \in Rechecks  BY <1>5 DEF Rechecks
<1>6. CASE job[j] \in Waiting  BY <1>6 DEF Waiting
<1>7. CASE job[j] \in Runs  BY <1>7 DEF Runs
<1>8. CASE job[j] \in Reversals  BY <1>8 DEF Reversals
<1>9. QED  BY <1>1, <1>2, <1>3, <1>4, <1>5, <1>6, <1>7, <1>8 DEF JobRecords

(* One record replaced by a record, one request by a request.               *)
LEMMA OneRecord ==
  ASSUME ChangesTypeOK, NEW c, NEW r \in Record, cs' = [cs EXCEPT ![c] = r]
  PROVE  (cs \in [Sets -> Record])'
BY DEF ChangesTypeOK

LEMMA OneJob ==
  ASSUME ChangesTypeOK, NEW j, NEW q \in JobRecords, job' = [job EXCEPT ![j] = q]
  PROVE  (job \in [Jobs -> JobRecords])'
BY DEF ChangesTypeOK
-----------------------------------------------------------------------------
(* What a step can do to one record and one request.                        *)

Others == BusyIsBegun /\ RunIsAlone /\ RunIsApproved

(* Execution that has begun is never "NotStarted" again.                    *)
Begun == \A c \in Sets : cs[c].exec # "NotStarted" => cs'[c].exec # "NotStarted"

Kept == /\ (cs \in [Sets -> Record])' /\ (job \in [Jobs -> JobRecords])'
        /\ Others' /\ Begun

Resting(q) == q.op \notin {"run", "reverse"}

(* The state and, once execution began, the version are kept.               *)
Keeps(r, old) == r.exec = old.exec /\ (r.version = old.version \/ old.exec = "NotStarted")

(* A record that keeps its state and version, and a request that works on   *)
(* no copy, disturb nothing.                                                *)
LEMMA QuietStep ==
  ASSUME ChangesInv, NEW c \in Sets, NEW r \in Record, cs' = [cs EXCEPT ![c] = r],
         Keeps(r, cs[c]),
         \/ job' = job
         \/ \E j \in Jobs, q \in JobRecords : Resting(q) /\ job' = [job EXCEPT ![j] = q]
  PROVE  Kept
<1> USE DEF ChangesInv, Others, Busy, Resting, Keeps
<1>1. (cs \in [Sets -> Record])'  BY OneRecord
<1>2. (job \in [Jobs -> JobRecords])'  BY OneJob DEF ChangesTypeOK
<1>3. \A k \in Jobs : job'[k].op \in {"run", "reverse"} => job'[k] = job[k] /\ job[k].c \in Sets
  BY JobFields DEF ChangesTypeOK
<1>4. \A d \in Sets : /\ cs'[d].exec = cs[d].exec
                      /\ cs[d].exec # "NotStarted" => cs'[d].version = cs[d].version
  BY DEF ChangesTypeOK
<1>5. BusyIsBegun'  BY <1>3, <1>4 DEF BusyIsBegun
<1>6. RunIsAlone'  BY <1>3, <1>4 DEF RunIsAlone
<1>7. RunIsApproved'  BY <1>3, <1>4 DEF RunIsApproved, RunIsAlone
<1>8. Begun  BY <1>4 DEF Begun
<1>9. QED  BY <1>1, <1>2, <1>5, <1>6, <1>7, <1>8 DEF Kept

(* A request that only changes its own copy or its progress.                *)
LEMMA QuietJob ==
  ASSUME ChangesInv, NEW j \in Jobs, NEW q \in JobRecords, Resting(q),
         cs' = cs, job' = [job EXCEPT ![j] = q]
  PROVE  Kept
<1> USE DEF ChangesInv, Others, Busy, Resting
<1>1. (job \in [Jobs -> JobRecords])'  BY OneJob
<1>2. \A k \in Jobs : job'[k].op \in {"run", "reverse"} => job'[k] = job[k]
  BY DEF ChangesTypeOK
<1>3. BusyIsBegun'  BY <1>2 DEF BusyIsBegun
<1>4. RunIsAlone'  BY <1>2 DEF RunIsAlone
<1>5. RunIsApproved'  BY <1>2 DEF RunIsApproved
<1>6. Begun  BY DEF Begun
<1>7. QED  BY <1>1, <1>3, <1>4, <1>5, <1>6 DEF ChangesTypeOK, Kept

(* A request begins or goes on to reverse steps of a ChangeSet nobody else  *)
(* executes: the record keeps its state.                                    *)
LEMMA ReverseStep ==
  ASSUME ChangesInv, NEW j \in Jobs, NEW q \in Reversals,
         cs' = cs, job' = [job EXCEPT ![j] = q],
         q.own.exec # "NotStarted", cs[q.c].exec # "NotStarted",
         \A k \in Jobs : job[k].op = "run" /\ job[k].c = q.c => k = j
  PROVE  Kept
<1> USE DEF ChangesInv, Others, Busy
<1>0. q.op = "reverse"  BY DEF Reversals
<1>1. (job \in [Jobs -> JobRecords])'  BY OneJob DEF JobRecords
<1>2. \A k \in Jobs : job'[k] = IF k = j THEN q ELSE job[k]
  BY DEF ChangesTypeOK
<1>3. BusyIsBegun'  BY <1>0, <1>2 DEF BusyIsBegun
<1>4. RunIsAlone'  BY <1>0, <1>2 DEF RunIsAlone
<1>5. RunIsApproved'  BY <1>0, <1>2 DEF RunIsApproved
<1>6. Begun  BY DEF Begun
<1>7. QED  BY <1>1, <1>3, <1>4, <1>5, <1>6 DEF ChangesTypeOK, Kept

(* A request that stores its copy and returns.                              *)
LEMMA StoreAndReturn ==
  ASSUME ChangesInv, NEW j \in Jobs, NEW q \in Done, NEW r \in Record, Busy(j),
         cs' = [cs EXCEPT ![job[j].c] = r], job' = [job EXCEPT ![j] = q],
         r.exec # "NotStarted",
         \A k \in Jobs : job[k].op = "run" /\ job[k].c = job[j].c => k = j
  PROVE  Kept
<1> USE DEF ChangesInv, Others, Busy
<1>0. q.op = "done" /\ job[j].c \in Sets  BY JobFields DEF Done
<1>1. (job \in [Jobs -> JobRecords])'  BY OneJob DEF JobRecords
<1>2. (cs \in [Sets -> Record])'  BY OneRecord
<1>3. \A k \in Jobs : job'[k] = IF k = j THEN q ELSE job[k]
  BY DEF ChangesTypeOK
<1>4. \A d \in Sets : cs'[d] = IF d = job[j].c THEN r ELSE cs[d]
  BY DEF ChangesTypeOK
<1>5. \A k \in Jobs : job[k].op \in {"run", "reverse"} => job[k].c \in Sets
  BY JobFields
<1>6. BusyIsBegun'  BY <1>0, <1>3, <1>4, <1>5 DEF BusyIsBegun
<1>7. RunIsAlone'  BY <1>0, <1>3, <1>4, <1>5 DEF RunIsAlone
<1>8. RunIsApproved'  BY <1>0, <1>3, <1>4, <1>5 DEF RunIsApproved
<1>9. Begun  BY <1>0, <1>4 DEF Begun
<1>10. QED  BY <1>1, <1>2, <1>6, <1>7, <1>8, <1>9 DEF Kept

(* A request claims the ChangeSet or goes on to its next step: the record   *)
(* it stores is its copy.                                                   *)
LEMMA RunStep ==
  ASSUME ChangesInv, NEW j \in Jobs, NEW q \in Runs,
         cs' = [cs EXCEPT ![q.c] = q.own], job' = [job EXCEPT ![j] = q],
         q.own.exec = "Executing", q.own.approval = "Approved",
         q.own.approved = q.own.version,
         \A k \in Jobs : Busy(k) /\ job[k].c = q.c => k = j
  PROVE  Kept
<1> USE DEF ChangesInv, Others, Busy
<1>0. q.op = "run" /\ q.c \in Sets /\ q.own \in Record  BY DEF Runs
<1>1. (job \in [Jobs -> JobRecords])'  BY OneJob DEF JobRecords
<1>2. (cs \in [Sets -> Record])'  BY <1>0, OneRecord
<1>3. \A k \in Jobs : job'[k] = IF k = j THEN q ELSE job[k]
  BY DEF ChangesTypeOK
<1>4. \A d \in Sets : cs'[d] = IF d = q.c THEN q.own ELSE cs[d]
  BY DEF ChangesTypeOK
<1>5. \A k \in Jobs : job[k].op \in {"run", "reverse"} => job[k].c \in Sets
  BY JobFields
<1>6. BusyIsBegun'  BY <1>0, <1>3, <1>4, <1>5 DEF BusyIsBegun
<1>7. RunIsAlone'  BY <1>0, <1>3, <1>4, <1>5 DEF RunIsAlone
<1>8. RunIsApproved'  BY <1>0, <1>3, <1>4, <1>5 DEF RunIsApproved
<1>9. Begun  BY <1>0, <1>4 DEF Begun
<1>10. QED  BY <1>1, <1>2, <1>6, <1>7, <1>8, <1>9 DEF Kept
-----------------------------------------------------------------------------
(* Bindings, hosts and the policy keep their types.                         *)
LEMMA HostTypes ==
  ASSUME ChangesTypeOK, ChangesNext
  PROVE  /\ (bound \in [Sets -> HostMaps \cup {NoBinding}])'
         /\ (host \in [Sets -> HostMaps])' /\ (policy \in Policies)'
<1> USE DEF ChangesTypeOK
<1>1. ASSUME NEW c \in Sets, NEW i, NEW s \in {"old", "new", "drift"},
             host' = [host EXCEPT ![c][i] = s]
      PROVE  (host \in [Sets -> HostMaps])'
  <2>1. PICK d \in Sets : host[c] \in [Indices(d) -> {"old", "new", "drift"}]
    BY DEF HostMaps
  <2>2. [host[c] EXCEPT ![i] = s] \in [Indices(d) -> {"old", "new", "drift"}]
    BY <2>1
  <2>3. [host[c] EXCEPT ![i] = s] \in HostMaps  BY <2>2 DEF HostMaps
  <2>4. QED  BY <1>1, <2>3
<1>2. CASE ServiceStep
  <2>1. ASSUME NEW c \in Sets, revise(c)
        PROVE  (bound \in [Sets -> HostMaps \cup {NoBinding}])' /\ UNCHANGED <<host, policy>>
    <3>1. bound' = [bound EXCEPT ![c] = NoBinding] /\ UNCHANGED <<host, policy>>
      BY <2>1 DEF revise
    <3>2. QED  BY <3>1
  <2>2. ASSUME NEW c \in Sets, NEW v \in Versions,
               approve(c, v) \/ reject(c, v) \/ \E i \in Indices(c) : approve_step(c, v, i)
        PROVE  UNCHANGED <<bound, host, policy>>
    BY <2>2 DEF approve, reject, approve_step
  <2>3. ASSUME NEW c \in Sets, NEW v \in Versions, NEW j \in Jobs,
               \/ check_policy(j, c, v) \/ capture_preconditions(j, c, v)
               \/ execute_with_policy(j, c, v) \/ rollback(j, c, v)
        PROVE  UNCHANGED <<bound, host, policy>>
    BY <2>3 DEF check_policy, capture_preconditions, execute_with_policy, rollback
  <2>4. QED  BY <1>2, <2>1, <2>2, <2>3 DEF ServiceStep
<1>3. ASSUME NEW j \in Jobs, StoreEvaluation(j) \/ Recheck(j) \/ Claim(j) \/ Reversed(j)
      PROVE  UNCHANGED <<bound, host, policy>>
  BY <1>3 DEF StoreEvaluation, Recheck, Claim, Reversed
<1>4. ASSUME NEW j \in Jobs, StoreBindings(j)
      PROVE  /\ (bound \in [Sets -> HostMaps \cup {NoBinding}])' /\ UNCHANGED <<host, policy>>
  BY <1>4, JobFields DEF StoreBindings
<1>5. ASSUME NEW j \in Jobs, StepSucceeds(j) \/ StepFails(j) \/ ReverseFile(j)
      PROVE  (host \in [Sets -> HostMaps])' /\ UNCHANGED <<bound, policy>>
  <2>1. job[j].c \in Sets  BY <1>5, JobFields DEF StepSucceeds, StepFails, ReverseFile
  <2>2. CASE StepSucceeds(j) \/ StepFails(j)
    <3>1. host' = host \/ host' = [host EXCEPT ![job[j].c][job[j].next] = "new"]
      BY <2>2 DEF StepSucceeds, StepFails, MayApply, Apply
    <3>2. QED  BY <1>1, <2>1, <2>2, <3>1 DEF StepSucceeds, StepFails
  <2>3. CASE ReverseFile(j)
    <3>1. host' = host \/ host' = [host EXCEPT ![job[j].c][LastFile(j)] = "old"]
      BY <2>3 DEF ReverseFile, MayApply, Apply
    <3>2. QED  BY <1>1, <2>1, <2>3, <3>1 DEF ReverseFile
  <2>4. QED  BY <1>5, <2>2, <2>3
<1>6. CASE PolicyChanges  BY <1>6 DEF PolicyChanges
<1>7. CASE ChangesRestart  BY <1>7 DEF ChangesRestart
<1>8. ASSUME NEW c \in Sets, NEW i \in Indices(c), Drift(c, i)
      PROVE  (host \in [Sets -> HostMaps])' /\ UNCHANGED <<bound, policy>>
  BY <1>1, <1>8 DEF Drift
<1>9. CASE JobStep  BY <1>3, <1>4, <1>5, <1>9 DEF JobStep
<1>10. CASE Environment  BY <1>6, <1>7, <1>8, <1>10 DEF Environment
<1>11. QED  BY <1>2, <1>9, <1>10 DEF ChangesNext

-----------------------------------------------------------------------------
(* Operations that keep the lock: they change a record that nobody executes. *)
LEMMA LockedKept ==
  ASSUME ChangesInv, NEW c \in Sets, NEW v \in Versions,
         revise(c) \/ approve(c, v) \/ reject(c, v) \/ \E i \in Indices(c) : approve_step(c, v, i)
  PROVE  Kept
<1> USE ChangeSetAssumption DEF ChangesInv, Editable
<1>0. cs[c] \in Record /\ cs \in [Sets -> Record]  BY DEF ChangesTypeOK
<1>1. CASE revise(c)
  <2> DEFINE r == [cs[c] EXCEPT !.version = @ + 1, !.approval = "Invalidated", !.approved = 0,
                                !.policy = NoPolicy, !.approvedSteps = {}]
  <2>0. cs[c].version + 1 \in Versions
    <3>1. cs[c].version \in Versions  BY <1>0, RecordFields
    <3>2. cs[c].version < MaxVersion  BY <1>1 DEF revise
    <3>3. QED  BY <3>1, <3>2 DEF Versions
  <2>1. r \in Record  BY <1>0, <2>0 DEF Record, ApprovalStates
  <2>2. cs' = [cs EXCEPT ![c] = r] /\ job' = job  BY <1>0, <1>1 DEF revise
  <2>3. Keeps(r, cs[c])  BY <1>0, <1>1 DEF Keeps, revise, Record
  <2>4. QED  BY <2>1, <2>2, <2>3, QuietStep
<1>2. CASE approve(c, v)
  <2> DEFINE r == [cs[c] EXCEPT !.approval = "Approved", !.approved = v]
  <2>1. r \in Record  BY <1>0, RecordFields DEF ApprovalStates
  <2>2. cs' = [cs EXCEPT ![c] = r] /\ job' = job  BY <1>0, <1>2 DEF approve
  <2>3. Keeps(r, cs[c])  BY <1>0 DEF Keeps, Record
  <2>4. QED  BY <2>1, <2>2, <2>3, QuietStep
<1>3. CASE reject(c, v)
  <2> DEFINE r == [cs[c] EXCEPT !.approval = "Rejected", !.approved = 0]
  <2>1. r \in Record  BY <1>0, RecordFields DEF ApprovalStates
  <2>2. cs' = [cs EXCEPT ![c] = r] /\ job' = job  BY <1>0, <1>3 DEF reject
  <2>3. Keeps(r, cs[c])  BY <1>0 DEF Keeps, Record
  <2>4. QED  BY <2>1, <2>2, <2>3, QuietStep
<1>4. ASSUME NEW i \in Indices(c), approve_step(c, v, i)
      PROVE  Kept
  <2> DEFINE m == [cs[c] EXCEPT !.approvedSteps = @ \cup {i}]
             r == IF cs[c].approvedSteps \cup {i} = Indices(c)
                  THEN [m EXCEPT !.approval = "Approved", !.approved = v] ELSE m
  <2>1. i \in Nat  BY DEF Indices
  <2>2. m \in Record
    <3>1. cs[c].approvedSteps \cup {i} \in SUBSET Nat  BY <1>0, <2>1, RecordFields
    <3>2. QED  BY <1>0, <3>1 DEF Record
  <2>3. r \in Record  BY <2>2, RecordFields DEF ApprovalStates
  <2>4. cs' = [cs EXCEPT ![c] = r] /\ job' = job  BY <1>0, <1>4 DEF approve_step
  <2>5. Keeps(r, cs[c])  BY <1>0 DEF Keeps, Record
  <2>6. QED  BY <2>3, <2>4, <2>5, QuietStep
<1>5. QED  BY <1>1, <1>2, <1>3, <1>4
(* An approval withdrawn leaves a record, of the same state and version.    *)
LEMMA Withdrawn ==
  ASSUME ChangesInv, NEW c \in Sets, NEW v, Invalidate(c, v)
  PROVE  \E r \in Record : cs' = [cs EXCEPT ![c] = r] /\ Keeps(r, cs[c])
<1> DEFINE r == IF cs[c].version = v
                THEN [cs[c] EXCEPT !.approval = "Invalidated", !.approved = 0] ELSE cs[c]
<1>0. cs[c] \in Record /\ cs \in [Sets -> Record]  BY DEF ChangesInv, ChangesTypeOK
<1>1. r \in Record  BY <1>0, RecordFields DEF ApprovalStates
<1>2. cs' = [cs EXCEPT ![c] = r]  BY <1>0 DEF Invalidate
<1>3. Keeps(r, cs[c])  BY <1>0 DEF Keeps, Record
<1>4. QED  BY <1>1, <1>2, <1>3

(* The first stretches of check, capture and execute.                       *)
LEMMA ArrivalKept ==
  ASSUME ChangesInv, NEW c \in Sets, NEW v \in Versions, NEW j \in Jobs,
         check_policy(j, c, v) \/ capture_preconditions(j, c, v) \/ execute_with_policy(j, c, v)
  PROVE  Kept
<1> DEFINE e(for) == Evaluating(c, v, for)
           w == [op |-> "capture", c |-> c, version |-> v]
           d == [op |-> "done", c |-> c, answer |-> "Err"]
<1>1. \A for \in {"check", "execute"} : e(for) \in JobRecords /\ Resting(e(for))
  BY DEF ChangesInv, ChangesTypeOK, JobRecords, Evaluations, Evaluating, Resting
<1>2. w \in JobRecords /\ Resting(w)  BY DEF JobRecords, Waiting, Resting
<1>3. d \in JobRecords /\ Resting(d)  BY DEF JobRecords, Done, Answers, Resting
<1>4. CASE check_policy(j, c, v)
  <2>1. job' = [job EXCEPT ![j] = e("check")] /\ cs' = cs  BY <1>4 DEF check_policy
  <2>2. QED  BY <1>1, <2>1, QuietJob
<1>5. CASE capture_preconditions(j, c, v)
  <2>1. job' = [job EXCEPT ![j] = w] /\ cs' = cs  BY <1>5 DEF capture_preconditions
  <2>2. QED  BY <1>2, <2>1, QuietJob
<1>6. CASE execute_with_policy(j, c, v) /\ cs[c].policy # policy
  <2>1. Invalidate(c, v) /\ job' = [job EXCEPT ![j] = d]  BY <1>6 DEF execute_with_policy
  <2>2. PICK r \in Record : cs' = [cs EXCEPT ![c] = r] /\ Keeps(r, cs[c])
    BY <2>1, Withdrawn
  <2>3. QED  BY <1>3, <2>1, <2>2, QuietStep
<1>7. CASE execute_with_policy(j, c, v) /\ cs[c].policy = policy
  <2>1. /\ job' = [job EXCEPT ![j] = IF cs[c].version = v THEN e("execute") ELSE d]
        /\ cs' = cs
    BY <1>7 DEF execute_with_policy
  <2>2. QED  BY <1>1, <1>3, <2>1, QuietJob
<1>8. QED  BY <1>4, <1>5, <1>6, <1>7

(* A result that arrives late is stored only for the same version, and      *)
(* never changes the state of execution.                                    *)
LEMMA ResultKept ==
  ASSUME ChangesInv, NEW j \in Jobs, StoreEvaluation(j) \/ StoreBindings(j) \/ Recheck(j)
  PROVE  Kept
<1> DEFINE c == job[j].c
           d(a) == [op |-> "done", c |-> c, answer |-> a]
<1>0. ChangesTypeOK /\ c \in Sets /\ cs[c] \in Record /\ cs \in [Sets -> Record] /\ cs[c].exec \in Answers
  BY JobFields DEF ChangesInv, ChangesTypeOK, StoreEvaluation, StoreBindings, Recheck, Record, Answers
<1>1. \A a \in Answers : d(a) \in JobRecords /\ Resting(d(a))
  BY <1>0 DEF JobRecords, Done, Resting
<1>2. CASE StoreEvaluation(j)
  <2> DEFINE p == job[j].policy
             r == IF cs[c].version = job[j].version
                  THEN IF Permits(p) THEN [cs[c] EXCEPT !.policy = p]
                       ELSE [cs[c] EXCEPT !.policy = p, !.approval = "Invalidated", !.approved = 0]
                  ELSE cs[c]
             q == [op |-> "recheck", c |-> c, version |-> job[j].version, bound |-> bound[c]]
  <2>1. job[j] \in Evaluations  BY <1>0, <1>2, JobFields DEF StoreEvaluation
  <2>2. p \in Policies /\ job[j].version \in Versions  BY <2>1 DEF Evaluations
  <2>3. r \in Record  BY <1>0, <2>2 DEF Record, ApprovalStates
  <2>4. Keeps(r, cs[c]) /\ r.exec = cs[c].exec  BY <1>0 DEF Keeps, Record
  <2>5. cs' = [cs EXCEPT ![c] = r]  BY <1>0, <1>2 DEF StoreEvaluation, Evaluated
  <2>6. q \in JobRecords /\ Resting(q)
    BY <1>0, <2>2 DEF JobRecords, Rechecks, Resting, ChangesTypeOK
  <2>7. cs'[c].exec \in Answers  BY <1>0, <2>4, <2>5
  <2>8. (\E a \in Answers : job' = [job EXCEPT ![j] = d(a)]) \/ job' = [job EXCEPT ![j] = q]
    BY <1>2, <2>7 DEF StoreEvaluation, Returned, Answers
  <2>9. QED  BY <1>0, <1>1, <2>3, <2>4, <2>5, <2>6, <2>8, QuietStep
<1>3. CASE StoreBindings(j)
  <2>1. (\E a \in Answers : job' = [job EXCEPT ![j] = d(a)]) /\ cs' = cs
    BY <1>0, <1>3 DEF StoreBindings, Returned, Answers
  <2>2. QED  BY <1>1, <2>1, QuietJob
<1>4. CASE Recheck(j) /\ host[c] # job[j].bound
  <2>1. Invalidate(c, job[j].version) /\ job' = [job EXCEPT ![j] = d("Err")] /\ "Err" \in Answers
    BY <1>4 DEF Recheck, Returned, Answers
  <2>2. PICK r \in Record : cs' = [cs EXCEPT ![c] = r] /\ Keeps(r, cs[c])
    BY <1>0, <2>1, Withdrawn
  <2>3. QED  BY <1>0, <1>1, <2>1, <2>2, QuietStep
<1>5. CASE Recheck(j) /\ host[c] = job[j].bound
  <2> DEFINE q == [op |-> "claim", c |-> c, version |-> job[j].version]
  <2>1. job[j] \in Rechecks  BY <1>0, <1>5, JobFields DEF Recheck
  <2>2. q \in JobRecords /\ Resting(q)  BY <1>0, <2>1 DEF Rechecks, JobRecords, Waiting, Resting
  <2>3. job' = [job EXCEPT ![j] = q] /\ cs' = cs  BY <1>5 DEF Recheck
  <2>4. QED  BY <2>2, <2>3, QuietJob
<1>6. QED  BY <1>2, <1>3, <1>4, <1>5
(* Who runs is alone, and nobody is busy with a ChangeSet that may be       *)
(* claimed.                                                                 *)
LEMMA ClaimKept ==
  ASSUME ChangesInv, NEW j \in Jobs, Claim(j)
  PROVE  Kept
<1> DEFINE c == job[j].c
           d == [op |-> "done", c |-> c, answer |-> "Err"]
           r == [cs[c] EXCEPT !.exec = "Executing"]
           q == [op |-> "run", c |-> c, own |-> r, next |-> 1]
<1>0. ChangesTypeOK /\ c \in Sets /\ cs[c] \in Record /\ cs \in [Sets -> Record]
  BY JobFields DEF ChangesInv, ChangesTypeOK, Claim
<1>1. CASE ~MayClaim(c, job[j].version)
  <2>1. d \in JobRecords /\ Resting(d)  BY <1>0 DEF JobRecords, Done, Answers, Resting
  <2>2. job' = [job EXCEPT ![j] = d] /\ cs' = cs  BY <1>1 DEF Claim, Returned
  <2>3. QED  BY <2>1, <2>2, QuietJob
<1>2. CASE MayClaim(c, job[j].version)
  <2>1. r \in Record  BY <1>0, RecordFields DEF ExecutionStates
  <2>2. q \in Runs  BY <1>0, <2>1 DEF Runs
  <2>3. cs' = [cs EXCEPT ![c] = r]  BY <1>0, <1>2 DEF Claim
  <2>4. cs'[c] = r  BY <1>0, <2>3
  <2>5. job' = [job EXCEPT ![j] = q]  BY <1>2, <2>4 DEF Claim
  <2>6. r.exec = "Executing" /\ r.approval = "Approved" /\ r.approved = r.version
    BY <1>0, <1>2 DEF MayClaim, Record
  <2>7. \A k \in Jobs : Busy(k) /\ job[k].c = c => k = j
    BY <1>2 DEF MayClaim, ChangesInv, BusyIsBegun
  <2>8. QED  BY <2>2, <2>3, <2>5, <2>6, <2>7, RunStep
<1>3. QED  BY <1>1, <1>2

(* What a running request knows.                                            *)
LEMMA RunKnows ==
  ASSUME ChangesInv, NEW j \in Jobs, job[j].op = "run"
  PROVE  /\ job[j] \in Runs /\ job[j].c \in Sets /\ job[j].own \in Record /\ job[j].next \in Nat
         /\ job[j].own.exec = "Executing" /\ cs[job[j].c].exec = "Executing"
         /\ job[j].own.approval = "Approved" /\ job[j].own.approved = job[j].own.version
         /\ \A k \in Jobs : Busy(k) /\ job[k].c = job[j].c => k = j
<1>1. job[j] \in Runs  BY JobFields DEF ChangesInv
<1>2. QED  BY <1>1 DEF Runs, ChangesInv, RunIsAlone, RunIsApproved

LEMMA SuccessKept ==
  ASSUME ChangesInv, NEW j \in Jobs, StepSucceeds(j)
  PROVE  Kept
<1> DEFINE c == job[j].c
           i == job[j].next
           done == [job[j].own EXCEPT !.step[i] = "Succeeded"]
           end == [done EXCEPT !.exec = "Committed"]
           d == [op |-> "done", c |-> c, answer |-> end.exec]
           q == Advanced(job[j], done, i + 1)
<1>0. job[j].op = "run"  BY DEF StepSucceeds
<1>1. done \in Record  BY <1>0, RunKnows, StepField
<1>2. end \in Record /\ end.exec = "Committed"
  <2> HIDE DEF done
  <2>1. QED  BY ZenonT(40), <1>1, RecordFields DEF ExecutionStates
<1>3. /\ done.exec = job[j].own.exec /\ done.approval = job[j].own.approval
      /\ done.approved = job[j].own.approved /\ done.version = job[j].own.version
  BY <1>0, RunKnows DEF Record
<1>4. CASE i = Len(Kinds[c])
  <2>1. d \in Done  BY <1>0, <1>2, RunKnows DEF Done, Answers, ExecutionStates
  <2>2. cs' = [cs EXCEPT ![c] = end] /\ job' = [job EXCEPT ![j] = d]
    BY <1>4 DEF StepSucceeds, Store, Returned
  <2>3. Busy(j) /\ \A k \in Jobs : job[k].op = "run" /\ job[k].c = c => k = j
    BY <1>0, RunKnows DEF Busy
  <2>4. QED  BY <1>2, <2>1, <2>2, <2>3, StoreAndReturn
<1>5. CASE i # Len(Kinds[c])
  <2>1. q \in Runs /\ q.own = done /\ q.c = c
    <3>1. i + 1 \in Nat /\ job[j] \in Runs  BY <1>0, RunKnows
    <3> HIDE DEF done, i
    <3>2. QED  BY <1>1, <3>1, RunFields
  <2>2. cs' = [cs EXCEPT ![c] = done]  BY <1>5 DEF StepSucceeds, Store
  <2>3. job' = [job EXCEPT ![j] = q]  BY <1>5 DEF StepSucceeds, ChangesInv, ChangesTypeOK, Advanced
  <2>4. /\ done.exec = "Executing" /\ done.approval = "Approved" /\ done.approved = done.version
        /\ \A k \in Jobs : Busy(k) /\ job[k].c = c => k = j
    <3> HIDE DEF done
    <3>1. QED  BY <1>0, <1>3, RunKnows
  <2> HIDE DEF done, q
  <2>5. QED  BY <2>1, <2>2, <2>3, <2>4, RunStep
<1>6. QED  BY <1>4, <1>5

(* The steps chosen for reversal are indices.                               *)
LEMMA ChosenSteps ==
  ASSUME NEW c \in Sets, NEW own
  PROVE  Files(c, Completed(c, own)) \in SUBSET Nat
BY ChangeSetAssumption DEF Files, Completed, Indices

LEMMA FailureKept ==
  ASSUME ChangesInv, NEW j \in Jobs, StepFails(j)
  PROVE  Kept
<1> DEFINE c == job[j].c
           f == [job[j].own EXCEPT !.step[job[j].next] = "Failed"]
           own == [job[j].own EXCEPT !.step[job[j].next] = "Failed", !.exec = "Failed"]
           q == [op |-> "reverse", c |-> c, own |-> own, todo |-> Files(c, Completed(c, own)),
                 tried |-> Files(c, Completed(c, own)) # {},
                 failed |-> Files(c, Completed(c, own)) # Completed(c, own)]
<1>0. job[j].op = "run"  BY DEF StepFails
<1>1. f \in Record  BY <1>0, RunKnows, StepField
<1>2. own \in Record /\ own.exec = "Failed"
  <2>1. own = [f EXCEPT !.exec = "Failed"]  OBVIOUS
  <2> HIDE DEF f, own
  <2>2. QED  BY <1>1, <2>1, RecordFields DEF ExecutionStates
<1>3. q \in Reversals  BY <1>0, <1>2, RunKnows, ChosenSteps DEF Reversals
<1>4. job' = [job EXCEPT ![j] = q] /\ cs' = cs  BY DEF StepFails
<1>5. cs[c].exec # "NotStarted" /\ \A k \in Jobs : job[k].op = "run" /\ job[k].c = c => k = j
  BY <1>0, RunKnows DEF Busy
<1>6. QED  BY ZenonT(40), <1>2, <1>3, <1>4, <1>5, ReverseStep

LEMMA RollbackKept ==
  ASSUME ChangesInv, NEW c \in Sets, NEW v, NEW j \in Jobs, rollback(j, c, v)
  PROVE  Kept
<1> DEFINE own == [cs[c] EXCEPT !.exec = "RollbackFailed"]
           q == [op |-> "reverse", c |-> c, own |-> own, todo |-> Files(c, Completed(c, cs[c])),
                 tried |-> Files(c, Completed(c, cs[c])) # {},
                 failed |-> Files(c, Completed(c, cs[c])) # Completed(c, cs[c])]
<1>0. cs[c] \in Record  BY DEF ChangesInv, ChangesTypeOK
<1>1. own \in Record /\ own.exec = "RollbackFailed"  BY <1>0, RecordFields DEF ExecutionStates
<1>2. q \in Reversals  BY <1>1, ChosenSteps DEF Reversals
<1>3. job' = [job EXCEPT ![j] = q] /\ cs' = cs  BY DEF rollback
<1>4. cs[c].exec \in {"Committed", "Failed"}  BY DEF rollback
<1>5. \A k \in Jobs : job[k].op = "run" /\ job[k].c = c => k = j
  BY <1>4 DEF ChangesInv, RunIsAlone
<1>6. q.own = own /\ q.c = c  OBVIOUS
<1> HIDE DEF q, own
<1>7. QED  BY <1>1, <1>2, <1>3, <1>4, <1>5, <1>6, ReverseStep

(* What a request that reverses steps knows.                                *)
LEMMA ReverseKnows ==
  ASSUME ChangesInv, NEW j \in Jobs, job[j].op = "reverse"
  PROVE  /\ job[j] \in Reversals /\ job[j].c \in Sets /\ job[j].own \in Record
         /\ job[j].todo \in SUBSET Nat
         /\ job[j].own.exec # "NotStarted" /\ cs[job[j].c].exec # "NotStarted"
         /\ \A k \in Jobs : job[k].op = "run" /\ job[k].c = job[j].c => k = j
<1>1. job[j] \in Reversals  BY JobFields DEF ChangesInv
<1>2. job[j].own.exec # "NotStarted" /\ cs[job[j].c].exec # "NotStarted"
  BY DEF ChangesInv, BusyIsBegun, Busy
<1>3. \A k \in Jobs : job[k].op = "run" /\ job[k].c = job[j].c => k = j
  BY DEF ChangesInv, RunIsAlone, Busy
<1>4. QED  BY <1>1, <1>2, <1>3 DEF Reversals

LEMMA ReverseKept ==
  ASSUME ChangesInv, NEW j \in Jobs, ReverseFile(j)
  PROVE  Kept
<1> DEFINE i == LastFile(j)
           own == [job[j].own EXCEPT !.step[i] = "RolledBack"]
           T == job[j].todo \ {i}
           q == Undone(job[j], own, T)
           n == Skipped(job[j], T)
<1>0. job[j].op = "reverse"  BY DEF ReverseFile
<1>1. own \in Record  BY <1>0, ReverseKnows, StepField
<1>2. own.exec = job[j].own.exec  BY <1>0, ReverseKnows DEF Record
<1>3. job[j] \in Reversals /\ T \in SUBSET Nat  BY <1>0, ReverseKnows
<1>4. /\ q \in Reversals /\ q.c = job[j].c /\ q.own = own
      /\ n \in Reversals /\ n.c = job[j].c /\ n.own = job[j].own
  <2> HIDE DEF own, T
  <2>1. QED  BY <1>1, <1>3, ReversalFields
<1>5. (job' = [job EXCEPT ![j] = q] \/ job' = [job EXCEPT ![j] = n]) /\ cs' = cs
  <2>1. /\ \/ job' = [job EXCEPT ![j].own.step[i] = "RolledBack", ![j].todo = @ \ {i}]
           \/ job' = [job EXCEPT ![j].failed = TRUE, ![j].todo = @ \ {i}]
        /\ cs' = cs
    BY DEF ReverseFile
  <2>2. QED  BY <2>1 DEF ChangesInv, ChangesTypeOK, Undone, Skipped
<1> HIDE DEF q, n, own
<1>6. CASE job' = [job EXCEPT ![j] = q]
  <2>1. q.own.exec # "NotStarted" /\ cs[q.c].exec # "NotStarted"
    BY <1>0, <1>2, <1>4, ReverseKnows
  <2>2. \A k \in Jobs : job[k].op = "run" /\ job[k].c = q.c => k = j
    BY <1>0, <1>4, ReverseKnows
  <2>3. QED  BY <1>4, <1>5, <1>6, <2>1, <2>2, ReverseStep
<1>7. CASE job' = [job EXCEPT ![j] = n]
  <2>1. n.own.exec # "NotStarted" /\ cs[n.c].exec # "NotStarted"
    BY <1>0, <1>4, ReverseKnows
  <2>2. \A k \in Jobs : job[k].op = "run" /\ job[k].c = n.c => k = j
    BY <1>0, <1>4, ReverseKnows
  <2>3. QED  BY <1>4, <1>5, <1>7, <2>1, <2>2, ReverseStep
<1>8. QED  BY <1>5, <1>6, <1>7

LEMMA ReversedKept ==
  ASSUME ChangesInv, NEW j \in Jobs, Reversed(j)
  PROVE  Kept
<1> DEFINE e == IF ~job[j].tried THEN job[j].own.exec
                ELSE IF job[j].failed THEN "RollbackFailed" ELSE "RolledBack"
           r == [job[j].own EXCEPT !.exec = e]
           d == [op |-> "done", c |-> job[j].c, answer |-> e]
<1>0. job[j].op = "reverse" /\ Busy(j)  BY DEF Reversed, Busy
<1>1. e \in ExecutionStates /\ e # "NotStarted"
  <2>1. job[j].own \in Record /\ job[j].own.exec # "NotStarted"  BY <1>0, ReverseKnows
  <2>2. job[j].own.exec \in ExecutionStates  BY <2>1 DEF Record
  <2>3. QED  BY <2>1, <2>2 DEF ExecutionStates
<1>2. r \in Record /\ r.exec # "NotStarted"
  <2> HIDE DEF e
  <2>1. QED  BY <1>0, <1>1, ReverseKnows, RecordFields
<1>3. d \in Done  BY <1>0, <1>1, ReverseKnows DEF Done, Answers
<1>4. cs' = [cs EXCEPT ![job[j].c] = r] /\ job' = [job EXCEPT ![j] = d]
  BY DEF Reversed, Store, Returned
<1>5. QED  BY <1>0, <1>2, <1>3, <1>4, ReverseKnows, StoreAndReturn

(* After a restart no request is left.                                      *)
LEMMA RestartKept ==
  ASSUME ChangesInv, ChangesRestart
  PROVE  Kept
<1>1. \A r \in Record : Recovered(r) \in Record
  BY ZenonT(40) DEF Recovered, Record, ExecutionStates, ApprovalStates
<1>2. (cs \in [Sets -> Record])'
  BY <1>1 DEF ChangesInv, ChangesTypeOK, ChangesRestart
<1>3. job' = [j \in Jobs |-> NoExecution]  BY DEF ChangesRestart
<1>4. (job \in [Jobs -> JobRecords])' /\ Others'
  BY <1>3 DEF JobRecords, NoExecution, Others, BusyIsBegun, RunIsAlone, RunIsApproved, Busy
<1>5. \A r \in Record : r.exec # "NotStarted" => Recovered(r).exec # "NotStarted"
  BY DEF Recovered, Record
<1>6. Begun  BY <1>5 DEF ChangesInv, ChangesTypeOK, ChangesRestart, Begun
<1>7. QED  BY <1>2, <1>4, <1>6 DEF Kept
-----------------------------------------------------------------------------
(* Every step keeps the invariant.                                          *)
LEMMA StepKept ==
  ASSUME ChangesInv, ChangesNext
  PROVE  ChangesInv' /\ Begun
<1> SUFFICES Kept
  BY HostTypes DEF ChangesInv, ChangesTypeOK, Others, Kept
<1>1. CASE ServiceStep
  <2>1. ASSUME NEW c \in Sets, revise(c)  PROVE Kept
    <3>1. 1 \in Versions  BY ChangeSetAssumption DEF Versions
    <3>2. QED  BY <2>1, <3>1, LockedKept
  <2>2. ASSUME NEW c \in Sets, NEW v \in Versions,
               approve(c, v) \/ reject(c, v) \/ \E i \in Indices(c) : approve_step(c, v, i)
        PROVE  Kept
    BY <2>2, LockedKept
  <2>3. ASSUME NEW c \in Sets, NEW v \in Versions, NEW j \in Jobs,
               check_policy(j, c, v) \/ capture_preconditions(j, c, v) \/ execute_with_policy(j, c, v)
        PROVE  Kept
    BY <2>3, ArrivalKept
  <2>4. ASSUME NEW c \in Sets, NEW v \in Versions, NEW j \in Jobs, rollback(j, c, v)
        PROVE  Kept
    BY <2>4, RollbackKept
  <2>5. QED  BY <1>1, <2>1, <2>2, <2>3, <2>4 DEF ServiceStep
<1>2. CASE JobStep
  <2>1. PICK j \in Jobs : \/ StoreEvaluation(j) \/ StoreBindings(j) \/ Recheck(j) \/ Claim(j)
                          \/ StepSucceeds(j) \/ StepFails(j) \/ ReverseFile(j) \/ Reversed(j)
    BY <1>2 DEF JobStep
  <2>2. CASE StoreEvaluation(j) \/ StoreBindings(j) \/ Recheck(j)  BY <2>2, ResultKept
  <2>3. CASE Claim(j)  BY <2>3, ClaimKept
  <2>4. CASE StepSucceeds(j)  BY <2>4, SuccessKept
  <2>5. CASE StepFails(j)  BY <2>5, FailureKept
  <2>6. CASE ReverseFile(j)  BY <2>6, ReverseKept
  <2>7. CASE Reversed(j)  BY <2>7, ReversedKept
  <2>8. QED  BY <2>1, <2>2, <2>3, <2>4, <2>5, <2>6, <2>7
<1>3. CASE Environment
  <2>1. ASSUME cs' = cs, job' = job PROVE Kept
    <3>1. Others'
      BY <2>1 DEF ChangesInv, Others, BusyIsBegun, RunIsAlone, RunIsApproved, Busy
    <3>2. QED  BY <2>1, <3>1 DEF ChangesInv, ChangesTypeOK, Kept, Begun
  <2>2. CASE ChangesRestart  BY <2>2, RestartKept
  <2>3. CASE PolicyChanges  BY <2>1, <2>3 DEF PolicyChanges
  <2>4. ASSUME NEW c \in Sets, NEW i \in Indices(c), Drift(c, i) PROVE Kept
    BY <2>1, <2>4 DEF Drift
  <2>5. QED  BY <1>3, <2>2, <2>3, <2>4 DEF Environment
<1>4. QED  BY <1>1, <1>2, <1>3 DEF ChangesNext

LEMMA InitKept == ASSUME ChangesInit PROVE ChangesInv
<1> USE ChangeSetAssumption DEF ChangesInit
<1>1. \A c \in Sets : [i \in Indices(c) |-> "Pending"] \in StepMaps
  BY DEF StepMaps
<1>2. \A c \in Sets : Draft(c) \in Record
  BY <1>1 DEF Draft, Record, Versions, ApprovalStates, ExecutionStates
<1>3. \A c \in Sets : [i \in Indices(c) |-> "old"] \in HostMaps
  BY DEF HostMaps
<1>4. ChangesTypeOK  BY <1>2, <1>3 DEF ChangesTypeOK, JobRecords
<1>5. QED
  BY <1>4 DEF ChangesInv, BusyIsBegun, RunIsAlone, RunIsApproved, Busy, NoExecution

(* The inductive invariant: types, who may be busy with a ChangeSet, and    *)
(* what a request that applies steps knows of the record it claimed.        *)
THEOREM ChangesInductive == ChangesSpec => []ChangesInv
<1>1. ASSUME ChangesInv, UNCHANGED changeVars PROVE ChangesInv'
  BY <1>1 DEF changeVars, ChangesInv, ChangesTypeOK, BusyIsBegun, RunIsAlone, RunIsApproved, Busy
<1>2. ChangesInv /\ [ChangesNext]_changeVars => ChangesInv'  BY <1>1, StepKept
<1>3. QED  BY <1>2, InitKept, PTL DEF ChangesSpec

(* execute_with_policy: two requests never apply one ChangeSet at the same  *)
(* time, for any number of ChangeSets, requests, revisions and restarts.    *)
THEOREM SecondCallerFails == ChangesSpec => []OneExecution
<1>1. ASSUME ChangesInv PROVE OneExecution
  <2> SUFFICES ASSUME NEW c \in Sets PROVE Cardinality(Running(c)) <= 1
    BY DEF OneExecution
  <2>1. CASE Running(c) = {}  BY <2>1, FS_EmptySet
  <2>2. CASE Running(c) # {}
    <3>1. PICK j \in Jobs : job[j].op = "run" /\ job[j].c = c  BY <2>2 DEF Running
    <3>2. \A k \in Running(c) : k = j
      BY <1>1, <3>1 DEF Running, ChangesInv, RunIsAlone, Busy
    <3>3. Running(c) = {j}  BY <2>2, <3>2
    <3>4. QED  BY <3>3, FS_Singleton
  <2>3. QED  BY <2>1, <2>2
<1>2. QED  BY <1>1, ChangesInductive, PTL

(* The steps that run are those of the approved version, although checks,   *)
(* revisions and rejections come between the approval and the claim.        *)
THEOREM ApprovedVersionRuns == ChangesSpec => []RunsApprovedVersion
<1>1. ChangesInv => RunsApprovedVersion
  BY DEF ChangesInv, RunIsApproved, RunsApprovedVersion, Running
<1>2. QED  BY <1>1, ChangesInductive, PTL

(* Once execution has begun, no stored copy, late evaluation, revision or   *)
(* restart makes the ChangeSet executable again.                            *)
THEOREM BegunStaysBegun == ChangesSpec => NeverRestarts
<1>1. ChangesInv /\ [ChangesNext]_changeVars => [Begun]_changeVars  BY StepKept
<1>2. QED  BY <1>1, ChangesInductive, PTL DEF ChangesSpec, NeverRestarts, Begun

-----------------------------------------------------------------------------
(* What the records say of the hosts.                                       *)

StepStates == {"Pending", "Succeeded", "Failed", "RolledBack"}

HostStates == {"old", "new", "drift"}

(* Records, copies and hosts are about the steps of their ChangeSet.        *)
Fitting ==
  /\ \A c \in Sets : /\ cs[c].step \in [Indices(c) -> StepStates]
                     /\ host[c] \in [Indices(c) -> HostStates]
  /\ \A j \in Jobs : Busy(j) => job[j].c \in Sets /\ job[j].own.step \in [Indices(job[j].c) -> StepStates]
  /\ \A j \in Jobs : job[j].op = "run" => job[j].next \in Indices(job[j].c)

(* Step i of c is in place on the host.                                     *)
Placed(c, i) == host[c][i] = "new"

(* ... and is not what the record r reports as the failed step.             *)
Standing(c, r, i) == Placed(c, i) /\ r.step[i] # "Failed"

OnlyFilesArePlaced ==
  \A c \in Sets : \A i \in Indices(c) : Placed(c, i) => Kinds[c][i] = "file"

(* A ChangeSet that is not begun has nothing in place, one that failed or   *)
(* was rolled back at most its failed step, and a committed one has all of  *)
(* it until somebody reverses it.                                           *)
RecordTells ==
  \A c \in Sets :
    /\ cs[c].exec = "NotStarted" => \A i \in Indices(c) : ~Placed(c, i)
    /\ cs[c].exec \in {"Failed", "RolledBack"} => \A i \in Indices(c) : ~Standing(c, cs[c], i)
    /\ cs[c].exec = "RolledBack" => \A i \in Indices(c) : cs[c].step[i] # "Succeeded"
    /\ cs[c].exec = "Committed" => \A i \in Indices(c) : cs[c].step[i] = "Succeeded"
    /\ (up = "up" /\ cs[c].exec = "Committed" /\ cs[c].live) =>
         \/ \E j \in Jobs : job[j].op = "reverse" /\ job[j].c = c
         \/ \A i \in Indices(c) : Kinds[c][i] = "file" => host[c][i] # "old"

(* The steps before the next are in place, the others are not.              *)
RunTells ==
  \A j \in Jobs : job[j].op = "run" => \A i \in Indices(job[j].c) :
    /\ i < job[j].next => /\ job[j].own.step[i] = "Succeeded"
                          /\ Kinds[job[j].c][i] = "file" => host[job[j].c][i] # "old"
    /\ i >= job[j].next => ~Placed(job[j].c, i)

(* What is in place, or reported as done, is still to be reversed, failed   *)
(* to be, or is the step that failed.                                       *)
ReverseTells ==
  \A j \in Jobs : job[j].op = "reverse" =>
    /\ job[j].own.exec \in {"Failed", "RollbackFailed"}
    /\ \A i \in Indices(job[j].c) :
         /\ job[j].own.step[i] = "Succeeded" => i \in job[j].todo \/ job[j].failed
         /\ Standing(job[j].c, job[j].own, i) => i \in job[j].todo \/ job[j].failed
         /\ ~job[j].tried /\ job[j].own.exec = "Failed" => ~Standing(job[j].c, job[j].own, i)

Tells == Fitting /\ OnlyFilesArePlaced /\ RecordTells /\ RunTells /\ ReverseTells

-----------------------------------------------------------------------------
(* A step that changes neither what the records say was done nor the hosts. *)
Silent ==
  /\ \A c \in Sets : /\ cs'[c].exec = cs[c].exec /\ cs'[c].step = cs[c].step
                     /\ cs'[c].live = cs[c].live
  /\ \A j \in Jobs : /\ job'[j].op \in {"run", "reverse"} => job'[j] = job[j]
                     /\ job[j].op = "reverse" => job'[j] = job[j]
  /\ up' = up

(* ... except that others may have changed what a step is about.            *)
Drifted == \A c \in Sets : /\ host'[c] \in [Indices(c) -> HostStates]
                           /\ \A i \in Indices(c) : host'[c][i] \in {host[c][i], "drift"}

LEMMA SilentTells ==
  ASSUME Tells, Silent, Drifted
  PROVE  Tells'
<1> USE DEF Tells, Silent, Drifted, Standing, Placed
<1>1. Fitting'  BY DEF Fitting, Busy
<1>2. OnlyFilesArePlaced'  BY DEF OnlyFilesArePlaced
<1>3. RecordTells'  BY DEF RecordTells
<1>4. ASSUME NEW j \in Jobs, job'[j].op \in {"run", "reverse"}
      PROVE  job'[j] = job[j]
  BY <1>4
<1>5. RunTells'  BY <1>4 DEF RunTells, Fitting, Busy
<1>6. ReverseTells'  BY <1>4 DEF ReverseTells, Fitting, Busy
<1>7. QED  BY <1>1, <1>2, <1>3, <1>5, <1>6

(* The operations that keep the lock, the arrival of a request and of its   *)
(* results, a change of the policy and of the host.                         *)
LEMMA LockedTells ==
  ASSUME ChangesInv, Tells, NEW c \in Sets, NEW v,
         \/ revise(c) \/ approve(c, v) \/ reject(c, v) \/ \E i \in Indices(c) : approve_step(c, v, i)
  PROVE  Tells' /\ Silent
<1>0. cs \in [Sets -> Record] /\ cs[c] \in Record  BY DEF ChangesInv, ChangesTypeOK
<1>1. job' = job /\ host' = host /\ up' = up  BY DEF revise, approve, reject, approve_step
<1>2. /\ \A d \in Sets \ {c} : cs'[d] = cs[d]
      /\ cs'[c].exec = cs[c].exec /\ cs'[c].step = cs[c].step /\ cs'[c].live = cs[c].live
  <2>1. CASE revise(c)  BY <1>0, <2>1 DEF revise, Record
  <2>2. CASE approve(c, v)  BY <1>0, <2>2 DEF approve, Record
  <2>3. CASE reject(c, v)  BY <1>0, <2>3 DEF reject, Record
  <2>4. ASSUME NEW i \in Indices(c), approve_step(c, v, i)
        PROVE  \E r \in {[cs[c] EXCEPT !.approvedSteps = @ \cup {i}],
                         [cs[c] EXCEPT !.approvedSteps = @ \cup {i}, !.approval = "Approved", !.approved = v]} :
                  cs' = [cs EXCEPT ![c] = r]
    BY <1>0, <2>4 DEF approve_step
  <2>5. QED  BY ZenonT(40), <1>0, <2>1, <2>2, <2>3, <2>4 DEF Record
<1>3. Silent  BY <1>1, <1>2 DEF Silent
<1>4. Drifted  BY <1>1 DEF Tells, Fitting, Drifted
<1>5. QED  BY <1>3, <1>4, SilentTells

LEMMA WithdrawnSays ==
  ASSUME ChangesInv, NEW c \in Sets, NEW v, Invalidate(c, v)
  PROVE  /\ \A d \in Sets \ {c} : cs'[d] = cs[d]
         /\ cs'[c].exec = cs[c].exec /\ cs'[c].step = cs[c].step /\ cs'[c].live = cs[c].live
<1>0. cs \in [Sets -> Record] /\ cs[c] \in Record  BY DEF ChangesInv, ChangesTypeOK
<1>1. QED  BY <1>0 DEF Invalidate, Record

LEMMA RequestTells ==
  ASSUME ChangesInv, Tells, NEW j \in Jobs,
         \/ \E c \in Sets, v \in Versions :
              check_policy(j, c, v) \/ capture_preconditions(j, c, v) \/ execute_with_policy(j, c, v)
         \/ StoreEvaluation(j) \/ StoreBindings(j) \/ Recheck(j)
  PROVE  Tells' /\ Silent
<1> USE DEF ChangesInv, ChangesTypeOK
<1>0. cs \in [Sets -> Record]  OBVIOUS
<1>1. host' = host /\ up' = up
  BY DEF check_policy, capture_preconditions, execute_with_policy, StoreEvaluation, StoreBindings, Recheck
<1>2. ~Busy(j)
  BY DEF check_policy, capture_preconditions, execute_with_policy, StoreEvaluation, StoreBindings,
         Recheck, Free, Busy
<1>3. PICK q : job' = [job EXCEPT ![j] = q] /\ q.op \in {"evaluate", "capture", "done", "recheck", "claim"}
  <2>1. CASE StoreEvaluation(j)  BY <2>1 DEF StoreEvaluation, Returned
  <2>2. CASE StoreBindings(j)
    <3>1. \/ job' = [job EXCEPT ![j] = [op |-> "done", c |-> job[j].c, answer |-> cs[job[j].c].exec]]
          \/ job' = [job EXCEPT ![j] = [op |-> "done", c |-> job[j].c, answer |-> "Err"]]
      BY <2>2 DEF StoreBindings, Returned
    <3>2. QED  BY <3>1
  <2>3. CASE Recheck(j)  BY <2>3 DEF Recheck, Returned
  <2>4. ASSUME NEW c \in Sets, NEW v, check_policy(j, c, v)
        PROVE  job' = [job EXCEPT ![j] = Evaluating(c, v, "check")]
    BY <2>4 DEF check_policy
  <2>5. ASSUME NEW c \in Sets, NEW v, capture_preconditions(j, c, v)
        PROVE  job' = [job EXCEPT ![j] = [op |-> "capture", c |-> c, version |-> v]]
    BY <2>5 DEF capture_preconditions
  <2>6. ASSUME NEW c \in Sets, NEW v, execute_with_policy(j, c, v)
        PROVE  \/ job' = [job EXCEPT ![j] = [op |-> "done", c |-> c, answer |-> "Err"]]
               \/ job' = [job EXCEPT ![j] = Evaluating(c, v, "execute")]
    BY <2>6 DEF execute_with_policy
  <2>7. QED  BY <2>1, <2>2, <2>3, <2>4, <2>5, <2>6 DEF Evaluating
<1>4. \A c \in Sets : cs'[c].exec = cs[c].exec /\ cs'[c].step = cs[c].step /\ cs'[c].live = cs[c].live
  <2>1. CASE cs' = cs  BY <2>1
  <2>2. ASSUME NEW c \in Sets, NEW v, Invalidate(c, v)
        PROVE  \A d \in Sets : cs'[d].exec = cs[d].exec /\ cs'[d].step = cs[d].step /\ cs'[d].live = cs[d].live
    BY <2>2, WithdrawnSays
  <2>3. CASE StoreEvaluation(j)
    <3>1. job[j].c \in Sets  BY <2>3, JobFields DEF StoreEvaluation
    <3>2. cs[job[j].c] \in Record  BY <3>1
    <3>3. cs' = cs \/ cs' = Evaluated(job[j].c, job[j].policy)  BY <2>3 DEF StoreEvaluation
    <3>4. QED  BY <1>0, <3>1, <3>2, <3>3 DEF Evaluated, Record
  <2>4. CASE Recheck(j)
    <3>1. job[j].c \in Sets  BY <2>4, JobFields DEF Recheck
    <3>2. QED  BY <2>1, <2>2, <2>4, <3>1 DEF Recheck
  <2>5. CASE StoreBindings(j)  BY <2>1, <2>5 DEF StoreBindings
  <2>6. ASSUME NEW c \in Sets, NEW v \in Versions,
               check_policy(j, c, v) \/ capture_preconditions(j, c, v) \/ execute_with_policy(j, c, v)
        PROVE  cs' = cs \/ Invalidate(c, v)
    BY <2>6 DEF check_policy, capture_preconditions, execute_with_policy
  <2>7. QED  BY <2>1, <2>2, <2>3, <2>4, <2>5, <2>6
<1>5. Silent  BY <1>1, <1>2, <1>3, <1>4 DEF Silent, Busy
<1>6. Drifted  BY <1>1 DEF Tells, Fitting, Drifted
<1>7. QED  BY <1>5, <1>6, SilentTells

LEMMA EnvironmentTells ==
  ASSUME ChangesInv, Tells,
         PolicyChanges \/ \E c \in Sets : \E i \in Indices(c) : Drift(c, i)
  PROVE  Tells' /\ Silent
<1>1. cs' = cs /\ job' = job /\ up' = up  BY DEF PolicyChanges, Drift
<1>2. Silent  BY <1>1 DEF Silent
<1>3. Drifted
  <2>1. CASE PolicyChanges  BY <2>1 DEF PolicyChanges, Tells, Fitting, Drifted
  <2>2. ASSUME NEW c \in Sets, NEW i \in Indices(c), Drift(c, i)  PROVE Drifted
    <3>1. host' = [host EXCEPT ![c] = [host[c] EXCEPT ![i] = "drift"]] /\ host \in [Sets -> HostMaps]
      BY <2>2 DEF Drift, ChangesInv, ChangesTypeOK
    <3>2. \A d \in Sets : host[d] \in [Indices(d) -> HostStates]  BY DEF Tells, Fitting
    <3>3. QED  BY <3>1, <3>2 DEF Drifted, HostStates
  <2>3. QED  BY <2>1, <2>2
<1>4. QED  BY <1>2, <1>3, SilentTells

-----------------------------------------------------------------------------
(* One record, one request and the host of one ChangeSet change.            *)
Work(j, c, r, q) ==
  /\ \A d \in Sets : cs'[d] = IF d = c THEN r ELSE cs[d]
  /\ \A k \in Jobs : job'[k] = IF k = j THEN q ELSE job[k]
  /\ \A d \in Sets \ {c} : host'[d] = host[d]
  /\ up' = up

LEMMA ClaimTells ==
  ASSUME ChangesInv, Tells, NEW j \in Jobs, Claim(j)
  PROVE  Tells'
<1> DEFINE c == job[j].c
           r == [cs[c] EXCEPT !.exec = "Executing"]
           q == [op |-> "run", c |-> c, own |-> r, next |-> 1]
<1>0. ChangesTypeOK /\ c \in Sets /\ cs[c] \in Record /\ cs \in [Sets -> Record] /\ host' = host /\ up' = up
  BY JobFields DEF ChangesInv, ChangesTypeOK, Claim
<1>1. CASE ~MayClaim(c, job[j].version)
  <2>1. cs' = cs /\ job' = [job EXCEPT ![j] = [op |-> "done", c |-> c, answer |-> "Err"]]
    BY <1>1 DEF Claim, Returned
  <2>2. Silent  BY <1>0, <2>1 DEF Silent, Claim, ChangesTypeOK
  <2>3. Drifted  BY <1>0 DEF Tells, Fitting, Drifted
  <2>4. QED  BY <2>2, <2>3, SilentTells
<1>2. CASE MayClaim(c, job[j].version)
  <2>1. cs' = [cs EXCEPT ![c] = r]  BY <1>0, <1>2 DEF Claim
  <2>2. cs'[c] = r  BY <1>0, <2>1
  <2>3. job' = [job EXCEPT ![j] = q]  BY <1>2, <2>2 DEF Claim
  <2>4. Work(j, c, r, q)  BY <1>0, <2>1, <2>3 DEF Work, ChangesTypeOK
  <2>5. r.exec = "Executing" /\ r.step = cs[c].step /\ cs[c].exec = "NotStarted"
    BY <1>0, <1>2 DEF Record, MayClaim
  <2>6. \A k \in Jobs : Busy(k) => job[k].c # c
    BY <2>5 DEF ChangesInv, BusyIsBegun
  <2>7. q.op = "run" /\ q.c = c /\ q.own = r /\ q.next = 1  OBVIOUS
  <2>8. \A i \in Indices(c) : i \in Nat /\ i >= 1
    BY <1>0, ChangeSetAssumption DEF Indices
  <2>9. 1 \in Indices(c)
    BY <1>0, ChangeSetAssumption DEF Indices
  <2>10. job[j].op = "claim"  BY DEF Claim
  <2> HIDE DEF c, r, q
  <2> USE <1>0, <2>4, <2>5, <2>6, <2>7, <2>10 DEF Work, Tells
  <2>11. Fitting'  BY <2>9 DEF Fitting, Busy
  <2>12. OnlyFilesArePlaced'  BY DEF OnlyFilesArePlaced, Placed
  <2>13. RecordTells'  BY DEF RecordTells, Standing, Placed
  <2>14. RunTells'  BY <2>8 DEF RunTells, Standing, Placed, Fitting, Busy, RecordTells
  <2>15. ReverseTells'  BY DEF ReverseTells, Standing, Placed, Fitting, Busy
  <2>16. QED  BY <2>11, <2>12, <2>13, <2>14, <2>15
<1>3. QED  BY <1>1, <1>2

LEMMA SuccessTells ==
  ASSUME ChangesInv, Tells, NEW j \in Jobs, StepSucceeds(j)
  PROVE  Tells'
<1> DEFINE c == job[j].c
           i == job[j].next
           done == [job[j].own EXCEPT !.step[i] = "Succeeded"]
           end == [done EXCEPT !.exec = "Committed"]
           d == [op |-> "done", c |-> c, answer |-> end.exec]
           q == Advanced(job[j], done, i + 1)
<1>0. /\ job[j].op = "run" /\ job[j] \in Runs /\ c \in Sets /\ i \in Indices(c) /\ i \in Nat
      /\ cs \in [Sets -> Record] /\ job \in [Jobs -> JobRecords] /\ host \in [Sets -> HostMaps]
  BY RunKnows DEF StepSucceeds, ChangesInv, ChangesTypeOK, Tells, Fitting
<1>1. /\ done \in Record /\ done.exec = job[j].own.exec /\ done.live = job[j].own.live
      /\ done.step = [job[j].own.step EXCEPT ![i] = "Succeeded"]
  BY <1>0, RunKnows, StepField DEF Record
<1>2. end.exec = "Committed" /\ end.step = done.step
  <2> HIDE DEF done
  <2>1. QED  BY <1>1 DEF Record
<1>3. up' = up /\ \A e \in Sets \ {c} : host'[e] = host[e]
  BY <1>0 DEF StepSucceeds, Apply
<1>4. host[c] \in [Indices(c) -> HostStates] /\ job[j].own.step \in [Indices(c) -> StepStates]
  BY <1>0 DEF Tells, Fitting, Busy
<1>5. /\ host'[c] \in [Indices(c) -> HostStates]
      /\ \A k \in Indices(c) \ {i} : host'[c][k] = host[c][k]
      /\ IF Kinds[c][i] = "file" THEN host'[c][i] = "new" ELSE host'[c][i] = host[c][i]
  BY <1>0, <1>4 DEF StepSucceeds, Apply, HostStates
<1>6. /\ done.step \in [Indices(c) -> StepStates] /\ done.step[i] = "Succeeded"
      /\ \A k \in Indices(c) \ {i} : done.step[k] = job[j].own.step[k]
  BY <1>0, <1>1, <1>4 DEF StepStates
<1>7. \A k \in Jobs : Busy(k) /\ job[k].c = c => k = j
  BY <1>0, RunKnows
<1>8. \A k \in Indices(c) : /\ k < i => /\ job[j].own.step[k] = "Succeeded"
                                        /\ Kinds[c][k] = "file" => host[c][k] # "old"
                            /\ k >= i => ~Placed(c, k)
  BY <1>0 DEF Tells, RunTells
<1>9. Indices(c) = 1..Len(Kinds[c]) /\ Len(Kinds[c]) \in Nat
  BY <1>0, ChangeSetAssumption DEF Indices
<1>10. \A k \in Indices(c) : host'[c][k] = "new" => Kinds[c][k] = "file"
  BY <1>0, <1>5 DEF Tells, OnlyFilesArePlaced, Placed
<1>11. CASE i = Len(Kinds[c])
  <2>1. Work(j, c, end, d)
    <3>1. cs' = [cs EXCEPT ![c] = end] /\ job' = [job EXCEPT ![j] = d]
      BY <1>11 DEF StepSucceeds, Store, Returned
    <3> HIDE DEF end, d, c
    <3>2. QED  BY <1>0, <1>3, <3>1 DEF Work
  <2>2. d.op = "done" /\ d.c = c  OBVIOUS
  <2>3. \A k \in Indices(c) : /\ end.step[k] = "Succeeded"
                              /\ Kinds[c][k] = "file" => host'[c][k] # "old"
    <3>1. \A k \in Indices(c) : k # i => k < i  BY <1>0, <1>9, <1>11
    <3> HIDE DEF end, done, c, i
    <3>2. QED  BY <3>1, <1>2, <1>5, <1>6, <1>8
  <2> HIDE DEF c, i, end, d, done
  <2> USE <1>0, <1>2, <1>5, <1>6, <1>7, <2>1, <2>2 DEF Work, Tells, Busy
  <2>4. Fitting'  BY ZenonT(40) DEF Fitting
  <2>5. OnlyFilesArePlaced'  BY <1>10 DEF OnlyFilesArePlaced, Placed
  <2>6. RecordTells'
    <3>1. /\ \A b \in Sets \ {c} : cs'[b] = cs[b] /\ host'[b] = host[b]
          /\ cs'[c] = end /\ end.exec = "Committed"
      OBVIOUS
    <3>2. \A b \in Sets \ {c} : (\E k \in Jobs : job[k].op = "reverse" /\ job[k].c = b) =>
                                 \E k \in Jobs : job'[k].op = "reverse" /\ job'[k].c = b
      BY DEF c
    <3>3. QED  BY <3>1, <3>2, <2>3 DEF RecordTells, Standing, Placed
  <2>7. RunTells'  BY DEF RunTells, Placed, Fitting
  <2>8. ReverseTells'  BY DEF ReverseTells, Standing, Placed, Fitting
  <2>9. QED  BY <2>4, <2>5, <2>6, <2>7, <2>8
<1>12. CASE i # Len(Kinds[c])
  <2>1. q.op = "run" /\ q.c = c /\ q.own = done /\ q.next = i + 1
    <3> HIDE DEF done, i
    <3>1. QED  BY <1>0 DEF Advanced, Runs
  <2>2. Work(j, c, done, q)
    <3>1. cs' = [cs EXCEPT ![c] = done] /\ job' = [job EXCEPT ![j] = q]
      BY <1>0, <1>12 DEF StepSucceeds, Store, Advanced
    <3> HIDE DEF done, q, c
    <3>2. QED  BY <1>0, <1>3, <3>1 DEF Work
  <2>3. done.exec = "Executing"  BY <1>0, <1>1, RunKnows
  <2>4. i + 1 \in Indices(c)  BY <1>0, <1>9, <1>12
  <2>5. \A k \in Indices(c) : /\ k < i + 1 => /\ done.step[k] = "Succeeded"
                                              /\ Kinds[c][k] = "file" => host'[c][k] # "old"
                              /\ k >= i + 1 => host'[c][k] # "new"
    <3>1. \A k \in Indices(c) : k \in Nat  BY <1>9
    <3>2. \A k \in Indices(c) : (k < i + 1 <=> k < i \/ k = i) /\ (k >= i + 1 => k # i /\ k >= i)
      BY <1>0, <3>1
    <3> HIDE DEF done, c, i
    <3>3. QED  BY <3>2, <1>5, <1>6, <1>8 DEF Placed
  <2> HIDE DEF c, i, done, q
  <2> USE <1>0, <1>5, <1>6, <1>7, <2>1, <2>2, <2>3 DEF Work, Tells, Busy
  <2>6. Fitting'  BY ZenonT(40), <2>4 DEF Fitting
  <2>7. OnlyFilesArePlaced'  BY <1>10 DEF OnlyFilesArePlaced, Placed
  <2>8. RecordTells'
    <3>1. /\ \A b \in Sets \ {c} : cs'[b] = cs[b] /\ host'[b] = host[b]
          /\ cs'[c] = done /\ done.exec = "Executing"
      OBVIOUS
    <3>2. \A b \in Sets \ {c} : (\E k \in Jobs : job[k].op = "reverse" /\ job[k].c = b) =>
                                 \E k \in Jobs : job'[k].op = "reverse" /\ job'[k].c = b
      BY DEF c
    <3>3. QED  BY <3>1, <3>2 DEF RecordTells, Standing, Placed
  <2>9. RunTells'  BY <2>5 DEF RunTells, Placed, Fitting
  <2>10. ReverseTells'  BY DEF ReverseTells, Standing, Placed, Fitting
  <2>11. QED  BY <2>6, <2>7, <2>8, <2>9, <2>10
<1>13. QED  BY <1>11, <1>12

(* A request that begins to reverse ChangeSet c, which nobody else executes;*)
(* if it executed it itself, the failed step may have been put in place.    *)
BeginsReversal(j, c, q) ==
  /\ cs' = cs /\ up' = up
  /\ \A d \in Sets \ {c} : host'[d] = host[d]
  /\ host'[c] \in [Indices(c) -> HostStates]
  /\ \A i \in Indices(c) : host'[c][i] = "new" =>
       /\ Kinds[c][i] = "file"
       /\ \/ Placed(c, i)
          \/ /\ cs[c].exec = "Executing"
             /\ \A k \in Jobs : Busy(k) /\ job[k].c = c => k = j
  /\ \A k \in Jobs : job'[k] = IF k = j THEN q ELSE job[k]
  /\ q.op = "reverse" /\ q.c = c
  /\ \A k \in Jobs : job[k].op = "run" /\ job[k].c = c => k = j

LEMMA ReversalTells ==
  ASSUME Tells, NEW j \in Jobs, NEW c \in Sets, NEW q, BeginsReversal(j, c, q),
         q.own.step \in [Indices(c) -> StepStates],
         q.own.exec \in {"Failed", "RollbackFailed"},
         job[j].op # "reverse",
         \A i \in Indices(c) :
           /\ q.own.step[i] = "Succeeded" => i \in q.todo \/ q.failed
           /\ host'[c][i] = "new" /\ q.own.step[i] # "Failed" =>
                (i \in q.todo \/ q.failed) /\ (q.tried \/ q.own.exec # "Failed")
  PROVE  Tells'
<1> USE DEF Tells, BeginsReversal, Busy
<1>1. Fitting'  BY DEF Fitting
<1>2. OnlyFilesArePlaced'  BY DEF OnlyFilesArePlaced, Placed
<1>3. RecordTells'
  <2>1. job'[j].op = "reverse" /\ job'[j].c = c  OBVIOUS
  <2>2. \A b \in Sets \ {c} : (\E k \in Jobs : job[k].op = "reverse" /\ job[k].c = b) =>
                               \E k \in Jobs : job'[k].op = "reverse" /\ job'[k].c = b
    OBVIOUS
  <2>3. QED  BY <2>1, <2>2 DEF RecordTells, Standing, Placed
<1>4. RunTells'  BY DEF RunTells, Placed, Fitting
<1>5. ReverseTells'
  <2>1. ASSUME NEW k \in Jobs \ {j}, job[k].op = "reverse", NEW i \in Indices(job[k].c),
               host'[job[k].c][i] = "new"
        PROVE  Placed(job[k].c, i)
    BY <2>1 DEF Placed, Fitting
  <2>2. \A k \in Jobs \ {j} : job'[k] = job[k]  OBVIOUS
  <2>3. job'[j] = q  OBVIOUS
  <2>4. QED  BY <2>1, <2>2, <2>3 DEF ReverseTells, Standing, Placed
<1>6. QED  BY <1>1, <1>2, <1>3, <1>4, <1>5

LEMMA FailureTells ==
  ASSUME ChangesInv, Tells, NEW j \in Jobs, StepFails(j)
  PROVE  Tells'
<1> DEFINE c == job[j].c
           n == job[j].next
           own == [job[j].own EXCEPT !.step[n] = "Failed", !.exec = "Failed"]
           q == [op |-> "reverse", c |-> c, own |-> own, todo |-> Files(c, Completed(c, own)),
                 tried |-> Files(c, Completed(c, own)) # {},
                 failed |-> Files(c, Completed(c, own)) # Completed(c, own)]
<1>0. /\ job[j].op = "run" /\ job[j] \in Runs /\ c \in Sets /\ n \in Indices(c) /\ n \in Nat
      /\ job[j].own \in Record /\ job \in [Jobs -> JobRecords]
  BY RunKnows DEF StepFails, ChangesInv, ChangesTypeOK, Tells, Fitting
<1>1. job[j].own.step \in [Indices(c) -> StepStates]
  BY <1>0 DEF Tells, Fitting, Busy
<1>2. own.step = [job[j].own.step EXCEPT ![n] = "Failed"] /\ own.exec = "Failed"
  BY <1>0 DEF Record
<1>3. own.step \in [Indices(c) -> StepStates] /\ \A i \in Indices(c) \ {n} : own.step[i] = job[j].own.step[i]
  BY <1>1, <1>2 DEF StepStates
<1>4. job' = [job EXCEPT ![j] = q] /\ cs' = cs /\ up' = up /\ MayApply(c, n, "old", "new")
  BY DEF StepFails
<1>5. /\ q.op = "reverse" /\ q.c = c /\ q.own = own /\ q.todo = Files(c, Completed(c, own))
      /\ q.tried = (Files(c, Completed(c, own)) # {})
      /\ q.failed = (Files(c, Completed(c, own)) # Completed(c, own))
  OBVIOUS
<1>6. \A k \in Jobs : job[k].op = "run" /\ job[k].c = c => k = j
  BY <1>0, RunKnows DEF Busy
<1>7. \A i \in Indices(c) : /\ i < n => job[j].own.step[i] = "Succeeded"
                            /\ Placed(c, i) => i < n /\ Kinds[c][i] = "file"
  <2>1. \A i \in Indices(c) : i \in Nat  BY <1>0, ChangeSetAssumption DEF Indices
  <2>2. \A i \in Indices(c) : i >= n \/ i < n  BY <1>0, <2>1
  <2>3. QED  BY <1>0, <2>2 DEF Tells, RunTells, OnlyFilesArePlaced
<1>8. \A i \in Indices(c) : Placed(c, i) => i \in Files(c, Completed(c, own))
  <2>1. n \in Nat  BY <1>0
  <2>2. \A i \in Indices(c) : i < n => i # n  BY <2>1
  <2> HIDE DEF own, c, n
  <2>3. QED  BY <1>3, <1>7, <2>2 DEF Files, Completed
<1>13. own.step[n] = "Failed"  BY <1>0, <1>1, <1>2
<1>14. cs[c].exec = "Executing"  BY <1>0, RunKnows
<1>16. \A k \in Jobs : Busy(k) /\ job[k].c = c => k = j  BY <1>0, RunKnows
<1>15. /\ \A d \in Sets \ {c} : host'[d] = host[d]
       /\ host'[c] \in [Indices(c) -> HostStates]
       /\ \A i \in Indices(c) : host'[c][i] = "new" =>
            Kinds[c][i] = "file" /\ (Placed(c, i) \/ i = n)
  <2>1. host[c] \in [Indices(c) -> HostStates] /\ host \in [Sets -> HostMaps]
    BY <1>0 DEF Tells, Fitting, ChangesInv, ChangesTypeOK
  <2> HIDE DEF own, c, n, q
  <2>2. CASE host' = host  BY <1>7, <2>1, <2>2 DEF Placed
  <2>3. CASE Kinds[c][n] = "file" /\ host' = [host EXCEPT ![c] = [host[c] EXCEPT ![n] = "new"]]
    BY <1>0, <1>7, <2>1, <2>3 DEF HostStates, Placed
  <2>4. QED  BY <1>4, <2>2, <2>3 DEF MayApply, Apply
<1>9. \A i \in Indices(c) : own.step[i] = "Succeeded" => i \in Completed(c, own)
  BY DEF Completed
<1> HIDE DEF q, own, c, n
<1>10. BeginsReversal(j, c, q)
  BY <1>0, <1>4, <1>5, <1>6, <1>14, <1>15, <1>16 DEF BeginsReversal
<1>11. \A i \in Indices(c) :
           /\ q.own.step[i] = "Succeeded" => i \in q.todo \/ q.failed
           /\ host'[c][i] = "new" /\ q.own.step[i] # "Failed" =>
                (i \in q.todo \/ q.failed) /\ (q.tried \/ q.own.exec # "Failed")
  BY <1>5, <1>8, <1>9, <1>13, <1>15
<1>12. QED  BY <1>0, <1>2, <1>3, <1>5, <1>10, <1>11, ReversalTells

LEMMA RollbackTells ==
  ASSUME ChangesInv, Tells, NEW c \in Sets, NEW v, NEW j \in Jobs, rollback(j, c, v)
  PROVE  Tells'
<1> DEFINE own == [cs[c] EXCEPT !.exec = "RollbackFailed"]
           q == [op |-> "reverse", c |-> c, own |-> own, todo |-> Files(c, Completed(c, cs[c])),
                 tried |-> Files(c, Completed(c, cs[c])) # {},
                 failed |-> Files(c, Completed(c, cs[c])) # Completed(c, cs[c])]
<1>0. cs[c] \in Record /\ job \in [Jobs -> JobRecords]  BY DEF ChangesInv, ChangesTypeOK
<1>1. own.step = cs[c].step /\ own.exec = "RollbackFailed"
  BY <1>0 DEF Record
<1>2. cs[c].step \in [Indices(c) -> StepStates]  BY DEF Tells, Fitting
<1>3. job' = [job EXCEPT ![j] = q] /\ cs' = cs /\ host' = host /\ up' = up /\ job[j].op # "reverse"
  BY DEF rollback, Free
<1>4. cs[c].exec \in {"Committed", "Failed"}  BY DEF rollback
<1>5. \A k \in Jobs : job[k].op = "run" /\ job[k].c = c => k = j
  BY <1>4 DEF ChangesInv, RunIsAlone
<1>6. /\ q.op = "reverse" /\ q.c = c /\ q.own = own /\ q.todo = Files(c, Completed(c, cs[c]))
      /\ q.failed = (Files(c, Completed(c, cs[c])) # Completed(c, cs[c]))
  OBVIOUS
<1>7. \A i \in Indices(c) : /\ Standing(c, cs[c], i) => i \in Files(c, Completed(c, cs[c]))
                            /\ cs[c].step[i] = "Succeeded" => i \in Completed(c, cs[c])
                            /\ Placed(c, i) => Kinds[c][i] = "file"
  BY <1>4 DEF Tells, RecordTells, OnlyFilesArePlaced, Standing, Files, Completed
<1>11. host[c] \in [Indices(c) -> HostStates]  BY DEF Tells, Fitting
<1> HIDE DEF q, own
<1>8. BeginsReversal(j, c, q)
  <2>1. \A k \in Jobs : job'[k] = IF k = j THEN q ELSE job[k]  BY <1>0, <1>3
  <2>2. \A i \in Indices(c) : host'[c][i] = "new" => Kinds[c][i] = "file" /\ Placed(c, i)
    BY <1>3, <1>7 DEF Placed
  <2>3. cs' = cs /\ up' = up /\ \A d \in Sets \ {c} : host'[d] = host[d]  BY <1>3
  <2>4. host'[c] \in [Indices(c) -> HostStates]  BY <1>3, <1>11
  <2>5. q.op = "reverse" /\ q.c = c  BY <1>6
  <2>6. QED  BY <1>5, <2>1, <2>2, <2>3, <2>4, <2>5 DEF BeginsReversal
<1>9. \A i \in Indices(c) :
           /\ q.own.step[i] = "Succeeded" => i \in q.todo \/ q.failed
           /\ host'[c][i] = "new" /\ q.own.step[i] # "Failed" =>
                (i \in q.todo \/ q.failed) /\ (q.tried \/ q.own.exec # "Failed")
  BY <1>1, <1>3, <1>6, <1>7 DEF Standing, Placed
<1>10. QED  BY <1>1, <1>2, <1>3, <1>6, <1>8, <1>9, ReversalTells

(* A file step is reversed on the host, or its reversal fails.              *)
LEMMA FileTells ==
  ASSUME ChangesInv, Tells, NEW j \in Jobs, ReverseFile(j)
  PROVE  Tells'
<1> DEFINE c == job[j].c
           i == LastFile(j)
           own == [job[j].own EXCEPT !.step[i] = "RolledBack"]
           T == job[j].todo \ {i}
           q == Undone(job[j], own, T)
           n == Skipped(job[j], T)
<1>0. /\ job[j].op = "reverse" /\ job[j] \in Reversals /\ c \in Sets /\ job[j].own \in Record
      /\ cs' = cs /\ up' = up /\ host \in [Sets -> HostMaps] /\ job \in [Jobs -> JobRecords]
  BY ReverseKnows DEF ReverseFile, ChangesInv, ChangesTypeOK
<1>1. /\ job[j].own.step \in [Indices(c) -> StepStates] /\ host[c] \in [Indices(c) -> HostStates]
      /\ job[j].own.exec \in {"Failed", "RollbackFailed"}
  BY <1>0 DEF Tells, Fitting, Busy, ReverseTells
<1>2. \A k \in Jobs : job[k].op = "run" => job[k].c # c
  BY <1>0, ReverseKnows
<1>3. \A k \in Indices(c) :
        /\ job[j].own.step[k] = "Succeeded" => k \in job[j].todo \/ job[j].failed
        /\ Placed(c, k) => Kinds[c][k] = "file"
        /\ Standing(c, job[j].own, k) => k \in job[j].todo \/ job[j].failed
        /\ ~job[j].tried /\ job[j].own.exec = "Failed" => ~Standing(c, job[j].own, k)
  BY <1>0 DEF Tells, ReverseTells, OnlyFilesArePlaced
<1>4. CASE Apply(c, i, "new", "old") /\ job' = [job EXCEPT ![j].own.step[i] = "RolledBack", ![j].todo = @ \ {i}]
  <2>1. job' = [job EXCEPT ![j] = q]  BY <1>0, <1>4 DEF Undone
  <2>2. own.step = [job[j].own.step EXCEPT ![i] = "RolledBack"] /\ own.exec = job[j].own.exec
    BY <1>0 DEF Record
  <2>3. /\ q.op = "reverse" /\ q.c = c /\ q.own = own /\ q.todo = T
        /\ q.tried = job[j].tried /\ q.failed = job[j].failed
    <3> HIDE DEF own, T
    <3>1. QED  BY <1>0 DEF Undone, Reversals
  <2>4. /\ own.step \in [Indices(c) -> StepStates]
        /\ \A k \in Indices(c) : /\ own.step[k] = "Succeeded" => k # i /\ job[j].own.step[k] = "Succeeded"
                                /\ k # i => own.step[k] = job[j].own.step[k]
    <3> HIDE DEF own, i, c
    <3>1. QED  BY <1>1, <2>2 DEF StepStates
  <2>5. /\ \A d \in Sets \ {c} : host'[d] = host[d]
        /\ host'[c] \in [Indices(c) -> HostStates]
        /\ \A k \in Indices(c) : host'[c][k] = "new" => Placed(c, k) /\ k # i
    <3>1. CASE Kinds[c][i] = "file"
      <4>1. host' = [host EXCEPT ![c] = [host[c] EXCEPT ![i] = "old"]]
        BY <1>0, <1>4, <3>1 DEF Apply
      <4>2. QED  BY <1>0, <1>1, <4>1 DEF HostStates, Placed
    <3>2. CASE Kinds[c][i] # "file"
      BY <1>0, <1>1, <1>3, <1>4, <3>2 DEF Apply, Placed
    <3>3. QED  BY <3>1, <3>2
  <2>6. \A k \in Jobs : job'[k] = IF k = j THEN q ELSE job[k]
    BY <1>0, <2>1
  <2>7. T = job[j].todo \ {i}  OBVIOUS
  <2> HIDE DEF q, own, T, c, i, n
  <2> USE <1>0, <1>1, <1>2, <2>2, <2>3, <2>4, <2>5, <2>6 DEF Tells, Busy
  <2>8. Fitting'  BY DEF Fitting
  <2>9. OnlyFilesArePlaced'  BY <1>3 DEF OnlyFilesArePlaced, Placed
  <2>10. RecordTells'
    <3>1. \A b \in Sets : (\E k \in Jobs : job[k].op = "reverse" /\ job[k].c = b) =>
                           \E k \in Jobs : job'[k].op = "reverse" /\ job'[k].c = b
      BY DEF c
    <3>2. \A b \in Sets \ {c} : host'[b] = host[b]  OBVIOUS
    <3>3. \A k \in Indices(c) : host'[c][k] = "new" => Placed(c, k)  OBVIOUS
    <3>4. \E k \in Jobs : job'[k].op = "reverse" /\ job'[k].c = c  OBVIOUS
    <3>5. QED  BY <3>1, <3>2, <3>3, <3>4 DEF RecordTells, Standing, Placed
  <2>11. RunTells'  BY DEF RunTells, Placed, Fitting
  <2>12. ReverseTells'  BY SMTT(30), <1>3, <2>7 DEF ReverseTells, Standing, Placed, Fitting
  <2>13. QED  BY <2>8, <2>9, <2>10, <2>11, <2>12
<1>5. CASE job' = [job EXCEPT ![j].failed = TRUE, ![j].todo = @ \ {i}] /\ MayApply(c, i, "new", "old")
  <2>1. job' = [job EXCEPT ![j] = n]  BY <1>0, <1>5 DEF Skipped
  <2>2. /\ n.op = "reverse" /\ n.c = c /\ n.own = job[j].own /\ n.failed = TRUE
        /\ n.tried = job[j].tried
    <3> HIDE DEF T
    <3>1. QED  BY <1>0 DEF Skipped, Reversals
  <2>3. \A k \in Jobs : job'[k] = IF k = j THEN n ELSE job[k]
    BY <1>0, <2>1
  <2>10. /\ \A d \in Sets \ {c} : host'[d] = host[d]
         /\ host'[c] \in [Indices(c) -> HostStates]
         /\ \A k \in Indices(c) : host'[c][k] = "new" => Placed(c, k)
    <3> HIDE DEF q, own, T, c, i, n
    <3>1. CASE host' = host  BY <1>1, <3>1 DEF Placed
    <3>2. CASE host' = [host EXCEPT ![c] = [host[c] EXCEPT ![i] = "old"]]
      BY <1>0, <1>1, <3>2 DEF HostStates, Placed
    <3>3. QED  BY <1>5, <3>1, <3>2 DEF MayApply, Apply
  <2> HIDE DEF q, own, T, c, i, n
  <2> USE <1>0, <1>1, <1>2, <2>2, <2>3, <2>10 DEF Tells, Busy
  <2>4. Fitting'  BY DEF Fitting
  <2>5. OnlyFilesArePlaced'  BY <1>3 DEF OnlyFilesArePlaced, Placed
  <2>6. RecordTells'
    <3>1. \A b \in Sets \ {c} : (\E k \in Jobs : job[k].op = "reverse" /\ job[k].c = b) =>
                                 \E k \in Jobs : job'[k].op = "reverse" /\ job'[k].c = b
      BY DEF c
    <3>2. \E k \in Jobs : job'[k].op = "reverse" /\ job'[k].c = c  OBVIOUS
    <3>3. QED  BY <3>1, <3>2 DEF RecordTells, Standing, Placed
  <2>7. RunTells'  BY DEF RunTells, Placed, Fitting
  <2>8. ReverseTells'  BY SMTT(30), <1>3 DEF ReverseTells, Standing, Placed, Fitting
  <2>9. QED  BY <2>4, <2>5, <2>6, <2>7, <2>8
<1>6. QED  BY <1>4, <1>5 DEF ReverseFile

(* The end of a reversal: RolledBack only when nothing is left to reverse   *)
(* and nothing failed to be.                                                *)
LEMMA EndTells ==
  ASSUME ChangesInv, Tells, NEW j \in Jobs, Reversed(j)
  PROVE  Tells'
<1> DEFINE c == job[j].c
           e == IF ~job[j].tried THEN job[j].own.exec
                ELSE IF job[j].failed THEN "RollbackFailed" ELSE "RolledBack"
           r == [job[j].own EXCEPT !.exec = e]
           d == [op |-> "done", c |-> c, answer |-> e]
<1>0. /\ job[j].op = "reverse" /\ job[j].todo = {} /\ job[j].own \in Record /\ c \in Sets
      /\ host' = host /\ up' = up /\ cs \in [Sets -> Record] /\ job \in [Jobs -> JobRecords]
  BY ReverseKnows DEF Reversed, ChangesInv, ChangesTypeOK
<1>1. cs' = [cs EXCEPT ![c] = r] /\ job' = [job EXCEPT ![j] = d]
  BY DEF Reversed, Store, Returned
<1>2. r.exec = e /\ r.step = job[j].own.step
  <2> HIDE DEF e
  <2>1. QED  BY <1>0 DEF Record
<1>3. d.op = "done" /\ d.c = c  OBVIOUS
<1>4. Work(j, c, r, d)
  <2> HIDE DEF r, d, c
  <2>1. QED  BY <1>0, <1>1 DEF Work
<1>5. /\ job[j].own.step \in [Indices(c) -> StepStates]
      /\ e \in {"Failed", "RollbackFailed", "RolledBack"}
      /\ e = "Failed" => ~job[j].tried /\ job[j].own.exec = "Failed"
      /\ e = "RolledBack" => ~job[j].failed
  BY <1>0 DEF Tells, Fitting, Busy, ReverseTells
<1>6. \A k \in Indices(c) :
        /\ job[j].own.step[k] = "Succeeded" => job[j].failed
        /\ Standing(c, job[j].own, k) => job[j].failed
        /\ ~job[j].tried /\ job[j].own.exec = "Failed" => ~Standing(c, job[j].own, k)
  BY <1>0 DEF Tells, ReverseTells
<1>7. \A k \in Jobs : job[k].op = "run" => job[k].c # c
  BY <1>0, ReverseKnows
<1> HIDE DEF c, e, r, d
<1> USE <1>0, <1>2, <1>3, <1>4, <1>5, <1>7 DEF Tells, Busy, Work
<1>8. Fitting'  BY DEF Fitting
<1>9. OnlyFilesArePlaced'  BY DEF OnlyFilesArePlaced, Placed
<1>10. RecordTells'
  <2>1. \A b \in Sets \ {c} : (\E k \in Jobs : job[k].op = "reverse" /\ job[k].c = b) =>
                               \E k \in Jobs : job'[k].op = "reverse" /\ job'[k].c = b
    BY DEF c
  <2>2. \A b \in Sets \ {c} : cs'[b] = cs[b]  OBVIOUS
  <2>3. cs'[c] = r  OBVIOUS
  <2>4. r.exec \in {"Failed", "RollbackFailed", "RolledBack"}  OBVIOUS
  <2>5. r.exec \in {"Failed", "RolledBack"} => \A i \in Indices(c) : ~Standing(c, r, i)
    BY <1>6 DEF Standing
  <2>6. r.exec = "RolledBack" => \A i \in Indices(c) : r.step[i] # "Succeeded"
    BY <1>6
  <2>7. QED  BY <2>1, <2>2, <2>3, <2>4, <2>5, <2>6 DEF RecordTells, Standing, Placed
<1>11. RunTells'  BY DEF RunTells, Placed, Fitting
<1>12. ReverseTells'  BY DEF ReverseTells, Standing, Placed, Fitting
<1>13. QED  BY <1>8, <1>9, <1>10, <1>11, <1>12

LEMMA RestartTells ==
  ASSUME ChangesInv, Tells, ChangesRestart
  PROVE  Tells'
<1>0. cs \in [Sets -> Record] /\ host' = host  BY DEF ChangesInv, ChangesTypeOK, ChangesRestart
<1>1. \A k \in Jobs : job'[k].op = "none"  BY DEF ChangesRestart, NoExecution
<1>2. ASSUME NEW r \in Record
      PROVE  /\ Recovered(r).step = r.step /\ Recovered(r).live = FALSE
             /\ Recovered(r).exec = IF r.exec = "Executing" THEN "Interrupted" ELSE r.exec
  BY DEF Recovered, Record
<1>3. \A c \in Sets : /\ cs'[c].step = cs[c].step
                      /\ cs'[c].exec \in {cs[c].exec, "Interrupted"}
                      /\ up' = "failed" \/ cs'[c].live = FALSE
  <2>1. CASE cs' = [c \in Sets |-> Recovered(cs[c])]  BY <1>0, <1>2, <2>1
  <2>2. CASE cs' = cs /\ up' = "failed"  BY <2>2
  <2>3. QED  BY <2>1, <2>2 DEF ChangesRestart
<1> USE <1>0, <1>1, <1>3 DEF Tells, Busy
<1>4. Fitting'  BY DEF Fitting
<1>5. OnlyFilesArePlaced'  BY DEF OnlyFilesArePlaced, Placed
<1>6. RecordTells'  BY DEF RecordTells, Standing, Placed
<1>7. RunTells'  BY DEF RunTells
<1>8. ReverseTells'  BY DEF ReverseTells
<1>9. QED  BY <1>4, <1>5, <1>6, <1>7, <1>8

LEMMA DraftTells == ASSUME ChangesInit PROVE Tells
<1> USE DEF ChangesInit
<1>1. \A j \in Jobs : job[j].op = "none"  BY DEF NoExecution
<1>2. \A c \in Sets : /\ cs[c].exec = "NotStarted"
                      /\ cs[c].step \in [Indices(c) -> StepStates]
                      /\ host[c] \in [Indices(c) -> HostStates]
                      /\ \A i \in Indices(c) : host[c][i] = "old"
  BY DEF Draft, StepStates, HostStates
<1>3. QED
  BY <1>1, <1>2 DEF Tells, Fitting, Busy, OnlyFilesArePlaced, RecordTells, RunTells, ReverseTells, Standing, Placed

LEMMA StepTells ==
  ASSUME ChangesInv, Tells, ChangesNext
  PROVE  Tells'
<1>1. CASE ServiceStep
  <2>1. ASSUME NEW c \in Sets, NEW v,
               \/ revise(c) \/ approve(c, v) \/ reject(c, v)
               \/ \E i \in Indices(c) : approve_step(c, v, i)
        PROVE  Tells'
    BY <2>1, LockedTells
  <2>2. ASSUME NEW c \in Sets, NEW v \in Versions, NEW j \in Jobs,
               check_policy(j, c, v) \/ capture_preconditions(j, c, v) \/ execute_with_policy(j, c, v)
        PROVE  Tells'
    BY <2>2, RequestTells
  <2>3. ASSUME NEW c \in Sets, NEW v \in Versions, NEW j \in Jobs, rollback(j, c, v)
        PROVE  Tells'
    BY <2>3, RollbackTells
  <2>4. QED  BY <1>1, <2>1, <2>2, <2>3 DEF ServiceStep
<1>2. CASE JobStep
  <2>1. PICK j \in Jobs : \/ StoreEvaluation(j) \/ StoreBindings(j) \/ Recheck(j) \/ Claim(j)
                          \/ StepSucceeds(j) \/ StepFails(j) \/ ReverseFile(j) \/ Reversed(j)
    BY <1>2 DEF JobStep
  <2>2. CASE StoreEvaluation(j) \/ StoreBindings(j) \/ Recheck(j)  BY <2>2, RequestTells
  <2>3. CASE Claim(j)  BY <2>3, ClaimTells
  <2>4. CASE StepSucceeds(j)  BY <2>4, SuccessTells
  <2>5. CASE StepFails(j)  BY <2>5, FailureTells
  <2>6. CASE ReverseFile(j)  BY <2>6, FileTells
  <2>7. CASE Reversed(j)  BY <2>7, EndTells
  <2>8. QED  BY <2>1, <2>2, <2>3, <2>4, <2>5, <2>6, <2>7
<1>3. CASE Environment  BY <1>3, EnvironmentTells, RestartTells DEF Environment
<1>4. QED  BY <1>1, <1>2, <1>3 DEF ChangesNext

(* A committed ChangeSet has all its files in place unless somebody reverses *)
(* or changed them; one that failed or was rolled back has at most the write *)
(* of the step it reports as Failed in place, and of one that was rolled     *)
(* back no step is left: whatever fails before or after its write, however   *)
(* many rollbacks overlap, and after any restart.                            *)
THEOREM RecordsTellTheTruth == ChangesSpec => []OutcomeIsTrue
<1>1. ChangesInit => Tells  BY DraftTells
<1>2. ChangesInv /\ Tells /\ [ChangesNext]_changeVars => Tells'
  <2>1. CASE ChangesNext  BY <2>1, StepTells
  <2>2. CASE UNCHANGED changeVars
    BY <2>2 DEF changeVars, Tells, Fitting, Busy, OnlyFilesArePlaced, RecordTells, RunTells, ReverseTells, Standing, Placed
  <2>3. QED  BY <2>1, <2>2
<1>3. Tells => OutcomeIsTrue
  BY DEF Tells, RecordTells, OutcomeIsTrue, Reversing, Standing, Placed
<1>4. QED  BY <1>1, <1>2, <1>3, ChangesInductive, PTL DEF ChangesSpec

-----------------------------------------------------------------------------
(* A fleet of ChangeSets.                                                   *)

FleetRunStates ==
  {"Draft", "Approved", "Executing", "Verifying", "RollingBack", "PausedForReview", "Failed",
   "Succeeded", "RolledBack", "RollbackFailed", "Interrupted"}

FleetRuns ==
  [state : FleetRunStates, live : BOOLEAN, approved : BOOLEAN, policy : FailurePolicies,
   target : [Sets -> TargetStates], local : [Sets -> BOOLEAN]]

CallStates ==
  {IdleCall} \cup [pc : {"approving"}, todo : SUBSET Sets] \cup [pc : {"claiming", "verify", "rollback"}]
  \cup [pc : {"batches", "failed"}, todo : SUBSET SUBSET Sets]
  \cup [pc : {"running"}, todo : SUBSET SUBSET Sets, batch : SUBSET Sets, open : SUBSET Sets, failed : BOOLEAN]
  \cup [pc : {"next", "reversing"}, todo : SUBSET Sets, failed : BOOLEAN]

FleetTypeOK == run \in FleetRuns /\ call \in [Calls -> CallStates]

(* The state of the fleet tells how far the request about it has come.      *)
StateFits ==
  \A k \in Calls :
    /\ call[k].pc = "approving" => run.state = "Draft"
    /\ call[k].pc = "claiming" => run.state \in {"Approved", "PausedForReview"}
    /\ call[k].pc = "batches" => /\ run.state \in {"Executing", "PausedForReview", "Failed"}
                                 /\ call[k].todo # {} => run.state = "Executing"
    /\ call[k].pc \in {"running", "failed"} => run.state = "Executing"
    /\ call[k].pc = "verify" => run.state = "Verifying"
    /\ call[k].pc = "rollback" => run.state \in {"Executing", "PausedForReview", "Failed", "Succeeded"}
    /\ call[k].pc \in {"next", "reversing"} => run.state = "RollingBack"

(* The record of a target tells how its ChangeSet ended.                    *)
Ledger ==
  \A c \in Sets :
    /\ run.target[c] = "Pending" => cs[c].exec = "NotStarted"
    /\ run.target[c] = "Succeeded" => cs[c].exec = "Committed"
    /\ run.target[c] = "Failed" => cs[c].exec \in {"NotStarted", "Failed"}
    /\ run.target[c] = "RolledBack" => cs[c].exec = "RolledBack"

(* Until it is rolled back, or a restart cuts it short, a fleet has no      *)
(* target in between unless its batch is under way.                         *)
TargetsFit ==
  /\ run.state \notin {"RollingBack", "RolledBack", "RollbackFailed", "Interrupted"} =>
       \A c \in Sets :
         /\ run.target[c] # "RollbackPending"
         /\ run.local[c] => run.target[c] = "Succeeded"
         /\ run.target[c] = "Executing" => \E k \in Calls : call[k].pc = "running" /\ c \in call[k].batch
  /\ run.state = "Succeeded" => \A c \in Sets : run.target[c] = "Succeeded"
  /\ run.state = "RolledBack" => \A c \in Sets : run.target[c] \in {"Pending", "Failed", "RolledBack"}

(* What is left to do is disjoint from what is being done and was done.     *)
TodoFits ==
  \A k \in Calls :
    /\ call[k].pc \in {"batches", "running", "failed"} =>
         \A b \in call[k].todo : /\ \A c \in b : run.target[c] = "Pending"
                                 /\ \A d \in call[k].todo : b # d => b \cap d = {}
    /\ call[k].pc = "running" =>
         /\ call[k].open \subseteq call[k].batch
         /\ \A c \in call[k].batch : run.target[c] = "Executing" /\ ~run.local[c]
         /\ \A c \in call[k].open : cs[c].exec = "NotStarted" /\ job[<<k, c>>].op = "none"
    /\ call[k].pc \in {"next", "reversing"} =>
         \A c \in Sets :
           /\ run.target[c] # "Executing"
           /\ run.target[c] = "Succeeded" => c \in call[k].todo
           /\ run.target[c] = "RollbackFailed" => call[k].failed
           /\ run.target[c] = "RollbackPending" =>
                call[k].pc = "reversing" /\ c \in call[k].todo /\ LastTarget(c, call[k].todo)
    /\ call[k].pc = "reversing" =>
         \A c \in call[k].todo : LastTarget(c, call[k].todo) => run.target[c] = "RollbackPending"

(* A request that executes or reverses the ChangeSet of a target, and what  *)
(* it answers.                                                              *)
Executes(q, exec) ==
  /\ q.op \in {"evaluate", "recheck", "claim", "run", "reverse", "done"}
  /\ q.op = "evaluate" => q.for = "execute"
  /\ q.op \in {"evaluate", "recheck", "claim"} => exec = "NotStarted"
  /\ q.op \in {"run", "reverse"} => exec = "Executing"
  /\ q.op = "done" => \/ q.answer = "Err" /\ exec = "NotStarted"
                      \/ q.answer = exec /\ exec \in {"Committed", "Failed", "RolledBack", "RollbackFailed"}

Reverses(q, exec) ==
  /\ q.op \in {"reverse", "done"}
  /\ q.op = "done" /\ q.answer = "RolledBack" => exec = "RolledBack"

JobsFit ==
  \A k \in Calls, c \in Sets : job[<<k, c>>].op # "none" =>
    /\ job[<<k, c>>].c = c
    /\ \/ /\ call[k].pc = "running" /\ c \in call[k].batch \ call[k].open
          /\ Executes(job[<<k, c>>], cs[c].exec)
       \/ /\ call[k].pc = "reversing" /\ c \in call[k].todo /\ LastTarget(c, call[k].todo)
          /\ Reverses(job[<<k, c>>], cs[c].exec)

FleetFits == StateFits /\ Ledger /\ TargetsFit /\ TodoFits /\ JobsFit

FleetInv == ChangesInv /\ Tells /\ FleetTypeOK /\ FleetFits

-----------------------------------------------------------------------------
(* Requests that return, are forgotten or refused at once disturb nothing.  *)
LEMMA QuietRequests ==
  ASSUME ChangesInv, Tells, cs' = cs, host' = host, bound' = bound, policy' = policy, up' = up,
         (job \in [Jobs -> JobRecords])',
         \A j \in Jobs : job'[j] = job[j] \/ (~Busy(j) /\ Resting(job'[j]))
  PROVE  ChangesInv' /\ Tells'
<1> USE DEF ChangesInv, Busy, Resting
<1>1. ChangesTypeOK'  BY DEF ChangesTypeOK
<1>2. \A j \in Jobs : job'[j].op \in {"run", "reverse"} => job'[j] = job[j]
  OBVIOUS
<1>3. BusyIsBegun'  BY <1>2 DEF BusyIsBegun
<1>4. RunIsAlone'  BY <1>2 DEF RunIsAlone
<1>5. RunIsApproved'  BY <1>2 DEF RunIsApproved
<1>6. Silent  BY <1>2 DEF Silent
<1>7. Drifted  BY DEF Tells, Fitting, Drifted
<1>8. QED  BY <1>1, <1>3, <1>4, <1>5, <1>6, <1>7, SilentTells

(* The steps of ChangeSets that a fleet makes.                              *)
LEMMA ServiceSound ==
  ASSUME ChangesInv, Tells, ChangesNext
  PROVE  ChangesInv' /\ Tells'
BY StepKept, StepTells

(* What one request does to its ChangeSet, and to no other.                 *)
JobActs(j) ==
  \/ StoreEvaluation(j) \/ StoreBindings(j) \/ Recheck(j) \/ Claim(j)
  \/ StepSucceeds(j) \/ StepFails(j) \/ ReverseFile(j) \/ Reversed(j)

OwnEffect(j, c) ==
  /\ \A d \in Sets \ {c} : cs'[d].exec = cs[d].exec
  /\ \A l \in Jobs \ {j} : job'[l] = job[l]
  /\ job'[j].c = c /\ job'[j].op # "none"
  /\ Executes(job[j], cs[c].exec) => Executes(job'[j], cs'[c].exec)
  /\ Reverses(job[j], cs[c].exec) => Reverses(job'[j], cs'[c].exec)

LEMMA EarlyEffect ==
  ASSUME ChangesInv, Tells, NEW j \in Jobs, StoreEvaluation(j) \/ StoreBindings(j) \/ Recheck(j)
  PROVE  OwnEffect(j, job[j].c)
<1> DEFINE c == job[j].c
<1> USE DEF ChangesInv, ChangesTypeOK
<1>0. Silent  BY RequestTells
<1>1. /\ \A d \in Sets : cs'[d].exec = cs[d].exec
      /\ job \in [Jobs -> JobRecords] /\ c \in Sets
  BY <1>0, JobFields DEF Silent, StoreEvaluation, StoreBindings, Recheck
<1>2. CASE StoreEvaluation(j)
  <2>1. \/ job' = [job EXCEPT ![j] = [op |-> "recheck", c |-> c, version |-> job[j].version, bound |-> bound[c]]]
        \/ /\ job' = [job EXCEPT ![j] = [op |-> "done", c |-> c,
                        answer |-> IF cs[c].version = job[j].version /\ job[j].for = "check"
                                   THEN cs'[c].exec ELSE "Err"]]
    BY <1>2 DEF StoreEvaluation, Returned
  <2>2. job[j].op = "evaluate"  BY <1>2 DEF StoreEvaluation
  <2>3. QED  BY <1>1, <2>1, <2>2 DEF OwnEffect, Executes, Reverses
<1>3. CASE StoreBindings(j)
  <2>1. job[j].op = "capture"  BY <1>3 DEF StoreBindings
  <2>2. \/ job' = [job EXCEPT ![j] = [op |-> "done", c |-> c, answer |-> cs[c].exec]]
        \/ job' = [job EXCEPT ![j] = [op |-> "done", c |-> c, answer |-> "Err"]]
    BY <1>3 DEF StoreBindings, Returned
  <2>3. QED  BY <1>1, <2>1, <2>2 DEF OwnEffect, Executes, Reverses
<1>4. CASE Recheck(j)
  <2>1. job[j].op = "recheck"  BY <1>4 DEF Recheck
  <2>2. \/ job' = [job EXCEPT ![j] = [op |-> "claim", c |-> c, version |-> job[j].version]]
        \/ job' = [job EXCEPT ![j] = [op |-> "done", c |-> c, answer |-> "Err"]]
    BY <1>4 DEF Recheck, Returned
  <2>3. QED  BY <1>1, <2>1, <2>2 DEF OwnEffect, Executes, Reverses
<1>5. QED  BY <1>2, <1>3, <1>4

LEMMA ClaimEffect ==
  ASSUME ChangesInv, Tells, NEW j \in Jobs, Claim(j)
  PROVE  OwnEffect(j, job[j].c)
<1> DEFINE c == job[j].c
           r == [cs[c] EXCEPT !.exec = "Executing"]
<1>0. ChangesTypeOK /\ c \in Sets /\ cs[c] \in Record /\ cs \in [Sets -> Record] /\ job \in [Jobs -> JobRecords]
  BY JobFields DEF ChangesInv, ChangesTypeOK, Claim
<1>1. job[j].op = "claim"  BY DEF Claim
<1>2. CASE ~MayClaim(c, job[j].version)
  <2>1. job' = [job EXCEPT ![j] = [op |-> "done", c |-> c, answer |-> "Err"]] /\ cs' = cs
    BY <1>2 DEF Claim, Returned
  <2>2. QED  BY <1>0, <1>1, <2>1 DEF OwnEffect, Executes, Reverses
<1>3. CASE MayClaim(c, job[j].version)
  <2>1. cs' = [cs EXCEPT ![c] = r]  BY <1>0, <1>3 DEF Claim
  <2>2. r.exec = "Executing"  BY <1>0 DEF Record
  <2>3. job' = [job EXCEPT ![j] = [op |-> "run", c |-> c, own |-> cs'[c], next |-> 1]]
    BY <1>3 DEF Claim
  <2>4. (\A d \in Sets \ {c} : cs'[d] = cs[d]) /\ cs'[c].exec = "Executing"
    BY <1>0, <2>1, <2>2
  <2>5. (\A l \in Jobs \ {j} : job'[l] = job[l]) /\ job'[j].op = "run" /\ job'[j].c = c
    BY <1>0, <2>3
  <2>6. QED  BY <1>1, <2>4, <2>5 DEF OwnEffect, Executes, Reverses
<1>4. QED  BY <1>2, <1>3

LEMMA RunEffect ==
  ASSUME ChangesInv, Tells, NEW j \in Jobs, StepSucceeds(j) \/ StepFails(j)
  PROVE  OwnEffect(j, job[j].c)
<1> DEFINE c == job[j].c
           done == [job[j].own EXCEPT !.step[job[j].next] = "Succeeded"]
           end == [done EXCEPT !.exec = "Committed"]
<1>0. /\ job[j].op = "run" /\ job[j] \in Runs /\ c \in Sets /\ job[j].own \in Record
      /\ cs \in [Sets -> Record] /\ job \in [Jobs -> JobRecords]
      /\ job[j].own.exec = "Executing"
  BY RunKnows DEF StepSucceeds, StepFails, ChangesInv, ChangesTypeOK
<1>1. done.exec = "Executing" /\ end.exec = "Committed"
  <2>1. done.exec = "Executing" /\ done \in Record  BY <1>0, StepField DEF Record
  <2> HIDE DEF done
  <2>2. QED  BY <2>1 DEF Record
<1>2. CASE StepSucceeds(j) /\ job[j].next = Len(Kinds[c])
  <2>1. /\ cs' = [cs EXCEPT ![c] = end]
        /\ job' = [job EXCEPT ![j] = [op |-> "done", c |-> c, answer |-> end.exec]]
    BY <1>2 DEF StepSucceeds, Store, Returned
  <2> HIDE DEF end, done
  <2>2. QED  BY <1>0, <1>1, <2>1 DEF OwnEffect, Executes, Reverses
<1>3. CASE StepSucceeds(j) /\ job[j].next # Len(Kinds[c])
  <2>1. /\ cs' = [cs EXCEPT ![c] = done]
        /\ job' = [job EXCEPT ![j] = Advanced(job[j], done, job[j].next + 1)]
    BY <1>0, <1>3 DEF StepSucceeds, Store, Advanced
  <2> HIDE DEF done
  <2>2. Advanced(job[j], done, job[j].next + 1).op = "run" /\ Advanced(job[j], done, job[j].next + 1).c = c
    BY <1>0 DEF Advanced, Runs
  <2>3. QED  BY <1>0, <1>1, <2>1, <2>2 DEF OwnEffect, Executes, Reverses
<1>4. CASE StepFails(j)
  <2>1. cs[c].exec = "Executing"  BY <1>0, RunKnows
  <2> DEFINE own == [job[j].own EXCEPT !.step[job[j].next] = "Failed", !.exec = "Failed"]
             q == [op |-> "reverse", c |-> c, own |-> own, todo |-> Files(c, Completed(c, own)),
                   tried |-> Files(c, Completed(c, own)) # {},
                   failed |-> Files(c, Completed(c, own)) # Completed(c, own)]
  <2>2. cs' = cs /\ job' = [job EXCEPT ![j] = q]  BY <1>4 DEF StepFails
  <2>3. q.op = "reverse" /\ q.c = c  OBVIOUS
  <2> HIDE DEF q
  <2>4. QED  BY <1>0, <2>1, <2>2, <2>3 DEF OwnEffect, Executes, Reverses
<1>5. QED  BY <1>2, <1>3, <1>4

LEMMA ReverseEffect ==
  ASSUME ChangesInv, Tells, NEW j \in Jobs, ReverseFile(j) \/ Reversed(j)
  PROVE  OwnEffect(j, job[j].c)
<1> DEFINE c == job[j].c
           e == IF ~job[j].tried THEN job[j].own.exec
                ELSE IF job[j].failed THEN "RollbackFailed" ELSE "RolledBack"
           r == [job[j].own EXCEPT !.exec = e]
<1>0. /\ job[j].op = "reverse" /\ job[j] \in Reversals /\ job[j].own \in Record /\ c \in Sets
      /\ cs \in [Sets -> Record] /\ job \in [Jobs -> JobRecords]
      /\ job[j].own.exec \in {"Failed", "RollbackFailed"}
  BY ReverseKnows DEF ReverseFile, Reversed, ChangesInv, ChangesTypeOK, Tells, ReverseTells
<1>1. CASE Reversed(j)
  <2>1. /\ cs' = [cs EXCEPT ![c] = r]
        /\ job' = [job EXCEPT ![j] = [op |-> "done", c |-> c, answer |-> e]]
    BY <1>1 DEF Reversed, Store, Returned
  <2>2. e \in {"Failed", "RollbackFailed", "RolledBack"}  BY <1>0
  <2> HIDE DEF e
  <2>3. r.exec = e  BY <1>0 DEF Record
  <2> HIDE DEF r, c
  <2>4. cs'[c].exec = e /\ \A d \in Sets \ {c} : cs'[d] = cs[d]  BY <1>0, <2>1, <2>3
  <2>5. job'[j].op = "done" /\ job'[j].c = c /\ job'[j].answer = e /\ \A l \in Jobs \ {j} : job'[l] = job[l]
    <3> DEFINE d == [op |-> "done", c |-> c, answer |-> e]
    <3>1. d.op = "done" /\ d.c = c /\ d.answer = e  OBVIOUS
    <3>2. job' = [job EXCEPT ![j] = d]  BY <2>1
    <3> HIDE DEF d
    <3>3. job'[j] = d /\ \A l \in Jobs \ {j} : job'[l] = job[l]  BY <1>0, <3>2
    <3>4. QED  BY <3>1, <3>3
  <2>6. OwnEffect(j, c)  BY <2>2, <2>4, <2>5 DEF OwnEffect, Executes, Reverses
  <2>7. QED  BY <2>6 DEF c
<1>2. CASE ReverseFile(j)
  <2> DEFINE i == LastFile(j)
             own == [job[j].own EXCEPT !.step[i] = "RolledBack"]
             T == job[j].todo \ {i}
  <2>1. /\ cs' = cs
        /\ \/ job' = [job EXCEPT ![j] = Undone(job[j], own, T)]
           \/ job' = [job EXCEPT ![j] = Skipped(job[j], T)]
    BY <1>0, <1>2 DEF ReverseFile, Undone, Skipped
  <2> HIDE DEF i, own, T
  <2>2. /\ Undone(job[j], own, T).op = "reverse" /\ Undone(job[j], own, T).c = c
        /\ Skipped(job[j], T).op = "reverse" /\ Skipped(job[j], T).c = c
    BY <1>0 DEF Undone, Skipped, Reversals
  <2>3. QED  BY <1>0, <2>1, <2>2 DEF OwnEffect, Executes, Reverses
<1>3. QED  BY <1>1, <1>2

LEMMA JobEffect ==
  ASSUME ChangesInv, Tells, NEW j \in Jobs, JobActs(j)
  PROVE  job[j].op # "none" /\ OwnEffect(j, job[j].c)
<1>1. job[j].op # "none"
  BY DEF JobActs, StoreEvaluation, StoreBindings, Recheck, Claim, StepSucceeds, StepFails, ReverseFile, Reversed
<1>2. QED  BY <1>1, EarlyEffect, ClaimEffect, RunEffect, ReverseEffect DEF JobActs

-----------------------------------------------------------------------------
(* One request about the fleet at a time.                                   *)
Alone(k) == k \in Calls /\ \A l \in Calls : l = k

FleetKept == FleetTypeOK' /\ FleetFits'

LEMMA CallKinds ==
  ASSUME FleetInv, NEW k \in Calls
  PROVE  /\ call[k].pc \in {"idle", "approving", "claiming", "verify", "rollback", "batches", "failed",
                            "running", "next", "reversing"}
         /\ call[k].pc = "idle" => call[k] = IdleCall
         /\ call[k].pc = "approving" => call[k] \in [pc : {"approving"}, todo : SUBSET Sets]
         /\ call[k].pc \in {"batches", "failed"} => call[k] \in [pc : {"batches", "failed"}, todo : SUBSET SUBSET Sets]
         /\ call[k].pc = "running" =>
              call[k] \in [pc : {"running"}, todo : SUBSET SUBSET Sets, batch : SUBSET Sets, open : SUBSET Sets, failed : BOOLEAN]
         /\ call[k].pc \in {"next", "reversing"} =>
              call[k] \in [pc : {"next", "reversing"}, todo : SUBSET Sets, failed : BOOLEAN]
<1>1. call[k] \in CallStates  BY DEF FleetInv, FleetTypeOK
<1>2. CASE call[k] = IdleCall  BY <1>2 DEF IdleCall
<1>3. CASE call[k] \in [pc : {"approving"}, todo : SUBSET Sets]  BY <1>3
<1>4. CASE call[k] \in [pc : {"claiming", "verify", "rollback"}]  BY <1>4
<1>5. CASE call[k] \in [pc : {"batches", "failed"}, todo : SUBSET SUBSET Sets]  BY <1>5
<1>6. CASE call[k] \in [pc : {"running"}, todo : SUBSET SUBSET Sets, batch : SUBSET Sets, open : SUBSET Sets, failed : BOOLEAN]
  BY <1>6
<1>7. CASE call[k] \in [pc : {"next", "reversing"}, todo : SUBSET Sets, failed : BOOLEAN]  BY <1>7
<1>8. QED  BY <1>1, <1>2, <1>3, <1>4, <1>5, <1>6, <1>7 DEF CallStates

(* Nothing is under way on a ChangeSet, before and after.                   *)
LEMMA PaperWork ==
  ASSUME FleetInv, NEW k \in Calls, Alone(k), NEW q \in CallStates,
         call' = [call EXCEPT ![k] = q], job' = job, \A c \in Sets : cs'[c].exec = cs[c].exec,
         run' \in FleetRuns, run'.target = run.target, run'.local = run.local,
         call[k].pc \notin {"running", "reversing"}, q.pc \notin {"running", "reversing"},
         StateFits', TargetsFit',
         q.pc \in {"batches", "failed"} =>
           \A b \in q.todo : /\ \A c \in b : run.target[c] = "Pending"
                             /\ \A d \in q.todo : b # d => b \cap d = {},
         q.pc = "next" =>
           \A c \in Sets : /\ run.target[c] \notin {"Executing", "RollbackPending"}
                           /\ run.target[c] = "Succeeded" => c \in q.todo
                           /\ run.target[c] = "RollbackFailed" => q.failed
  PROVE  FleetKept
<1> USE DEF FleetInv, FleetFits, Alone
<1>0. call \in [Calls -> CallStates]  BY DEF FleetTypeOK
<1>1. \A l \in Calls : call'[l] = q /\ l = k  BY <1>0
<1>2. FleetTypeOK'  BY <1>0 DEF FleetTypeOK
<1>3. Ledger'  BY DEF Ledger
<1>4. TodoFits'  BY <1>1 DEF TodoFits
<1>5. JobsFit'  BY DEF JobsFit
<1>6. QED  BY <1>2, <1>3, <1>4, <1>5 DEF FleetKept

(* Only the state of the fleet changes.                                     *)
Restated(s) == [run EXCEPT !.state = s]

LEMMA Restating ==
  ASSUME FleetInv, NEW s \in FleetRunStates
  PROVE  /\ Restated(s) \in FleetRuns /\ Restated(s).state = s
         /\ Restated(s).target = run.target /\ Restated(s).local = run.local
BY DEF FleetInv, FleetTypeOK, FleetRuns, Restated

LEMMA Withdrawing ==
  ASSUME FleetInv
  PROVE  /\ Invalidated \in FleetRuns /\ Invalidated.state = "Draft"
         /\ Invalidated.target = run.target /\ Invalidated.local = run.local
BY DEF FleetInv, FleetTypeOK, FleetRuns, Invalidated, FleetRunStates

(* Before anything was rolled back no target is in between.                 *)
LEMMA BeforeRollback ==
  ASSUME FleetInv, NEW k \in Calls, Alone(k), call[k].pc # "running",
         run.state \notin {"RollingBack", "RolledBack", "RollbackFailed", "Interrupted"}
  PROVE  \A c \in Sets : /\ run.target[c] \notin {"Executing", "RollbackPending"}
                         /\ run.local[c] => run.target[c] = "Succeeded"
BY DEF FleetInv, FleetFits, TargetsFit, Alone

LEMMA Approval ==
  ASSUME FleetInv, NEW k \in Calls, Alone(k),
         fleet_approve(k) \/ (\E c \in Sets : ApproveTarget(k, c)) \/ MarkApproved(k)
  PROVE  FleetKept
<1> USE DEF Alone
<1>0. call \in [Calls -> CallStates] /\ run \in FleetRuns  BY DEF FleetInv, FleetTypeOK
<1>1. CASE fleet_approve(k)
  <2>0. call[k].pc = "idle" /\ run.state = "Draft" /\ job' = job /\ cs' = cs
    BY <1>1 DEF fleet_approve, Requested, IdleCall, KeepChanges
  <2>1. CASE call' = [call EXCEPT ![k] = [pc |-> "approving", todo |-> Sets]] /\ run' = run
    <3> DEFINE q == [pc |-> "approving", todo |-> Sets]
    <3>1. q \in CallStates /\ q.pc = "approving"  BY DEF CallStates
    <3> HIDE DEF q
    <3>2. \A l \in Calls : call'[l] = q  BY <1>0, <2>1 DEF q
    <3>3. StateFits'  BY <2>0, <2>1, <3>1, <3>2 DEF StateFits
    <3>4. TargetsFit'  BY <2>0, <2>1, <3>1, <3>2, BeforeRollback DEF TargetsFit
    <3>5. QED  BY <1>0, <2>0, <2>1, <3>1, <3>3, <3>4, PaperWork DEF q
  <2>2. CASE call' = call /\ run' = Invalidated
    <3>1. \A l \in Calls : call'[l].pc = "idle"  BY <2>0, <2>2
    <3>2. StateFits'  BY <3>1 DEF StateFits
    <3>3. TargetsFit'  BY <2>0, <2>2, BeforeRollback, Withdrawing DEF TargetsFit
    <3>4. call' = [call EXCEPT ![k] = IdleCall] /\ IdleCall \in CallStates /\ IdleCall.pc = "idle"
      BY <1>0, <1>1, <2>2 DEF CallStates, IdleCall, fleet_approve, Requested
    <3>5. QED  BY <2>0, <2>2, <3>2, <3>3, <3>4, Withdrawing, PaperWork
  <2>3. QED  BY <1>1, <2>1, <2>2 DEF fleet_approve
<1>2. ASSUME NEW c \in Sets, ApproveTarget(k, c)
      PROVE  FleetKept
  <2>0. call[k].pc = "approving" /\ run' = run /\ run.state = "Draft"
    BY <1>2 DEF ApproveTarget, FleetInv, FleetFits, StateFits
  <2>1. job' = job /\ \A d \in Sets : cs'[d].exec = cs[d].exec
    <3>1. CASE approve(c, 1)  BY <3>1, LockedTells DEF FleetInv, Silent, approve
    <3>2. CASE KeepChanges  BY <3>2 DEF KeepChanges
    <3>3. QED  BY <1>2, <3>1, <3>2 DEF ApproveTarget
  <2>2. PICK q : /\ call' = [call EXCEPT ![k] = q] /\ q \in CallStates /\ q.pc \in {"approving", "idle"}
    <3>1. call[k] \in [pc : {"approving"}, todo : SUBSET Sets]  BY <2>0, CallKinds
    <3>2. [call[k] EXCEPT !.todo = @ \ {c}] \in [pc : {"approving"}, todo : SUBSET Sets]  BY <3>1
    <3>3. IdleCall \in CallStates /\ IdleCall.pc = "idle"  BY DEF CallStates, IdleCall
    <3>4. \/ call' = [call EXCEPT ![k] = [call[k] EXCEPT !.todo = @ \ {c}]]
          \/ call' = [call EXCEPT ![k] = IdleCall]
      BY <1>0, <1>2 DEF ApproveTarget
    <3>5. QED  BY <3>2, <3>3, <3>4 DEF CallStates
  <2>3. \A l \in Calls : call'[l] = q  BY <1>0, <2>2
  <2>4. StateFits'  BY <2>0, <2>2, <2>3 DEF StateFits
  <2>5. TargetsFit'  BY <2>0, BeforeRollback DEF TargetsFit
  <2>6. QED  BY <1>0, <2>0, <2>1, <2>2, <2>4, <2>5, PaperWork
<1>3. CASE MarkApproved(k)
  <2>0. call[k].pc = "approving" /\ run.state = "Draft" /\ job' = job /\ cs' = cs
    BY <1>3 DEF MarkApproved, KeepChanges, FleetInv, FleetFits, StateFits
  <2>1. /\ run' \in FleetRuns /\ run'.state \in {"Draft", "Approved"}
        /\ run'.target = run.target /\ run'.local = run.local
    BY <1>0, <1>3, <2>0 DEF MarkApproved, FleetRuns, FleetRunStates
  <2>2. call' = [call EXCEPT ![k] = IdleCall] /\ IdleCall \in CallStates /\ IdleCall.pc = "idle"
    BY <1>3 DEF CallStates, IdleCall, MarkApproved
  <2>3. \A l \in Calls : call'[l].pc = "idle"  BY <1>0, <2>2
  <2>4. StateFits'  BY <2>3 DEF StateFits
  <2>5. TargetsFit'  BY <2>0, <2>1, BeforeRollback DEF TargetsFit
  <2>6. QED  BY <2>0, <2>1, <2>2, <2>4, <2>5, PaperWork
<1>4. QED  BY <1>1, <1>2, <1>3

LEMMA Withdrawal ==
  ASSUME FleetInv, NEW k \in Calls, Alone(k), fleet_execute(k)
  PROVE  FleetKept
<1> USE DEF Alone
<1>0. call \in [Calls -> CallStates] /\ run \in FleetRuns  BY DEF FleetInv, FleetTypeOK
<1>1. /\ call[k].pc = "idle" /\ run.state \in {"Approved", "PausedForReview"} /\ job' = job /\ cs' = cs
      /\ call[k] = IdleCall
  BY DEF fleet_execute, Requested, IdleCall, KeepChanges
<1>2. CASE call' = [call EXCEPT ![k] = [pc |-> "claiming"]] /\ run' = run
  <2> DEFINE q == [pc |-> "claiming"]
  <2>1. q \in CallStates /\ q.pc = "claiming"  BY DEF CallStates
  <2> HIDE DEF q
  <2>2. \A l \in Calls : call'[l] = q  BY <1>0, <1>2 DEF q
  <2>3. StateFits'  BY <1>1, <1>2, <2>1, <2>2 DEF StateFits
  <2>4. TargetsFit'  BY <1>1, <1>2, <2>1, <2>2, BeforeRollback DEF TargetsFit
  <2>5. QED  BY <1>0, <1>1, <1>2, <2>1, <2>3, <2>4, PaperWork DEF q
<1>3. CASE call' = call /\ run' = Invalidated
  <2>1. \A l \in Calls : call'[l].pc = "idle"  BY <1>1, <1>3
  <2>2. StateFits'  BY <2>1 DEF StateFits
  <2>3. TargetsFit'  BY <1>1, <1>3, BeforeRollback, Withdrawing DEF TargetsFit
  <2>4. call' = [call EXCEPT ![k] = IdleCall] /\ IdleCall \in CallStates /\ IdleCall.pc = "idle"
    BY <1>0, <1>1, <1>3 DEF CallStates, IdleCall
  <2>5. QED  BY <1>1, <1>3, <2>2, <2>3, <2>4, Withdrawing, PaperWork
<1>4. QED  BY <1>2, <1>3 DEF fleet_execute

LEMMA FleetClaim ==
  ASSUME FleetInv, NEW k \in Calls, Alone(k), ClaimFleet(k)
  PROVE  FleetKept
<1> USE DEF Alone
<1>0. call \in [Calls -> CallStates] /\ run \in FleetRuns  BY DEF FleetInv, FleetTypeOK
<1>1. /\ call[k].pc = "claiming" /\ run.state \in {"Approved", "PausedForReview"} /\ job' = job /\ cs' = cs
      /\ run' = Restated("Executing") /\ "Executing" \in FleetRunStates
  BY DEF ClaimFleet, KeepChanges, FleetInv, FleetFits, StateFits, Restated, FleetRunStates
<1>2. /\ run' \in FleetRuns /\ run'.state = "Executing" /\ run'.target = run.target /\ run'.local = run.local
  BY <1>1, Restating
<1>3. \A b \in Batches : /\ b \subseteq Sets /\ \A c \in b : run.target[c] = "Pending"
                         /\ \A d \in Batches : b # d => b \cap d = {}
  BY DEF Batches, Pending
<1>4. PICK q \in CallStates :
        /\ call' = [call EXCEPT ![k] = q] /\ q.pc \in {"idle", "batches"}
        /\ q.pc = "batches" => q.todo = Batches
  <2> DEFINE f == [pc |-> "batches", todo |-> Batches]
  <2>1. f \in CallStates /\ f.pc = "batches" /\ f.todo = Batches
    <3>1. Batches \in SUBSET SUBSET Sets  BY <1>3
    <3> HIDE DEF Batches
    <3>2. QED  BY <3>1 DEF CallStates
  <2>2. IdleCall \in CallStates /\ IdleCall.pc = "idle"  BY DEF CallStates, IdleCall
  <2>3. call' = [call EXCEPT ![k] = IdleCall] \/ call' = [call EXCEPT ![k] = f]
    BY DEF ClaimFleet
  <2> HIDE DEF f
  <2>4. QED  BY <2>1, <2>2, <2>3
<1>5. \A l \in Calls : call'[l] = q  BY <1>0, <1>4
<1>6. StateFits'  BY <1>2, <1>4, <1>5 DEF StateFits
<1>7. TargetsFit'  BY <1>1, <1>2, BeforeRollback DEF TargetsFit
<1>8. q.pc = "batches" =>
        \A b \in q.todo : /\ \A c \in b : run.target[c] = "Pending"
                          /\ \A d \in q.todo : b # d => b \cap d = {}
  BY <1>3, <1>4
<1>9. q.pc \notin {"running", "reversing", "failed", "next"}  BY <1>4
<1>10. QED  BY <1>1, <1>2, <1>4, <1>6, <1>7, <1>8, <1>9, PaperWork

LEMMA PolicyApplies ==
  ASSUME FleetInv, NEW k \in Calls, Alone(k), apply_failure_policy(k)
  PROVE  FleetKept
<1> USE DEF Alone
<1>0. call \in [Calls -> CallStates] /\ run \in FleetRuns  BY DEF FleetInv, FleetTypeOK
<1>1. call[k].pc = "failed" /\ run.state = "Executing" /\ job' = job /\ cs' = cs
  BY DEF apply_failure_policy, KeepChanges, FleetInv, FleetFits, StateFits
<1>2. call[k].todo \in SUBSET SUBSET Sets  BY <1>1, CallKinds
<1>3. /\ run' \in FleetRuns /\ run'.target = run.target /\ run'.local = run.local
      /\ run'.state \in {"Executing", "Failed", "PausedForReview"}
      /\ run.policy \in {"Continue", "Rollback"} => run'.state = "Executing"
  <2>1. run' \in {run, Restated("Failed"), Restated("PausedForReview")}
    BY DEF apply_failure_policy, Restated
  <2>2. run.policy \in {"Continue", "Rollback"} => run' = run  BY DEF apply_failure_policy
  <2>3. {"Failed", "PausedForReview"} \subseteq FleetRunStates  BY DEF FleetRunStates
  <2>4. QED  BY <1>0, <1>1, <2>1, <2>2, <2>3, Restating
<1>4. PICK q \in CallStates :
        /\ call' = [call EXCEPT ![k] = q] /\ q.pc \in {"rollback", "batches"}
        /\ q.pc = "rollback" => run.policy = "Rollback"
        /\ q.pc = "batches" => q.todo \subseteq call[k].todo /\ (q.todo # {} => run.policy = "Continue")
  <2> DEFINE f(T) == [pc |-> "batches", todo |-> T]
             r == [pc |-> "rollback"]
  <2>1. \A T \in SUBSET SUBSET Sets : f(T) \in CallStates /\ f(T).pc = "batches" /\ f(T).todo = T
    BY DEF CallStates
  <2>2. r \in CallStates /\ r.pc = "rollback"  BY DEF CallStates
  <2>3. \/ run.policy = "Continue" /\ call' = [call EXCEPT ![k] = f(call[k].todo)]
        \/ run.policy = "Rollback" /\ call' = [call EXCEPT ![k] = r]
        \/ call' = [call EXCEPT ![k] = f({})]
    BY <1>0 DEF apply_failure_policy
  <2> HIDE DEF f, r
  <2>4. QED  BY <1>2, <2>1, <2>2, <2>3
<1>5. \A l \in Calls : call'[l] = q  BY <1>0, <1>4
<1>6. StateFits'  BY <1>3, <1>4, <1>5 DEF StateFits
<1>7. TargetsFit'  BY <1>1, <1>3, BeforeRollback DEF TargetsFit
<1>8. q.pc = "batches" =>
        \A b \in q.todo : /\ \A c \in b : run.target[c] = "Pending"
                          /\ \A d \in q.todo : b # d => b \cap d = {}
  BY <1>1, <1>4 DEF FleetInv, FleetFits, TodoFits
<1>9. QED  BY <1>1, <1>3, <1>4, <1>6, <1>7, <1>8, PaperWork

LEMMA Ending ==
  ASSUME FleetInv, NEW k \in Calls, Alone(k), EndExecution(k)
  PROVE  FleetKept
<1> USE DEF Alone
<1>0. call \in [Calls -> CallStates] /\ run \in FleetRuns  BY DEF FleetInv, FleetTypeOK
<1>1. /\ call[k].pc = "batches" /\ run.state \in {"Executing", "PausedForReview", "Failed"}
      /\ job' = job /\ cs' = cs
  BY DEF EndExecution, KeepChanges, FleetInv, FleetFits, StateFits
<1>2. PICK q \in CallStates :
        /\ call' = [call EXCEPT ![k] = q] 
        /\ \/ q.pc = "idle" /\ run' = run /\ run.state # "Executing"
           \/ q.pc = "verify" /\ run' = Restated("Verifying")
  <2> DEFINE v == [pc |-> "verify"]
  <2>1. v \in CallStates /\ v.pc = "verify" /\ IdleCall \in CallStates /\ IdleCall.pc = "idle"
    BY DEF CallStates, IdleCall
  <2>2. \/ /\ call' = [call EXCEPT ![k] = IdleCall] /\ run' = run /\ run.state # "Executing"
        \/ call' = [call EXCEPT ![k] = v] /\ run' = Restated("Verifying")
    BY DEF EndExecution, Restated
  <2> HIDE DEF v
  <2>3. QED  BY <2>1, <2>2
<1>3. /\ run' \in FleetRuns /\ run'.target = run.target /\ run'.local = run.local
      /\ run'.state \in {"PausedForReview", "Failed", "Verifying"}
      /\ q.pc = "verify" => run'.state = "Verifying"
  BY <1>0, <1>1, <1>2, Restating DEF FleetRunStates
<1>4. \A l \in Calls : call'[l] = q  BY <1>0, <1>2
<1>5. StateFits'  BY <1>2, <1>3, <1>4 DEF StateFits
<1>6. TargetsFit'  BY <1>1, <1>3, BeforeRollback DEF TargetsFit
<1>7. QED  BY <1>1, <1>2, <1>3, <1>5, <1>6, PaperWork

LEMMA Judging ==
  ASSUME FleetInv, NEW k \in Calls, Alone(k), NEW ok \in BOOLEAN, verify_fleet(k, ok)
  PROVE  FleetKept
<1> USE DEF Alone
<1>0. call \in [Calls -> CallStates] /\ run \in FleetRuns  BY DEF FleetInv, FleetTypeOK
<1>1. call[k].pc = "verify" /\ run.state = "Verifying" /\ job' = job /\ cs' = cs
  BY DEF verify_fleet, KeepChanges, FleetInv, FleetFits, StateFits
<1>2. PICK s \in {"Succeeded", "PausedForReview", "Failed"} :
        run' = Restated(s) /\ (s = "Succeeded" => ok /\ LocalOk)
  BY DEF verify_fleet, Restated
<1>3. PICK q \in CallStates :
        /\ call' = [call EXCEPT ![k] = q] /\ q.pc \in {"idle", "rollback"}
  <2> DEFINE r == [pc |-> "rollback"]
  <2>1. r \in CallStates /\ r.pc = "rollback" /\ IdleCall \in CallStates /\ IdleCall.pc = "idle"
    BY DEF CallStates, IdleCall
  <2>2. call' = [call EXCEPT ![k] = IdleCall] \/ call' = [call EXCEPT ![k] = r]
    BY DEF verify_fleet
  <2> HIDE DEF r
  <2>3. QED  BY <2>1, <2>2
<1>4. /\ run' \in FleetRuns /\ run'.target = run.target /\ run'.local = run.local /\ run'.state = s
  BY <1>2, Restating DEF FleetRunStates
<1>5. \A l \in Calls : call'[l] = q  BY <1>0, <1>3
<1>6. StateFits'  BY <1>3, <1>4, <1>5 DEF StateFits
<1>7. TargetsFit'
  <2>1. s = "Succeeded" => \A c \in Sets : run.target[c] = "Succeeded"
    BY <1>1, <1>2, BeforeRollback DEF LocalOk
  <2>2. QED  BY <1>1, <1>4, <2>1, BeforeRollback DEF TargetsFit
<1>8. QED  BY <1>1, <1>3, <1>4, <1>6, <1>7, PaperWork

LEMMA Reverting ==
  ASSUME FleetInv, NEW k \in Calls, Alone(k),
         rollback_explicit(k) \/ rollback_completed(k) \/ EndRollback(k)
  PROVE  FleetKept
<1> USE DEF Alone
<1>0. call \in [Calls -> CallStates] /\ run \in FleetRuns  BY DEF FleetInv, FleetTypeOK
<1>1. CASE rollback_explicit(k)
  <2>1. /\ call[k].pc = "idle" /\ run.state \in {"PausedForReview", "Failed", "Succeeded"}
        /\ job' = job /\ cs' = cs /\ run' = run
    BY <1>1 DEF rollback_explicit, Requested, IdleCall, KeepChanges
  <2> DEFINE q == [pc |-> "rollback"]
  <2>2. q \in CallStates /\ q.pc = "rollback" /\ call' = [call EXCEPT ![k] = q]
    BY <1>1 DEF CallStates, rollback_explicit
  <2> HIDE DEF q
  <2>3. \A l \in Calls : call'[l] = q  BY <1>0, <2>2
  <2>4. StateFits'  BY <2>1, <2>2, <2>3 DEF StateFits
  <2>5. TargetsFit'  BY <2>1, BeforeRollback DEF FleetInv, FleetFits, TargetsFit
  <2>6. QED  BY <1>0, <2>1, <2>2, <2>4, <2>5, PaperWork
<1>2. CASE rollback_completed(k)
  <2> DEFINE q == [pc |-> "next", todo |-> CompletedTargets, failed |-> \E c \in Sets : run.target[c] = "RollbackFailed"]
  <2>1. /\ call[k].pc = "rollback" /\ run.state \in {"Executing", "PausedForReview", "Failed", "Succeeded"}
        /\ job' = job /\ cs' = cs /\ run' = Restated("RollingBack")
    BY <1>2 DEF rollback_completed, KeepChanges, FleetInv, FleetFits, StateFits, Restated
  <2>2. q \in CallStates /\ q.pc = "next" /\ q.todo = CompletedTargets
        /\ (q.failed <=> \E c \in Sets : run.target[c] = "RollbackFailed")
    BY DEF CallStates, CompletedTargets
  <2>3. call' = [call EXCEPT ![k] = q]  BY <1>2 DEF rollback_completed
  <2> HIDE DEF q
  <2>4. \A l \in Calls : call'[l] = q  BY <1>0, <2>3
  <2>5. /\ run' \in FleetRuns /\ run'.target = run.target /\ run'.local = run.local /\ run'.state = "RollingBack"
    BY <2>1, Restating DEF FleetRunStates
  <2>6. StateFits'  BY <2>2, <2>4, <2>5 DEF StateFits
  <2>7. TargetsFit'  BY <2>5 DEF TargetsFit
  <2>8. \A c \in Sets : /\ run.target[c] \notin {"Executing", "RollbackPending"}
                        /\ run.target[c] = "Succeeded" => c \in q.todo
                        /\ run.target[c] = "RollbackFailed" => q.failed
    BY <2>1, <2>2, BeforeRollback DEF CompletedTargets
  <2>9. QED  BY <2>1, <2>2, <2>3, <2>5, <2>6, <2>7, <2>8, PaperWork
<1>3. CASE EndRollback(k)
  <2>1. call[k].pc = "next" /\ call[k].todo = {} /\ job' = job /\ cs' = cs
    BY <1>3 DEF EndRollback, KeepChanges
  <2>2. PICK s \in {"RollbackFailed", "RolledBack"} : run' = Restated(s) /\ (s = "RolledBack" => ~call[k].failed)
    BY <1>3 DEF EndRollback, Restated
  <2>3. /\ run' \in FleetRuns /\ run'.target = run.target /\ run'.local = run.local /\ run'.state = s
    BY <2>2, Restating DEF FleetRunStates
  <2>4. call' = [call EXCEPT ![k] = IdleCall] /\ IdleCall \in CallStates /\ IdleCall.pc = "idle"
    BY <1>3 DEF CallStates, IdleCall, EndRollback
  <2>5. \A l \in Calls : call'[l].pc = "idle"  BY <1>0, <2>4
  <2>6. StateFits'  BY <2>5 DEF StateFits
  <2>7. \A c \in Sets : run.target[c] \in TargetStates  BY <1>0 DEF FleetRuns
  <2>8. s = "RolledBack" => \A c \in Sets : run.target[c] \in {"Pending", "Failed", "RolledBack"}
    BY <2>1, <2>2, <2>7 DEF FleetInv, FleetFits, TodoFits, TargetStates
  <2>9. TargetsFit'  BY <2>3, <2>8 DEF TargetsFit
  <2>10. QED  BY <2>1, <2>3, <2>4, <2>6, <2>9, PaperWork
<1>4. QED  BY <1>1, <1>2, <1>3

(* A request works for the target and the fleet request it was made for.    *)
LEMMA Pairs ==
  ASSUME FleetInv, NEW k \in Calls, Alone(k)
  PROVE  /\ \A c \in Sets : <<k, c>> \in Jobs
         /\ \A j \in Jobs : \E c \in Sets : j = <<k, c>>
         /\ \A l \in Calls, c, d \in Sets : <<l, c>> = <<k, d>> <=> c = d
         /\ call[k].pc \notin {"running", "reversing"} => \A c \in Sets : job[<<k, c>>].op = "none"
<1>1. \A c \in Sets : <<k, c>> \in Jobs  BY FleetAssumption DEF Alone
<1>2. ASSUME NEW j \in Jobs
      PROVE  \E c \in Sets : j = <<k, c>>
  <2>1. j = <<j[1], j[2]>> /\ j[1] \in Calls /\ j[2] \in Sets  BY FleetAssumption
  <2>2. j[1] = k  BY <2>1 DEF Alone
  <2>3. QED  BY <2>1, <2>2
<1>3. \A l \in Calls, c, d \in Sets : <<l, c>> = <<k, d>> <=> c = d  BY DEF Alone
<1>4. call[k].pc \notin {"running", "reversing"} => \A c \in Sets : job[<<k, c>>].op = "none"
  BY DEF Alone, FleetInv, FleetFits, JobsFit
<1>5. QED  BY <1>1, <1>2, <1>3, <1>4

LEMMA BatchStarts ==
  ASSUME FleetInv, NEW k \in Calls, Alone(k), StartBatch(k)
  PROVE  FleetKept
<1> USE DEF Alone, FleetInv, FleetFits
<1>0. call \in [Calls -> CallStates] /\ run \in FleetRuns  BY DEF FleetTypeOK
<1>1. call[k].pc = "batches" /\ job' = job /\ cs' = cs  BY DEF StartBatch, KeepChanges
<1>2. PICK batch \in call[k].todo :
        /\ run' = [run EXCEPT !.target = [c \in Sets |-> IF c \in batch THEN "Executing" ELSE @[c]]]
        /\ call' = [call EXCEPT ![k] = [pc |-> "running", todo |-> @.todo \ {batch}, batch |-> batch,
                                        open |-> batch, failed |-> FALSE]]
  BY DEF StartBatch
<1> DEFINE q == [pc |-> "running", todo |-> call[k].todo \ {batch}, batch |-> batch,
                 open |-> batch, failed |-> FALSE]
<1>3. call[k].todo \in SUBSET SUBSET Sets /\ batch \in SUBSET Sets  BY <1>1, <1>2, CallKinds
<1>4. /\ q \in CallStates /\ q.pc = "running" /\ q.todo = call[k].todo \ {batch} /\ q.batch = batch
      /\ q.open = batch
  BY <1>3 DEF CallStates
<1>5. call' = [call EXCEPT ![k] = q]  BY <1>0, <1>2
<1> HIDE DEF q
<1>6. \A l \in Calls : call'[l] = q /\ l = k  BY <1>0, <1>5
<1>7. /\ run' \in FleetRuns /\ run'.state = run.state /\ run'.local = run.local
      /\ \A c \in Sets : run'.target[c] = IF c \in batch THEN "Executing" ELSE run.target[c]
  BY <1>0, <1>2 DEF FleetRuns, TargetStates
<1>8. run.state = "Executing"  BY <1>1, <1>2 DEF StateFits
<1>9. \A c \in batch : run.target[c] = "Pending"  BY <1>1, <1>2 DEF TodoFits
<1>10. FleetTypeOK'  BY <1>0, <1>4, <1>5, <1>7 DEF FleetTypeOK
<1>11. StateFits'  BY <1>4, <1>6, <1>7, <1>8 DEF StateFits
<1>12. Ledger'  BY <1>1, <1>7 DEF Ledger
<1>13. TargetsFit'
  <2>1. \A c \in Sets : /\ run.target[c] \notin {"Executing", "RollbackPending"}
                        /\ run.local[c] => run.target[c] = "Succeeded"
    BY <1>1, <1>8, BeforeRollback
  <2>2. \A c \in Sets : /\ run'.target[c] # "RollbackPending"
                        /\ run'.local[c] => run'.target[c] = "Succeeded"
                        /\ run'.target[c] = "Executing" => c \in batch
    BY <1>3, <1>7, <1>9, <2>1
  <2>3. QED  BY <1>4, <1>6, <1>7, <1>8, <2>2 DEF TargetsFit
<1>14. TodoFits'
  <2>1. \A b \in q.todo : /\ \A c \in b : run'.target[c] = "Pending"
                          /\ \A d \in q.todo : b # d => b \cap d = {}
    <3>1. \A b \in call[k].todo : /\ \A c \in b : run.target[c] = "Pending"
                                  /\ \A d \in call[k].todo : b # d => b \cap d = {}
      BY <1>1 DEF TodoFits
    <3>2. \A b \in q.todo : \A c \in b : c \in Sets /\ c \notin batch
      BY <1>2, <1>3, <1>4, <3>1
    <3>3. QED  BY <1>4, <1>7, <3>1, <3>2
  <2>2. \A c \in batch : /\ run'.target[c] = "Executing" /\ ~run'.local[c]
                         /\ cs'[c].exec = "NotStarted" /\ job'[<<k, c>>].op = "none"
    BY <1>1, <1>3, <1>7, <1>8, <1>9, BeforeRollback, Pairs DEF Ledger
  <2>3. call'[k] = q  BY <1>6
  <2>4. QED
    <3> SUFFICES ASSUME NEW l \in Calls, l = k
                 PROVE  TodoFits!(l)'
      BY DEF TodoFits
    <3>1. QED  BY <1>4, <2>1, <2>2, <2>3
<1>15. JobsFit'  BY <1>1, <1>6, Pairs DEF JobsFit
<1>16. QED  BY <1>10, <1>11, <1>12, <1>13, <1>14, <1>15 DEF FleetKept

(* The target's ChangeSet is executed, or its request fails at once.        *)
LEMMA Opened ==
  ASSUME FleetInv, NEW k \in Calls, Alone(k), NEW c \in Sets, ExecuteTarget(k, c)
  PROVE  \E q : /\ job' = [job EXCEPT ![<<k, c>>] = q] /\ q.c = c
                /\ (q.op = "evaluate" /\ q.for = "execute") \/ (q.op = "done" /\ q.answer = "Err")
                /\ \A d \in Sets : cs'[d].exec = cs[d].exec
<1> DEFINE e == [op |-> "done", c |-> c, answer |-> "Err"]
           v == Evaluating(c, 1, "execute")
<1>1. e.op = "done" /\ e.c = c /\ e.answer = "Err"  OBVIOUS
<1>2. v.op = "evaluate" /\ v.c = c /\ v.for = "execute"  BY DEF Evaluating
<1>3. job' = [job EXCEPT ![<<k, c>>] = e] \/ job' = [job EXCEPT ![<<k, c>>] = v]
  BY DEF ExecuteTarget, execute_with_policy
<1>4. \A d \in Sets : cs'[d].exec = cs[d].exec
  <2>1. CASE execute_with_policy(<<k, c>>, c, 1)
    <3>1. cs' = cs \/ Invalidate(c, 1)  BY <2>1 DEF execute_with_policy
    <3>2. QED  BY <3>1 DEF Invalidate, FleetInv, ChangesInv, ChangesTypeOK, Record
  <2>2. CASE cs' = cs  BY <2>2
  <2>3. QED  BY <2>1, <2>2 DEF ExecuteTarget
<1> HIDE DEF e, v
<1>5. QED  BY <1>1, <1>2, <1>3, <1>4

LEMMA TargetStarts ==
  ASSUME FleetInv, NEW k \in Calls, Alone(k), NEW c \in Sets, ExecuteTarget(k, c)
  PROVE  FleetKept
<1> USE DEF Alone, FleetInv, FleetFits
<1>0. call \in [Calls -> CallStates] /\ run \in FleetRuns /\ job \in [Jobs -> JobRecords]
  BY DEF FleetTypeOK, ChangesInv, ChangesTypeOK
<1>1. call[k].pc = "running" /\ c \in call[k].open /\ run' = run  BY DEF ExecuteTarget
<1>2. call' = [call EXCEPT ![k].open = @ \ {c}]  BY DEF ExecuteTarget
<1>3. PICK q : /\ job' = [job EXCEPT ![<<k, c>>] = q] /\ q.c = c
               /\ (q.op = "evaluate" /\ q.for = "execute") \/ (q.op = "done" /\ q.answer = "Err")
               /\ \A d \in Sets : cs'[d].exec = cs[d].exec
  BY Opened
<1>4. call[k] \in [pc : {"running"}, todo : SUBSET SUBSET Sets, batch : SUBSET Sets, open : SUBSET Sets, failed : BOOLEAN]
  BY <1>1, CallKinds
<1> DEFINE r == [call[k] EXCEPT !.open = @ \ {c}]
<1>5. /\ r \in [pc : {"running"}, todo : SUBSET SUBSET Sets, batch : SUBSET Sets, open : SUBSET Sets, failed : BOOLEAN]
      /\ r.pc = "running" /\ r.todo = call[k].todo /\ r.batch = call[k].batch /\ r.open = call[k].open \ {c}
  BY <1>4
<1>6. call' = [call EXCEPT ![k] = r] /\ r \in CallStates  BY <1>0, <1>2, <1>5 DEF CallStates
<1> HIDE DEF r
<1>7. \A l \in Calls : call'[l] = r /\ l = k  BY <1>0, <1>6
<1>8. /\ job'[<<k, c>>] = q
      /\ \A d \in Sets \ {c} : job'[<<k, d>>] = job[<<k, d>>]
  BY <1>0, <1>3, Pairs
<1>9. cs[c].exec = "NotStarted" /\ c \in call[k].batch  BY <1>1 DEF TodoFits
<1>10. FleetTypeOK'  BY <1>0, <1>1, <1>6 DEF FleetTypeOK
<1>11. StateFits'  BY <1>1, <1>5, <1>7 DEF StateFits
<1>12. Ledger'  BY <1>1, <1>3 DEF Ledger
<1>13. TargetsFit'  BY <1>1, <1>5, <1>7 DEF TargetsFit
<1>14. TodoFits'
  <2>1. \A d \in r.open : d \in Sets /\ d # c  BY <1>4, <1>5
  <2>2. \A d \in r.open : cs'[d].exec = "NotStarted" /\ job'[<<k, d>>].op = "none"
    BY <1>1, <1>3, <1>5, <1>8, <2>1 DEF TodoFits
  <2>3. QED  BY <1>1, <1>5, <1>7, <2>2 DEF TodoFits
<1>15. JobsFit'
  <2> SUFFICES ASSUME NEW d \in Sets, job'[<<k, d>>].op # "none"
               PROVE  /\ job'[<<k, d>>].c = d /\ d \in call[k].batch \ r.open
                      /\ Executes(job'[<<k, d>>], cs'[d].exec)
    BY <1>5, <1>7 DEF JobsFit
  <2>1. CASE d = c  BY <1>3, <1>5, <1>8, <1>9, <2>1 DEF Executes
  <2>2. CASE d # c  BY <1>1, <1>3, <1>5, <1>8, <2>2 DEF JobsFit
  <2>3. QED  BY <2>1, <2>2
<1>16. QED  BY <1>10, <1>11, <1>12, <1>13, <1>14, <1>15 DEF FleetKept

LEMMA BatchEnds ==
  ASSUME FleetInv, NEW k \in Calls, Alone(k), RecordBatch(k)
  PROVE  FleetKept /\ ChangesInv' /\ Tells'
<1> USE DEF Alone, FleetInv, FleetFits
<1>0. call \in [Calls -> CallStates] /\ run \in FleetRuns /\ job \in [Jobs -> JobRecords]
  BY DEF FleetTypeOK, ChangesInv, ChangesTypeOK
<1> DEFINE Answer(c) == job[<<k, c>>].answer
<1>1. /\ call[k].pc = "running" /\ call[k].open = {} /\ cs' = cs
      /\ \A c \in call[k].batch : job[<<k, c>>].op = "done"
      /\ run' = [run EXCEPT
                   !.target = [c \in Sets |-> IF c \in call[k].batch THEN TargetState(Answer(c)) ELSE @[c]],
                   !.local = [c \in Sets |-> IF c \in call[k].batch THEN Answer(c) = "Committed" ELSE @[c]]]
      /\ job' = [j \in Jobs |-> IF j[1] = k THEN NoExecution ELSE job[j]]
  BY DEF RecordBatch
<1>2. PICK p \in {"failed", "batches"} : call' = [call EXCEPT ![k] = [pc |-> p, todo |-> call[k].todo]]
  BY <1>0 DEF RecordBatch
<1> DEFINE q == [pc |-> p, todo |-> call[k].todo]
<1>3. call[k].todo \in SUBSET SUBSET Sets /\ call[k].batch \in SUBSET Sets  BY <1>1, CallKinds
<1>4. q \in CallStates /\ q.pc = p /\ q.todo = call[k].todo /\ call' = [call EXCEPT ![k] = q]
  BY <1>2, <1>3 DEF CallStates
<1> HIDE DEF q
<1>5. \A l \in Calls : call'[l] = q /\ l = k  BY <1>0, <1>4
<1>6. \A s : TargetState(s) \in {"Succeeded", "RolledBack", "RollbackFailed", "Failed"}
  BY DEF TargetState
<1>7. /\ run' \in FleetRuns /\ run'.state = run.state
      /\ \A c \in Sets : run'.target[c] = IF c \in call[k].batch THEN TargetState(Answer(c)) ELSE run.target[c]
      /\ \A c \in Sets : run'.local[c] = IF c \in call[k].batch THEN Answer(c) = "Committed" ELSE run.local[c]
  <2> HIDE DEF Answer
  <2> DEFINE t == [c \in Sets |-> IF c \in call[k].batch THEN TargetState(Answer(c)) ELSE run.target[c]]
             o == [c \in Sets |-> IF c \in call[k].batch THEN Answer(c) = "Committed" ELSE run.local[c]]
  <2>1. run' = [run EXCEPT !.target = t, !.local = o]  BY <1>0, <1>1 DEF FleetRuns, Answer
  <2>2. t \in [Sets -> TargetStates]  BY <1>0, <1>6 DEF FleetRuns, TargetStates
  <2>3. o \in [Sets -> BOOLEAN]  BY <1>0 DEF FleetRuns
  <2>4. run' \in FleetRuns /\ run'.state = run.state /\ run'.target = t /\ run'.local = o
    <3> HIDE DEF t, o
    <3>1. QED  BY <1>0, <2>1, <2>2, <2>3 DEF FleetRuns
  <2>5. QED  BY <2>4 DEF Answer
<1>8. \A c \in call[k].batch :
        \/ Answer(c) = "Err" /\ cs[c].exec = "NotStarted"
        \/ Answer(c) = cs[c].exec /\ cs[c].exec \in {"Committed", "Failed", "RolledBack", "RollbackFailed"}
  BY <1>1, <1>3 DEF JobsFit, Executes
<1>9. \A j \in Jobs : job'[j] = NoExecution /\ job[j].op \in {"none", "done"}
  <2> SUFFICES ASSUME NEW c \in Sets
               PROVE  job'[<<k, c>>] = NoExecution /\ job[<<k, c>>].op \in {"none", "done"}
    BY Pairs
  <2>1. job'[<<k, c>>] = NoExecution  BY <1>1, Pairs
  <2>2. job[<<k, c>>].op \in {"none", "done"}  BY <1>1 DEF JobsFit
  <2>3. QED  BY <2>1, <2>2
<1>10. FleetTypeOK'  BY <1>0, <1>4, <1>7 DEF FleetTypeOK
<1>11. run.state = "Executing"  BY <1>1 DEF StateFits
<1>12. StateFits'  BY <1>4, <1>5, <1>7, <1>11 DEF StateFits
<1>13. Ledger'
  <2>1. \A c \in call[k].batch :
          /\ run'.target[c] # "Pending"
          /\ run'.target[c] = "Succeeded" => cs[c].exec = "Committed"
          /\ run'.target[c] = "Failed" => cs[c].exec \in {"NotStarted", "Failed"}
          /\ run'.target[c] = "RolledBack" => cs[c].exec = "RolledBack"
    <3> HIDE DEF Answer
    <3>1. \A c \in call[k].batch : run'.target[c] = TargetState(Answer(c))  BY <1>3, <1>7
    <3>2. QED  BY <1>8, <3>1 DEF TargetState
  <2>2. QED  BY ZenonT(40), <1>1, <1>7, <2>1 DEF Ledger
<1>14. TargetsFit'
  <2>1. \A c \in Sets : /\ run'.target[c] \notin {"RollbackPending", "Executing"}
                        /\ run'.local[c] => run'.target[c] = "Succeeded"
    <3> HIDE DEF Answer
    <3>1. \A c \in Sets : /\ run.target[c] # "RollbackPending"
                          /\ run.local[c] => run.target[c] = "Succeeded"
                          /\ run.target[c] = "Executing" => c \in call[k].batch
      BY <1>11 DEF TargetsFit
    <3>2. \A c \in call[k].batch : /\ run'.target[c] = TargetState(Answer(c))
                                   /\ run'.local[c] => Answer(c) = "Committed"
      BY <1>3, <1>7
    <3>3. TargetState("Committed") = "Succeeded"  BY DEF TargetState
    <3>4. QED  BY <1>6, <1>7, <3>1, <3>2, <3>3
  <2>2. QED  BY <1>7, <1>11, <2>1 DEF TargetsFit
<1>15. TodoFits'
  <2>1. \A b \in q.todo : /\ \A c \in b : run'.target[c] = "Pending"
                          /\ \A d \in q.todo : b # d => b \cap d = {}
    <3>1. \A b \in call[k].todo : /\ \A c \in b : run.target[c] = "Pending"
                                  /\ \A d \in call[k].todo : b # d => b \cap d = {}
      BY <1>1 DEF TodoFits
    <3>2. \A c \in call[k].batch : run.target[c] = "Executing"  BY <1>1 DEF TodoFits
    <3>3. \A b \in call[k].todo : \A c \in b : c \in Sets /\ c \notin call[k].batch  BY <1>3, <3>1, <3>2
    <3>4. QED  BY <1>4, <1>7, <3>1, <3>3
  <2>2. QED  BY <1>4, <1>5, <2>1 DEF TodoFits
<1>16. JobsFit'  BY <1>5, <1>9, Pairs DEF JobsFit, NoExecution
<1>17. ChangesInv' /\ Tells'
  <2>1. job' \in [Jobs -> JobRecords]  BY <1>1, <1>9 DEF JobRecords
  <2>2. \A j \in Jobs : ~Busy(j) /\ Resting(job'[j])  BY <1>9 DEF Busy, Resting, NoExecution
  <2>3. host' = host /\ bound' = bound /\ policy' = policy /\ up' = up  BY DEF RecordBatch
  <2>4. QED  BY <1>1, <2>1, <2>2, <2>3, QuietRequests
<1>18. QED  BY <1>10, <1>12, <1>13, <1>14, <1>15, <1>16, <1>17 DEF FleetKept

LEMMA OneLast ==
  ASSUME NEW S \in SUBSET Sets, NEW c \in S, NEW d \in S, LastTarget(c, S), LastTarget(d, S)
  PROVE  c = d
<1>1. c <= d /\ d <= c /\ c \in Int /\ d \in Int  BY FleetAssumption DEF LastTarget
<1>2. QED  BY <1>1

LEMMA RollbackStarts ==
  ASSUME FleetInv, NEW k \in Calls, Alone(k), RollbackTarget(k)
  PROVE  FleetKept
<1> USE DEF Alone, FleetInv, FleetFits
<1>0. call \in [Calls -> CallStates] /\ run \in FleetRuns /\ job \in [Jobs -> JobRecords]
  BY DEF FleetTypeOK, ChangesInv, ChangesTypeOK
<1>1. PICK c \in call[k].todo :
        /\ call[k].pc = "next" /\ LastTarget(c, call[k].todo)
        /\ run' = [run EXCEPT !.target[c] = "RollbackPending"]
        /\ call' = [call EXCEPT ![k].pc = "reversing"]
        /\ cs' = cs
        /\ \/ rollback(<<k, c>>, c, 1)
           \/ job' = [job EXCEPT ![<<k, c>>] = [op |-> "done", c |-> c, answer |-> "Err"]]
  BY DEF RollbackTarget, rollback
<1>2. call[k] \in [pc : {"next", "reversing"}, todo : SUBSET Sets, failed : BOOLEAN]  BY <1>1, CallKinds
<1>3. c \in Sets /\ call[k].todo \in SUBSET Sets  BY <1>1, <1>2
<1> DEFINE r == [call[k] EXCEPT !.pc = "reversing"]
<1>4. /\ r \in [pc : {"next", "reversing"}, todo : SUBSET Sets, failed : BOOLEAN]
      /\ r.pc = "reversing" /\ r.todo = call[k].todo /\ r.failed = call[k].failed
  BY <1>2
<1>5. call' = [call EXCEPT ![k] = r] /\ r \in CallStates  BY <1>0, <1>1, <1>4 DEF CallStates
<1> HIDE DEF r
<1>6. \A l \in Calls : call'[l] = r /\ l = k  BY <1>0, <1>5
<1>7. /\ run' \in FleetRuns /\ run'.state = run.state
      /\ run'.target[c] = "RollbackPending"
      /\ \A d \in Sets \ {c} : run'.target[d] = run.target[d]
  BY <1>0, <1>1, <1>3 DEF FleetRuns, TargetStates
<1>8. PICK q : job' = [job EXCEPT ![<<k, c>>] = q] /\ q.c = c /\ (q.op = "reverse" \/ (q.op = "done" /\ q.answer = "Err"))
  <2> DEFINE e == [op |-> "done", c |-> c, answer |-> "Err"]
             v == [op |-> "reverse", c |-> c,
                   own |-> [cs[c] EXCEPT !.exec = "RollbackFailed"],
                   todo |-> Files(c, Completed(c, cs[c])),
                   tried |-> Files(c, Completed(c, cs[c])) # {},
                   failed |-> Files(c, Completed(c, cs[c])) # Completed(c, cs[c])]
  <2>1. e.op = "done" /\ e.c = c /\ e.answer = "Err" /\ v.op = "reverse" /\ v.c = c  OBVIOUS
  <2>2. job' = [job EXCEPT ![<<k, c>>] = e] \/ job' = [job EXCEPT ![<<k, c>>] = v]
    BY <1>1 DEF rollback
  <2> HIDE DEF e, v
  <2>3. QED  BY <2>1, <2>2
<1>9. job'[<<k, c>>] = q /\ \A d \in Sets \ {c} : job'[<<k, d>>].op = "none"
  BY <1>0, <1>1, <1>3, <1>8, Pairs
<1>10. FleetTypeOK'  BY <1>0, <1>5, <1>7 DEF FleetTypeOK
<1>11. run.state = "RollingBack"  BY <1>1 DEF StateFits
<1>12. StateFits'  BY <1>4, <1>6, <1>7, <1>11 DEF StateFits
<1>13. Ledger'  BY <1>1, <1>7 DEF Ledger
<1>14. TargetsFit'  BY <1>7, <1>11 DEF TargetsFit
<1>15. TodoFits'
  <2>1. \A d \in Sets :
          /\ run'.target[d] # "Executing"
          /\ run'.target[d] = "Succeeded" => d \in r.todo
          /\ run'.target[d] = "RollbackFailed" => r.failed
          /\ run'.target[d] = "RollbackPending" => d = c
    BY <1>1, <1>4, <1>7 DEF TodoFits
  <2>2. \A d \in r.todo : LastTarget(d, r.todo) => run'.target[d] = "RollbackPending"
    BY <1>1, <1>3, <1>4, <1>7, OneLast
  <2>3. call'[k] = r  BY <1>6
  <2>4. QED
    <3> SUFFICES ASSUME NEW l \in Calls, l = k
                 PROVE  TodoFits!(l)'
      BY DEF TodoFits
    <3>1. QED  BY <1>1, <1>4, <2>1, <2>2, <2>3
<1>16. JobsFit'
  <2> SUFFICES ASSUME NEW d \in Sets, job'[<<k, d>>].op # "none"
               PROVE  /\ job'[<<k, d>>].c = d /\ d \in r.todo /\ LastTarget(d, r.todo)
                      /\ Reverses(job'[<<k, d>>], cs'[d].exec)
    BY <1>4, <1>6 DEF JobsFit
  <2>1. d = c  BY <1>9
  <2>2. QED  BY <1>1, <1>4, <1>8, <1>9, <2>1 DEF Reverses
<1>17. QED  BY <1>10, <1>12, <1>13, <1>14, <1>15, <1>16 DEF FleetKept

LEMMA RollbackEnds ==
  ASSUME FleetInv, NEW k \in Calls, Alone(k), RecordRollback(k)
  PROVE  FleetKept /\ ChangesInv' /\ Tells'
<1> USE DEF Alone, FleetInv, FleetFits
<1>0. call \in [Calls -> CallStates] /\ run \in FleetRuns /\ job \in [Jobs -> JobRecords]
  BY DEF FleetTypeOK, ChangesInv, ChangesTypeOK
<1>1. PICK c \in call[k].todo :
        /\ call[k].pc = "reversing" /\ LastTarget(c, call[k].todo) /\ job[<<k, c>>].op = "done"
        /\ LET ok == job[<<k, c>>].answer = "RolledBack"
           IN /\ run' = [run EXCEPT !.target[c] = IF ok THEN "RolledBack" ELSE "RollbackFailed"]
              /\ call' = [call EXCEPT ![k] = [pc |-> "next", todo |-> @.todo \ {c}, failed |-> @.failed \/ ~ok]]
        /\ job' = [job EXCEPT ![<<k, c>>] = NoExecution]
        /\ UNCHANGED <<cs, bound, host, policy, up, drifts>>
  BY DEF RecordRollback
<1> DEFINE ok == job[<<k, c>>].answer = "RolledBack"
           r == [pc |-> "next", todo |-> call[k].todo \ {c}, failed |-> call[k].failed \/ ~ok]
<1>2. call[k] \in [pc : {"next", "reversing"}, todo : SUBSET Sets, failed : BOOLEAN]  BY <1>1, CallKinds
<1>3. c \in Sets /\ call[k].todo \in SUBSET Sets  BY <1>1, <1>2
<1>4. /\ r \in CallStates /\ r.pc = "next" /\ r.todo = call[k].todo \ {c}
      /\ r.failed <=> (call[k].failed \/ ~ok)
  <2>1. (call[k].failed \/ ~ok) \in BOOLEAN  OBVIOUS
  <2>2. r \in [pc : {"next", "reversing"}, todo : SUBSET Sets, failed : BOOLEAN]  BY <1>3
  <2>3. QED  BY <2>2 DEF CallStates
<1>5. call' = [call EXCEPT ![k] = r]  BY <1>0, <1>1
<1> HIDE DEF r
<1>6. \A l \in Calls : call'[l] = r /\ l = k  BY <1>0, <1>5
<1>7. /\ run' \in FleetRuns /\ run'.state = run.state
      /\ run'.target[c] = IF ok THEN "RolledBack" ELSE "RollbackFailed"
      /\ \A d \in Sets \ {c} : run'.target[d] = run.target[d]
  <2> DEFINE t == IF ok THEN "RolledBack" ELSE "RollbackFailed"
  <2>1. run' = [run EXCEPT !.target[c] = t] /\ t \in TargetStates  BY <1>1 DEF TargetStates
  <2> HIDE DEF t
  <2>2. run' \in FleetRuns /\ run'.state = run.state /\ run'.target = [run.target EXCEPT ![c] = t]
    BY <1>0, <1>3, <2>1 DEF FleetRuns
  <2>3. QED  BY <1>0, <1>3, <2>2 DEF FleetRuns, t
<1>8. /\ job[<<k, c>>].c = c /\ Reverses(job[<<k, c>>], cs[c].exec)
      /\ \A d \in Sets : job'[<<k, d>>].op = "none"
  <2>1. job[<<k, c>>].c = c /\ Reverses(job[<<k, c>>], cs[c].exec)  BY <1>1, <1>3 DEF JobsFit
  <2>2. \A d \in Sets \ {c} : job[<<k, d>>].op = "none"  BY <1>1, <1>3, OneLast DEF JobsFit
  <2>3. QED  BY <1>0, <1>1, <1>3, <2>1, <2>2, Pairs DEF NoExecution
<1>9. ok => cs[c].exec = "RolledBack"  BY <1>1, <1>8 DEF Reverses
<1>10. FleetTypeOK'  BY <1>0, <1>4, <1>5, <1>7 DEF FleetTypeOK
<1>11. run.state = "RollingBack"  BY <1>1 DEF StateFits
<1>12. StateFits'  BY <1>4, <1>6, <1>7, <1>11 DEF StateFits
<1>13. Ledger'
  <2>1. /\ run'.target[c] \in {"RolledBack", "RollbackFailed"}
        /\ run'.target[c] = "RolledBack" => cs[c].exec = "RolledBack"
    BY <1>7, <1>9
  <2>2. cs' = cs  BY <1>1
  <2> HIDE DEF ok
  <2>3. QED  BY <1>7, <2>1, <2>2 DEF Ledger
<1>14. TargetsFit'  BY <1>7, <1>11 DEF TargetsFit
<1>15. TodoFits'
  <2>1. \A d \in Sets :
          /\ run.target[d] # "Executing"
          /\ run.target[d] = "Succeeded" => d \in call[k].todo
          /\ run.target[d] = "RollbackFailed" => call[k].failed
          /\ run.target[d] = "RollbackPending" => d = c
    BY <1>1, <1>3, OneLast DEF TodoFits
  <2>2. \A d \in Sets :
          /\ run'.target[d] \notin {"Executing", "RollbackPending"}
          /\ run'.target[d] = "Succeeded" => d \in r.todo
          /\ run'.target[d] = "RollbackFailed" => r.failed
    <3> SUFFICES ASSUME NEW d \in Sets
                 PROVE  /\ run'.target[d] \notin {"Executing", "RollbackPending"}
                        /\ run'.target[d] = "Succeeded" => d \in r.todo
                        /\ run'.target[d] = "RollbackFailed" => r.failed
      OBVIOUS
    <3>1. CASE d = c  BY <1>4, <1>7, <3>1
    <3>2. CASE d # c
      <4>1. run'.target[d] = run.target[d]  BY <1>7, <3>2
      <4>2. QED  BY <1>4, <2>1, <3>2, <4>1
    <3>3. QED  BY <3>1, <3>2
  <2>3. call'[k] = r  BY <1>6
  <2>4. QED
    <3> SUFFICES ASSUME NEW l \in Calls, l = k
                 PROVE  TodoFits!(l)'
      BY DEF TodoFits
    <3>1. QED  BY <1>4, <2>2, <2>3
<1>16. JobsFit'  BY <1>8 DEF JobsFit
<1>17. ChangesInv' /\ Tells'
  <2>1. job' \in [Jobs -> JobRecords]  BY <1>0, <1>1 DEF JobRecords
  <2>2. \A j \in Jobs : job'[j] = job[j] \/ (~Busy(j) /\ Resting(job'[j]))
    BY <1>0, <1>1 DEF Busy, Resting, NoExecution
  <2>3. QED  BY <1>1, <2>1, <2>2, QuietRequests
<1>18. QED  BY <1>10, <1>12, <1>13, <1>14, <1>15, <1>16, <1>17 DEF FleetKept

(* Nothing of this touches the fleet.                                       *)
LEMMA Elsewhere ==
  ASSUME FleetInv, run' = run, call' = call, job' = job, \A c \in Sets : cs'[c].exec = cs[c].exec
  PROVE  FleetKept
<1>0. FleetTypeOK /\ StateFits /\ Ledger /\ TargetsFit /\ TodoFits /\ JobsFit  BY DEF FleetInv, FleetFits
<1>1. FleetTypeOK' /\ StateFits' /\ TargetsFit'  BY <1>0 DEF FleetTypeOK, StateFits, TargetsFit
<1>2. run'.target = run.target  OBVIOUS
<1>3. Ledger'  BY <1>0, <1>2 DEF Ledger
<1>4. TodoFits'
  <2>1. \A k \in Calls : call[k].pc = "running" =>
          \A c \in call[k].open : cs'[c].exec = cs[c].exec
    BY <1>0, CallKinds
  <2>2. run'.local = run.local  OBVIOUS
  <2>3. QED
    <3> SUFFICES ASSUME NEW k \in Calls
                 PROVE  TodoFits!(k)'
      BY DEF TodoFits
    <3>1. TodoFits!(k)  BY <1>0 DEF TodoFits
    <3>2. QED  BY <1>2, <2>1, <2>2, <3>1
<1>5. JobsFit'  BY <1>0 DEF JobsFit
<1>6. QED  BY <1>1, <1>3, <1>4, <1>5 DEF FleetKept, FleetFits

(* A request for a target goes on.                                          *)
LEMMA Working ==
  ASSUME FleetInv, NEW k \in Calls, Alone(k), JobStep, run' = run, call' = call
  PROVE  FleetKept
<1> USE DEF Alone, FleetInv, FleetFits
<1>0. job \in [Jobs -> JobRecords]  BY DEF ChangesInv, ChangesTypeOK
<1>1. PICK j \in Jobs : JobActs(j)  BY DEF JobStep, JobActs
<1>2. job[j].op # "none" /\ OwnEffect(j, job[j].c)  BY <1>1, JobEffect
<1>3. PICK d \in Sets : j = <<k, d>>  BY Pairs
<1>4. job[j].c = d  BY <1>2, <1>3 DEF JobsFit
<1>5. /\ \A c \in Sets \ {d} : cs'[c].exec = cs[c].exec /\ job'[<<k, c>>] = job[<<k, c>>]
      /\ job'[<<k, d>>].c = d
      /\ Executes(job[<<k, d>>], cs[d].exec) => Executes(job'[<<k, d>>], cs'[d].exec)
      /\ Reverses(job[<<k, d>>], cs[d].exec) => Reverses(job'[<<k, d>>], cs'[d].exec)
  BY <1>2, <1>3, <1>4, Pairs DEF OwnEffect
<1>6. \/ call[k].pc = "running" /\ d \in call[k].batch \ call[k].open /\ Executes(job[<<k, d>>], cs[d].exec)
      \/ /\ call[k].pc = "reversing" /\ d \in call[k].todo /\ LastTarget(d, call[k].todo)
         /\ Reverses(job[<<k, d>>], cs[d].exec)
  BY <1>2, <1>3 DEF JobsFit
<1>7. run.target[d] \in {"Executing", "RollbackPending"}  BY <1>6 DEF TodoFits
<1>8. FleetTypeOK' /\ StateFits' /\ TargetsFit'  BY DEF FleetTypeOK, StateFits, TargetsFit
<1>9. Ledger'  BY <1>5, <1>7 DEF Ledger
<1>10. TodoFits'
  <2>1. call[k].pc = "running" =>
          /\ call[k].open \subseteq call[k].batch /\ call[k].batch \subseteq Sets
          /\ \A c \in call[k].open : cs[c].exec = "NotStarted" /\ job[<<k, c>>].op = "none"
    BY CallKinds DEF TodoFits
  <2>2. call[k].pc = "running" =>
          \A c \in call[k].open : cs'[c].exec = "NotStarted" /\ job'[<<k, c>>].op = "none"
    BY <1>5, <1>6, <2>1
  <2>3. QED  BY <2>2 DEF TodoFits
<1>11. JobsFit'
  <2> SUFFICES ASSUME NEW c \in Sets, job'[<<k, c>>].op # "none"
               PROVE  /\ job'[<<k, c>>].c = c
                      /\ \/ /\ call[k].pc = "running" /\ c \in call[k].batch \ call[k].open
                            /\ Executes(job'[<<k, c>>], cs'[c].exec)
                         \/ /\ call[k].pc = "reversing" /\ c \in call[k].todo /\ LastTarget(c, call[k].todo)
                            /\ Reverses(job'[<<k, c>>], cs'[c].exec)
    BY DEF JobsFit
  <2>1. CASE c = d  BY <1>5, <1>6, <2>1
  <2>2. CASE c # d  BY <1>5, <2>2 DEF JobsFit
  <2>3. QED  BY <2>1, <2>2
<1>12. QED  BY <1>8, <1>9, <1>10, <1>11 DEF FleetKept

LEMMA FleetRestarts ==
  ASSUME FleetInv, RestartFleet
  PROVE  FleetKept
<1> USE DEF FleetInv, FleetFits
<1>1. call' = [k \in Calls |-> IdleCall] /\ job' = [j \in Jobs |-> NoExecution]
  BY DEF RestartFleet, ChangesRestart
<1>2. \A k \in Calls : call'[k] = IdleCall /\ call'[k].pc = "idle"  BY <1>1 DEF IdleCall
<1>3. /\ run' \in FleetRuns /\ run'.target = run.target /\ run'.local = run.local
      /\ run'.state = IF run.state \in InFlight THEN "Interrupted" ELSE run.state
  BY DEF RestartFleet, FleetTypeOK, FleetRuns, FleetRunStates
<1>4. \A c \in Sets : cs'[c].exec = cs[c].exec \/ cs[c].exec = "Executing"
  <2>1. \A c \in Sets : Recovered(cs[c]).exec = IF cs[c].exec = "Executing" THEN "Interrupted" ELSE cs[c].exec
    BY DEF Recovered, ChangesInv, ChangesTypeOK, Record
  <2> HIDE DEF FleetInv
  <2>2. cs' = [c \in Sets |-> Recovered(cs[c])] \/ cs' = cs  BY DEF RestartFleet, ChangesRestart
  <2>3. QED  BY <2>1, <2>2
<1>5. FleetTypeOK'  BY <1>1, <1>3 DEF FleetTypeOK, CallStates
<1>6. StateFits'  BY <1>2 DEF StateFits
<1>7. Ledger'  BY <1>3, <1>4 DEF Ledger
<1>8. TargetsFit'  BY <1>3 DEF TargetsFit, StateFits, InFlight
<1>9. TodoFits'  BY <1>2 DEF TodoFits
<1>10. JobsFit'
  <2>1. \A k \in Calls, c \in Sets : job'[<<k, c>>].op = "none"  BY <1>1, FleetAssumption DEF NoExecution
  <2>2. QED  BY <2>1 DEF JobsFit
<1>11. QED  BY <1>5, <1>6, <1>7, <1>8, <1>9, <1>10 DEF FleetKept

(* What a fleet does to its ChangeSets is what their service does.          *)
LEMMA FleetSound ==
  ASSUME FleetInv, \A k, l \in Calls : k = l, FleetNext
  PROVE  ChangesInv' /\ Tells'
<1>0. ChangesInv /\ Tells /\ job \in [Jobs -> JobRecords]  BY DEF FleetInv, ChangesInv, ChangesTypeOK
<1>1. ASSUME KeepChanges PROVE ChangesInv' /\ Tells'
  BY <1>0, <1>1, QuietRequests DEF KeepChanges
<1>2. 1 \in Versions  BY ChangeSetAssumption DEF Versions
<1>3. ASSUME NEW k \in Calls, FleetStep(k) PROVE ChangesInv' /\ Tells'
  <2>0. Alone(k) /\ \A c \in Sets : <<k, c>> \in Jobs  BY FleetAssumption DEF Alone
  <2>1. CASE MarkApproved(k) \/ ClaimFleet(k) \/ StartBatch(k) \/ apply_failure_policy(k) \/ EndExecution(k)
             \/ rollback_completed(k) \/ EndRollback(k) \/ \E ok \in BOOLEAN : verify_fleet(k, ok)
    BY <1>1, <2>1 DEF MarkApproved, ClaimFleet, StartBatch, apply_failure_policy, EndExecution,
                      rollback_completed, EndRollback, verify_fleet
  <2>2. CASE RecordBatch(k)  BY <2>0, <2>2, BatchEnds
  <2>3. CASE RecordRollback(k)  BY <2>0, <2>3, RollbackEnds
  <2>4. ASSUME NEW c \in Sets, ApproveTarget(k, c) PROVE ChangesInv' /\ Tells'
    <3>1. CASE approve(c, 1)
      <4>1. ServiceStep  BY <1>2, <3>1 DEF ServiceStep
      <4>2. QED  BY <1>0, <4>1, ServiceSound DEF ChangesNext
    <3>2. QED  BY <1>1, <2>4, <3>1 DEF ApproveTarget
  <2>5. ASSUME NEW c \in Sets, NEW e, e.op = "done", e \in JobRecords, job[<<k, c>>].op = "none",
               job' = [job EXCEPT ![<<k, c>>] = e], UNCHANGED <<cs, bound, host, policy, up, drifts>>
        PROVE  ChangesInv' /\ Tells'
    <3>1. job' \in [Jobs -> JobRecords]  BY <1>0, <2>5
    <3>2. \A j \in Jobs : job'[j] = job[j] \/ (~Busy(j) /\ Resting(job'[j]))
      BY <1>0, <2>0, <2>5 DEF Busy, Resting
    <3>3. QED  BY <1>0, <2>5, <3>1, <3>2, QuietRequests
  <2>6. ASSUME NEW c \in Sets
        PROVE  /\ [op |-> "done", c |-> c, answer |-> "Err"] \in JobRecords
               /\ [op |-> "done", c |-> c, answer |-> "Err"].op = "done"
    BY DEF JobRecords, Done, Answers
  <2>7. ASSUME NEW c \in Sets, ExecuteTarget(k, c) PROVE ChangesInv' /\ Tells'
    <3>1. CASE execute_with_policy(<<k, c>>, c, 1)
      <4>1. ServiceStep  BY <1>2, <2>0, <3>1 DEF ServiceStep
      <4>2. QED  BY <1>0, <4>1, ServiceSound DEF ChangesNext
    <3>2. CASE /\ job' = [job EXCEPT ![<<k, c>>] = [op |-> "done", c |-> c, answer |-> "Err"]]
               /\ UNCHANGED <<cs, bound, host, policy, up, drifts>>
      <4>1. job[<<k, c>>].op = "none"  BY <2>7 DEF ExecuteTarget, FleetInv, FleetFits, TodoFits
      <4>2. QED  BY <2>5, <2>6, <3>2, <4>1
    <3>3. QED  BY <2>7, <3>1, <3>2 DEF ExecuteTarget
  <2>8. CASE RollbackTarget(k)
    <3>1. PICK c \in call[k].todo :
            /\ call[k].pc = "next"
            /\ \/ rollback(<<k, c>>, c, 1)
               \/ /\ job' = [job EXCEPT ![<<k, c>>] = [op |-> "done", c |-> c, answer |-> "Err"]]
                  /\ UNCHANGED <<cs, bound, host, policy, up, drifts>>
      BY <2>8 DEF RollbackTarget
    <3>2. c \in Sets /\ job[<<k, c>>].op = "none"  BY <2>0, <3>1, CallKinds, Pairs
    <3>3. CASE rollback(<<k, c>>, c, 1)
      <4>1. ServiceStep  BY <1>2, <2>0, <3>2, <3>3 DEF ServiceStep
      <4>2. QED  BY <1>0, <4>1, ServiceSound DEF ChangesNext
    <3>4. QED  BY <2>5, <2>6, <3>1, <3>2, <3>3
  <2>9. QED  BY <1>3, <2>1, <2>2, <2>3, <2>4, <2>7, <2>8 DEF FleetStep
<1>4. ASSUME NEW k \in Calls, fleet_approve(k) \/ fleet_execute(k) \/ rollback_explicit(k)
      PROVE  ChangesInv' /\ Tells'
  BY <1>1, <1>4 DEF fleet_approve, fleet_execute, rollback_explicit
<1>5. CASE JobStep \/ PolicyChanges \/ \E c \in Sets : \E i \in Indices(c) : Drift(c, i)
  BY <1>0, <1>5, ServiceSound DEF ChangesNext, Environment
<1>6. ASSUME NEW to, ParentChanges(to) PROVE ChangesInv' /\ Tells'
  BY <1>1, <1>6 DEF ParentChanges
<1>7. CASE RestartFleet
  <2>1. ChangesRestart  BY <1>7 DEF RestartFleet
  <2>2. QED  BY <1>0, <2>1, ServiceSound DEF ChangesNext, Environment
<1>8. ASSUME NEW c \in Sets, RejectTarget(c) PROVE ChangesInv' /\ Tells'
  <2>1. ServiceStep  BY <1>2, <1>8 DEF ServiceStep, RejectTarget
  <2>2. QED  BY <1>0, <2>1, ServiceSound DEF ChangesNext
<1>9. QED  BY <1>3, <1>4, <1>5, <1>6, <1>7, <1>8 DEF FleetNext

LEMMA FleetStepKept ==
  ASSUME FleetInv, \A k, l \in Calls : k = l, FleetNext
  PROVE  FleetInv'
<1>0. \A k \in Calls : Alone(k)  BY DEF Alone
<1>1. ASSUME NEW k \in Calls, fleet_approve(k) \/ fleet_execute(k) \/ rollback_explicit(k) PROVE FleetKept
  BY <1>0, <1>1, Approval, Withdrawal, Reverting
<1>2. ASSUME NEW k \in Calls, FleetStep(k) PROVE FleetKept
  BY <1>0, <1>2, Approval, FleetClaim, BatchStarts, BatchEnds, PolicyApplies, Ending, Reverting,
     RollbackStarts, RollbackEnds, Judging, TargetStarts DEF FleetStep
<1>3. ASSUME JobStep, UNCHANGED <<run, call, parent>> PROVE FleetKept
  <2>1. PICK j \in Jobs : TRUE  BY <1>3 DEF JobStep
  <2>2. j[1] \in Calls  BY FleetAssumption
  <2>3. QED  BY <1>0, <1>3, <2>2, Working
<1>4. ASSUME PolicyChanges, UNCHANGED <<run, call, parent>> PROVE FleetKept
  BY <1>4, Elsewhere DEF PolicyChanges
<1>5. ASSUME NEW c \in Sets, NEW i, Drift(c, i), UNCHANGED <<run, call, parent>> PROVE FleetKept
  BY <1>5, Elsewhere DEF Drift
<1>6. ASSUME NEW to, ParentChanges(to) PROVE FleetKept
  BY <1>6, Elsewhere DEF ParentChanges, KeepChanges
<1>7. ASSUME RestartFleet PROVE FleetKept
  BY <1>7, FleetRestarts
<1>8. ASSUME NEW c \in Sets, RejectTarget(c) PROVE FleetKept
  <2>1. Silent /\ job' = job  BY <1>8, LockedTells DEF RejectTarget, reject, FleetInv
  <2>2. QED  BY <1>8, <2>1, Elsewhere DEF Silent, RejectTarget
<1>9. FleetKept  BY <1>1, <1>2, <1>3, <1>4, <1>5, <1>6, <1>7, <1>8 DEF FleetNext
<1>10. QED  BY <1>9, FleetSound DEF FleetInv, FleetKept

LEMMA FleetStarts ==
  ASSUME FleetDraft
  PROVE  FleetInv
<1> USE ChangeSetAssumption DEF FleetDraft
<1>1. \A c \in Sets : [i \in Indices(c) |-> "Pending"] \in StepMaps
  BY DEF StepMaps
<1>2. \A c \in Sets : /\ cs[c] \in Record /\ cs[c].exec = "NotStarted"
                      /\ cs[c].step = [i \in Indices(c) |-> "Pending"]
  <2>1. \A c \in Sets : Draft(c) \in Record
    BY <1>1 DEF Draft, Record, Versions, ApprovalStates, ExecutionStates
  <2>2. \A c \in Sets : Draft(c).exec = "NotStarted" /\ Draft(c).step = [i \in Indices(c) |-> "Pending"]
    BY DEF Draft
  <2>3. ASSUME NEW r \in Record
        PROVE  /\ [r EXCEPT !.policy = 0] \in Record
               /\ [r EXCEPT !.policy = 0].exec = r.exec /\ [r EXCEPT !.policy = 0].step = r.step
    BY DEF Record
  <2>4. \A c \in Sets : cs[c] = [Draft(c) EXCEPT !.policy = 0]  OBVIOUS
  <2> HIDE DEF FleetDraft
  <2>5. QED  BY <2>1, <2>2, <2>3, <2>4
<1>3. \A c \in Sets : host[c] = [i \in Indices(c) |-> "old"] /\ host[c] \in HostMaps
  BY DEF HostMaps
<1>4. \A j \in Jobs : job[j] = NoExecution /\ job[j].op = "none"  BY DEF NoExecution
<1>5. ChangesTypeOK
  <2>1. cs \in [Sets -> Record]  BY <1>2
  <2>2. host \in [Sets -> HostMaps]  BY <1>3
  <2>3. QED  BY <1>4, <2>1, <2>2 DEF ChangesTypeOK, JobRecords
<1>6. ChangesInv  BY <1>4, <1>5 DEF ChangesInv, BusyIsBegun, RunIsAlone, RunIsApproved, Busy
<1>7. Tells
  <2>1. \A c \in Sets : /\ cs[c].step \in [Indices(c) -> StepStates]
                        /\ host[c] \in [Indices(c) -> HostStates]
                        /\ \A i \in Indices(c) : host[c][i] = "old"
    <3> SUFFICES ASSUME NEW c \in Sets
                 PROVE  /\ cs[c].step \in [Indices(c) -> StepStates]
                        /\ host[c] \in [Indices(c) -> HostStates]
                        /\ \A i \in Indices(c) : host[c][i] = "old"
      OBVIOUS
    <3>1. cs[c].step = [i \in Indices(c) |-> "Pending"] /\ host[c] = [i \in Indices(c) |-> "old"]
      BY <1>2, <1>3
    <3> HIDE DEF FleetDraft
    <3>2. QED  BY <3>1 DEF StepStates, HostStates
  <2>2. QED
    BY <1>2, <1>4, <2>1 DEF Tells, Fitting, Busy, OnlyFilesArePlaced, RecordTells, RunTells, ReverseTells, Standing, Placed
<1>8. \A k \in Calls : call[k] = IdleCall /\ call[k].pc = "idle"  BY DEF IdleCall
<1>9. /\ run \in FleetRuns /\ run.state = "Draft"
      /\ \A c \in Sets : run.target[c] = "Pending" /\ ~run.local[c]
  <2>1. PICK p \in FailurePolicies : run = NewFleetRun(p)  OBVIOUS
  <2>2. QED  BY <2>1 DEF NewFleetRun, FleetRuns, FleetRunStates, TargetStates
<1>10. FleetTypeOK  BY <1>8, <1>9 DEF FleetTypeOK, CallStates
<1>11. JobsFit
  <2>1. \A k \in Calls, c \in Sets : job[<<k, c>>].op = "none"  BY <1>4, FleetAssumption
  <2>2. QED  BY <2>1 DEF JobsFit
<1>12. FleetFits  BY <1>2, <1>8, <1>9, <1>11 DEF FleetFits, StateFits, Ledger, TargetsFit, TodoFits
<1>13. QED  BY <1>6, <1>7, <1>10, <1>12 DEF FleetInv

(* With one request about it at a time, a fleet that says it succeeded has  *)
(* committed every ChangeSet, and one that says it was rolled back has left *)
(* in place at most writes of steps reported as Failed, for any targets,    *)
(* batches and policies.                                                    *)
THEOREM FleetTellsTheTruth ==
  ASSUME \A k, l \in Calls : k = l
  PROVE  FleetSpec => []OutcomeOfTargets
<1>1. FleetDraft => FleetInv  BY FleetStarts
<1>2. FleetInv /\ [FleetNext]_fleetVars => FleetInv'
  <2>1. CASE FleetNext  BY <2>1, FleetStepKept
  <2>2. ASSUME FleetInv, UNCHANGED fleetVars PROVE FleetInv'
    <3>1. FleetKept  BY <2>2, Elsewhere DEF fleetVars
    <3>2. ChangesInv' /\ Tells'
      BY <2>2, QuietRequests DEF fleetVars, FleetInv, ChangesInv, ChangesTypeOK
    <3>3. QED  BY <3>1, <3>2 DEF FleetInv, FleetKept
  <2>3. QED  BY <2>1, <2>2
<1>3. FleetInv => OutcomeOfTargets
  <2> SUFFICES ASSUME FleetInv PROVE OutcomeOfTargets  OBVIOUS
  <2>1. run.state = "Succeeded" => \A c \in Sets : Committed(c)
    BY DEF FleetInv, FleetFits, TargetsFit, Ledger, Committed
  <2>2. run.state = "RolledBack" => \A c \in Sets : cs[c].exec \in {"NotStarted", "Failed", "RolledBack"}
    BY DEF FleetInv, FleetFits, TargetsFit, Ledger
  <2>3. run.state = "RolledBack" => \A c \in Sets : \A i \in Indices(c) :
          host[c][i] = "new" => cs[c].step[i] = "Failed"
    BY <2>2 DEF FleetInv, Tells, RecordTells, Standing, Placed
  <2>4. QED  BY <2>1, <2>3 DEF OutcomeOfTargets
<1>4. QED  BY <1>1, <1>2, <1>3, PTL DEF FleetSpec

-----------------------------------------------------------------------------
(* The children of a fleet run.                                             *)

ChildStates == StageStates \cup {"None", "Cancelled"}

SameStep(c, d) == c[1] = d[1] /\ c[2] = d[2]

(* The attempts of a target are made in turn, and after one that works or   *)
(* has an outcome there is none.                                            *)
InTurn(kids) ==
  \A c, d \in Children : SameStep(c, d) /\ c[3] < d[3] /\ kids[d] # "None" => kids[c] # "None"

LastWorks(kids) ==
  \A c, d \in Children :
    SameStep(c, d) /\ c[3] < d[3] /\ (is_settled(kids[c]) \/ is_active(kids[c])) => kids[d] = "None"

KidsFit(kids) ==
  /\ DOMAIN kids = Children /\ (\A c \in Children : kids[c] \in ChildStates)
  /\ InTurn(kids) /\ LastWorks(kids)

(* What is saved is known, and what may run is saved.                       *)
SavedIsKnown == \A c \in Children : saved.child[c] # "None" => child[c] # "None"

PlanInv ==
  /\ KidsFit(child) /\ KidsFit(saved.child) /\ DOMAIN saved = {"fleet", "child", "failures"}
  /\ DOMAIN proc = Children /\ SavedIsKnown /\ OwnershipDurable

LEMMA ChildParts ==
  ASSUME NEW c \in Children
  PROVE  /\ c = <<c[1], c[2], c[3]>> /\ c[1] \in Stages /\ c[2] \in Targets
         /\ c[3] \in Nat /\ c[3] >= 1 /\ c[3] <= MaxAttempts /\ c[2] \in StageTargets[c[1]]
BY BoundAssumption DEF Children

(* The attempts of a target are numbered from 1 without a gap.              *)
LEMMA AttemptsAreFirst ==
  ASSUME NEW kids, KidsFit(kids), NEW s \in Stages, NEW t \in StageTargets[s]
  PROVE  /\ Cardinality(Attempts(kids, s, t)) \in Nat
         /\ Attempts(kids, s, t) = 1..Cardinality(Attempts(kids, s, t))
<1> DEFINE A == Attempts(kids, s, t)
           N == Cardinality(A)
<1>1. A \subseteq 1..MaxAttempts /\ MaxAttempts \in Nat  BY BoundAssumption DEF Attempts
<1>2. IsFiniteSet(A) /\ N \in Nat
  <2> HIDE DEF A
  <2>1. IsFiniteSet(1..MaxAttempts)  BY <1>1, FS_Interval
  <2>2. IsFiniteSet(A)  BY <1>1, <2>1, FS_Subset
  <2>3. QED  BY <2>2, FS_CardinalityType
<1>3. ASSUME NEW m \in A  PROVE 1..m \subseteq A /\ m <= N
  <2>1. ASSUME NEW i \in 1..m  PROVE i \in A
    <3>1. <<s, t, m>> \in Children /\ kids[<<s, t, m>>] # "None" /\ m \in 1..MaxAttempts  BY DEF Attempts
    <3>2. i \in 1..MaxAttempts /\ i <= m  BY <1>1, <3>1
    <3>3. <<s, t, i>> \in Children  BY <3>1, <3>2 DEF Children
    <3>4. kids[<<s, t, i>>] # "None"
      BY <3>1, <3>2, <3>3 DEF KidsFit, InTurn, SameStep
    <3>5. QED  BY <3>2, <3>3, <3>4 DEF Attempts
  <2>2. m \in Nat  BY <1>1
  <2>3. 1..m \subseteq A  BY <2>1
  <2> HIDE DEF A
  <2>4. Cardinality(1..m) = m  BY <2>2, FS_Interval
  <2>5. m <= N  BY <1>2, <2>3, <2>4, FS_Subset
  <2>6. QED  BY <2>3, <2>5
<1> HIDE DEF A
<1>4. A \subseteq 1..N  BY <1>1, <1>3
<1>5. IsFiniteSet(1..N) /\ Cardinality(1..N) = N  BY <1>2, FS_Interval
<1>6. A = 1..N
  <2> HIDE DEF N
  <2>1. Cardinality(A) = Cardinality(1..N)  BY <1>5 DEF N
  <2>2. QED  BY <1>4, <1>5, <2>1, FS_Subset
<1>7. QED  BY <1>2, <1>6 DEF A

(* New children keep the order.                                             *)
LEMMA NewFit ==
  ASSUME NEW kids, KidsFit(kids), NEW leases \in SUBSET (Stages \X Targets), NEW next,
         \A p \in leases : p[2] \in StageTargets[p[1]] /\ ~ChildOf(kids, p[1], p[2], {"Succeeded", "Failed", "Cancelled", "Running"}),
         next = [c \in Children |-> IF c \in NewChildren(kids, leases) THEN "Running" ELSE kids[c]]
  PROVE  KidsFit(next)
<1> DEFINE new == NewChildren(kids, leases)
<1>1. ASSUME NEW d \in new, NEW c \in Children, SameStep(c, d)
      PROVE  /\ c \notin new => c[3] # d[3]
             /\ c \in new => c[3] = d[3]
             /\ kids[c] # "None" <=> c[3] < d[3]
             /\ ~is_settled(kids[c]) /\ ~is_active(kids[c])
  <2> DEFINE s == d[1]
             t == d[2]
             A == Attempts(kids, s, t)
             N == Cardinality(A)
  <2>1. d \in Children /\ <<s, t>> \in leases /\ d[3] = N + 1  BY DEF NewChildren
  <2>2. s \in Stages /\ t \in StageTargets[s] /\ ~ChildOf(kids, s, t, {"Succeeded", "Failed", "Cancelled", "Running"})
    BY <2>1
  <2>3. N \in Nat /\ A = 1..N  BY <2>2, AttemptsAreFirst
  <2>4. c = <<s, t, c[3]>> /\ c[3] \in 1..MaxAttempts /\ c[3] \in Nat  BY <1>1, ChildParts DEF SameStep
  <2>5. c[3] \in A <=> kids[c] # "None"  BY <2>4 DEF Attempts
  <2>6. c \in new <=> c[3] = N + 1
    BY <1>1, <2>1 DEF NewChildren, SameStep
  <2>7. kids[c] \notin {"Succeeded", "Failed", "Cancelled", "Running"}
    <3>1. CASE kids[c] = "None"  BY <3>1
    <3>2. CASE kids[c] # "None"
      <4>1. c[3] \in A  BY <2>5, <3>2
      <4>2. QED  BY <2>2, <2>4, <4>1 DEF ChildOf
    <3>3. QED  BY <3>1, <3>2
  <2> HIDE DEF A, N, new
  <2>8. QED  BY <2>1, <2>3, <2>4, <2>5, <2>6, <2>7 DEF is_settled, is_active
<1> HIDE DEF new
<1>2. DOMAIN next = Children /\ \A c \in Children : next[c] = IF c \in new THEN "Running" ELSE kids[c]
  BY DEF new
<1>3. new \subseteq Children  BY DEF new, NewChildren
<1>4. \A c \in Children : next[c] \in ChildStates  BY <1>2 DEF KidsFit, ChildStates, StageStates
<1>5. InTurn(next)
  <2>1. ASSUME NEW c \in Children, NEW d \in Children, SameStep(c, d), c[3] < d[3], next[d] # "None"
        PROVE  next[c] # "None"
    <3>1. CASE d \in new
      <4>1. kids[c] # "None"  BY <1>1, <2>1, <3>1
      <4>2. QED  BY <1>2, <4>1
    <3>2. CASE d \notin new
      <4>1. kids[d] # "None"  BY <1>2, <2>1, <3>2
      <4>2. kids[c] # "None"  BY <2>1, <4>1 DEF KidsFit, InTurn
      <4>3. QED  BY <1>2, <4>2
    <3>3. QED  BY <3>1, <3>2
  <2>2. QED  BY <2>1 DEF InTurn
<1>6. LastWorks(next)
  <2>1. ASSUME NEW c \in Children, NEW d \in Children, SameStep(c, d), c[3] < d[3],
               is_settled(next[c]) \/ is_active(next[c])
        PROVE  next[d] = "None"
    <3>1. c[3] \in Nat /\ d[3] \in Nat  BY ChildParts
    <3>2. CASE d \in new
      <4>1. c \notin new  BY <1>1, <2>1, <3>1, <3>2
      <4>2. QED  BY <1>1, <1>2, <2>1, <3>2, <4>1
    <3>3. CASE d \notin new /\ c \in new
      <4>1. SameStep(d, c)  BY <2>1 DEF SameStep
      <4>2. kids[d] = "None"  BY <1>1, <2>1, <3>1, <3>3, <4>1
      <4>3. QED  BY <1>2, <3>3, <4>2
    <3>4. CASE d \notin new /\ c \notin new
      <4>1. kids[d] = "None"  BY <1>2, <2>1, <3>4 DEF KidsFit, LastWorks
      <4>2. QED  BY <1>2, <3>4, <4>1
    <3>5. QED  BY <3>2, <3>3, <3>4
  <2>2. QED  BY <2>1 DEF LastWorks
<1>7. QED  BY <1>2, <1>4, <1>5, <1>6 DEF KidsFit

(* So do outcomes and pauses of children that work.                         *)
LEMMA ActiveMove ==
  ASSUME NEW kids, KidsFit(kids), NEW next, DOMAIN next = Children,
         \A c \in Children : next[c] = kids[c] \/ (is_active(kids[c]) /\ next[c] \in ChildStates \ {"None"})
  PROVE  KidsFit(next)
<1>1. \A c \in Children : /\ next[c] \in ChildStates /\ (next[c] = "None" <=> kids[c] = "None")
                          /\ is_settled(next[c]) \/ is_active(next[c]) => is_settled(kids[c]) \/ is_active(kids[c])
  BY DEF KidsFit, is_active
<1>2. InTurn(next)  BY <1>1 DEF KidsFit, InTurn
<1>3. LastWorks(next)  BY <1>1 DEF KidsFit, LastWorks
<1>4. QED  BY <1>1, <1>2, <1>3 DEF KidsFit
-----------------------------------------------------------------------------
(* The operations.                                                          *)

LEMMA PersistKeeps ==
  ASSUME PlanInv, NEW stored, Persist(stored), KidsFit(child'),
         \A c \in Children : child[c] # "None" => child'[c] # "None",
         DOMAIN proc' = Children,
         \A c \in Children : proc'[c] \notin {"none", "lost"} =>
            \/ proc[c] \notin {"none", "lost"}
            \/ stored /\ child'[c] # "None"
  PROVE  PlanInv'
<1>1. /\ DOMAIN saved' = {"fleet", "child", "failures"}
      /\ saved'.child = IF stored THEN child' ELSE saved.child
  BY DEF Persist, PlanInv
<1>2. KidsFit(saved'.child)  BY <1>1 DEF PlanInv
<1>3. SavedIsKnown'  BY <1>1 DEF PlanInv, SavedIsKnown
<1>4. OwnershipDurable'
  <2>1. ASSUME NEW c \in Children, proc'[c] \notin {"none", "lost"}  PROVE saved'.child[c] # "None"
    <3>1. CASE stored /\ child'[c] # "None"  BY <1>1, <3>1
    <3>2. CASE proc[c] \notin {"none", "lost"}
      <4>1. saved.child[c] # "None"  BY <3>2 DEF PlanInv, OwnershipDurable
      <4>2. child'[c] # "None"  BY <4>1 DEF PlanInv, SavedIsKnown
      <4>3. QED  BY <1>1, <4>1, <4>2
    <3>3. QED  BY <2>1, <3>1, <3>2
  <2>2. QED  BY <2>1 DEF OwnershipDurable
<1>5. QED  BY <1>1, <1>2, <1>3, <1>4 DEF PlanInv

(* The children are left as they are.                                       *)
LEMMA ChildrenLeft ==
  ASSUME PlanInv, UNCHANGED <<child, saved>>, DOMAIN proc' = Children,
         \A c \in Children : proc'[c] \notin {"none", "lost"} => proc[c] \notin {"none", "lost"}
  PROVE  PlanInv'
BY DEF PlanInv, SavedIsKnown, OwnershipDurable

LEMMA CancelsOnlyWork ==
  ASSUME NEW C, Cancel(C)
  PROVE  /\ DOMAIN proc' = Children
         /\ \A c \in Children : proc'[c] \notin {"none", "lost"} => proc[c] \notin {"none", "lost"}
BY DEF Cancel

LEMMA ProcLeft ==
  ASSUME PlanInv, UNCHANGED proc
  PROVE  /\ DOMAIN proc' = Children
         /\ \A c \in Children : proc'[c] \notin {"none", "lost"} => proc[c] \notin {"none", "lost"}
BY DEF PlanInv

(* What pause and cancel do to the children.                                *)
LEMMA SettleFits ==
  ASSUME NEW kids, KidsFit(kids), NEW state \in {"Blocked", "Cancelled"}
  PROVE  /\ KidsFit(Settle(kids, state))
         /\ \A c \in Children : kids[c] # "None" => Settle(kids, state)[c] # "None"
<1> DEFINE next == Settle(kids, state)
<1>1. DOMAIN next = Children /\ \A c \in Children : next[c] = IF is_active(kids[c]) THEN state ELSE kids[c]
  BY DEF Settle
<1>2. state \in ChildStates \ {"None"}  BY DEF ChildStates, StageStates
<1> HIDE DEF next
<1>3. KidsFit(next)  BY <1>1, <1>2, ActiveMove
<1>4. \A c \in Children : kids[c] # "None" => next[c] # "None"  BY <1>1
<1>5. QED  BY <1>3, <1>4 DEF next

LEMMA Approving ==
  ASSUME PlanInv,
         \/ request_fleet_approval \/ PlanPolicyChanges
         \/ (\E op \in {"grant", "reject", "start", "continue"} : Request(op))
         \/ \E r \in calls : decide_fleet_approval(r) \/ continue_fleet(r)
  PROVE  PlanInv'
<1>1. UNCHANGED child
  BY DEF request_fleet_approval, PlanPolicyChanges, Request, decide_fleet_approval, continue_fleet
<1>2. KidsFit(child') /\ \A c \in Children : child[c] # "None" => child'[c] # "None"  BY <1>1 DEF PlanInv
<1>3. (\E stored : Persist(stored)) \/ UNCHANGED saved
  BY DEF request_fleet_approval, PlanPolicyChanges, Request, decide_fleet_approval, continue_fleet
<1>4. UNCHANGED proc \/ \E C : Cancel(C)
  BY DEF request_fleet_approval, PlanPolicyChanges, Request, decide_fleet_approval, continue_fleet
<1>5. /\ DOMAIN proc' = Children
      /\ \A c \in Children : proc'[c] \notin {"none", "lost"} => proc[c] \notin {"none", "lost"}
  BY <1>4, ProcLeft, CancelsOnlyWork
<1>6. QED  BY <1>1, <1>2, <1>3, <1>5, PersistKeeps, ChildrenLeft

LEMMA Stopping ==
  ASSUME PlanInv, pause_fleet \/ cancel_fleet
  PROVE  PlanInv'
<1>1. PICK state \in {"Blocked", "Cancelled"} : child' = Settle(child, state)
  BY DEF pause_fleet, cancel_fleet, Pause
<1>2. KidsFit(child') /\ \A c \in Children : child[c] # "None" => child'[c] # "None"
  BY <1>1, SettleFits DEF PlanInv
<1>3. \E stored : Persist(stored)  BY DEF pause_fleet, cancel_fleet
<1>4. UNCHANGED proc \/ \E C : Cancel(C)  BY DEF pause_fleet, cancel_fleet
<1>5. /\ DOMAIN proc' = Children
      /\ \A c \in Children : proc'[c] \notin {"none", "lost"} => proc[c] \notin {"none", "lost"}
  BY <1>4, ProcLeft, CancelsOnlyWork
<1>6. QED  BY <1>2, <1>3, <1>5, PersistKeeps

LEMMA LeasesFit ==
  ASSUME NEW kids, NEW stage, NEW capacity
  PROVE  /\ Leases(kids, stage, capacity) \in SUBSET (Stages \X Targets)
         /\ \A p \in Leases(kids, stage, capacity) :
              /\ p[2] \in StageTargets[p[1]]
              /\ ~ChildOf(kids, p[1], p[2], {"Succeeded", "Failed", "Cancelled", "Running"})
<1>1. Leases(kids, stage, capacity) \subseteq Offered(kids, stage)  BY DEF Leases
<1>2. \A p \in Offered(kids, stage) : p \in Stages \X Targets /\ p[2] \in Eligible(kids, stage, p[1])
  BY DEF Offered
<1>3. ASSUME NEW s \in Stages, NEW t \in Eligible(kids, stage, s)
      PROVE  t \in StageTargets[s] /\ ~ChildOf(kids, s, t, {"Succeeded", "Failed", "Cancelled", "Running"})
  BY DEF Eligible
<1>4. QED  BY <1>1, <1>2, <1>3

LEMMA Claiming ==
  ASSUME PlanInv, NEW r \in calls, claim_fleet_children(r)
  PROVE  PlanInv'
<1>1. CASE UNCHANGED <<child, saved, proc>>  BY <1>1, ProcLeft, ChildrenLeft
<1>2. ASSUME NEW capacity \in 1..Capacity, NEW stored \in Outcomes, NEW leases, NEW new,
             leases = Leases(child, RefreshBlocked(fleet.stage), capacity),
             new = NewChildren(child, leases),
             child' = [c \in Children |-> IF c \in new THEN "Running" ELSE child[c]],
             Persist(stored),
             proc' = [c \in Children |-> IF c \notin new THEN proc[c] ELSE IF stored THEN "claimed" ELSE "lost"]
      PROVE  PlanInv'
  <2>1. /\ leases \in SUBSET (Stages \X Targets)
        /\ \A p \in leases :
              /\ p[2] \in StageTargets[p[1]]
              /\ ~ChildOf(child, p[1], p[2], {"Succeeded", "Failed", "Cancelled", "Running"})
    BY <1>2, LeasesFit
  <2>2. KidsFit(child')  BY <1>2, <2>1, NewFit DEF PlanInv
  <2>3. \A c \in Children : child[c] # "None" => child'[c] # "None"  BY <1>2
  <2>4. \A c \in Children : c \in new => child'[c] # "None"  BY <1>2
  <2>5. /\ DOMAIN proc' = Children
        /\ \A c \in Children : proc'[c] = IF c \notin new THEN proc[c] ELSE IF stored THEN "claimed" ELSE "lost"
    BY <1>2
  <2>6. \A c \in Children : proc'[c] \notin {"none", "lost"} =>
            \/ proc[c] \notin {"none", "lost"}
            \/ stored /\ child'[c] # "None"
    BY <2>4, <2>5
  <2>7. QED  BY <1>2, <2>2, <2>3, <2>5, <2>6, PersistKeeps
<1> DEFINE new(capacity) == NewChildren(child, Leases(child, RefreshBlocked(fleet.stage), capacity))
<1>3. \/ UNCHANGED <<child, saved, proc>>
      \/ \E capacity \in 1..Capacity, stored \in Outcomes :
           /\ child' = [c \in Children |-> IF c \in new(capacity) THEN "Running" ELSE child[c]]
           /\ Persist(stored)
           /\ proc' = [c \in Children |-> IF c \notin new(capacity) THEN proc[c]
                                          ELSE IF stored THEN "claimed" ELSE "lost"]
  BY DEF claim_fleet_children
<1>4. QED  BY <1>1, <1>2, <1>3

LEMMA Finishing ==
  ASSUME PlanInv, NEW c \in Children, NEW outcome \in {"Succeeded", "Failed", "Cancelled"}, finish_outcome(c, outcome)
  PROVE  PlanInv'
<1>1. proc' = [proc EXCEPT ![c] = "ended"] /\ proc[c] \in {"open", "cancelling"}  BY DEF finish_outcome
<1>2. /\ DOMAIN proc' = Children
      /\ \A d \in Children : proc'[d] \notin {"none", "lost"} => proc[d] \notin {"none", "lost"}
  BY <1>1 DEF PlanInv
<1>3. CASE UNCHANGED saved /\ UNCHANGED child  BY <1>2, <1>3, ChildrenLeft
<1>4. CASE ~(UNCHANGED saved /\ UNCHANGED child)
  <2> DEFINE kids == [child EXCEPT ![c] = outcome]
  <2>1. /\ is_active(child[c]) /\ \E stored : Persist(stored)
        /\ child' = kids \/ child' = Pause(kids)
    BY <1>4 DEF finish_outcome, record_fleet_child_outcome, Recordable
  <2>2. DOMAIN kids = Children /\ \A d \in Children : kids[d] = IF d = c THEN outcome ELSE child[d]
    BY DEF PlanInv, KidsFit
  <2>3. outcome \in ChildStates \ {"None"}  BY DEF ChildStates, StageStates
  <2> HIDE DEF kids
  <2>4. KidsFit(kids)  BY <2>1, <2>2, <2>3, ActiveMove DEF PlanInv
  <2>5. \A d \in Children : child[d] # "None" => kids[d] # "None"  BY <2>2
  <2>6. KidsFit(child') /\ \A d \in Children : child[d] # "None" => child'[d] # "None"
    BY <2>1, <2>4, <2>5, SettleFits DEF Pause
  <2>7. QED  BY <1>2, <2>1, <2>6, PersistKeeps
<1>5. QED  BY <1>3, <1>4

LEMMA Launching ==
  ASSUME PlanInv, NEW c \in Children, Launch(c) \/ CancelChild(c)
  PROVE  PlanInv'
<1>1. UNCHANGED <<child, saved>>  BY DEF Launch, CancelChild
<1>2. CASE Launch(c)
  <2>1. /\ DOMAIN proc' = Children
        /\ \A d \in Children : proc'[d] \notin {"none", "lost"} => proc[d] \notin {"none", "lost"}
    BY <1>2 DEF Launch, PlanInv
  <2>2. QED  BY <1>1, <2>1, ChildrenLeft
<1>3. CASE CancelChild(c)  BY <1>1, <1>3, CancelsOnlyWork, ChildrenLeft DEF CancelChild
<1>4. QED  BY <1>2, <1>3

LEMMA Restarting ==
  ASSUME PlanInv, PlanRestart
  PROVE  PlanInv'
<1>1. saved' = [saved EXCEPT !.fleet = Interrupted(saved.fleet)] /\ child' = saved'.child
  BY DEF PlanRestart, Loaded
<1>2. saved'.child = saved.child /\ DOMAIN saved' = DOMAIN saved  BY <1>1 DEF PlanInv
<1>3. proc' = [c \in Children |-> "none"]  BY DEF PlanRestart
<1>4. QED  BY <1>1, <1>2, <1>3 DEF PlanInv, SavedIsKnown, OwnershipDurable

THEOREM PlanInductive == PlanSpec => []PlanInv
<1>1. PlanInit => PlanInv
  <2>1. ASSUME PlanInit  PROVE PlanInv
    <3>1. child = [c \in Children |-> "None"] /\ proc = [c \in Children |-> "none"]
      BY <2>1 DEF PlanInit
    <3>2. saved.child = child /\ DOMAIN saved = {"fleet", "child", "failures"}  BY <2>1 DEF PlanInit
    <3>3. KidsFit(child)
      BY <3>1 DEF KidsFit, InTurn, LastWorks, ChildStates, is_settled, is_active
    <3>4. QED  BY <3>1, <3>2, <3>3 DEF PlanInv, SavedIsKnown, OwnershipDurable
  <2>2. QED  BY <2>1
<1>2. ASSUME PlanInv, [PlanNext]_vars  PROVE PlanInv'
  <2>1. CASE UNCHANGED vars
    <3>1. UNCHANGED <<child, saved, proc>>  BY <2>1 DEF vars
    <3>2. QED  BY <1>2, <3>1, ProcLeft, ChildrenLeft
  <2>2. CASE \/ request_fleet_approval \/ PlanPolicyChanges
             \/ (\E op \in {"grant", "reject", "start", "continue"} : Request(op))
             \/ \E r \in calls : decide_fleet_approval(r) \/ continue_fleet(r)
    BY <1>2, <2>2, Approving
  <2>3. CASE pause_fleet \/ cancel_fleet  BY <1>2, <2>3, Stopping
  <2>4. CASE PlanRestart  BY <1>2, <2>4, Restarting
  <2>5. CASE \E r \in calls : claim_fleet_children(r)  BY <1>2, <2>5, Claiming
  <2>6. CASE \E c \in Children :
               \/ Launch(c) \/ CancelChild(c)
               \/ \E outcome \in {"Succeeded", "Failed", "Cancelled"} : finish_outcome(c, outcome)
    BY <1>2, <2>6, Launching, Finishing
  <2>7. QED  BY <1>2, <2>1, <2>2, <2>3, <2>4, <2>5, <2>6 DEF PlanNext
<1>3. QED  BY <1>1, <1>2, PTL DEF PlanSpec

(* A target whose attempt has an outcome gets no further attempt.           *)
THEOREM SettledIsNotRetried == PlanSpec => []NeverRetriesSettled
<1>1. ASSUME PlanInv  PROVE NeverRetriesSettled
  <2>1. ASSUME NEW c \in Children, NEW d \in Children, is_settled(child[c]),
               d[1] = c[1], d[2] = c[2], d[3] > c[3]
        PROVE  child[d] = "None"
    <3>1. c[3] < d[3] /\ SameStep(c, d)  BY <2>1, ChildParts DEF SameStep
    <3>2. QED  BY <1>1, <2>1, <3>1 DEF PlanInv, KidsFit, LastWorks
  <2>2. QED  BY <2>1 DEF NeverRetriesSettled
<1>2. QED  BY <1>1, PlanInductive, PTL

(* A child that may run is in the database.                                 *)
THEOREM ChildrenAreDurable == PlanSpec => []OwnershipDurable
<1>1. PlanInv => OwnershipDurable  BY DEF PlanInv
<1>2. QED  BY <1>1, PlanInductive, PTL
=============================================================================
