------------------------------ MODULE AgentRun ------------------------------
(***************************************************************************)
(* One agent run of Runtime V2: the controller loop                        *)
(* (src-tauri/src/agent/controller.rs), the service that IPC requests go   *)
(* through (service.rs), and the SQLite rows both write (sqlite.rs).       *)
(*                                                                         *)
(* A request clones the run's ActiveRun entry (a Handle: the controller    *)
(* slot behind an async mutex, and a cancel channel), waits for the slot,  *)
(* rehydrates a controller from the database if the slot is empty, and     *)
(* drives the loop under the lock until the run parks or ends.  Approve    *)
(* and reject look for the pending approval BEFORE they wait for the slot. *)
(* Cancel does not wait: it raises the flag and only tries the lock.       *)
(*                                                                         *)
(* A step is a stretch of code between two awaits or between two durable   *)
(* writes a crash can separate.  Observations, facts, artifacts, metrics   *)
(* and the text of events are left out; of the event log the model keeps   *)
(* what rehydrate() computes from it.                                      *)
(***************************************************************************)
EXTENDS AgentState, Integers

CONSTANTS
  Clients,     \* IPC requests that may be in flight at the same time
  Driver,      \* the task spawn_drive starts for a new run
  Handles,     \* ActiveRun entries that may be referenced at the same time
  Approvals,   \* identities of ApprovalRequests (bounds the proposals)
  Decisions,   \* what the reasoner may decide in this instance
  Offered,     \* the requests the user interface makes in this instance
  MaxRounds,   \* budget.max_reasoner_rounds
  MaxCalls,    \* budget.max_tool_calls
  MaxBatch,    \* tool calls in one decision
  MayCrash,    \* whether the process may die and start again
  None         \* no handle, no holder, no approval

Requests == {"approve", "reject", "reply", "retry", "resume", "pause"}
DecisionKinds == {"final", "ask", "unusable", "abort", "reads", "gated",
                  "blocked", "refused", "inspect", "mutate", "change"}

ASSUME AgentAssumption ==
  /\ Decisions \subseteq DecisionKinds
  /\ Offered \subseteq Requests
  /\ MaxRounds \in Nat /\ MaxCalls \in Nat /\ MaxBatch \in Nat \ {0}
  /\ MayCrash \in BOOLEAN
  /\ Driver \notin Clients
  /\ None \notin Clients \cup {Driver} \cup Handles \cup Approvals
  /\ Handles # {}

Procs == Clients \cup {Driver}

VARIABLES
  \* rows of runory-agent.db
  state,       \* agent_runs.state
  approval,    \* approval -> state of its row, "absent" before insert
  kind,        \* approval -> the action it is bound to
  stored,      \* approvals whose call or command is in pending_tool_calls
  logged,      \* extract_pending_command_verification of the event log
  budget,      \* rounds and calls in the run's checkpoint
  \* the service, in memory
  active,      \* the ActiveRun entry of the run, None if it is not bound
  flag,        \* handle -> the value of its cancel channel
  holder,      \* handle -> who holds the controller slot
  live,        \* handle -> whether the slot holds a controller
  changes,     \* ChangeSets that are Live and NotStarted
  \* the controller in each slot
  phase, rounds, calls, owes, notified,
  \* requests and the drive task
  pc, op, arg, handle, seen, result,
  \* history
  ran,         \* approval -> how often its action reached the target
  recorded,    \* approvals whose outcome is in the event log
  dirty,       \* a command wrote and no successful read followed
  unsettled,   \* changes committed, neither verified nor sent to rollback
  stopped      \* a cancel returned, and since then the run was asked nothing

db         == <<state, approval, kind, stored, logged, budget>>
service    == <<active, flag, holder, live, changes>>
controller == <<phase, rounds, calls, owes, notified>>
requests   == <<pc, op, arg, handle, seen, result>>
history    == <<ran, recorded, dirty, unsettled, stopped>>
vars       == <<db, service, controller, requests, history>>

-----------------------------------------------------------------------------
Kinds     == {"absent", "read", "write", "tool", "change"}
Verdicts  == {"granted", "rejected", "invalidated"}
Ops       == Requests \cup {"none", "drive", "cancel"}
Steps     == {"idle", "wait", "begin", "policy", "granted", "started", "ran",
              "verdict", "execute", "verify", "rollback", "loop", "deciding",
              "reads", "draft", "park", "finish", "stop"}

\* start_run: the run is Created, bound, and its driver is spawned.
Started(h) ==
  /\ state = "Created"
  /\ approval = [a \in Approvals |-> "absent"]
  /\ kind = [a \in Approvals |-> "absent"]
  /\ stored = {}
  /\ logged = FALSE
  /\ budget = [rounds |-> 0, calls |-> 0]
  /\ active = h
  /\ flag = [i \in Handles |-> FALSE]
  /\ holder = [i \in Handles |-> None]
  /\ live = [i \in Handles |-> i = h]
  /\ changes = {}
  /\ phase = [i \in Handles |-> "Created"]
  /\ rounds = [i \in Handles |-> 0]
  /\ calls = [i \in Handles |-> 0]
  /\ owes = [i \in Handles |-> FALSE]
  /\ notified = [i \in Handles |-> FALSE]
  /\ pc = [p \in Procs |-> IF p = Driver THEN "wait" ELSE "idle"]
  /\ op = [p \in Procs |-> IF p = Driver THEN "drive" ELSE "none"]
  /\ arg = [p \in Procs |-> None]
  /\ handle = [p \in Procs |-> IF p = Driver THEN h ELSE None]
  /\ seen = [p \in Procs |-> "absent"]
  /\ result = [p \in Procs |-> FALSE]
  /\ ran = [a \in Approvals |-> 0]
  /\ recorded = {}
  /\ dirty = FALSE
  /\ unsettled = {}
  /\ stopped = FALSE

Init == \E h \in Handles : Started(h)

Pending == {a \in Approvals : approval[a] = "pending"}

-----------------------------------------------------------------------------
(* What the steps are made of.                                             *)

Goto(p, l) == pc' = [pc EXCEPT ![p] = l]

\* transition(): validate against the controller's copy, save the row.
Move(p, s) ==
  /\ CanTransitionTo(phase[handle[p]], s)
  /\ phase' = [phase EXCEPT ![handle[p]] = s]
  /\ state' = s

Stay == UNCHANGED <<phase, state>>

\* An observation other than the verification notice is pushed.
Observed(p) == notified' = [notified EXCEPT ![handle[p]] = FALSE]

\* save_checkpoint
Checkpoint(p) ==
  budget' = [rounds |-> rounds[handle[p]], calls |-> calls[handle[p]]]

\* A request forgets its entry: its clone of the ActiveRun is dropped.
Forget(p) ==
  /\ op' = [op EXCEPT ![p] = "none"]
  /\ arg' = [arg EXCEPT ![p] = None]
  /\ handle' = [handle EXCEPT ![p] = None]
  /\ seen' = [seen EXCEPT ![p] = "absent"]
  /\ result' = [result EXCEPT ![p] = FALSE]

Unlock(p) == holder' = [holder EXCEPT ![handle[p]] = None]

Keep(p) == UNCHANGED <<op, arg, handle, seen, result, holder>>

\* The run parked (Ok), or a request failed and left the entry alone.
Return(p) == Goto(p, "idle") /\ Forget(p) /\ Unlock(p)

\* The run ended, or the drive task failed: the entry is removed next.
Finish(p) ==
  /\ Goto(p, "finish") /\ Unlock(p)
  /\ UNCHANGED <<op, arg, handle, seen, result>>

\* A controller method returned an error.
Fail(p) == IF p = Driver THEN Finish(p) ELSE Return(p)

\* finish_cancelled and fail: a run that is over already is an error.
EndRun(p, s) ==
  IF phase[handle[p]] \in Terminal THEN Stay /\ Fail(p)
  ELSE Move(p, s) /\ Finish(p)

-----------------------------------------------------------------------------
(* Requests reach the run.                                                 *)

\* approve and reject: pending_for_run must return the id the user saw.
Named(o, a) == IF o \in {"approve", "reject"} THEN a \in Pending ELSE a = None

Request(p, o, a) ==
  /\ p \in Clients /\ pc[p] = "idle"
  /\ active # None
  /\ o \in Offered /\ Named(o, a)
  /\ Goto(p, "wait")
  /\ op' = [op EXCEPT ![p] = o]
  /\ arg' = [arg EXCEPT ![p] = a]
  /\ handle' = [handle EXCEPT ![p] = active]
  /\ stopped' = (stopped /\ o = "pause")
  /\ UNCHANGED <<db, service, controller, seen, result, ran, recorded, dirty,
                 unsettled>>

\* Mutant: attach() starts with nothing to verify, and it is not restored.
RehydrateForgets(h) ==
  /\ live' = [live EXCEPT ![h] = TRUE]
  /\ phase' = [phase EXCEPT ![h] = state]
  /\ rounds' = [rounds EXCEPT ![h] = budget.rounds]
  /\ calls' = [calls EXCEPT ![h] = budget.calls]
  /\ owes' = [owes EXCEPT ![h] = FALSE]
  /\ notified' = [notified EXCEPT ![h] = FALSE]

\* What rehydrate() puts into an empty slot: the row, the budget of the
\* checkpoint and the verification the event log still asks for.
Rehydrate(h) ==
  /\ live' = [live EXCEPT ![h] = TRUE]
  /\ phase' = [phase EXCEPT ![h] = state]
  /\ rounds' = [rounds EXCEPT ![h] = budget.rounds]
  /\ calls' = [calls EXCEPT ![h] = budget.calls]
  /\ owes' = [owes EXCEPT ![h] = logged]
  /\ notified' = [notified EXCEPT ![h] = FALSE]

\* The slot's lock is granted; pause and the driver need a controller there.
Acquire(p) ==
  LET h == handle[p] IN
  /\ pc[p] = "wait" /\ holder[h] = None
  /\ \/ /\ op[p] \in {"pause", "drive"} /\ ~live[h]
        /\ Goto(p, "idle") /\ Forget(p)
        /\ UNCHANGED <<holder, live, controller>>
     \/ /\ op[p] \in {"pause", "drive"} => live[h]
        /\ Goto(p, "begin")
        /\ holder' = [holder EXCEPT ![h] = p]
        /\ IF live[h] THEN UNCHANGED <<live, controller>> ELSE Rehydrate(h)
        /\ UNCHANGED <<op, arg, handle, seen, result>>
  /\ UNCHANGED <<db, active, flag, changes, history>>

\* finish_outcome and the error path of spawn_drive: remove(&run_id).
Remove(p) ==
  /\ pc[p] = "finish"
  /\ active' = None
  /\ Goto(p, "idle") /\ Forget(p)
  /\ UNCHANGED <<db, flag, holder, live, changes, controller, history>>

\* register_resumable: a fresh channel nobody listens to, an empty slot.
Register(p) ==
  /\ p \in Clients /\ pc[p] = "idle"
  /\ active = None
  /\ \E h \in Handles \ {handle[q] : q \in Procs} :
       /\ active' = h
       /\ flag' = [flag EXCEPT ![h] = FALSE]
       /\ live' = [live EXCEPT ![h] = FALSE]
  /\ UNCHANGED <<db, holder, changes, controller, requests, history>>

-----------------------------------------------------------------------------
(* cancel(): signal, then try the lock, never wait.                        *)

\* watch::Sender::send leaves the value alone when nobody has subscribed.
Signal(h) == flag' = [flag EXCEPT ![h] = @ \/ live[h]]

Cancel(p) ==
  /\ p \in Clients /\ pc[p] = "idle"
  /\ active # None
  /\ Signal(active)
  /\ Goto(p, "stop")
  /\ op' = [op EXCEPT ![p] = "cancel"]
  /\ handle' = [handle EXCEPT ![p] = active]
  /\ UNCHANGED <<db, active, holder, live, changes, controller, arg, seen,
                 result, history>>

\* The slot is free: end the run if a controller is there, drop the entry.
CancelFree(p) ==
  LET h == handle[p] IN
  /\ pc[p] = "stop" /\ holder[h] = None
  /\ IF live[h] /\ phase[h] \notin Terminal THEN Move(p, "Cancelled") ELSE Stay
  /\ live' = [live EXCEPT ![h] = FALSE]
  /\ active' = None
  /\ stopped' = TRUE
  /\ Goto(p, "idle") /\ Forget(p)
  /\ UNCHANGED <<approval, kind, stored, logged, budget, flag, holder, changes,
                 rounds, calls, owes, notified, ran, recorded, dirty,
                 unsettled>>

\* The slot is taken: its holder is trusted to see the flag.
CancelBusy(p) ==
  /\ pc[p] = "stop" /\ holder[handle[p]] # None
  /\ stopped' = TRUE
  /\ Goto(p, "idle") /\ Forget(p)
  /\ UNCHANGED <<db, service, controller, ran, recorded, dirty, unsettled>>

\* The run is not bound: its row is written directly.
CancelUnbound(p) ==
  /\ p \in Clients /\ pc[p] = "idle"
  /\ active = None /\ state \notin Terminal
  /\ state' = "Cancelled"
  /\ stopped' = TRUE
  /\ UNCHANGED <<approval, kind, stored, logged, budget, service, controller,
                 requests, ran, recorded, dirty, unsettled>>

-----------------------------------------------------------------------------
(* The first step of each controller method.                               *)

Beginning(p, o) == pc[p] = "begin" /\ op[p] = o

\* A method refuses the call: wrong state, or nothing bound to the approval.
Refused(p) ==
  LET s == phase[handle[p]]
      a == arg[p]
      bound == kind[a] = "change" \/ a \in stored IN
  \/ op[p] \in {"approve", "reject"} /\ (s # "AwaitingApproval" \/ ~bound)
  \/ op[p] = "reply"  /\ IF state \in Terminal THEN s \notin Terminal
                         ELSE s # "AwaitingUser"
  \/ op[p] = "retry"  /\ s # "Failed"
  \/ op[p] = "resume" /\ s # "Paused"
  \/ op[p] = "pause"  /\ s \notin Pausable

Refuse(p) ==
  /\ pc[p] = "begin" /\ Refused(p)
  /\ Fail(p)
  /\ UNCHANGED <<db, active, flag, live, changes, controller, history>>

\* run_to_interrupt(): the driver takes the slot as it finds it
Drive(p) ==
  /\ Beginning(p, "drive")
  /\ IF phase[handle[p]] = "Created" THEN Move(p, "Running") ELSE Stay
  /\ Goto(p, "loop") /\ Keep(p)
  /\ UNCHANGED <<approval, kind, stored, logged, budget, active, flag, live,
                 changes, rounds, calls, owes, notified, history>>

\* resume()
Unpause(p) ==
  /\ Beginning(p, "resume") /\ ~Refused(p)
  /\ Move(p, "Running")
  /\ Goto(p, "loop") /\ Keep(p)
  /\ UNCHANGED <<approval, kind, stored, logged, budget, active, flag, live,
                 changes, rounds, calls, owes, notified, history>>

\* pause()
Pause(p) ==
  /\ Beginning(p, "pause") /\ ~Refused(p)
  /\ Move(p, "Paused")
  /\ Checkpoint(p)
  /\ Return(p)
  /\ UNCHANGED <<approval, kind, stored, logged, active, flag, live, changes,
                 rounds, calls, owes, notified, history>>

\* resume_with_user_input()
Answer(p) ==
  /\ Beginning(p, "reply") /\ state \notin Terminal /\ ~Refused(p)
  /\ Move(p, "Reasoning")
  /\ Observed(p)
  /\ Goto(p, "loop") /\ Keep(p)
  /\ UNCHANGED <<approval, kind, stored, logged, budget, active, flag, live,
                 changes, rounds, calls, owes, history>>

\* begin_user_turn(), after every approval still pending is invalidated
Reopen(p) ==
  /\ approval' = [a \in Approvals |-> IF a \in Pending THEN "invalidated"
                                      ELSE approval[a]]
  /\ state' = "Reasoning"
  /\ phase' = [phase EXCEPT ![handle[p]] = "Reasoning"]
  /\ Observed(p)
  /\ Goto(p, "loop") /\ Keep(p)
  /\ UNCHANGED <<kind, stored, logged, active, flag, live, changes, owes,
                 history>>

\* retry_after_failure(): the rounds already used still count
Retry(p) ==
  /\ Beginning(p, "retry") /\ ~Refused(p)
  /\ Reopen(p)
  /\ Checkpoint(p)
  /\ UNCHANGED <<rounds, calls>>

\* continue_conversation(): a new turn has its whole budget
Continue(p) ==
  /\ Beginning(p, "reply") /\ state \in Terminal /\ ~Refused(p)
  /\ Reopen(p)
  /\ rounds' = [rounds EXCEPT ![handle[p]] = 0]
  /\ calls' = [calls EXCEPT ![handle[p]] = 0]
  /\ budget' = [rounds |-> 0, calls |-> 0]

-----------------------------------------------------------------------------
(* approve() and reject().                                                 *)

\* The approval row is read, then the policy snapshot is awaited.
ReadApproval(p) ==
  /\ Beginning(p, "approve") /\ ~Refused(p)
  /\ seen' = [seen EXCEPT ![p] = approval[arg[p]]]
  /\ Goto(p, "policy")
  /\ UNCHANGED <<db, service, controller, op, arg, handle, result, history>>

Decide(p, v) == approval' = [approval EXCEPT ![arg[p]] = v]

\* validate_pending_*: the row as it was read must be pending.
StillValid(p, matches) == matches /\ seen[p] = "pending"

\* decide + approvals.save, the policy having matched or not
Judge(p, matches) ==
  /\ pc[p] = "policy"
  /\ IF StillValid(p, matches)
     THEN Decide(p, "granted") /\ Goto(p, "granted")
     ELSE Decide(p, "invalidated") /\ Goto(p, "verdict")
  /\ Keep(p)
  /\ UNCHANGED <<state, kind, stored, logged, budget, active, flag, live,
                 changes, controller, history>>

\* reject(): nothing asks whether the row is still pending
Reject(p) ==
  /\ Beginning(p, "reject") /\ ~Refused(p)
  /\ Decide(p, "rejected")
  /\ Goto(p, "verdict") /\ Keep(p)
  /\ UNCHANGED <<state, kind, stored, logged, budget, active, flag, live,
                 changes, controller, history>>

\* The refusal becomes an observation and the run reasons again.
Resume(p) ==
  /\ pc[p] = "verdict"
  /\ stored' = stored \ {arg[p]}
  /\ Move(p, "Reasoning")
  /\ Observed(p)
  /\ Goto(p, "loop") /\ Keep(p)
  /\ UNCHANGED <<approval, kind, logged, budget, active, flag, live, changes,
                 rounds, calls, owes, history>>

\* Mutant: the row of an approved command is not deleted.
StartCallKeepsRow(p) ==
  /\ pc[p] = "granted" /\ kind[arg[p]] # "change"
  /\ Move(p, "Acting")
  /\ Goto(p, "started") /\ Keep(p)
  /\ UNCHANGED <<approval, kind, stored, logged, budget, active, flag, live,
                 changes, rounds, calls, owes, notified, history>>

\* The call or command leaves the store and the run is Acting.
StartCall(p) ==
  /\ pc[p] = "granted" /\ kind[arg[p]] # "change"
  /\ stored' = stored \ {arg[p]}
  /\ Move(p, "Acting")
  /\ Goto(p, "started") /\ Keep(p)
  /\ UNCHANGED <<approval, kind, logged, budget, active, flag, live, changes,
                 rounds, calls, owes, notified, history>>

\* What the target keeps of a command that reached it.
Touched(k, ok) == IF k = "write" THEN TRUE
                  ELSE IF k = "read" /\ ok THEN FALSE ELSE dirty

\* Mutant: the flag is not looked at before the command is sent.
ExecuteAnyway(p, sent, ok) ==
  LET a == arg[p] IN
  /\ pc[p] = "started"
  /\ ok => sent
  /\ IF sent THEN /\ ran' = [ran EXCEPT ![a] = @ + 1]
                  /\ dirty' = Touched(kind[a], ok)
             ELSE UNCHANGED <<ran, dirty>>
  /\ result' = [result EXCEPT ![p] = ok]
  /\ Goto(p, "ran")
  /\ UNCHANGED <<db, service, controller, op, arg, handle, seen, recorded,
                 unsettled, stopped>>

\* execute_command / execute_reads: a raised flag refuses before anything is
\* sent, a lost session does too; otherwise the action runs, and the answer
\* may be a failure although it ran (timeout, cancelled in flight).
Execute(p, sent, ok) ==
  LET a == arg[p] IN
  /\ pc[p] = "started"
  /\ flag[handle[p]] => ~sent
  /\ ok => sent
  /\ IF sent THEN /\ ran' = [ran EXCEPT ![a] = @ + 1]
                  /\ dirty' = Touched(kind[a], ok)
             ELSE UNCHANGED <<ran, dirty>>
  /\ result' = [result EXCEPT ![p] = ok]
  /\ Goto(p, "ran")
  /\ UNCHANGED <<db, service, controller, op, arg, handle, seen, recorded,
                 unsettled, stopped>>

\* record_command_outcome: what a command leaves to verify
Owed(k, ok, before) == IF k = "write" THEN TRUE
                       ELSE IF k = "read" /\ ok THEN FALSE ELSE before

\* Observing; the outcome is kept in memory and in the event log.
Record(p) ==
  LET a == arg[p]
      h == handle[p] IN
  /\ pc[p] = "ran"
  /\ Move(p, "Observing")
  /\ calls' = [calls EXCEPT ![h] = @ + 1]
  /\ owes' = [owes EXCEPT ![h] = Owed(kind[a], result[p], @)]
  /\ logged' = Owed(kind[a], result[p], logged)
  /\ recorded' = recorded \cup {a}
  /\ Observed(p)
  /\ Goto(p, "loop") /\ Keep(p)
  /\ UNCHANGED <<approval, kind, stored, budget, active, flag, live, changes,
                 rounds, ran, dirty, unsettled, stopped>>

-----------------------------------------------------------------------------
(* approve_change_set().                                                   *)

\* ChangeSetService::approve takes a ChangeSet that is Live and NotStarted;
\* it may refuse one that is (revised, step approval, store failure).
ApproveChange(p) ==
  /\ pc[p] = "granted" /\ kind[arg[p]] = "change"
  /\ arg[p] \in changes
  /\ Move(p, "ExecutingChange")
  /\ Goto(p, "execute") /\ Keep(p)
  /\ UNCHANGED <<approval, kind, stored, logged, budget, active, flag, live,
                 changes, rounds, calls, owes, notified, history>>

\* ... and its error leaves through `?`: nothing else is undone.
ApproveChangeError(p) ==
  /\ pc[p] = "granted" /\ kind[arg[p]] = "change"
  /\ Fail(p)
  /\ UNCHANGED <<db, active, flag, live, changes, controller, history>>

\* execute_with_policy: committed or failed, but started
ExecuteChange(p, ok) ==
  /\ pc[p] = "execute"
  /\ arg[p] \in changes
  /\ changes' = changes \ {arg[p]}
  /\ ran' = [ran EXCEPT ![arg[p]] = @ + 1]
  /\ unsettled' = IF ok THEN unsettled \cup {arg[p]} ELSE unsettled
  /\ result' = [result EXCEPT ![p] = ok]
  /\ Move(p, "Verifying")
  /\ Goto(p, "verify")
  /\ UNCHANGED <<approval, kind, stored, logged, budget, active, flag, holder,
                 live, rounds, calls, owes, notified, op, arg, handle, seen,
                 recorded, dirty, stopped>>

\* ... or refused, and the error leaves the run in ExecutingChange
ExecuteChangeError(p) ==
  /\ pc[p] = "execute"
  /\ Fail(p)
  /\ UNCHANGED <<db, active, flag, live, changes, controller, history>>

\* Mutant: a change that does not verify is only reported.
VerifyChangeOnly(p, verified) ==
  /\ pc[p] = "verify"
  /\ verified => result[p]
  /\ Move(p, "Reasoning") /\ Goto(p, "loop") /\ Observed(p)
  /\ unsettled' = IF verified THEN unsettled \ {arg[p]} ELSE unsettled
  /\ Keep(p)
  /\ UNCHANGED <<approval, kind, stored, logged, budget, active, flag, live,
                 changes, rounds, calls, owes, ran, recorded, dirty, stopped>>

\* A committed change that does not verify is rolled back.
VerifyChange(p, verified) ==
  /\ pc[p] = "verify"
  /\ verified => result[p]
  /\ IF result[p] /\ ~verified
     THEN /\ Move(p, "RollingBack") /\ Goto(p, "rollback")
          /\ UNCHANGED <<notified, unsettled>>
     ELSE /\ Move(p, "Reasoning") /\ Goto(p, "loop") /\ Observed(p)
          /\ unsettled' = unsettled \ {arg[p]}
  /\ Keep(p)
  /\ UNCHANGED <<approval, kind, stored, logged, budget, active, flag, live,
                 changes, rounds, calls, owes, ran, recorded, dirty, stopped>>

\* rollback() ran; whether it succeeded is only reported.
RollBack(p) ==
  /\ pc[p] = "rollback"
  /\ unsettled' = unsettled \ {arg[p]}
  /\ Move(p, "Reasoning")
  /\ Observed(p)
  /\ Goto(p, "loop") /\ Keep(p)
  /\ UNCHANGED <<approval, kind, stored, logged, budget, active, flag, live,
                 changes, rounds, calls, owes, ran, recorded, dirty, stopped>>

-----------------------------------------------------------------------------
(* drive_loop().                                                           *)

\* finish_cancelled, at the top of the loop or after the reasoner answered
StopLoop(p) ==
  /\ pc[p] \in {"loop", "deciding"}
  /\ flag[handle[p]]
  /\ EndRun(p, "Cancelled")
  /\ UNCHANGED <<approval, kind, stored, logged, budget, active, flag, live,
                 changes, rounds, calls, owes, notified, history>>

\* fail(): the clock ran out (at any time) or the rounds did; or the reasoner
\* failed for good, which is found out before the flag is looked at.
FailLoop(p) ==
  /\ \/ pc[p] = "loop" /\ ~flag[handle[p]]
     \/ pc[p] = "deciding" /\ "abort" \in Decisions
  /\ EndRun(p, "Failed")
  /\ UNCHANGED <<approval, kind, stored, logged, budget, active, flag, live,
                 changes, rounds, calls, owes, notified, history>>

RoundsLeft(h) == rounds[h] < MaxRounds

\* Mutant: a round is not counted.
ReasonForFree(p) ==
  LET h == handle[p] IN
  /\ pc[p] = "loop" /\ ~flag[h] /\ RoundsLeft(h)
  /\ IF phase[h] = "Reasoning" THEN Stay ELSE Move(p, "Reasoning")
  /\ Goto(p, "deciding") /\ Keep(p)
  /\ UNCHANGED <<approval, kind, stored, logged, budget, active, flag, live,
                 changes, rounds, calls, owes, notified, history>>

Reason(p) ==
  LET h == handle[p] IN
  /\ pc[p] = "loop" /\ ~flag[h] /\ RoundsLeft(h)
  /\ IF phase[h] = "Reasoning" THEN Stay ELSE Move(p, "Reasoning")
  /\ rounds' = [rounds EXCEPT ![h] = @ + 1]
  /\ Goto(p, "deciding") /\ Keep(p)
  /\ UNCHANGED <<approval, kind, stored, logged, budget, active, flag, live,
                 changes, calls, owes, notified, history>>

\* transition(Reasoning)? fails: the loop returns an error.
Strand(p) ==
  LET h == handle[p] IN
  /\ pc[p] = "loop" /\ ~flag[h] /\ RoundsLeft(h)
  /\ phase[h] # "Reasoning" /\ ~CanTransitionTo(phase[h], "Reasoning")
  /\ Fail(p)
  /\ UNCHANGED <<db, active, flag, live, changes, controller, history>>

\* The loop looks at the flag, then acts on the decision.
Decided(p, d) ==
  /\ pc[p] = "deciding" /\ d \in Decisions
  /\ ~flag[handle[p]]

\* Another observation and another round: a reply that is not a decision
\* (noticed before the flag is looked at), an invalid decision, a command the
\* loop guard or the gate refuses, a change not bound to evidence.
Again(p) ==
  /\ \/ pc[p] = "deciding" /\ "unusable" \in Decisions
     \/ Decided(p, "refused")
  /\ Observed(p)
  /\ Goto(p, "loop") /\ Keep(p)
  /\ UNCHANGED <<db, active, flag, live, changes, phase, rounds, calls, owes,
                 history>>

\* Final, and nothing is left to verify
Complete(p) ==
  /\ Decided(p, "final") /\ ~owes[handle[p]]
  /\ EndRun(p, "Completed")
  /\ UNCHANGED <<approval, kind, stored, logged, budget, active, flag, live,
                 changes, rounds, calls, owes, notified, history>>

\* Final too early: the reasoner is told once ...
Notify(p) ==
  LET h == handle[p] IN
  /\ Decided(p, "final") /\ owes[h] /\ ~notified[h]
  /\ notified' = [notified EXCEPT ![h] = TRUE]
  /\ Goto(p, "loop") /\ Keep(p)
  /\ UNCHANGED <<db, active, flag, live, changes, phase, rounds, calls, owes,
                 history>>

\* ... and when it insists the run asks the user, as it does for AskUser.
AskUser(p) ==
  LET h == handle[p] IN
  /\ \/ Decided(p, "ask")
     \/ Decided(p, "final") /\ owes[h] /\ notified[h]
  /\ Move(p, "AwaitingUser")
  /\ Checkpoint(p)
  /\ Return(p)
  /\ UNCHANGED <<approval, kind, stored, logged, active, flag, live, changes,
                 rounds, calls, owes, notified, history>>

\* More calls than the budget has left: n of them were asked for.
OverBudget(p, n) ==
  /\ \/ \E d \in {"reads", "gated", "blocked"} : Decided(p, d)
     \/ n = 1 /\ \E d \in {"refused", "inspect", "mutate"} : Decided(p, d)
  /\ calls[handle[p]] + n > MaxCalls
  /\ EndRun(p, "Failed")
  /\ UNCHANGED <<approval, kind, stored, logged, budget, active, flag, live,
                 changes, rounds, calls, owes, notified, history>>

\* The calls the gate lets through are dispatched together; they count when
\* the answers are in, which nobody can tell from here.
ReadBatch(p, n) ==
  LET h == handle[p] IN
  /\ Decided(p, "reads") /\ calls[h] + n <= MaxCalls
  /\ Move(p, "Acting")
  /\ calls' = [calls EXCEPT ![h] = @ + n]
  /\ Goto(p, "reads") /\ Keep(p)
  /\ UNCHANGED <<approval, kind, stored, logged, budget, active, flag, live,
                 changes, rounds, owes, notified, history>>

ReadAnswers(p) ==
  /\ pc[p] = "reads"
  /\ Move(p, "Observing")
  /\ Observed(p)
  /\ Goto(p, "loop") /\ Keep(p)
  /\ UNCHANGED <<approval, kind, stored, logged, budget, active, flag, live,
                 changes, rounds, calls, owes, history>>

\* Every call of the batch is blocked: back to the loop, still Acting.
BlockBatch(p, n) ==
  LET h == handle[p] IN
  /\ Decided(p, "blocked") /\ calls[h] + n <= MaxCalls
  /\ Move(p, "Acting")
  /\ Observed(p)
  /\ Goto(p, "loop") /\ Keep(p)
  /\ UNCHANGED <<approval, kind, stored, logged, budget, active, flag, live,
                 changes, rounds, calls, owes, history>>

\* A new ApprovalRequest bound to an action of kind k, and the action's row.
Ask(p, a, k) ==
  /\ approval[a] = "absent"
  /\ approval' = [approval EXCEPT ![a] = "pending"]
  /\ kind' = [kind EXCEPT ![a] = k]
  /\ stored' = IF k = "change" THEN stored ELSE stored \cup {a}
  /\ arg' = [arg EXCEPT ![p] = a]
  /\ Goto(p, "park")
  /\ UNCHANGED <<logged, budget, active, flag, holder, live, rounds, calls,
                 owes, notified, op, handle, seen, result, history>>

\* A call of the batch needs the user; the ones before it are forgotten.
AskTool(p, a, n) ==
  /\ Decided(p, "gated") /\ calls[handle[p]] + n <= MaxCalls
  /\ Move(p, "Acting")
  /\ Ask(p, a, "tool")
  /\ UNCHANGED changes

\* request_command_approval, for a command that only reads or one that writes
AskCommand(p, a, d) ==
  /\ d \in {"inspect", "mutate"} /\ Decided(p, d)
  /\ calls[handle[p]] + 1 <= MaxCalls
  /\ Ask(p, a, IF d = "mutate" THEN "write" ELSE "read")
  /\ Stay /\ UNCHANGED changes

\* propose_change_set: the draft is checked against the policy ...
DraftChange(p) ==
  /\ Decided(p, "change")
  /\ Move(p, "PlanningChange")
  /\ Goto(p, "draft") /\ Keep(p)
  /\ UNCHANGED <<approval, kind, stored, logged, budget, active, flag, live,
                 changes, rounds, calls, owes, notified, history>>

DraftRefused(p) ==
  /\ pc[p] = "draft"
  /\ Move(p, "Reasoning")
  /\ Observed(p)
  /\ Goto(p, "loop") /\ Keep(p)
  /\ UNCHANGED <<approval, kind, stored, logged, budget, active, flag, live,
                 changes, rounds, calls, owes, history>>

\* ... and its approval asked for.
AskChange(p, a) ==
  /\ pc[p] = "draft"
  /\ Ask(p, a, "change")
  /\ changes' = changes \cup {a}
  /\ Stay

\* The run waits for the user; nothing looks at the flag any more.
Park(p) ==
  /\ pc[p] = "park"
  /\ Move(p, "AwaitingApproval")
  /\ Checkpoint(p)
  /\ Return(p)
  /\ UNCHANGED <<approval, kind, stored, logged, active, flag, live, changes,
                 rounds, calls, owes, notified, history>>

-----------------------------------------------------------------------------
\* The process dies; open() recovers the rows and nothing else survives:
\* ChangeSets come back metadata-only.
Crash ==
  /\ MayCrash
  /\ state' = Recovered(state)
  /\ active' = None
  /\ flag' = [h \in Handles |-> FALSE]
  /\ holder' = [h \in Handles |-> None]
  /\ live' = [h \in Handles |-> FALSE]
  /\ changes' = {}
  /\ phase' = [h \in Handles |-> "Created"]
  /\ rounds' = [h \in Handles |-> 0]
  /\ calls' = [h \in Handles |-> 0]
  /\ owes' = [h \in Handles |-> FALSE]
  /\ notified' = [h \in Handles |-> FALSE]
  /\ pc' = [p \in Procs |-> "idle"]
  /\ op' = [p \in Procs |-> "none"]
  /\ arg' = [p \in Procs |-> None]
  /\ handle' = [p \in Procs |-> None]
  /\ seen' = [p \in Procs |-> "absent"]
  /\ result' = [p \in Procs |-> FALSE]
  /\ stopped' = FALSE
  /\ UNCHANGED <<approval, kind, stored, logged, budget, ran, recorded, dirty,
                 unsettled>>

\* What the user starts.
Arrive(p) ==
  \/ \E o \in Offered, a \in Approvals \cup {None} : Request(p, o, a)
  \/ Register(p) \/ Cancel(p) \/ CancelUnbound(p)

\* The first step under the lock.
Begin(p) ==
  \/ Refuse(p) \/ Drive(p) \/ Unpause(p) \/ Pause(p) \/ Answer(p) \/ Retry(p) \/ Continue(p)
  \/ ReadApproval(p) \/ Reject(p)

\* The user's answer is carried out.
Act(p) ==
  \/ \E m \in BOOLEAN : Judge(p, m)
  \/ Resume(p) \/ StartCall(p)
  \/ \E sent, ok \in BOOLEAN : Execute(p, sent, ok)
  \/ Record(p)
  \/ ApproveChange(p) \/ ApproveChangeError(p)
  \/ \E ok \in BOOLEAN : ExecuteChange(p, ok)
  \/ ExecuteChangeError(p)
  \/ \E ok \in BOOLEAN : VerifyChange(p, ok)
  \/ RollBack(p)

Loop(p) ==
  \/ StopLoop(p) \/ FailLoop(p) \/ Reason(p) \/ Strand(p) \/ Again(p)
  \/ Complete(p) \/ Notify(p) \/ AskUser(p)
  \/ \E n \in 1 .. MaxBatch : \/ OverBudget(p, n) \/ ReadBatch(p, n)
                              \/ BlockBatch(p, n)
                              \/ \E a \in Approvals : AskTool(p, a, n)
  \/ ReadAnswers(p)
  \/ \E a \in Approvals : AskChange(p, a)
                          \/ \E d \in Decisions : AskCommand(p, a, d)
  \/ DraftChange(p) \/ DraftRefused(p) \/ Park(p)

\* What a task does once it is scheduled.
Step(p) == Remove(p) \/ CancelFree(p) \/ CancelBusy(p) \/ Begin(p) \/ Act(p)
           \/ Loop(p)

Next == (\E p \in Procs : Arrive(p) \/ Acquire(p) \/ Step(p)) \/ Crash

Spec == Init /\ [][Next]_vars

-----------------------------------------------------------------------------
(* Properties.                                                             *)

DbOK ==
  /\ state \in RunStates
  /\ approval \in [Approvals -> {"absent", "pending"} \cup Verdicts]
  /\ kind \in [Approvals -> Kinds]
  /\ stored \subseteq Approvals
  /\ logged \in BOOLEAN
  /\ budget \in [rounds : 0 .. MaxRounds, calls : Nat]

ServiceOK ==
  /\ active \in Handles \cup {None}
  /\ flag \in [Handles -> BOOLEAN]
  /\ holder \in [Handles -> Procs \cup {None}]
  /\ live \in [Handles -> BOOLEAN]
  /\ changes \subseteq Approvals

ControllerOK ==
  /\ phase \in [Handles -> RunStates]
  /\ rounds \in [Handles -> 0 .. MaxRounds]
  /\ calls \in [Handles -> Nat]
  /\ owes \in [Handles -> BOOLEAN]
  /\ notified \in [Handles -> BOOLEAN]

RequestsOK ==
  /\ pc \in [Procs -> Steps]
  /\ op \in [Procs -> Ops]
  /\ arg \in [Procs -> Approvals \cup {None}]
  /\ handle \in [Procs -> Handles \cup {None}]
  /\ seen \in [Procs -> {"absent", "pending"} \cup Verdicts]
  /\ result \in [Procs -> BOOLEAN]

HistoryOK ==
  /\ ran \in [Approvals -> Nat]
  /\ recorded \subseteq Approvals
  /\ dirty \in BOOLEAN
  /\ unsettled \subseteq Approvals
  /\ stopped \in BOOLEAN

\* The rows, the service, the controllers and the requests hold what their
\* types allow; the rounds of a run never pass budget.max_reasoner_rounds,
\* however often it is retried, resumed or rehydrated.
TypeOK == DbOK /\ ServiceOK /\ ControllerOK /\ RequestsOK /\ HistoryOK

Idle(h) == holder[h] = None

\* An approval authorizes one execution: two requests that both found it
\* pending before they waited for the slot do not both send its action, and a
\* command whose answer was lost is not sent again.
RunsAtMostOnce == \A a \in Approvals : ran[a] <= 1

\* What reached the target was granted and is on record as granted, also
\* after a new turn invalidated what was pending (retry_after_failure,
\* continue_conversation) and after a stale reject.
RanIsGranted == \A a \in Approvals : ran[a] > 0 => approval[a] = "granted"

\* An action the user turned down never reaches the target, and what did
\* reach it is never recorded as turned down (reject, reject_change_set).
RejectedNeverRuns == \A a \in Approvals : approval[a] = "rejected" => ran[a] = 0

\* A run ends in Completed only when every write on the target was followed
\* by a successful read: pending_command_verification, kept in memory by
\* record_command_outcome and rebuilt from events by rehydrate, misses none.
CompletedIsVerified == state = "Completed" => ~dirty

\* With crashes, the only writes that verification misses are those whose
\* outcome never got into the event log: everything recorded is rebuilt.
VerifiedOrUnrecorded ==
  (state = "Completed" /\ dirty) =>
    \E a \in Approvals : kind[a] = "write" /\ ran[a] > 0 /\ a \notin recorded

\* A run is Completed only when every change it committed was verified or
\* sent to rollback (approve_change_set).
CompletedSettlesChanges == state = "Completed" => unsettled = {}

\* A run that waits for approval, with nobody at work on it, has exactly one
\* for the user to decide: approve() and reject() are its only ways on.
WaitingIsAnswerable ==
  (state = "AwaitingApproval" /\ \A h \in Handles : Idle(h)) =>
    \E a \in Pending : Pending = {a}

\* Nobody holds the controller: the run is parked or over, not mid-step.
\* No method of the controller returns with the run in the middle of a round.
ParkedWhenIdle ==
  (\A h \in Handles : Idle(h)) => state \in Terminal \cup Interrupt \cup {"Created"}

\* Once cancel() returned and nobody drives the run, the run is over.
CancelEndsRun ==
  (stopped /\ \A h \in Handles : Idle(h)) => state \in Terminal

\* After cancel() returned, no call or command goes out until the user asks
\* again: execute_command looks at the flag before it sends.
CancelStopsCommands ==
  [][\A a \in Approvals : (stopped /\ kind[a] # "change") => ran'[a] = ran[a]]_vars

\* Every step of the row is one the state machine allows, or a new turn
\* (begin_user_turn), or the recovery of a run that was in the middle of the
\* loop: the copies of the run in two controllers, the row and the cancel of
\* a run that is not bound never disagree on where it can go.
StateSteps ==
  [][\/ state' = state
     \/ CanTransitionTo(state, state')
     \/ state \in Terminal /\ state' = "Reasoning"
     \/ state' = "Paused" /\ state' = Recovered(state)]_vars

\* The run keeps the promise an approval makes (ApprovalLedger): asked once,
\* decided once, sent only when granted, and sent once.
Ledger == INSTANCE ApprovalLedger WITH Approvals <- Approvals, approval <- approval, ran <- ran
ImplementsLedger == Ledger!Spec

\* The requests in flight get processor time; the slot's mutex is fair.
Fairness == \A p \in Procs : WF_vars(Step(p)) /\ SF_vars(Acquire(p))

\* Every request is answered: the loop under the lock always comes to an end,
\* because drive_loop counts a round before every decision.
RequestsEnd == \A p \in Procs : pc[p] # "idle" ~> pc[p] = "idle"

=============================================================================
