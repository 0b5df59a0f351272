--------------------------- MODULE ToolExecution ----------------------------
(* Native tools: policy, audit, and the commands they run on a host.  The   *)
(* audit file is rewritten under a lock and keeps the last records only;    *)
(* timeouts and cancellation drop a tool that is still at work on the host. *)
EXTENDS Naturals, Sequences, SequencesExt, FiniteSets

CONSTANTS
  Invocations,
  MaxRecords,   \* MAX_TOOL_AUDIT_RECORDS
  Contents      \* what the patched file may hold

(* Whatever a file holds, it can be patched to hold something else.         *)
ASSUME PatchAssumption == \A old \in Contents : \E new \in Contents : new # old

VARIABLES
  toolCall,         \* the invocations
  toolAudit,    \* the records saved
  dropped,      \* invocations whose record the limit pushed out
  allowed,      \* what the agent policy permits now
  hostFile,     \* the file on the host
  serviceUp,    \* the service on the host
  touched       \* invocations that changed the host

toolVars == <<toolCall, toolAudit, dropped, allowed, hostFile, serviceUp, touched>>

ReadTools == {"system_info"}
WriteTools == {"file_patch", "service_restart"}

(* native_descriptors: a write needs approval, a patch can be rolled back.  *)
requires_approval(name) == name \in WriteTools
supports_rollback(name) == name = "file_patch"

NoTool == [pc |-> "idle", name |-> "none", authority |-> "none", cancelled |-> FALSE,
           seen |-> {}, outcome |-> "none"]

ToolExecutionInit ==
  /\ toolCall = [i \in Invocations |-> NoTool]
  /\ toolAudit = <<>> /\ dropped = {} /\ touched = {}
  /\ allowed = TRUE
  /\ hostFile \in Contents /\ serviceUp = TRUE

ToolAt(i, pc) == toolCall[i].pc = pc
ToolTo(i, pc) == toolCall' = [toolCall EXCEPT ![i].pc = pc]
ToolEnds(i, outcome) == toolCall' = [toolCall EXCEPT ![i].pc = "complete", ![i].outcome = outcome]

-----------------------------------------------------------------------------
(* Around the tools: the policy is edited, the host changes by itself.      *)

edit_policy == /\ allowed' = ~allowed
               /\ UNCHANGED <<toolCall, toolAudit, dropped, hostFile, serviceUp, touched>>

host_changes == /\ \/ hostFile' \in Contents /\ UNCHANGED serviceUp
                   \/ serviceUp' \in BOOLEAN /\ UNCHANGED hostFile
                /\ UNCHANGED <<toolCall, toolAudit, dropped, allowed, touched>>

(* A model may ask for reads only; writes come from an approved change set, *)
(* forwards or as its rollback.                                             *)
from_model_read_call(name) == name \in ReadTools

request_tool(i) ==
  /\ toolCall[i] = NoTool
  /\ \E name \in ReadTools \union WriteTools, authority \in {"none", "approved", "rollback"} :
       /\ authority = "none" => from_model_read_call(name) \/ name = "file_patch"
       /\ toolCall' = [toolCall EXCEPT ![i] = [NoTool EXCEPT !.pc = "evaluate", !.name = name,
                                                     !.authority = authority]]
  /\ UNCHANGED <<toolAudit, dropped, allowed, hostFile, serviceUp, touched>>

cancel_tool(i) == /\ toolCall[i].pc \notin {"idle", "done"} /\ toolCall[i].authority = "none"
             /\ ~toolCall[i].cancelled
             /\ toolCall' = [toolCall EXCEPT ![i].cancelled = TRUE]
             /\ UNCHANGED <<toolAudit, dropped, allowed, hostFile, serviceUp, touched>>

-----------------------------------------------------------------------------
(* execute: the record is saved before anything runs.                       *)

evaluate_tool(i) == allowed /\ (requires_approval(toolCall[i].name) => toolCall[i].authority # "none")

NewRecord(i) ==
  [of |-> i, status |-> IF evaluate_tool(i) THEN "in_progress" ELSE "policy_blocked",
   verification |-> IF toolCall[i].name \in WriteTools THEN "pending" ELSE "not_applicable",
   rollback |-> IF toolCall[i].authority = "rollback" THEN "executed"
                ELSE IF supports_rollback(toolCall[i].name) THEN "available" ELSE "not_supported",
   cancelled |-> FALSE]

PushedOut(records) == IF Len(records) > MaxRecords THEN {Head(records).of} ELSE {}
KeptRecords(records) == IF Len(records) > MaxRecords THEN Tail(records) ELSE records

(* An invocation whose record cannot be saved does not run.                 *)
run_unrecorded(i) == ToolTo(i, IF evaluate_tool(i) THEN "start" ELSE "done")

unsaved(i) == ToolTo(i, "done")

append_record(i) ==
  /\ ToolAt(i, "evaluate")
  /\ \/ /\ toolAudit' = KeptRecords(Append(toolAudit, NewRecord(i)))
        /\ dropped' = dropped \union PushedOut(Append(toolAudit, NewRecord(i)))
        /\ ToolTo(i, IF evaluate_tool(i) THEN "start" ELSE "done")
     \/ unsaved(i) /\ UNCHANGED <<toolAudit, dropped>>
  /\ UNCHANGED <<allowed, hostFile, serviceUp, touched>>

start_tool(i) ==
  /\ ToolAt(i, "start")
  /\ IF toolCall[i].cancelled THEN ToolEnds(i, "cancelled")
     ELSE \/ ToolEnds(i, "failed")                     \* the session is gone
          \/ ToolTo(i, "working")
  /\ UNCHANGED <<toolAudit, dropped, allowed, hostFile, serviceUp, touched>>

(* A read looks at the host; any of its commands may fail.                  *)
run_read(i) == /\ ToolAt(i, "working") /\ toolCall[i].name \in ReadTools
               /\ \E outcome \in {"succeeded", "failed"} : ToolEnds(i, outcome)
               /\ UNCHANGED <<toolAudit, dropped, allowed, hostFile, serviceUp, touched>>

(* file_patch: read, write, read back, and put the old text back when the   *)
(* file is not what was written.                                            *)
file_patch_read(i) ==
  /\ ToolAt(i, "working") /\ toolCall[i].name = "file_patch"
  /\ \/ toolCall' = [toolCall EXCEPT ![i].pc = "write", ![i].seen = {hostFile}]
     \/ ToolEnds(i, "failed")
  /\ UNCHANGED <<toolAudit, dropped, allowed, hostFile, serviceUp, touched>>

Patched(i) == CHOOSE new \in Contents : new \notin toolCall[i].seen

file_patch_write(i) ==
  /\ ToolAt(i, "write")
  /\ \/ /\ hostFile' = Patched(i) /\ touched' = touched \union {i}
        /\ ToolTo(i, "verify")
     \/ ToolEnds(i, "failed") /\ UNCHANGED <<hostFile, touched>>
  /\ UNCHANGED <<toolAudit, dropped, allowed, serviceUp>>

file_patch_verify(i) ==
  /\ ToolAt(i, "verify")
  /\ IF hostFile = Patched(i)
     THEN (ToolEnds(i, "succeeded") \/ ToolEnds(i, "failed")) /\ UNCHANGED hostFile
     ELSE /\ ToolEnds(i, "failed")
          /\ hostFile' \in toolCall[i].seen \union {hostFile}
  /\ UNCHANGED <<toolAudit, dropped, allowed, serviceUp, touched>>

(* service_change: the command, then the status it left.                    *)
service_change(i) ==
  /\ ToolAt(i, "working") /\ toolCall[i].name = "service_restart"
  /\ \/ /\ serviceUp' \in BOOLEAN /\ touched' = touched \union {i}
        /\ ToolTo(i, "status")
     \/ ToolEnds(i, "failed") /\ UNCHANGED <<serviceUp, touched>>
  /\ UNCHANGED <<toolAudit, dropped, allowed, hostFile>>

service_status(i) ==
  /\ ToolAt(i, "status")
  /\ ToolEnds(i, IF serviceUp THEN "succeeded" ELSE "failed")
  /\ UNCHANGED <<toolAudit, dropped, allowed, hostFile, serviceUp, touched>>

(* The tool is dropped where it is: what it has done on the host stays.     *)
ToolWorking(i) == toolCall[i].pc \in {"working", "write", "verify", "status"}

time_out_tool(i) == /\ ToolWorking(i)
               /\ ToolEnds(i, "failed")
               /\ UNCHANGED <<toolAudit, dropped, allowed, hostFile, serviceUp, touched>>

MarkCancelled(i) == [r \in DOMAIN toolAudit |->
                       IF toolAudit[r].of = i THEN [toolAudit[r] EXCEPT !.cancelled = TRUE]
                       ELSE toolAudit[r]]

HasRecord(i) == \E r \in DOMAIN toolAudit : toolAudit[r].of = i

(* Without its record the answer is an error.                               *)
notice_cancellation(i) ==
  /\ ToolWorking(i) /\ toolCall[i].cancelled
  /\ IF HasRecord(i) THEN ToolEnds(i, "cancelled") /\ toolAudit' = MarkCancelled(i)
     ELSE ToolTo(i, "done") /\ UNCHANGED toolAudit
  /\ UNCHANGED <<dropped, allowed, hostFile, serviceUp, touched>>

Completed(record, outcome) ==
  [record EXCEPT !.status = outcome,
     !.verification = IF @ = "not_applicable" THEN @
                      ELSE IF outcome = "succeeded" THEN "succeeded" ELSE "failed",
     !.rollback = IF @ = "executed" /\ outcome # "succeeded" THEN "failed" ELSE @]

(* complete: the record takes the outcome, or stays in progress for good.   *)
complete_record(i) ==
  /\ ToolAt(i, "complete")
  /\ ToolTo(i, "done")
  /\ \/ toolAudit' = [r \in DOMAIN toolAudit |->
                        IF toolAudit[r].of = i THEN Completed(toolAudit[r], toolCall[i].outcome)
                        ELSE toolAudit[r]]
     \/ UNCHANGED toolAudit
  /\ UNCHANGED <<dropped, allowed, hostFile, serviceUp, touched>>

ToolExecutionNext ==
  \/ edit_policy \/ host_changes
  \/ \E i \in Invocations :
       \/ request_tool(i) \/ cancel_tool(i) \/ append_record(i) \/ start_tool(i) \/ run_read(i)
       \/ file_patch_read(i) \/ file_patch_write(i) \/ file_patch_verify(i)
       \/ service_change(i) \/ service_status(i)
       \/ time_out_tool(i) \/ notice_cancellation(i) \/ complete_record(i)

ToolExecutionSpec == ToolExecutionInit /\ [][ToolExecutionNext]_toolVars

-----------------------------------------------------------------------------
(* A change on a host is on record before it is made and stays so until the *)
(* limit pushes the record out; a record that says it was blocked or never  *)
(* approved stands for nothing done, one that says it succeeded for         *)
(* something done.  Saves fail, tools time out, are cancelled, and the      *)
(* policy is edited meanwhile.                                              *)
AuditIsTrue ==
  /\ \A i \in touched : HasRecord(i) \/ i \in dropped
  /\ \A r \in DOMAIN toolAudit :
       LET record == toolAudit[r] IN
       /\ record.status = "policy_blocked" => record.of \notin touched
       /\ record.verification = "succeeded" => record.of \in touched
       /\ record.of \in touched => toolCall[record.of].authority # "none"
=============================================================================
