--------------------------- MODULE ApprovalLedger ---------------------------
(***************************************************************************)
(* What the approval of an agent's action promises, whatever the machinery *)
(* behind it does: an action is asked for once; the user (or a binding     *)
(* that drifted) turns it down for good, or it is granted for good; only a *)
(* granted action reaches the target, and it does so once.                 *)
(***************************************************************************)
EXTENDS Integers

CONSTANT Approvals

VARIABLES
  approval,   \* approval -> its state
  ran         \* approval -> how often its action reached the target

ledger == <<approval, ran>>

Denied == {"rejected", "invalidated"}

Init ==
  /\ approval = [a \in Approvals |-> "absent"]
  /\ ran = [a \in Approvals |-> 0]

Ask(a) ==
  /\ approval[a] = "absent"
  /\ approval' = [approval EXCEPT ![a] = "pending"]
  /\ UNCHANGED ran

Grant(a) ==
  /\ approval[a] = "pending"
  /\ approval' = [approval EXCEPT ![a] = "granted"]
  /\ UNCHANGED ran

\* Approvals may be turned down together, and again for another reason.
Deny ==
  /\ \A a \in Approvals :
       \/ approval'[a] = approval[a]
       \/ approval[a] \in {"pending"} \cup Denied /\ approval'[a] \in Denied
  /\ approval' \in [Approvals -> {"absent", "pending", "granted"} \cup Denied]
  /\ UNCHANGED ran

Run(a) ==
  /\ approval[a] = "granted" /\ ran[a] = 0
  /\ ran' = [ran EXCEPT ![a] = 1]
  /\ UNCHANGED approval

Next == (\E a \in Approvals : Ask(a) \/ Grant(a) \/ Run(a)) \/ Deny

Spec == Init /\ [][Next]_ledger

=============================================================================
