----------------------------- MODULE MCAgentRun -----------------------------
(* Instances of AgentRun for TLC: one run of the agent, two requests of the *)
(* user at once.  A behaviour is one part's, chosen in the initial state:   *)
(*   clients    two clients that approve, reject and cancel, of which one   *)
(*              may retry and resume; commands, and restarts                *)
(*   decisions  one client, whatever the reasoner may decide, and restarts  *)
(*   races      two clients that approve, reject, pause and cancel;         *)
(*              commands, calls, and no restart                             *)
(*   changes    two clients and one proposal, of a change or of a command;  *)
(*              calls that the policy blocks, and no restart                *)
EXTENDS AgentRun, TLC

CONSTANTS Parts, c1, c2, a1, a2

VARIABLE part

MCClients ==
  /\ \A a \in Approvals : kind'[a] \in {"absent", "read", "write"}
  /\ \A p \in Procs : pc'[p] # "reads"
  /\ state' # "AwaitingUser"
  /\ \A c \in Clients : op'[c] \notin {"reply", "pause"}
  /\ \E c \in Clients : op'[c] \in {"none", "approve", "reject", "cancel"}

MCDecisions == \E c \in Clients : pc'[c] = "idle"

MCRaces ==
  /\ \A a \in Approvals : kind'[a] # "change"
  /\ \A p \in Procs : pc'[p] # "draft"

MCChanges ==
  /\ kind'[a2] = "absent" /\ kind'[a1] \in {"absent", "change", "write"}
  /\ \A p \in Procs : pc'[p] # "reads"

Symmetry == Permutations(Clients) \cup Permutations(Approvals)

(* Where liveness rules out symmetry: of clients that are both idle, and of *)
(* approvals that are both unused, the first is taken.                      *)
MCInOrder ==
  /\ pc[c1] = "idle" /\ pc[c2] = "idle" => pc'[c2] = "idle"
  /\ kind[a1] = "absent" => kind'[a2] = "absent"

MCInit == Init /\ part \in Parts

MCNext ==
  /\ UNCHANGED part
  /\ Next
  /\ part = "clients" => MCClients
  /\ part = "decisions" => MCDecisions
  /\ part = "races" => MCRaces /\ MCInOrder
  /\ part = "changes" => MCChanges /\ MCInOrder

MCSpec == MCInit /\ [][MCNext]_<<part, vars>>

MCFairSpec == MCSpec /\ Fairness

=============================================================================
