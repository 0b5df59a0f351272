----------------------------- MODULE MCSessions -----------------------------
(* An instance for TLC of the modules that open sessions and work in them.  *)
(* They share no variable: every behaviour is one part's, chosen in the     *)
(* initial state.                                                           *)
(*   ssh      a server and one behind it, one edit or change of a key       *)
(*   bastion  two overlapping requests, three providers, room for one flow  *)
(*   sftp, terminal, grants: the three states of SftpSessions               *)
EXTENDS SshSessions, Bastion, SftpSessions

VARIABLE part

MCJumpOf == [jump |-> "direct", target |-> "jump"]

MCInitialHost == [jump |-> "h1", target |-> "h2"]

MCInitialKey == [h1 |-> "k1", h2 |-> "k1"]

MCAccountsOf == [web |-> {"root"}]

MCSymmetry == Permutations(Calls) \cup Permutations(Conns) \cup Permutations(Flows)

MCInit ==
  /\ part \in {"ssh", "bastion", "sftp", "terminal", "grants"}
  /\ SshInit /\ Init /\ SftpInit /\ TerminalInit /\ GrantsInit

MCNext ==
  /\ UNCHANGED part
  /\ \/ part = "ssh" /\ SshNext /\ UNCHANGED <<vars, sftpVars, terminalVars, grantVars>>
     \/ part = "bastion" /\ Next /\ UNCHANGED <<sshVars, sftpVars, terminalVars, grantVars>>
     \/ part = "sftp" /\ SftpNext /\ UNCHANGED <<sshVars, vars, terminalVars, grantVars>>
     \/ part = "terminal" /\ TerminalNext /\ UNCHANGED <<sshVars, vars, sftpVars, grantVars>>
     \/ part = "grants" /\ GrantsNext /\ UNCHANGED <<sshVars, vars, sftpVars, terminalVars>>

MCSpec == MCInit /\ [][MCNext]_<<part, sshVars, vars, sftpVars, terminalVars, grantVars>>
=============================================================================
