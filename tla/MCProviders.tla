---------------------------- MODULE MCProviders ----------------------------
(* An instance for TLC of what the program asks others to do and waits for. *)
(* The modules share no variable: every behaviour is one part's, chosen in  *)
(* the initial state.                                                       *)
(*   jumpserver  two accounts, one the user's own, one change of the server *)
(*   teleport    two users and logins, two polls                            *)
(*   mcp         two servers with room for one, two requests                *)
(*   tools       two invocations and an audit of one record                 *)
EXTENDS JumpServer, Teleport, McpGateway, ToolExecution

VARIABLE part

MCJmsAccounts == {[alias |-> "ops", name |-> "ops", username |-> "root"],
                  [alias |-> "@USER", name |-> "me", username |-> "@USER"]}

MCInit ==
  /\ part \in {"jumpserver", "teleport", "mcp", "tools"}
  /\ JumpServerInit /\ TeleportInit /\ McpGatewayInit /\ ToolExecutionInit
  /\ part # "jumpserver" => jms.loopback /\ jms.keys = [g \in Gateway |-> CHOOSE k \in HostKeys : TRUE]
  /\ part # "tools" => hostFile = CHOOSE f \in Contents : TRUE

MCNext ==
  /\ UNCHANGED part
  /\ \/ part = "jumpserver" /\ JumpServerNext /\ UNCHANGED <<teleportVars, mcpVars, toolVars>>
     \/ part = "teleport" /\ TeleportNext /\ UNCHANGED <<jmsVars, mcpVars, toolVars>>
     \/ part = "mcp" /\ McpGatewayNext /\ UNCHANGED <<jmsVars, teleportVars, toolVars>>
     \/ part = "tools" /\ ToolExecutionNext /\ UNCHANGED <<jmsVars, teleportVars, mcpVars>>

MCSpec ==
  /\ MCInit /\ [][MCNext]_<<part, jmsVars, teleportVars, mcpVars, toolVars>>
  /\ part = "teleport" => TeleportFairness
=============================================================================
