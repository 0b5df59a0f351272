----------------------------- MODULE McpGateway -----------------------------
(* The gateway to MCP servers: saved configurations, the user's permission  *)
(* for each tool, connections, and calls of read-only tools.  Requests      *)
(* overlap: a configuration may be replaced or removed between the check of *)
(* a call and the call.  Every save may fail, and the program may restart.  *)
EXTENDS Naturals, FiniteSets

CONSTANTS McpIds, McpEndpoints, McpTools, McpRequests,
          MaxServers,    \* MAX_MCP_SERVERS
          MaxMcpChanges  \* bound on what servers and users change

VARIABLES
  mcpServers,   \* the servers: what they speak, offer and call read-only
  mcpConfigs,   \* the configurations in memory, by id
  mcpDisk,      \* as saved
  mcpConnections, \* by id: the endpoint a connection was made to
  mcpToken,     \* by id: the endpoint the stored token was given for
  mcpRequest,   \* the requests under way
  mcpAudit,     \* calls recorded, by outcome
  toolWord          \* what the user was told is enabled, by id

mcpVars == <<mcpServers, mcpConfigs, mcpDisk, mcpConnections, mcpToken, mcpRequest, mcpAudit, toolWord>>

NoRequest == [pc |-> "idle", id |-> {}, config |-> {}, tool |-> {}]

McpGatewayInit ==
  /\ mcpServers = [e \in McpEndpoints |-> [speaks |-> {"modern"}, tools |-> McpTools, readOnly |-> McpTools,
                                    changes |-> 0]]
  /\ mcpConfigs = <<>> /\ mcpDisk = <<>> /\ mcpConnections = <<>> /\ mcpToken = <<>>
  /\ mcpRequest = [q \in McpRequests |-> NoRequest]
  /\ mcpAudit = {}
  /\ toolWord = [id \in McpIds |-> {}]

McpChangesMade == mcpServers[CHOOSE e \in McpEndpoints : TRUE].changes
McpBudget == /\ McpChangesMade < MaxMcpChanges
          /\ mcpServers' = [e \in McpEndpoints |-> [mcpServers[e] EXCEPT !.changes = @ + 1]]

mcp_server_changes ==
  /\ McpChangesMade < MaxMcpChanges
  /\ \E e \in McpEndpoints, speaks \in SUBSET {"modern", "legacy"}, readOnly \in SUBSET McpTools :
       mcpServers' = [x \in McpEndpoints |->
                    [IF x = e THEN [mcpServers[x] EXCEPT !.speaks = speaks, !.readOnly = readOnly]
                     ELSE mcpServers[x] EXCEPT !.changes = @ + 1]]
  /\ UNCHANGED <<mcpConfigs, mcpDisk, mcpConnections, mcpToken, mcpRequest, mcpAudit, toolWord>>

-----------------------------------------------------------------------------
(* A request is answered if the server speaks its version of the protocol.  *)
rpc(endpoint, version) == version \in mcpServers[endpoint].speaks

(* A modern server is used as one, an old one after the modern probe fails. *)
connect_mcp(endpoint) == IF rpc(endpoint, "modern") THEN {"modern"}
                         ELSE IF rpc(endpoint, "legacy") THEN {"legacy"}
                         ELSE {}

discover_keeping(endpoint, id) ==
  [tools |-> mcpServers[endpoint].tools, readOnly |-> mcpServers[endpoint].readOnly,
   enabled |-> IF id \in DOMAIN mcpConfigs THEN mcpConfigs[id].enabled ELSE {}]

(* Every discovered tool starts out disabled.                               *)
discover(endpoint, id) ==
  [tools |-> mcpServers[endpoint].tools, readOnly |-> mcpServers[endpoint].readOnly, enabled |-> {}]

NewConfig(endpoint, id) ==
  LET found == discover(endpoint, id) IN
  [endpoint |-> endpoint, on |-> TRUE, connected |-> TRUE,
   tools |-> found.tools, readOnly |-> found.readOnly, enabled |-> found.enabled]

(* A map with one entry more, and with one less.                            *)
PutKey(f, id, value) == [x \in DOMAIN f \cup {id} |-> IF x = id THEN value ELSE f[x]]
DropKey(f, id) == [x \in DOMAIN f \ {id} |-> f[x]]

(* Memory follows the disk: a failed save puts the old configurations back. *)
save_or_restore(configs, saved) ==
  IF saved THEN mcpConfigs' = configs /\ mcpDisk' = configs
  ELSE UNCHANGED <<mcpConfigs, mcpDisk>>

save_and_keep(configs, saved) ==
  /\ mcpConfigs' = configs
  /\ mcpDisk' = IF saved THEN configs ELSE mcpDisk

McpStep(q, next) == mcpRequest' = [mcpRequest EXCEPT ![q] = next]

-----------------------------------------------------------------------------
(* configure: the token is stored first, then the server is asked.          *)

configure_mcp(q) ==
  /\ mcpRequest[q] = NoRequest /\ McpBudget
  /\ \E id \in McpIds, endpoint \in McpEndpoints, token \in BOOLEAN :
       /\ mcpToken' = IF token THEN PutKey(mcpToken, id, endpoint) ELSE mcpToken
       /\ McpStep(q, [NoRequest EXCEPT !.pc = "connect", !.id = {id}, !.config = {endpoint}])
  /\ UNCHANGED <<mcpConfigs, mcpDisk, mcpConnections, mcpAudit, toolWord>>

(* A server that does not answer leaves the configuration as it was.        *)
configure_connects(q) ==
  /\ mcpRequest[q].pc = "connect"
  /\ \E endpoint \in mcpRequest[q].config, id \in mcpRequest[q].id :
       McpStep(q, IF connect_mcp(endpoint) = {} THEN NoRequest
               ELSE [mcpRequest[q] EXCEPT !.pc = "commit", !.config = {NewConfig(endpoint, id)}])
  /\ UNCHANGED <<mcpServers, mcpConfigs, mcpDisk, mcpConnections, mcpToken, mcpAudit, toolWord>>

configure_commits(q) ==
  /\ mcpRequest[q].pc = "commit"
  /\ \E id \in mcpRequest[q].id, config \in mcpRequest[q].config, saved \in BOOLEAN :
       LET room == id \in DOMAIN mcpConfigs \/ Cardinality(DOMAIN mcpConfigs) < MaxServers IN
       IF room
       THEN /\ save_or_restore(PutKey(mcpConfigs, id, config), saved)
            /\ mcpConnections' = IF saved THEN PutKey(mcpConnections, id, config.endpoint) ELSE mcpConnections
            /\ toolWord' = IF saved THEN [toolWord EXCEPT ![id] = {}] ELSE toolWord
       ELSE UNCHANGED <<mcpConfigs, mcpDisk, mcpConnections, toolWord>>
  /\ McpStep(q, NoRequest)
  /\ UNCHANGED <<mcpServers, mcpToken, mcpAudit>>

remove_server ==
  /\ \E id \in DOMAIN mcpConfigs, saved \in BOOLEAN :
       /\ save_or_restore(DropKey(mcpConfigs, id), saved)
       /\ mcpConnections' = IF saved THEN DropKey(mcpConnections, id) ELSE mcpConnections
       /\ mcpToken' = IF saved THEN DropKey(mcpToken, id) ELSE mcpToken
       /\ toolWord' = IF saved THEN [toolWord EXCEPT ![id] = {}] ELSE toolWord
  /\ UNCHANGED <<mcpServers, mcpRequest, mcpAudit>>

(* Only a tool the server calls read-only may be enabled.                   *)
set_tool_enabled ==
  /\ McpBudget
  /\ \E id \in DOMAIN mcpConfigs, enabled \in BOOLEAN, saved \in BOOLEAN :
       \E tool \in mcpConfigs[id].tools :
         /\ enabled => tool \in mcpConfigs[id].readOnly
         /\ LET old == mcpConfigs[id].enabled
                new == IF enabled THEN old \union {tool} ELSE old \ {tool} IN
            /\ save_or_restore([mcpConfigs EXCEPT ![id].enabled = new], saved)
            /\ toolWord' = IF saved
                       THEN [toolWord EXCEPT ![id] = IF enabled THEN @ \union {tool} ELSE @ \ {tool}]
                       ELSE toolWord
  /\ UNCHANGED <<mcpConnections, mcpToken, mcpRequest, mcpAudit>>

set_server_enabled ==
  /\ McpBudget
  /\ \E id \in DOMAIN mcpConfigs, on \in BOOLEAN, saved \in BOOLEAN :
       save_or_restore([mcpConfigs EXCEPT ![id].on = on], saved)
  /\ UNCHANGED <<mcpConnections, mcpToken, mcpRequest, mcpAudit, toolWord>>

-----------------------------------------------------------------------------
(* read_context: the permission is checked on a copy of the configuration,  *)
(* which the rest of the call goes on using.                                *)

read_context(q) ==
  /\ mcpRequest[q] = NoRequest
  /\ \E id \in DOMAIN mcpConfigs : \E tool \in mcpConfigs[id].enabled :
       /\ mcpConfigs[id].on /\ tool \in mcpConfigs[id].readOnly
       /\ McpStep(q, [pc |-> "connection", id |-> {id}, config |-> {mcpConfigs[id]}, tool |-> {tool}])
  /\ UNCHANGED <<mcpServers, mcpConfigs, mcpDisk, mcpConnections, mcpToken, mcpAudit, toolWord>>

(* A connection is reused whatever endpoint it was made to; a new one is    *)
(* recorded in the configuration, if there still is one.                    *)
connection_for(q) ==
  /\ mcpRequest[q].pc = "connection"
  /\ \E id \in mcpRequest[q].id, config \in mcpRequest[q].config, saved \in BOOLEAN :
       CASE id \in DOMAIN mcpConnections ->
              /\ McpStep(q, [mcpRequest[q] EXCEPT !.pc = "call"])
              /\ UNCHANGED <<mcpConfigs, mcpDisk, mcpConnections>>
         [] id \notin DOMAIN mcpConnections /\ connect_mcp(config.endpoint) = {} ->
              McpStep(q, NoRequest) /\ UNCHANGED <<mcpConfigs, mcpDisk, mcpConnections>>
         [] OTHER ->
              IF id \in DOMAIN mcpConfigs
              THEN /\ save_or_restore([mcpConfigs EXCEPT ![id].connected = TRUE], saved)
                   /\ mcpConnections' = IF saved THEN PutKey(mcpConnections, id, config.endpoint) ELSE mcpConnections
                   /\ McpStep(q, IF saved THEN [mcpRequest[q] EXCEPT !.pc = "call"] ELSE NoRequest)
              ELSE /\ mcpConnections' = PutKey(mcpConnections, id, config.endpoint)
                   /\ McpStep(q, [mcpRequest[q] EXCEPT !.pc = "call"])
                   /\ UNCHANGED <<mcpConfigs, mcpDisk>>
  /\ UNCHANGED <<mcpServers, mcpToken, mcpAudit, toolWord>>

(* The call.  A failure forgets the connection and is noted in memory even  *)
(* when it cannot be saved.                                                 *)
call_tool(q) ==
  /\ mcpRequest[q].pc = "call"
  /\ \E id \in mcpRequest[q].id, tool \in mcpRequest[q].tool, ok \in BOOLEAN, saved \in BOOLEAN :
       /\ IF ok THEN UNCHANGED <<mcpConfigs, mcpDisk, mcpConnections>>
          ELSE /\ mcpConnections' = DropKey(mcpConnections, id)
               /\ IF id \in DOMAIN mcpConfigs
                  THEN save_and_keep([mcpConfigs EXCEPT ![id].connected = FALSE], saved)
                  ELSE UNCHANGED <<mcpConfigs, mcpDisk>>
       /\ mcpAudit' = mcpAudit \union {[id |-> id, tool |-> tool, ok |-> ok]}
  /\ McpStep(q, NoRequest)
  /\ UNCHANGED <<mcpServers, mcpToken, toolWord>>

(* A restart: load() reads the saved configurations, none connected.        *)
load_mcp ==
  /\ mcpConfigs' = [id \in DOMAIN mcpDisk |-> [mcpDisk[id] EXCEPT !.connected = FALSE]]
  /\ mcpConnections' = <<>>
  /\ mcpRequest' = [q \in McpRequests |-> NoRequest]
  /\ UNCHANGED <<mcpServers, mcpDisk, mcpToken, mcpAudit, toolWord>>

McpGatewayNext ==
  \/ mcp_server_changes \/ remove_server \/ set_tool_enabled \/ set_server_enabled \/ load_mcp
  \/ \E q \in McpRequests :
       \/ configure_mcp(q) \/ configure_connects(q) \/ configure_commits(q)
       \/ read_context(q) \/ connection_for(q) \/ call_tool(q)

McpGatewaySpec == McpGatewayInit /\ [][McpGatewayNext]_mcpVars

-----------------------------------------------------------------------------
(* The tools that are enabled, in memory and on disk, are those the user    *)
(* was told are: the ones switched on since the server was last configured  *)
(* (configure resets them, whatever the server says of them now), through   *)
(* failed saves (set_tool_enabled restores the old configurations),         *)
(* overlapping calls that write the configurations too, and restarts.       *)
ToolsFollowUser ==
  \A id \in McpIds :
    /\ id \in DOMAIN mcpConfigs <=> id \in DOMAIN mcpDisk
    /\ id \in DOMAIN mcpConfigs => /\ mcpConfigs[id].enabled = toolWord[id]
                                   /\ mcpDisk[id].enabled = toolWord[id]
=============================================================================
