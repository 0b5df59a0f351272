--------------------------- MODULE ProviderProofs ---------------------------
(***************************************************************************)
(* What the program's dealings with others guarantee, for any servers,      *)
(* tools, accounts and calls that overlap: the tools enabled at an MCP      *)
(* server follow the user (McpGateway), the audit is true of what tools did *)
(* (ToolExecution), one-time tokens are used once (JumpServer), and plugins *)
(* are installed, reviewed and executed as they were shown (PluginRegistry, *)
(* PluginWorkflow), and leave whole releases behind (PluginActions).        *)
(***************************************************************************)
EXTENDS McpGateway, ToolExecution, JumpServer, PluginWorkflow, PluginActions,
        FiniteSetTheorems, SequenceTheorems, TLAPS

-----------------------------------------------------------------------------
(* The gateway to MCP servers: types.                                       *)

McpServerStates == [speaks : SUBSET {"modern", "legacy"}, tools : SUBSET McpTools,
                    readOnly : SUBSET McpTools, changes : Nat]

McpConfig == [endpoint : McpEndpoints, on : BOOLEAN, connected : BOOLEAN, tools : SUBSET McpTools,
              readOnly : SUBSET McpTools, enabled : SUBSET McpTools]

McpRequestStates == [pc : {"idle", "connect", "commit", "connection", "call"}, id : SUBSET McpIds,
                     config : SUBSET (McpEndpoints \cup McpConfig), tool : SUBSET McpTools]

(* A map of configurations.                                                 *)
McpMap(configs) == /\ DOMAIN configs \subseteq McpIds
                   /\ configs \in [DOMAIN configs -> McpConfig]

(* What is enabled in a map is what the user was told is.                   *)
AsTold(configs) == \A id \in DOMAIN configs : configs[id].enabled = toolWord[id]

(* A new configuration waits for its commit with every tool disabled.       *)
NewIsDisabled(q) ==
  /\ q.pc = "connect" => q.config \subseteq McpEndpoints
  /\ q.pc = "commit" => \A config \in q.config : config \in McpConfig /\ config.enabled = {}
  /\ q.pc \in {"connection", "call"} => q.config \subseteq McpConfig

McpServersTyped == mcpServers \in [McpEndpoints -> McpServerStates]

McpConfigsInv ==
  /\ toolWord \in [McpIds -> SUBSET McpTools]
  /\ McpMap(mcpConfigs) /\ McpMap(mcpDisk)
  /\ DOMAIN mcpConfigs = DOMAIN mcpDisk
  /\ AsTold(mcpConfigs) /\ AsTold(mcpDisk)

McpRequestsInv ==
  /\ mcpRequest \in [McpRequests -> McpRequestStates]
  /\ \A q \in McpRequests : NewIsDisabled(mcpRequest[q])

(* The inductive invariant: both maps are as the user was told, and what is *)
(* about to be committed enables nothing.                                   *)
McpInv == McpServersTyped /\ McpConfigsInv /\ McpRequestsInv

(* A request that ends.                                                     *)
LEMMA NoMcpRequest == NoRequest \in McpRequestStates /\ NewIsDisabled(NoRequest)
BY DEF NoRequest, McpRequestStates, NewIsDisabled

(* One request goes on.                                                     *)
LEMMA McpStepKeeps ==
  ASSUME McpRequestsInv, NEW q \in McpRequests, NEW next \in McpRequestStates,
         NewIsDisabled(next), McpStep(q, next)
  PROVE  McpRequestsInv'
<1>1. mcpRequest' \in [McpRequests -> McpRequestStates]  BY DEF McpRequestsInv, McpStep
<1>2. \A x \in McpRequests : mcpRequest'[x] = IF x = q THEN next ELSE mcpRequest[x]
  BY DEF McpRequestsInv, McpStep
<1>3. \A x \in McpRequests : NewIsDisabled(mcpRequest'[x])  BY <1>2 DEF McpRequestsInv
<1>4. QED  BY <1>1, <1>3 DEF McpRequestsInv, NewIsDisabled

LEMMA McpEndKeeps ==
  ASSUME McpRequestsInv, NEW q \in McpRequests, McpStep(q, NoRequest)
  PROVE  McpRequestsInv'
BY McpStepKeeps, NoMcpRequest

(* A request is called again at another stage of the call.                  *)
LEMMA McpCallKeeps ==
  ASSUME McpRequestsInv, NEW q \in McpRequests, mcpRequest[q].pc = "connection",
         McpStep(q, [mcpRequest[q] EXCEPT !.pc = "call"])
  PROVE  McpRequestsInv'
<1> DEFINE next == [mcpRequest[q] EXCEPT !.pc = "call"]
<1>1. mcpRequest[q] \in McpRequestStates /\ NewIsDisabled(mcpRequest[q])  BY DEF McpRequestsInv
<1>2. next \in McpRequestStates  BY <1>1 DEF McpRequestStates
<1>3. next.pc = "call" /\ next.config = mcpRequest[q].config  BY <1>1 DEF McpRequestStates
<1>4. NewIsDisabled(next)  BY <1>1, <1>3 DEF NewIsDisabled
<1>5. QED  BY <1>2, <1>4, McpStepKeeps

(* A change that leaves the permissions of every configuration alone.       *)
LEMMA SamePermissions ==
  ASSUME McpConfigsInv, NEW configs, McpMap(configs), DOMAIN configs = DOMAIN mcpConfigs,
         \A id \in DOMAIN configs : configs[id].enabled = mcpConfigs[id].enabled,
         UNCHANGED toolWord, NEW saved \in BOOLEAN,
         save_or_restore(configs, saved) \/ save_and_keep(configs, saved)
  PROVE  McpConfigsInv'
<1>1. AsTold(configs)  BY DEF McpConfigsInv, AsTold
<1>2. /\ mcpConfigs' = configs \/ mcpConfigs' = mcpConfigs
      /\ mcpDisk' = configs \/ mcpDisk' = mcpDisk
  BY DEF save_or_restore, save_and_keep
<1>3. McpMap(mcpConfigs') /\ McpMap(mcpDisk') /\ DOMAIN mcpConfigs' = DOMAIN mcpDisk'
  BY <1>2 DEF McpConfigsInv
<1>4. \A id \in DOMAIN mcpConfigs' : mcpConfigs'[id].enabled = toolWord[id]
  BY <1>1, <1>2 DEF McpConfigsInv, AsTold
<1>5. \A id \in DOMAIN mcpDisk' : mcpDisk'[id].enabled = toolWord[id]
  BY <1>1, <1>2 DEF McpConfigsInv, AsTold
<1>6. QED  BY <1>3, <1>4, <1>5 DEF McpConfigsInv, AsTold, McpMap

(* A change of both maps, with the word the user is given.                  *)
LEMMA BothChange ==
  ASSUME NEW configs, McpMap(configs), mcpConfigs' = configs, mcpDisk' = configs,
         toolWord' \in [McpIds -> SUBSET McpTools],
         \A id \in DOMAIN configs : configs[id].enabled = toolWord'[id]
  PROVE  McpConfigsInv'
BY DEF McpConfigsInv, AsTold, McpMap

LEMMA NothingChanges ==
  ASSUME McpConfigsInv, UNCHANGED <<mcpConfigs, mcpDisk, toolWord>>
  PROVE  McpConfigsInv'
BY DEF McpConfigsInv, AsTold, McpMap

LEMMA ConfigTools ==
  ASSUME McpMap(mcpConfigs), NEW id \in DOMAIN mcpConfigs
  PROVE  mcpConfigs[id].tools \subseteq McpTools /\ mcpConfigs[id].enabled \subseteq McpTools
<1>1. mcpConfigs[id] \in McpConfig  BY DEF McpMap
<1>2. QED  BY <1>1 DEF McpConfig

(* A configuration with one field changed is a configuration.               *)
LEMMA ConfigFields ==
  ASSUME McpMap(mcpConfigs), NEW id \in DOMAIN mcpConfigs,
         NEW b \in BOOLEAN, NEW s \in SUBSET McpTools
  PROVE  /\ McpMap([mcpConfigs EXCEPT ![id].on = b])
         /\ McpMap([mcpConfigs EXCEPT ![id].connected = b])
         /\ McpMap([mcpConfigs EXCEPT ![id].enabled = s])
         /\ \A x \in DOMAIN mcpConfigs :
              /\ [mcpConfigs EXCEPT ![id].on = b][x].enabled = mcpConfigs[x].enabled
              /\ [mcpConfigs EXCEPT ![id].connected = b][x].enabled = mcpConfigs[x].enabled
              /\ [mcpConfigs EXCEPT ![id].enabled = s][x].enabled =
                   IF x = id THEN s ELSE mcpConfigs[x].enabled
BY DEF McpMap, McpConfig

-----------------------------------------------------------------------------
(* Every step of the gateway keeps the invariant.                           *)

LEMMA ServersStayTyped ==
  ASSUME McpServersTyped, McpBudget \/ mcp_server_changes
  PROVE  McpServersTyped'
<1>1. \A e \in McpEndpoints : mcpServers[e] \in McpServerStates  BY DEF McpServersTyped
<1>2. CASE McpBudget  BY <1>1, <1>2 DEF McpBudget, McpServersTyped, McpServerStates
<1>3. CASE mcp_server_changes
  <2>1. PICK e \in McpEndpoints, speaks \in SUBSET {"modern", "legacy"}, readOnly \in SUBSET McpTools :
          mcpServers' = [x \in McpEndpoints |->
                           [IF x = e THEN [mcpServers[x] EXCEPT !.speaks = speaks, !.readOnly = readOnly]
                            ELSE mcpServers[x] EXCEPT !.changes = @ + 1]]
    BY <1>3 DEF mcp_server_changes
  <2> DEFINE said(x) == IF x = e THEN [mcpServers[x] EXCEPT !.speaks = speaks, !.readOnly = readOnly]
                        ELSE mcpServers[x]
  <2>2. \A x \in McpEndpoints : said(x) \in McpServerStates  BY <1>1 DEF McpServerStates
  <2>3. mcpServers' = [x \in McpEndpoints |-> [said(x) EXCEPT !.changes = @ + 1]]  BY <2>1
  <2> HIDE DEF said
  <2>4. \A x \in McpEndpoints : [said(x) EXCEPT !.changes = @ + 1] \in McpServerStates
    BY <2>2 DEF McpServerStates
  <2>5. QED  BY <2>3, <2>4 DEF McpServersTyped
<1>4. QED  BY <1>2, <1>3

LEMMA NewConfigIsDisabled ==
  ASSUME McpServersTyped, NEW endpoint \in McpEndpoints, NEW id
  PROVE  NewConfig(endpoint, id) \in McpConfig /\ NewConfig(endpoint, id).enabled = {}
<1>1. mcpServers[endpoint] \in McpServerStates  BY DEF McpServersTyped
<1>2. QED  BY <1>1 DEF NewConfig, discover, McpConfig, McpServerStates

LEMMA ConfigureStep ==
  ASSUME McpInv, NEW q \in McpRequests, configure_mcp(q)
  PROVE  McpInv'
<1>1. McpServersTyped'  BY ServersStayTyped DEF configure_mcp, McpInv
<1>2. McpConfigsInv'  BY NothingChanges DEF configure_mcp, McpInv
<1>3. PICK id \in McpIds, endpoint \in McpEndpoints :
        McpStep(q, [NoRequest EXCEPT !.pc = "connect", !.id = {id}, !.config = {endpoint}])
  BY DEF configure_mcp
<1> DEFINE next == [NoRequest EXCEPT !.pc = "connect", !.id = {id}, !.config = {endpoint}]
<1>4. next \in McpRequestStates /\ NewIsDisabled(next)
  BY DEF NoRequest, McpRequestStates, NewIsDisabled
<1>5. McpRequestsInv'  BY <1>3, <1>4, McpStepKeeps DEF McpInv
<1>6. QED  BY <1>1, <1>2, <1>5 DEF McpInv

LEMMA ConnectsStep ==
  ASSUME McpInv, NEW q \in McpRequests, configure_connects(q)
  PROVE  McpInv'
<1>1. McpServersTyped'  BY DEF configure_connects, McpInv, McpServersTyped
<1>2. McpConfigsInv'  BY NothingChanges DEF configure_connects, McpInv
<1>3. mcpRequest[q] \in McpRequestStates /\ NewIsDisabled(mcpRequest[q])  BY DEF McpInv, McpRequestsInv
<1>4. PICK endpoint \in mcpRequest[q].config, id \in mcpRequest[q].id :
        McpStep(q, IF connect_mcp(endpoint) = {} THEN NoRequest
                ELSE [mcpRequest[q] EXCEPT !.pc = "commit", !.config = {NewConfig(endpoint, id)}])
  BY DEF configure_connects
<1>5. endpoint \in McpEndpoints  BY <1>3 DEF configure_connects, NewIsDisabled
<1> DEFINE config == NewConfig(endpoint, id)
           next == [mcpRequest[q] EXCEPT !.pc = "commit", !.config = {config}]
<1>6. config \in McpConfig /\ config.enabled = {}  BY <1>5, NewConfigIsDisabled DEF McpInv
<1> HIDE DEF config
<1>7. next \in McpRequestStates /\ next.pc = "commit" /\ next.config = {config}
  BY <1>3, <1>6 DEF McpRequestStates
<1>8. NewIsDisabled(next)  BY <1>6, <1>7 DEF NewIsDisabled
<1>9. McpStep(q, NoRequest) \/ McpStep(q, next)  BY <1>4 DEF config
<1>10. McpRequestsInv'  BY <1>7, <1>8, <1>9, McpStepKeeps, McpEndKeeps DEF McpInv
<1>11. QED  BY <1>1, <1>2, <1>10 DEF McpInv

LEMMA PutConfig ==
  ASSUME McpMap(mcpConfigs), NEW id \in McpIds, NEW config \in McpConfig
  PROVE  /\ McpMap(PutKey(mcpConfigs, id, config))
         /\ DOMAIN PutKey(mcpConfigs, id, config) = DOMAIN mcpConfigs \cup {id}
         /\ \A x \in DOMAIN mcpConfigs \cup {id} :
              PutKey(mcpConfigs, id, config)[x] = IF x = id THEN config ELSE mcpConfigs[x]
BY DEF McpMap, PutKey

LEMMA CommitsStep ==
  ASSUME McpInv, NEW q \in McpRequests, configure_commits(q)
  PROVE  McpInv'
<1>1. McpServersTyped'  BY DEF configure_commits, McpInv, McpServersTyped
<1>2. McpRequestsInv'  BY McpEndKeeps DEF configure_commits, McpInv
<1>3. mcpRequest[q] \in McpRequestStates /\ NewIsDisabled(mcpRequest[q])  BY DEF McpInv, McpRequestsInv
<1>4. PICK id \in mcpRequest[q].id, config \in mcpRequest[q].config, saved \in BOOLEAN :
        \/ UNCHANGED <<mcpConfigs, mcpDisk, mcpConnections, toolWord>>
        \/ /\ save_or_restore(PutKey(mcpConfigs, id, config), saved)
           /\ toolWord' = IF saved THEN [toolWord EXCEPT ![id] = {}] ELSE toolWord
  BY DEF configure_commits
<1>5. id \in McpIds /\ config \in McpConfig /\ config.enabled = {}
  BY <1>3 DEF configure_commits, NewIsDisabled, McpRequestStates
<1>6. CASE UNCHANGED <<mcpConfigs, mcpDisk, toolWord>>
  <2>1. McpConfigsInv'  BY <1>6, NothingChanges DEF McpInv
  <2>2. QED  BY <2>1, <1>1, <1>2 DEF McpInv
<1>7. CASE saved /\ ~ UNCHANGED <<mcpConfigs, mcpDisk, toolWord>>
  <2> DEFINE configs == PutKey(mcpConfigs, id, config)
  <2>1. mcpConfigs' = configs /\ mcpDisk' = configs /\ toolWord' = [toolWord EXCEPT ![id] = {}]
    BY <1>4, <1>7 DEF save_or_restore
  <2>2. McpMap(configs) /\ DOMAIN configs = DOMAIN mcpConfigs \cup {id}
        /\ \A x \in DOMAIN mcpConfigs \cup {id} :
             configs[x] = IF x = id THEN config ELSE mcpConfigs[x]
    BY <1>5, PutConfig DEF McpInv, McpConfigsInv
  <2> HIDE DEF configs
  <2>3. toolWord' \in [McpIds -> SUBSET McpTools]  BY <2>1 DEF McpInv, McpConfigsInv
  <2>4. \A x \in DOMAIN configs : configs[x].enabled = toolWord'[x]
    BY <1>5, <2>1, <2>2 DEF McpInv, McpConfigsInv, AsTold, McpMap
  <2>5. McpConfigsInv'  BY <2>1, <2>2, <2>3, <2>4, BothChange
  <2>6. QED  BY <2>5, <1>1, <1>2 DEF McpInv
<1>8. QED  BY <1>4, <1>6, <1>7 DEF save_or_restore

LEMMA RemoveStep ==
  ASSUME McpInv, remove_server
  PROVE  McpInv'
<1>1. McpServersTyped'  BY DEF remove_server, McpInv, McpServersTyped
<1>2. McpRequestsInv'  BY DEF remove_server, McpInv, McpRequestsInv, NewIsDisabled
<1>3. PICK id \in DOMAIN mcpConfigs, saved \in BOOLEAN :
        /\ save_or_restore(DropKey(mcpConfigs, id), saved)
        /\ toolWord' = IF saved THEN [toolWord EXCEPT ![id] = {}] ELSE toolWord
  BY DEF remove_server
<1>4. CASE ~ saved
  <2>1. McpConfigsInv'  BY <1>3, <1>4, NothingChanges DEF McpInv, save_or_restore
  <2>2. QED  BY <2>1, <1>1, <1>2 DEF McpInv
<1>5. CASE saved
  <2> DEFINE configs == DropKey(mcpConfigs, id)
  <2>1. mcpConfigs' = configs /\ mcpDisk' = configs /\ toolWord' = [toolWord EXCEPT ![id] = {}]
    BY <1>3, <1>5 DEF save_or_restore
  <2>2. McpMap(configs) /\ \A x \in DOMAIN configs : x # id /\ x \in DOMAIN mcpConfigs
                                                     /\ configs[x] = mcpConfigs[x]
    BY DEF DropKey, McpMap, McpInv, McpConfigsInv
  <2> HIDE DEF configs
  <2>3. toolWord' \in [McpIds -> SUBSET McpTools]
    BY <2>1 DEF McpInv, McpConfigsInv, McpMap
  <2>4. \A x \in DOMAIN configs : configs[x].enabled = toolWord'[x]
    BY <2>1, <2>2 DEF McpInv, McpConfigsInv, AsTold, McpMap
  <2>5. McpConfigsInv'  BY <2>1, <2>2, <2>3, <2>4, BothChange
  <2>6. QED  BY <2>5, <1>1, <1>2 DEF McpInv
<1>6. QED  BY <1>4, <1>5

LEMMA SetToolStep ==
  ASSUME McpInv, set_tool_enabled
  PROVE  McpInv'
<1>1. McpServersTyped'  BY ServersStayTyped DEF set_tool_enabled, McpInv
<1>2. McpRequestsInv'  BY DEF set_tool_enabled, McpInv, McpRequestsInv, NewIsDisabled
<1>3. PICK id \in DOMAIN mcpConfigs, enabled \in BOOLEAN, saved \in BOOLEAN, tool \in McpTools :
        /\ save_or_restore([mcpConfigs EXCEPT ![id].enabled =
                               IF enabled THEN mcpConfigs[id].enabled \cup {tool}
                               ELSE mcpConfigs[id].enabled \ {tool}], saved)
        /\ toolWord' = IF saved
             THEN [toolWord EXCEPT ![id] = IF enabled THEN @ \cup {tool} ELSE @ \ {tool}]
             ELSE toolWord
  BY ZenonT(40), ConfigTools DEF set_tool_enabled, McpInv, McpConfigsInv
<1>4. CASE ~ saved
  <2>1. McpConfigsInv'  BY <1>3, <1>4, NothingChanges DEF McpInv, save_or_restore
  <2>2. QED  BY <2>1, <1>1, <1>2 DEF McpInv
<1>5. CASE saved
  <2> DEFINE new == IF enabled THEN mcpConfigs[id].enabled \cup {tool} ELSE mcpConfigs[id].enabled \ {tool}
             configs == [mcpConfigs EXCEPT ![id].enabled = new]
  <2>1. mcpConfigs[id] \in McpConfig /\ id \in McpIds  BY DEF McpInv, McpConfigsInv, McpMap
  <2>2. new \in SUBSET McpTools  BY <2>1 DEF McpConfig
  <2>3. mcpConfigs[id].enabled = toolWord[id]  BY DEF McpInv, McpConfigsInv, AsTold
  <2>4. mcpConfigs' = configs /\ mcpDisk' = configs /\ toolWord' = [toolWord EXCEPT ![id] = new]
    BY <1>3, <1>5, <2>3 DEF save_or_restore
  <2> HIDE DEF new
  <2>5. McpMap(configs) /\ DOMAIN configs = DOMAIN mcpConfigs
        /\ \A x \in DOMAIN mcpConfigs : configs[x].enabled = IF x = id THEN new ELSE mcpConfigs[x].enabled
    BY ZenonT(40), <2>2, ConfigFields DEF McpInv, McpConfigsInv
  <2> HIDE DEF configs
  <2>6. toolWord' \in [McpIds -> SUBSET McpTools]  BY <2>2, <2>4 DEF McpInv, McpConfigsInv
  <2>7. \A x \in DOMAIN configs : configs[x].enabled = toolWord'[x]
    BY <2>4, <2>5 DEF McpInv, McpConfigsInv, AsTold, McpMap
  <2>8. McpConfigsInv'  BY <2>4, <2>5, <2>6, <2>7, BothChange
  <2>9. QED  BY <2>8, <1>1, <1>2 DEF McpInv
<1>6. QED  BY <1>4, <1>5

LEMMA SetServerStep ==
  ASSUME McpInv, set_server_enabled
  PROVE  McpInv'
<1>1. McpServersTyped'  BY ServersStayTyped DEF set_server_enabled, McpInv
<1>2. McpRequestsInv'  BY DEF set_server_enabled, McpInv, McpRequestsInv, NewIsDisabled
<1>3. PICK id \in DOMAIN mcpConfigs, on \in BOOLEAN, saved \in BOOLEAN :
        save_or_restore([mcpConfigs EXCEPT ![id].on = on], saved)
  BY DEF set_server_enabled
<1> DEFINE configs == [mcpConfigs EXCEPT ![id].on = on]
<1>4. McpMap(configs) /\ DOMAIN configs = DOMAIN mcpConfigs
      /\ \A x \in DOMAIN mcpConfigs : configs[x].enabled = mcpConfigs[x].enabled
  BY ZenonT(40), ConfigFields DEF McpInv, McpConfigsInv
<1> HIDE DEF configs
<1>5. save_or_restore(configs, saved) /\ UNCHANGED toolWord  BY <1>3 DEF configs, set_server_enabled
<1>6. McpConfigsInv'  BY <1>4, <1>5, SamePermissions DEF McpInv
<1>7. QED  BY <1>1, <1>2, <1>6 DEF McpInv

LEMMA ReadStep ==
  ASSUME McpInv, NEW q \in McpRequests, read_context(q)
  PROVE  McpInv'
<1>1. McpServersTyped'  BY DEF read_context, McpInv, McpServersTyped
<1>2. McpConfigsInv'  BY NothingChanges DEF read_context, McpInv
<1>3. PICK id \in DOMAIN mcpConfigs, tool \in McpTools :
        McpStep(q, [pc |-> "connection", id |-> {id}, config |-> {mcpConfigs[id]}, tool |-> {tool}])
  BY ConfigTools DEF read_context, McpInv, McpConfigsInv
<1> DEFINE next == [pc |-> "connection", id |-> {id}, config |-> {mcpConfigs[id]}, tool |-> {tool}]
<1>4. mcpConfigs[id] \in McpConfig /\ id \in McpIds  BY DEF McpInv, McpConfigsInv, McpMap
<1>5. next \in McpRequestStates /\ NewIsDisabled(next)
  BY <1>4 DEF McpRequestStates, NewIsDisabled
<1>6. McpRequestsInv'  BY <1>3, <1>5, McpStepKeeps DEF McpInv
<1>7. QED  BY <1>1, <1>2, <1>6 DEF McpInv

LEMMA ConnectionStep ==
  ASSUME McpInv, NEW q \in McpRequests, connection_for(q)
  PROVE  McpInv'
<1>1. McpServersTyped'  BY DEF connection_for, McpInv, McpServersTyped
<1>2. mcpRequest[q].pc = "connection" /\ UNCHANGED toolWord  BY DEF connection_for
<1>3. McpStep(q, NoRequest) \/ McpStep(q, [mcpRequest[q] EXCEPT !.pc = "call"])
  BY DEF connection_for
<1>4. McpRequestsInv'  BY <1>2, <1>3, McpEndKeeps, McpCallKeeps DEF McpInv
<1>5. \/ UNCHANGED <<mcpConfigs, mcpDisk>>
      \/ \E id \in DOMAIN mcpConfigs, saved \in BOOLEAN :
           save_or_restore([mcpConfigs EXCEPT ![id].connected = TRUE], saved)
  BY DEF connection_for
<1>6. CASE UNCHANGED <<mcpConfigs, mcpDisk>>
  <2>1. McpConfigsInv'  BY <1>2, <1>6, NothingChanges DEF McpInv
  <2>2. QED  BY <2>1, <1>1, <1>4 DEF McpInv
<1>7. CASE \E id \in DOMAIN mcpConfigs, saved \in BOOLEAN :
             save_or_restore([mcpConfigs EXCEPT ![id].connected = TRUE], saved)
  <2>1. PICK id \in DOMAIN mcpConfigs, saved \in BOOLEAN :
          save_or_restore([mcpConfigs EXCEPT ![id].connected = TRUE], saved)
    BY <1>7
  <2> DEFINE configs == [mcpConfigs EXCEPT ![id].connected = TRUE]
  <2>2. McpMap(configs) /\ DOMAIN configs = DOMAIN mcpConfigs
        /\ \A x \in DOMAIN mcpConfigs : configs[x].enabled = mcpConfigs[x].enabled
    BY ConfigFields DEF McpInv, McpConfigsInv
  <2>3. save_or_restore(configs, saved)  BY <2>1
  <2> HIDE DEF configs
  <2>4. McpConfigsInv'  BY <1>2, <2>2, <2>3, SamePermissions DEF McpInv
  <2>5. QED  BY <2>4, <1>1, <1>4 DEF McpInv
<1>8. QED  BY <1>5, <1>6, <1>7

LEMMA CallStep ==
  ASSUME McpInv, NEW q \in McpRequests, call_tool(q)
  PROVE  McpInv'
<1>1. McpServersTyped'  BY DEF call_tool, McpInv, McpServersTyped
<1>2. McpRequestsInv'  BY McpEndKeeps DEF call_tool, McpInv
<1>3. UNCHANGED toolWord  BY DEF call_tool
<1>4. \/ UNCHANGED <<mcpConfigs, mcpDisk>>
      \/ \E id \in DOMAIN mcpConfigs, saved \in BOOLEAN :
           save_and_keep([mcpConfigs EXCEPT ![id].connected = FALSE], saved)
  BY DEF call_tool
<1>5. CASE UNCHANGED <<mcpConfigs, mcpDisk>>
  <2>1. McpConfigsInv'  BY <1>3, <1>5, NothingChanges DEF McpInv
  <2>2. QED  BY <2>1, <1>1, <1>2 DEF McpInv
<1>6. CASE \E id \in DOMAIN mcpConfigs, saved \in BOOLEAN :
             save_and_keep([mcpConfigs EXCEPT ![id].connected = FALSE], saved)
  <2>1. PICK id \in DOMAIN mcpConfigs, saved \in BOOLEAN :
          save_and_keep([mcpConfigs EXCEPT ![id].connected = FALSE], saved)
    BY <1>6
  <2> DEFINE configs == [mcpConfigs EXCEPT ![id].connected = FALSE]
  <2>2. McpMap(configs) /\ DOMAIN configs = DOMAIN mcpConfigs
        /\ \A x \in DOMAIN mcpConfigs : configs[x].enabled = mcpConfigs[x].enabled
    BY ConfigFields DEF McpInv, McpConfigsInv
  <2>3. save_and_keep(configs, saved)  BY <2>1
  <2> HIDE DEF configs
  <2>4. McpConfigsInv'  BY <1>3, <2>2, <2>3, SamePermissions DEF McpInv
  <2>5. QED  BY <2>4, <1>1, <1>2 DEF McpInv
<1>7. QED  BY <1>4, <1>5, <1>6

LEMMA LoadStep ==
  ASSUME McpInv, load_mcp
  PROVE  McpInv'
<1>1. McpServersTyped'  BY DEF load_mcp, McpInv, McpServersTyped
<1>2. McpRequestsInv'
  <2>1. \A q \in McpRequests : mcpRequest'[q] = NoRequest  BY DEF load_mcp
  <2>2. mcpRequest' \in [McpRequests -> McpRequestStates]  BY NoMcpRequest DEF load_mcp
  <2>3. \A q \in McpRequests : NewIsDisabled(mcpRequest'[q])  BY <2>1, NoMcpRequest
  <2>4. QED  BY <2>2, <2>3 DEF McpRequestsInv, NewIsDisabled
<1>3. mcpConfigs' = [id \in DOMAIN mcpDisk |-> [mcpDisk[id] EXCEPT !.connected = FALSE]]
      /\ mcpDisk' = mcpDisk /\ toolWord' = toolWord
  BY DEF load_mcp
<1>4. McpMap(mcpDisk) /\ AsTold(mcpDisk)  BY DEF McpInv, McpConfigsInv
<1>5. McpMap(mcpConfigs') /\ DOMAIN mcpConfigs' = DOMAIN mcpDisk
  BY ZenonT(40), <1>3, <1>4 DEF McpMap, McpConfig
<1>6. \A id \in DOMAIN mcpDisk : mcpConfigs'[id].enabled = mcpDisk[id].enabled
  BY <1>3, <1>4 DEF McpMap, McpConfig
<1>7. \A id \in DOMAIN mcpConfigs' : mcpConfigs'[id].enabled = toolWord[id]
  BY <1>4, <1>5, <1>6 DEF AsTold
<1>8. McpConfigsInv'
  BY <1>3, <1>4, <1>5, <1>7 DEF McpInv, McpConfigsInv, AsTold, McpMap
<1>9. QED  BY <1>1, <1>2, <1>8 DEF McpInv

LEMMA McpInvStep == McpInv /\ [McpGatewayNext]_mcpVars => McpInv'
<1> SUFFICES ASSUME McpInv, [McpGatewayNext]_mcpVars PROVE McpInv'
  OBVIOUS
<1>1. CASE mcp_server_changes
  <2>1. McpServersTyped'  BY <1>1, ServersStayTyped DEF McpInv
  <2>2. McpConfigsInv'  BY <1>1, NothingChanges DEF mcp_server_changes, McpInv
  <2>3. McpRequestsInv'  BY <1>1 DEF mcp_server_changes, McpInv, McpRequestsInv, NewIsDisabled
  <2>4. QED  BY <2>1, <2>2, <2>3 DEF McpInv
<1>2. CASE remove_server  BY <1>2, RemoveStep
<1>3. CASE set_tool_enabled  BY <1>3, SetToolStep
<1>4. CASE set_server_enabled  BY <1>4, SetServerStep
<1>5. CASE load_mcp  BY <1>5, LoadStep
<1>6. ASSUME NEW q \in McpRequests,
             configure_mcp(q) \/ configure_connects(q) \/ configure_commits(q) \/ read_context(q)
               \/ connection_for(q) \/ call_tool(q)
      PROVE  McpInv'
  BY <1>6, ConfigureStep, ConnectsStep, CommitsStep, ReadStep, ConnectionStep, CallStep
<1>7. CASE UNCHANGED mcpVars
  BY <1>7 DEF mcpVars, McpInv, McpServersTyped, McpConfigsInv, McpRequestsInv, McpMap, AsTold, NewIsDisabled
<1>8. QED  BY <1>1, <1>2, <1>3, <1>4, <1>5, <1>6, <1>7 DEF McpGatewayNext

LEMMA McpInvInit == McpGatewayInit => McpInv
<1> SUFFICES ASSUME McpGatewayInit PROVE McpInv
  OBVIOUS
<1>1. McpServersTyped  BY DEF McpGatewayInit, McpServersTyped, McpServerStates
<1>2. McpConfigsInv  BY DEF McpGatewayInit, McpConfigsInv, McpMap, AsTold
<1>3. McpRequestsInv
  <2>1. \A q \in McpRequests : mcpRequest[q] = NoRequest  BY DEF McpGatewayInit
  <2>2. mcpRequest \in [McpRequests -> McpRequestStates]  BY NoMcpRequest DEF McpGatewayInit
  <2>3. QED  BY <2>1, <2>2, NoMcpRequest DEF McpRequestsInv
<1>4. QED  BY <1>1, <1>2, <1>3 DEF McpInv

(* However configure, remove, set_tool_enabled, read_context and their      *)
(* failing saves overlap, and across restarts, a tool is enabled in memory  *)
(* and on disk exactly when the user was told so.                           *)
THEOREM EnabledAsTold == McpGatewaySpec => []ToolsFollowUser
<1>1. McpInv => ToolsFollowUser  BY DEF McpInv, McpConfigsInv, AsTold, ToolsFollowUser
<1>2. QED  BY <1>1, McpInvInit, McpInvStep, PTL DEF McpGatewaySpec

-----------------------------------------------------------------------------
(* Native tools: types.                                                     *)

ToolNames == ReadTools \cup WriteTools

ToolOutcomes == {"none", "succeeded", "failed", "cancelled"}

(* An invocation is recorded and under way.                                 *)
UnderWay == {"start", "working", "write", "verify", "status", "complete"}

SeenFiles == {{}} \cup {{text} : text \in Contents}

ToolCalls == [pc : {"idle", "evaluate", "done"} \cup UnderWay, name : ToolNames \cup {"none"},
              authority : {"none", "approved", "rollback"}, cancelled : BOOLEAN,
              seen : SeenFiles, outcome : ToolOutcomes]

ToolRecords == [of : Invocations, status : {"in_progress", "policy_blocked"} \cup ToolOutcomes,
                verification : {"pending", "not_applicable", "succeeded", "failed"},
                rollback : {"executed", "available", "not_supported", "failed"}, cancelled : BOOLEAN]

ToolTypes ==
  /\ toolCall \in [Invocations -> ToolCalls]
  /\ toolAudit \in Seq(ToolRecords)
  /\ touched \subseteq Invocations
  /\ hostFile \in Contents

(* An invocation is on record, or the limit pushed its record out.          *)
OnRecord(i) == HasRecord(i) \/ i \in dropped

(* An invocation runs on record and with authority, has touched the host    *)
(* when it verifies, and succeeds with a write only when it has.            *)
CallFits(i, c, changed) ==
  /\ c.pc \in UnderWay => OnRecord(i) /\ (c.name \in WriteTools => c.authority # "none")
  /\ c.pc = "write" => c.name \in WriteTools
  /\ c.pc \in {"verify", "status"} => i \in changed
  /\ c.pc = "complete" /\ c.outcome = "succeeded" => c.name \in ReadTools \/ i \in changed
  /\ i \in changed => OnRecord(i) /\ c.authority # "none" /\ c.pc \notin {"idle", "evaluate"}

(* A record is of an invocation that was evaluated; a blocked one is done,  *)
(* and only writes are verified.                                            *)
RecordFits(record, c, changed) ==
  /\ c.pc \notin {"idle", "evaluate"}
  /\ record.status = "policy_blocked" => c.pc = "done" /\ record.of \notin changed
  /\ record.verification = "succeeded" => record.of \in changed
  /\ record.verification = "not_applicable" \/ c.name \in WriteTools

(* The inductive invariant.                                                 *)
ToolInv ==
  /\ ToolTypes
  /\ \A i \in Invocations : CallFits(i, toolCall[i], touched)
  /\ \A r \in DOMAIN toolAudit : RecordFits(toolAudit[r], toolCall[toolAudit[r].of], touched)

LEMMA ToolInvIsEnough == ToolInv => AuditIsTrue
<1> SUFFICES ASSUME ToolInv PROVE AuditIsTrue
  OBVIOUS
<1>1. \A r \in DOMAIN toolAudit : toolAudit[r] \in ToolRecords  BY DEF ToolInv, ToolTypes
<1>2. \A r \in DOMAIN toolAudit : toolAudit[r].of \in Invocations  BY <1>1 DEF ToolRecords
<1>3. \A i \in touched : i \in Invocations /\ OnRecord(i) /\ toolCall[i].authority # "none"
  BY DEF ToolInv, ToolTypes, CallFits
<1>4. QED  BY <1>2, <1>3 DEF ToolInv, RecordFits, AuditIsTrue, OnRecord

LEMMA RecordOf ==
  ASSUME ToolTypes, NEW r \in DOMAIN toolAudit
  PROVE  toolAudit[r] \in ToolRecords /\ toolAudit[r].of \in Invocations
<1>1. toolAudit[r] \in ToolRecords  BY DEF ToolTypes
<1>2. QED  BY <1>1 DEF ToolRecords

-----------------------------------------------------------------------------
(* Steps of one invocation that leave the audit alone.                      *)

LEMMA OneCallMoves ==
  ASSUME ToolInv, NEW i \in Invocations, NEW next \in ToolCalls,
         toolCall' = [toolCall EXCEPT ![i] = next],
         UNCHANGED <<toolAudit, dropped>>, hostFile' \in Contents,
         touched \subseteq touched', touched' \subseteq touched \cup {i},
         CallFits(i, next, touched'),
         toolCall[i].pc \notin {"idle", "evaluate"} =>
           /\ next.pc \notin {"idle", "evaluate"} /\ next.name = toolCall[i].name
           /\ toolCall[i].pc = "done" => next.pc = "done" /\ touched' = touched
  PROVE  ToolInv'
<1>1. \A x \in Invocations : toolCall'[x] = IF x = i THEN next ELSE toolCall[x]
  BY DEF ToolInv, ToolTypes
<1>2. ToolTypes'
  <2>1. toolCall' \in [Invocations -> ToolCalls]  BY DEF ToolInv, ToolTypes
  <2>2. touched' \subseteq Invocations  BY DEF ToolInv, ToolTypes
  <2>3. QED  BY <2>1, <2>2 DEF ToolInv, ToolTypes
<1>3. \A x \in Invocations : OnRecord(x)' <=> OnRecord(x)  BY DEF OnRecord, HasRecord
<1>4. \A x \in Invocations : CallFits(x, toolCall'[x], touched')
  <2> TAKE x \in Invocations
  <2>1. CASE x = i  BY <1>1, <2>1
  <2>2. CASE x # i
    <3>1. x \in touched' <=> x \in touched  BY <2>2
    <3>2. CallFits(x, toolCall[x], touched)  BY DEF ToolInv
    <3>3. QED  BY <1>1, <2>2, <3>1, <3>2 DEF CallFits
  <2>3. QED  BY <2>1, <2>2
<1>5. \A x \in Invocations : CallFits(x, toolCall[x], touched)'  BY <1>3, <1>4 DEF CallFits
<1>6. ASSUME NEW r \in DOMAIN toolAudit
      PROVE  RecordFits(toolAudit[r], toolCall'[toolAudit[r].of], touched')
  <2> DEFINE x == toolAudit[r].of
  <2>1. x \in Invocations  BY RecordOf DEF ToolInv
  <2>2. RecordFits(toolAudit[r], toolCall[x], touched)  BY DEF ToolInv
  <2>3. CASE x = i  BY <1>1, <2>1, <2>2, <2>3 DEF RecordFits
  <2>4. CASE x # i
    <3>1. toolCall'[x] = toolCall[x] /\ (x \in touched' <=> x \in touched)  BY <1>1, <2>1, <2>4
    <3>2. QED  BY <2>2, <3>1 DEF RecordFits
  <2>5. QED  BY <2>3, <2>4
<1>7. (\A r \in DOMAIN toolAudit : RecordFits(toolAudit[r], toolCall[toolAudit[r].of], touched))'
  BY <1>6 DEF RecordFits
<1>8. QED  BY <1>2, <1>5, <1>7 DEF ToolInv

(* An invocation at stage pc, having seen the file and with an outcome.     *)
Went(c, pc, seen, outcome) == [c EXCEPT !.pc = pc, !.seen = seen, !.outcome = outcome]

LEMMA WentFields ==
  ASSUME NEW c \in ToolCalls, NEW pc \in UnderWay \cup {"done"}, NEW seen \in SeenFiles,
         NEW outcome \in ToolOutcomes
  PROVE  /\ Went(c, pc, seen, outcome) \in ToolCalls
         /\ Went(c, pc, seen, outcome).pc = pc /\ Went(c, pc, seen, outcome).outcome = outcome
         /\ Went(c, pc, seen, outcome).name = c.name
         /\ Went(c, pc, seen, outcome).authority = c.authority
BY DEF Went, ToolCalls

LEMMA CallGoesOn ==
  ASSUME ToolInv, NEW i \in Invocations, toolCall[i].pc \in UnderWay,
         NEW pc \in UnderWay \cup {"done"}, NEW seen \in SeenFiles, NEW outcome \in ToolOutcomes,
         toolCall' = [toolCall EXCEPT ![i] = Went(toolCall[i], pc, seen, outcome)],
         UNCHANGED <<toolAudit, dropped>>, hostFile' \in Contents,
         touched \subseteq touched', touched' \subseteq touched \cup {i},
         touched' # touched => toolCall[i].name \in WriteTools,
         pc = "write" => toolCall[i].name \in WriteTools,
         pc \in {"verify", "status"} => i \in touched',
         pc = "complete" /\ outcome = "succeeded" => toolCall[i].name \in ReadTools \/ i \in touched'
  PROVE  ToolInv'
<1> DEFINE next == Went(toolCall[i], pc, seen, outcome)
<1>1. toolCall[i] \in ToolCalls /\ CallFits(i, toolCall[i], touched)  BY DEF ToolInv, ToolTypes
<1>2. /\ next \in ToolCalls /\ next.pc = pc /\ next.outcome = outcome
      /\ next.name = toolCall[i].name /\ next.authority = toolCall[i].authority
  BY <1>1, WentFields
<1> HIDE DEF next
<1>3. OnRecord(i)  BY <1>1 DEF CallFits
<1>4. pc \notin {"idle", "evaluate"} /\ toolCall[i].pc # "done"  BY DEF UnderWay
<1>5. i \in touched' => next.authority # "none"  BY <1>1, <1>2 DEF CallFits
<1>6. CallFits(i, next, touched')  BY <1>1, <1>2, <1>3, <1>4, <1>5 DEF CallFits
<1>7. toolCall' = [toolCall EXCEPT ![i] = next]  BY DEF next
<1>8. QED  BY <1>2, <1>4, <1>6, <1>7, OneCallMoves

LEMMA CallParts ==
  ASSUME ToolInv, NEW i \in Invocations
  PROVE  toolCall[i].seen \in SeenFiles /\ toolCall[i].outcome \in ToolOutcomes
<1>1. toolCall[i] \in ToolCalls  BY DEF ToolInv, ToolTypes
<1>2. QED  BY <1>1 DEF ToolCalls

LEMMA WentStage ==
  ASSUME ToolInv, NEW i \in Invocations, NEW pc \in UnderWay \cup {"done"}
  PROVE  /\ Went(toolCall[i], pc, toolCall[i].seen, toolCall[i].outcome) \in ToolCalls
         /\ Went(toolCall[i], pc, toolCall[i].seen, toolCall[i].outcome).pc = pc
         /\ Went(toolCall[i], pc, toolCall[i].seen, toolCall[i].outcome).name = toolCall[i].name
         /\ Went(toolCall[i], pc, toolCall[i].seen, toolCall[i].outcome).authority = toolCall[i].authority
<1>1. toolCall[i] \in ToolCalls  BY DEF ToolInv, ToolTypes
<1>2. toolCall[i].seen \in SeenFiles /\ toolCall[i].outcome \in ToolOutcomes  BY CallParts
<1> DEFINE c == toolCall[i]
           seen == toolCall[i].seen
           outcome == toolCall[i].outcome
<1>3. c \in ToolCalls /\ seen \in SeenFiles /\ outcome \in ToolOutcomes  BY <1>1, <1>2
<1> HIDE DEF c, seen, outcome
<1>4. /\ Went(c, pc, seen, outcome) \in ToolCalls /\ Went(c, pc, seen, outcome).pc = pc
      /\ Went(c, pc, seen, outcome).name = c.name
      /\ Went(c, pc, seen, outcome).authority = c.authority
  BY <1>3, WentFields
<1>5. QED  BY <1>4 DEF c, seen, outcome

(* The forms of the steps.                                                  *)
LEMMA WentForms ==
  ASSUME ToolInv, NEW i \in Invocations, NEW pc, NEW seen
  PROVE  /\ [toolCall EXCEPT ![i].pc = pc] =
              [toolCall EXCEPT ![i] = Went(toolCall[i], pc, toolCall[i].seen, toolCall[i].outcome)]
         /\ [toolCall EXCEPT ![i].pc = pc, ![i].seen = seen] =
              [toolCall EXCEPT ![i] = Went(toolCall[i], pc, seen, toolCall[i].outcome)]
<1>1. toolCall \in [Invocations -> ToolCalls] /\ toolCall[i] \in ToolCalls  BY DEF ToolInv, ToolTypes
<1>2. /\ [toolCall[i] EXCEPT !.pc = pc] = Went(toolCall[i], pc, toolCall[i].seen, toolCall[i].outcome)
      /\ [[toolCall[i] EXCEPT !.pc = pc] EXCEPT !.seen = seen] =
           Went(toolCall[i], pc, seen, toolCall[i].outcome)
  BY <1>1 DEF Went, ToolCalls
<1>3. QED  BY <1>1, <1>2

LEMMA EndsForm ==
  ASSUME ToolInv, NEW i \in Invocations, NEW outcome, ToolEnds(i, outcome)
  PROVE  toolCall' = [toolCall EXCEPT ![i] = Went(toolCall[i], "complete", toolCall[i].seen, outcome)]
<1>1. toolCall \in [Invocations -> ToolCalls] /\ toolCall[i] \in ToolCalls  BY DEF ToolInv, ToolTypes
<1>2. [[toolCall[i] EXCEPT !.pc = "complete"] EXCEPT !.outcome = outcome] =
        Went(toolCall[i], "complete", toolCall[i].seen, outcome)
  BY <1>1 DEF Went, ToolCalls
<1>3. QED  BY <1>1, <1>2 DEF ToolEnds

(* A step to another stage, or to an outcome, that changes nothing else.    *)
LEMMA ToolToKeeps ==
  ASSUME ToolInv, NEW i \in Invocations, toolCall[i].pc \in UnderWay, NEW pc \in UnderWay \cup {"done"},
         ToolTo(i, pc), UNCHANGED <<toolAudit, dropped>>, hostFile' \in Contents,
         touched \subseteq touched', touched' \subseteq touched \cup {i},
         touched' # touched => toolCall[i].name \in WriteTools,
         pc \notin {"write", "complete"}, pc \in {"verify", "status"} => i \in touched'
  PROVE  ToolInv'
<1>1. toolCall[i].seen \in SeenFiles /\ toolCall[i].outcome \in ToolOutcomes  BY CallParts
<1>2. toolCall' = [toolCall EXCEPT ![i] = Went(toolCall[i], pc, toolCall[i].seen, toolCall[i].outcome)]
  BY WentForms DEF ToolTo
<1>3. QED  BY <1>1, <1>2, CallGoesOn

LEMMA ToolEndsKeeps ==
  ASSUME ToolInv, NEW i \in Invocations, toolCall[i].pc \in UnderWay, NEW outcome \in ToolOutcomes,
         ToolEnds(i, outcome), UNCHANGED <<toolAudit, dropped, touched>>, hostFile' \in Contents,
         outcome = "succeeded" => toolCall[i].name \in ReadTools \/ i \in touched
  PROVE  ToolInv'
<1>1. "complete" \in UnderWay \cup {"done"}  BY DEF UnderWay
<1>2. toolCall[i].seen \in SeenFiles  BY CallParts
<1>3. toolCall' = [toolCall EXCEPT ![i] = Went(toolCall[i], "complete", toolCall[i].seen, outcome)]
  BY EndsForm
<1>4. touched \subseteq touched' /\ touched' \subseteq touched \cup {i} /\ touched' = touched  OBVIOUS
<1>5. QED  BY <1>1, <1>2, <1>3, <1>4, CallGoesOn

LEMMA FileStaysTyped == ToolInv /\ UNCHANGED hostFile => hostFile' \in Contents
BY DEF ToolInv, ToolTypes

LEMMA StartStep ==
  ASSUME ToolInv, NEW i \in Invocations, start_tool(i) \/ run_read(i) \/ time_out_tool(i)
  PROVE  ToolInv'
<1>1. toolCall[i].pc \in UnderWay
  BY DEF start_tool, run_read, time_out_tool, ToolAt, ToolWorking, UnderWay
<1>2. hostFile' \in Contents  BY FileStaysTyped DEF start_tool, run_read, time_out_tool
<1>3. CASE start_tool(i)
  <2>1. \/ ToolEnds(i, "cancelled") \/ ToolEnds(i, "failed") \/ ToolTo(i, "working")
    BY <1>3 DEF start_tool
  <2>2. UNCHANGED <<toolAudit, dropped, touched>>  BY <1>3 DEF start_tool
  <2>3. CASE ToolTo(i, "working")  BY <1>1, <1>2, <2>2, <2>3, ToolToKeeps DEF UnderWay
  <2>4. CASE ToolEnds(i, "cancelled")  BY <1>1, <1>2, <2>2, <2>4, ToolEndsKeeps DEF ToolOutcomes
  <2>5. CASE ToolEnds(i, "failed")  BY <1>1, <1>2, <2>2, <2>5, ToolEndsKeeps DEF ToolOutcomes
  <2>6. QED  BY <2>1, <2>3, <2>4, <2>5
<1>4. CASE run_read(i)
  <2>1. PICK outcome \in {"succeeded", "failed"} : ToolEnds(i, outcome)  BY <1>4 DEF run_read
  <2>2. UNCHANGED <<toolAudit, dropped, touched>> /\ toolCall[i].name \in ReadTools  BY <1>4 DEF run_read
  <2>3. QED  BY <1>1, <1>2, <2>1, <2>2, ToolEndsKeeps DEF ToolOutcomes
<1>5. CASE time_out_tool(i)
  <2>1. ToolEnds(i, "failed") /\ UNCHANGED <<toolAudit, dropped, touched>>  BY <1>5 DEF time_out_tool
  <2>2. QED  BY <1>1, <1>2, <2>1, ToolEndsKeeps DEF ToolOutcomes
<1>6. QED  BY <1>3, <1>4, <1>5

LEMMA PatchReadStep ==
  ASSUME ToolInv, NEW i \in Invocations, file_patch_read(i)
  PROVE  ToolInv'
<1>1. /\ toolCall[i].pc \in UnderWay /\ toolCall[i].name \in WriteTools
      /\ UNCHANGED <<toolAudit, dropped, touched, hostFile>>
  BY DEF file_patch_read, ToolAt, UnderWay, WriteTools
<1>2. hostFile' \in Contents /\ {hostFile} \in SeenFiles
  BY <1>1, FileStaysTyped DEF ToolInv, ToolTypes, SeenFiles
<1>3. CASE toolCall' = [toolCall EXCEPT ![i].pc = "write", ![i].seen = {hostFile}]
  <2>1. toolCall[i].outcome \in ToolOutcomes
        /\ toolCall' = [toolCall EXCEPT ![i] = Went(toolCall[i], "write", {hostFile}, toolCall[i].outcome)]
    BY <1>3, CallParts, WentForms
  <2>2. "write" \in UnderWay \cup {"done"}  BY DEF UnderWay
  <2>3. QED  BY <1>1, <1>2, <2>1, <2>2, CallGoesOn
<1>4. CASE ToolEnds(i, "failed")  BY <1>1, <1>2, <1>4, ToolEndsKeeps DEF ToolOutcomes
<1>5. QED  BY <1>3, <1>4 DEF file_patch_read

(* There is a text to patch the file to.                                    *)
LEMMA PatchedIsText ==
  ASSUME ToolInv, NEW i \in Invocations
  PROVE  Patched(i) \in Contents
<1>1. toolCall[i].seen \in SeenFiles  BY CallParts
<1>2. \E new \in Contents : new \notin toolCall[i].seen
  BY <1>1, PatchAssumption DEF SeenFiles, ToolInv, ToolTypes
<1>3. QED  BY <1>2 DEF Patched

LEMMA PatchWriteStep ==
  ASSUME ToolInv, NEW i \in Invocations, file_patch_write(i)
  PROVE  ToolInv'
<1>1. toolCall[i].pc \in UnderWay /\ UNCHANGED <<toolAudit, dropped>>
  BY DEF file_patch_write, ToolAt, UnderWay
<1>2. toolCall[i].name \in WriteTools  BY DEF file_patch_write, ToolAt, ToolInv, CallFits
<1>3. CASE /\ hostFile' = Patched(i) /\ touched' = touched \union {i} /\ ToolTo(i, "verify")
  <2>1. hostFile' \in Contents /\ "verify" \in UnderWay  BY <1>3, PatchedIsText DEF UnderWay
  <2>2. QED  BY <1>1, <1>2, <1>3, <2>1, ToolToKeeps
<1>4. CASE ToolEnds(i, "failed") /\ UNCHANGED <<hostFile, touched>>
  BY <1>1, <1>4, FileStaysTyped, ToolEndsKeeps DEF ToolOutcomes
<1>5. QED  BY <1>3, <1>4 DEF file_patch_write

LEMMA PatchVerifyStep ==
  ASSUME ToolInv, NEW i \in Invocations, file_patch_verify(i)
  PROVE  ToolInv'
<1>1. toolCall[i].pc \in UnderWay /\ UNCHANGED <<toolAudit, dropped, touched>>
  BY DEF file_patch_verify, ToolAt, UnderWay
<1>2. i \in touched  BY DEF file_patch_verify, ToolAt, ToolInv, CallFits
<1>3. PICK outcome \in ToolOutcomes : ToolEnds(i, outcome)
  BY DEF file_patch_verify, ToolOutcomes
<1>4. hostFile' = hostFile \/ hostFile' \in toolCall[i].seen  BY DEF file_patch_verify
<1>5. hostFile \in Contents /\ toolCall[i].seen \subseteq Contents
  <2>1. toolCall[i].seen \in SeenFiles  BY CallParts
  <2>2. QED  BY <2>1 DEF ToolInv, ToolTypes, SeenFiles
<1>6. QED  BY <1>1, <1>2, <1>3, <1>4, <1>5, ToolEndsKeeps

LEMMA ServiceStep ==
  ASSUME ToolInv, NEW i \in Invocations, service_change(i) \/ service_status(i)
  PROVE  ToolInv'
<1>1. toolCall[i].pc \in UnderWay /\ UNCHANGED <<toolAudit, dropped, hostFile>>
  BY DEF service_change, service_status, ToolAt, UnderWay
<1>2. hostFile' \in Contents  BY <1>1, FileStaysTyped
<1>3. CASE service_change(i)
  <2>1. toolCall[i].name \in WriteTools  BY <1>3 DEF service_change, WriteTools
  <2>2. CASE touched' = touched \union {i} /\ ToolTo(i, "status")
    BY <1>1, <1>2, <2>1, <2>2, ToolToKeeps DEF UnderWay
  <2>3. CASE ToolEnds(i, "failed") /\ UNCHANGED touched
    BY <1>1, <1>2, <2>3, ToolEndsKeeps DEF ToolOutcomes
  <2>4. QED  BY <1>3, <2>2, <2>3 DEF service_change
<1>4. CASE service_status(i)
  <2>1. i \in touched  BY <1>4 DEF service_status, ToolAt, ToolInv, CallFits
  <2>2. PICK outcome \in ToolOutcomes : ToolEnds(i, outcome)
    BY <1>4 DEF service_status, ToolOutcomes
  <2>3. UNCHANGED touched  BY <1>4 DEF service_status
  <2>4. QED  BY <1>1, <1>2, <2>1, <2>2, <2>3, ToolEndsKeeps
<1>5. QED  BY <1>3, <1>4

LEMMA RequestStep ==
  ASSUME ToolInv, NEW i \in Invocations, request_tool(i)
  PROVE  ToolInv'
<1>1. PICK name \in ToolNames, authority \in {"none", "approved", "rollback"} :
        toolCall' = [toolCall EXCEPT ![i] = [NoTool EXCEPT !.pc = "evaluate", !.name = name,
                                                     !.authority = authority]]
  BY DEF request_tool, ToolNames
<1> DEFINE next == [NoTool EXCEPT !.pc = "evaluate", !.name = name, !.authority = authority]
<1>2. next \in ToolCalls /\ next.pc = "evaluate"
  BY DEF NoTool, ToolCalls, ToolOutcomes, SeenFiles
<1>3. toolCall[i].pc = "idle"  BY DEF request_tool, NoTool
<1>4. i \notin touched  BY <1>3 DEF ToolInv, CallFits
<1>5. UNCHANGED <<toolAudit, dropped, touched, hostFile>>  BY DEF request_tool
<1>6. CallFits(i, next, touched')  BY <1>2, <1>4, <1>5 DEF CallFits, UnderWay
<1> HIDE DEF next
<1>7. toolCall' = [toolCall EXCEPT ![i] = next]  BY <1>1 DEF next
<1>8. hostFile' \in Contents  BY <1>5, FileStaysTyped
<1>9. QED  BY <1>2, <1>3, <1>5, <1>6, <1>7, <1>8, OneCallMoves

LEMMA CancelStep ==
  ASSUME ToolInv, NEW i \in Invocations, cancel_tool(i)
  PROVE  ToolInv'
<1> DEFINE next == [toolCall[i] EXCEPT !.cancelled = TRUE]
<1>1. toolCall[i] \in ToolCalls /\ CallFits(i, toolCall[i], touched)  BY DEF ToolInv, ToolTypes
<1>2. /\ next \in ToolCalls /\ next.pc = toolCall[i].pc /\ next.name = toolCall[i].name
      /\ next.authority = toolCall[i].authority /\ next.outcome = toolCall[i].outcome
  BY <1>1 DEF ToolCalls
<1>3. UNCHANGED <<toolAudit, dropped, touched, hostFile>>  BY DEF cancel_tool
<1>4. toolCall' = [toolCall EXCEPT ![i] = next]  BY DEF cancel_tool
<1> HIDE DEF next
<1>5. CallFits(i, next, touched')  BY <1>1, <1>2, <1>3 DEF CallFits
<1>6. hostFile' \in Contents  BY <1>3, FileStaysTyped
<1>7. QED  BY <1>2, <1>3, <1>4, <1>5, <1>6, OneCallMoves

-----------------------------------------------------------------------------
(* Steps that write the audit.                                              *)

(* A save that rewrites records, each in its place and of its invocation.   *)
LEMMA RecordsChange ==
  ASSUME ToolInv, NEW i \in Invocations, NEW next \in ToolCalls,
         toolCall' = [toolCall EXCEPT ![i] = next], UNCHANGED <<dropped, touched, hostFile>>,
         toolAudit' \in [DOMAIN toolAudit -> ToolRecords],
         \A r \in DOMAIN toolAudit :
           /\ toolAudit'[r].of = toolAudit[r].of
           /\ toolAudit[r].of # i => toolAudit'[r] = toolAudit[r]
           /\ toolAudit[r].of = i => RecordFits(toolAudit'[r], next, touched),
         CallFits(i, next, touched)
  PROVE  ToolInv'
<1>1. \A x \in Invocations : toolCall'[x] = IF x = i THEN next ELSE toolCall[x]
  BY DEF ToolInv, ToolTypes
<1>2. ToolTypes'
  <2>1. toolCall' \in [Invocations -> ToolCalls]  BY DEF ToolInv, ToolTypes
  <2>2. toolAudit' \in Seq(ToolRecords)  BY DEF ToolInv, ToolTypes
  <2>3. QED  BY <2>1, <2>2 DEF ToolInv, ToolTypes
<1>3. \A x \in Invocations : OnRecord(x)' <=> OnRecord(x)  BY DEF OnRecord, HasRecord
<1>4. \A x \in Invocations : CallFits(x, toolCall[x], touched)'
  BY <1>1, <1>3 DEF ToolInv, CallFits
<1>5. ASSUME NEW r \in DOMAIN toolAudit
      PROVE  RecordFits(toolAudit'[r], toolCall'[toolAudit'[r].of], touched)
  <2>1. toolAudit[r].of \in Invocations  BY RecordOf DEF ToolInv
  <2>2. RecordFits(toolAudit[r], toolCall[toolAudit[r].of], touched)  BY DEF ToolInv
  <2>3. QED  BY <1>1, <2>1, <2>2
<1>6. (\A r \in DOMAIN toolAudit : RecordFits(toolAudit[r], toolCall[toolAudit[r].of], touched))'
  BY <1>5 DEF RecordFits
<1>7. QED  BY <1>2, <1>4, <1>6 DEF ToolInv

LEMMA CancellationStep ==
  ASSUME ToolInv, NEW i \in Invocations, notice_cancellation(i)
  PROVE  ToolInv'
<1>1. toolCall[i].pc \in UnderWay /\ UNCHANGED <<dropped, touched, hostFile>>
  BY DEF notice_cancellation, ToolWorking, UnderWay
<1>2. toolCall[i] \in ToolCalls /\ CallFits(i, toolCall[i], touched)  BY DEF ToolInv, ToolTypes
<1>3. CASE ToolTo(i, "done") /\ UNCHANGED toolAudit
  <2>1. hostFile' \in Contents  BY <1>1, FileStaysTyped
  <2>2. QED  BY <1>1, <1>3, <2>1, ToolToKeeps DEF UnderWay
<1>4. CASE ToolEnds(i, "cancelled") /\ toolAudit' = MarkCancelled(i)
  <2> DEFINE next == Went(toolCall[i], "complete", toolCall[i].seen, "cancelled")
  <2>1. toolCall' = [toolCall EXCEPT ![i] = next]  BY <1>4, EndsForm
  <2>2. /\ next \in ToolCalls /\ next.pc = "complete" /\ next.outcome = "cancelled"
        /\ next.name = toolCall[i].name /\ next.authority = toolCall[i].authority
    <3>1. "complete" \in UnderWay \cup {"done"} /\ "cancelled" \in ToolOutcomes
      BY DEF UnderWay, ToolOutcomes
    <3>2. toolCall[i].seen \in SeenFiles  BY CallParts
    <3>3. QED  BY <1>2, <3>1, <3>2, WentFields
  <2> HIDE DEF next
  <2>3. CallFits(i, next, touched)  BY <1>1, <1>2, <2>2 DEF CallFits
  <2>4. \A r \in DOMAIN toolAudit : toolAudit[r] \in ToolRecords  BY RecordOf DEF ToolInv
  <2>5. toolAudit' \in [DOMAIN toolAudit -> ToolRecords]
    BY <1>4, <2>4 DEF MarkCancelled, ToolRecords
  <2>6. ASSUME NEW r \in DOMAIN toolAudit
        PROVE  /\ toolAudit'[r].of = toolAudit[r].of
               /\ toolAudit[r].of # i => toolAudit'[r] = toolAudit[r]
               /\ toolAudit[r].of = i => RecordFits(toolAudit'[r], next, touched)
    <3>1. /\ toolAudit'[r].of = toolAudit[r].of /\ toolAudit'[r].status = toolAudit[r].status
          /\ toolAudit'[r].verification = toolAudit[r].verification
      BY <1>4, <2>4 DEF MarkCancelled, ToolRecords
    <3>2. toolAudit[r].of # i => toolAudit'[r] = toolAudit[r]  BY <1>4 DEF MarkCancelled
    <3>3. RecordFits(toolAudit[r], toolCall[toolAudit[r].of], touched)  BY DEF ToolInv
    <3>4. toolAudit[r].of = i => RecordFits(toolAudit'[r], next, touched)
      BY <1>1, <2>2, <3>1, <3>3 DEF RecordFits, UnderWay
    <3>5. QED  BY <3>1, <3>2, <3>4
  <2>7. QED  BY <1>1, <2>1, <2>2, <2>3, <2>5, <2>6, RecordsChange
<1>5. QED  BY <1>3, <1>4 DEF notice_cancellation

LEMMA CompletedFields ==
  ASSUME NEW record \in ToolRecords, NEW outcome \in ToolOutcomes
  PROVE  /\ Completed(record, outcome) \in ToolRecords
         /\ Completed(record, outcome).of = record.of
         /\ Completed(record, outcome).status = outcome
         /\ (Completed(record, outcome).verification = "succeeded" =>
               record.verification # "not_applicable" /\ outcome = "succeeded")
         /\ record.verification = "not_applicable" => Completed(record, outcome).verification = "not_applicable"
BY DEF Completed, ToolRecords

LEMMA CompleteStep ==
  ASSUME ToolInv, NEW i \in Invocations, complete_record(i)
  PROVE  ToolInv'
<1>1. /\ toolCall[i].pc = "complete" /\ toolCall[i].pc \in UnderWay /\ ToolTo(i, "done")
      /\ UNCHANGED <<dropped, touched, hostFile>>
  BY DEF complete_record, ToolAt, UnderWay
<1>2. toolCall[i] \in ToolCalls /\ CallFits(i, toolCall[i], touched)  BY DEF ToolInv, ToolTypes
<1>3. CASE UNCHANGED toolAudit
  <2>1. hostFile' \in Contents  BY <1>1, FileStaysTyped
  <2>2. QED  BY <1>1, <1>3, <2>1, ToolToKeeps DEF UnderWay
<1>4. CASE toolAudit' = [r \in DOMAIN toolAudit |->
                           IF toolAudit[r].of = i THEN Completed(toolAudit[r], toolCall[i].outcome)
                           ELSE toolAudit[r]]
  <2> DEFINE next == Went(toolCall[i], "done", toolCall[i].seen, toolCall[i].outcome)
             outcome == toolCall[i].outcome
  <2>1. toolCall' = [toolCall EXCEPT ![i] = next]  BY <1>1, WentForms DEF ToolTo
  <2>2. outcome \in ToolOutcomes  BY CallParts
  <2>3. /\ next \in ToolCalls /\ next.pc = "done"
        /\ next.name = toolCall[i].name /\ next.authority = toolCall[i].authority
    BY WentStage
  <2> HIDE DEF next
  <2>4. CallFits(i, next, touched)  BY <1>1, <1>2, <2>3 DEF CallFits, UnderWay
  <2>5. \A r \in DOMAIN toolAudit : toolAudit[r] \in ToolRecords  BY RecordOf DEF ToolInv
  <2>6. toolAudit' \in [DOMAIN toolAudit -> ToolRecords]  BY <1>4, <2>2, <2>5, CompletedFields
  <2>7. ASSUME NEW r \in DOMAIN toolAudit
        PROVE  /\ toolAudit'[r].of = toolAudit[r].of
               /\ toolAudit[r].of # i => toolAudit'[r] = toolAudit[r]
               /\ toolAudit[r].of = i => RecordFits(toolAudit'[r], next, touched)
    <3>1. CASE toolAudit[r].of # i  BY <1>4, <3>1
    <3>2. CASE toolAudit[r].of = i
      <4>1. toolAudit'[r] = Completed(toolAudit[r], outcome)  BY <1>4, <3>2
      <4>2. /\ toolAudit'[r].of = i /\ toolAudit'[r].status = outcome
            /\ (toolAudit'[r].verification = "succeeded" =>
                  toolAudit[r].verification # "not_applicable" /\ outcome = "succeeded")
            /\ toolAudit[r].verification = "not_applicable" => toolAudit'[r].verification = "not_applicable"
        BY <2>2, <2>5, <3>2, <4>1, CompletedFields
      <4>3. RecordFits(toolAudit[r], toolCall[i], touched)  BY <3>2 DEF ToolInv
      <4>4. outcome # "policy_blocked"  BY <2>2 DEF ToolOutcomes
      <4>5. toolAudit'[r].verification = "succeeded" => i \in touched
        BY <1>1, <1>2, <4>2, <4>3 DEF CallFits, RecordFits, ReadTools, WriteTools
      <4>6. RecordFits(toolAudit'[r], next, touched)
        BY <2>3, <4>2, <4>3, <4>4, <4>5 DEF RecordFits
      <4>7. QED  BY <3>2, <4>2, <4>6
    <3>3. QED  BY <3>1, <3>2
  <2>8. QED  BY <1>1, <2>1, <2>3, <2>4, <2>6, <2>7, RecordsChange
<1>5. QED  BY <1>3, <1>4 DEF complete_record

(* What the limit does to a log: the head, if anything, is pushed out.      *)
LEMMA KeptOrPushedOut ==
  ASSUME NEW log \in Seq(ToolRecords), log # <<>>
  PROVE  /\ KeptRecords(log) \in Seq(ToolRecords)
         /\ \A r \in DOMAIN KeptRecords(log) : \E x \in DOMAIN log : KeptRecords(log)[r] = log[x]
         /\ \A x \in DOMAIN log : \/ log[x].of \in PushedOut(log)
                                 \/ \E r \in DOMAIN KeptRecords(log) : KeptRecords(log)[r] = log[x]
<1>1. CASE ~ (Len(log) > MaxRecords)  BY <1>1 DEF KeptRecords, PushedOut
<1>2. CASE Len(log) > MaxRecords
  <2>1. KeptRecords(log) = Tail(log) /\ PushedOut(log) = {log[1].of}  BY <1>2 DEF KeptRecords, PushedOut
  <2>2. /\ Tail(log) \in Seq(ToolRecords) /\ Len(Tail(log)) = Len(log) - 1
        /\ Len(log) \in Nat /\ DOMAIN log = 1..Len(log) /\ DOMAIN Tail(log) = 1..Len(log) - 1
        /\ \A r \in 1..Len(log) - 1 : Tail(log)[r] = log[r + 1]
    OBVIOUS
  <2>3. \A r \in 1..Len(log) - 1 : r + 1 \in 1..Len(log)  BY <2>2
  <2>4. \A x \in 1..Len(log) : x = 1 \/ (x - 1 \in 1..Len(log) - 1 /\ Tail(log)[x - 1] = log[x])
    BY <2>2
  <2>5. QED  BY <2>1, <2>2, <2>3, <2>4
<1>3. QED  BY <1>1, <1>2

LEMMA NewRecordFields ==
  ASSUME ToolInv, NEW i \in Invocations
  PROVE  /\ NewRecord(i) \in ToolRecords /\ NewRecord(i).of = i
         /\ NewRecord(i).status = "policy_blocked" <=> ~ evaluate_tool(i)
         /\ NewRecord(i).verification # "succeeded"
         /\ NewRecord(i).verification = "not_applicable" \/ toolCall[i].name \in WriteTools
BY DEF NewRecord, ToolRecords

LEMMA AppendStep ==
  ASSUME ToolInv, NEW i \in Invocations, append_record(i)
  PROVE  ToolInv'
<1>1. /\ toolCall[i].pc = "evaluate" /\ toolCall[i] \in ToolCalls /\ CallFits(i, toolCall[i], touched)
      /\ UNCHANGED <<touched, hostFile>>
  BY DEF append_record, ToolAt, ToolInv, ToolTypes
<1>2. i \notin touched  BY <1>1 DEF CallFits
<1>3. \A r \in DOMAIN toolAudit : toolAudit[r].of # i  BY <1>1 DEF ToolInv, RecordFits
<1> DEFINE at(pc) == Went(toolCall[i], pc, toolCall[i].seen, toolCall[i].outcome)
<1>4. \A pc \in {"start", "done"} :
        /\ at(pc) \in ToolCalls /\ at(pc).pc = pc /\ at(pc).name = toolCall[i].name
        /\ at(pc).authority = toolCall[i].authority
  <2>1. {"start", "done"} \subseteq UnderWay \cup {"done"}  BY DEF UnderWay
  <2>2. QED  BY <2>1, WentStage
<1>5. \A pc \in {"start", "done"} : ToolTo(i, pc) => toolCall' = [toolCall EXCEPT ![i] = at(pc)]
  BY WentForms DEF ToolTo
<1> HIDE DEF at
<1>6. CASE unsaved(i) /\ UNCHANGED <<toolAudit, dropped>>
  <2>1. toolCall' = [toolCall EXCEPT ![i] = at("done")]  BY <1>5, <1>6 DEF unsaved
  <2>2. CallFits(i, at("done"), touched')  BY <1>1, <1>2, <1>4 DEF CallFits, UnderWay
  <2>3. hostFile' \in Contents  BY <1>1, FileStaysTyped
  <2>4. QED  BY <1>1, <1>4, <1>6, <2>1, <2>2, <2>3, OneCallMoves
<1>7. CASE /\ toolAudit' = KeptRecords(Append(toolAudit, NewRecord(i)))
           /\ dropped' = dropped \union PushedOut(Append(toolAudit, NewRecord(i)))
           /\ ToolTo(i, IF evaluate_tool(i) THEN "start" ELSE "done")
  <2> DEFINE log == Append(toolAudit, NewRecord(i))
             next == at(IF evaluate_tool(i) THEN "start" ELSE "done")
  <2>1. /\ NewRecord(i) \in ToolRecords /\ NewRecord(i).of = i
        /\ (NewRecord(i).status = "policy_blocked" <=> ~ evaluate_tool(i))
        /\ NewRecord(i).verification # "succeeded"
        /\ NewRecord(i).verification = "not_applicable" \/ toolCall[i].name \in WriteTools
    BY NewRecordFields
  <2>2. /\ log \in Seq(ToolRecords) /\ log # <<>>
        /\ \A x \in DOMAIN log : log[x] = NewRecord(i) \/ \E r \in DOMAIN toolAudit : log[x] = toolAudit[r]
        /\ \A r \in DOMAIN toolAudit : r \in DOMAIN log /\ log[r] = toolAudit[r]
        /\ \E x \in DOMAIN log : log[x] = NewRecord(i)
    <3>1. toolAudit \in Seq(ToolRecords)  BY DEF ToolInv, ToolTypes
    <3>2. /\ log \in Seq(ToolRecords) /\ Len(log) = Len(toolAudit) + 1 /\ Len(toolAudit) \in Nat
          /\ DOMAIN log = 1..Len(toolAudit) + 1 /\ DOMAIN toolAudit = 1..Len(toolAudit)
          /\ \A r \in 1..Len(toolAudit) : log[r] = toolAudit[r]
          /\ log[Len(toolAudit) + 1] = NewRecord(i)
      BY <2>1, <3>1
    <3>3. \A x \in DOMAIN log : x = Len(toolAudit) + 1 \/ x \in DOMAIN toolAudit  BY <3>2
    <3>4. log # <<>>  BY <3>1, <2>1, AppendProperties
    <3>5. QED  BY <3>2, <3>3, <3>4
  <2> HIDE DEF log
  <2>3. toolAudit' = KeptRecords(log) /\ dropped' = dropped \cup PushedOut(log)  BY <1>7 DEF log
  <2>4. /\ toolAudit' \in Seq(ToolRecords)
        /\ \A r \in DOMAIN toolAudit' : \E x \in DOMAIN log : toolAudit'[r] = log[x]
        /\ \A x \in DOMAIN log : \/ log[x].of \in dropped'
                                \/ \E r \in DOMAIN toolAudit' : toolAudit'[r] = log[x]
    BY <2>2, <2>3, KeptOrPushedOut
  <2>5. \A x \in Invocations : OnRecord(x) \/ x = i => OnRecord(x)'
    BY <2>1, <2>2, <2>3, <2>4 DEF OnRecord, HasRecord
  <2>6. /\ toolCall' = [toolCall EXCEPT ![i] = next] /\ next \in ToolCalls
        /\ next.pc = (IF evaluate_tool(i) THEN "start" ELSE "done")
        /\ next.name = toolCall[i].name /\ next.authority = toolCall[i].authority
    BY <1>4, <1>5, <1>7
  <2> HIDE DEF next
  <2>7. \A x \in Invocations : toolCall'[x] = IF x = i THEN next ELSE toolCall[x]
    BY <2>6 DEF ToolInv, ToolTypes
  <2>8. ToolTypes'
    <3>1. toolCall' \in [Invocations -> ToolCalls]  BY <2>6 DEF ToolInv, ToolTypes
    <3>2. QED  BY <1>1, <2>4, <3>1 DEF ToolInv, ToolTypes
  <2>9. \A x \in Invocations : CallFits(x, toolCall[x], touched)'
    <3> TAKE x \in Invocations
    <3>1. CASE x = i
      <4>1. evaluate_tool(i) => (next.name \in WriteTools => next.authority # "none")
        BY <2>6 DEF evaluate_tool, requires_approval
      <4>2. QED  BY <1>1, <1>2, <2>5, <2>6, <2>7, <3>1, <4>1 DEF CallFits, UnderWay
    <3>2. CASE x # i
      <4>1. CallFits(x, toolCall[x], touched)  BY DEF ToolInv
      <4>2. QED  BY <1>1, <2>5, <2>7, <3>2, <4>1 DEF CallFits
    <3>3. QED  BY <3>1, <3>2
  <2>10. ASSUME NEW r \in DOMAIN toolAudit'
         PROVE  RecordFits(toolAudit'[r], toolCall'[toolAudit'[r].of], touched)
    <3>1. PICK x \in DOMAIN log : toolAudit'[r] = log[x]  BY <2>4
    <3>2. CASE toolAudit'[r] = NewRecord(i)
      BY <1>2, <2>1, <2>6, <2>7, <3>2 DEF RecordFits
    <3>3. CASE \E s \in DOMAIN toolAudit : toolAudit'[r] = toolAudit[s]
      <4>1. PICK s \in DOMAIN toolAudit : toolAudit'[r] = toolAudit[s]  BY <3>3
      <4>2. toolAudit[s].of \in Invocations /\ toolAudit[s].of # i  BY <1>3, RecordOf DEF ToolInv
      <4>3. RecordFits(toolAudit[s], toolCall[toolAudit[s].of], touched)  BY DEF ToolInv
      <4>4. QED  BY <2>7, <4>1, <4>2, <4>3
    <3>4. QED  BY <2>2, <3>1, <3>2, <3>3
  <2>11. (\A r \in DOMAIN toolAudit : RecordFits(toolAudit[r], toolCall[toolAudit[r].of], touched))'
    BY <1>1, <2>10 DEF RecordFits
  <2>12. QED  BY <2>8, <2>9, <2>11 DEF ToolInv
<1>8. QED  BY <1>6, <1>7 DEF append_record

LEMMA ToolInvStep == ToolInv /\ [ToolExecutionNext]_toolVars => ToolInv'
<1> SUFFICES ASSUME ToolInv, [ToolExecutionNext]_toolVars PROVE ToolInv'
  OBVIOUS
<1>1. CASE UNCHANGED <<toolCall, toolAudit, dropped, touched>> /\ hostFile' \in Contents
  <2>1. ToolTypes'  BY <1>1 DEF ToolInv, ToolTypes
  <2>2. \A x \in Invocations : CallFits(x, toolCall[x], touched)'
    BY <1>1 DEF ToolInv, CallFits, OnRecord, HasRecord
  <2>3. (\A r \in DOMAIN toolAudit : RecordFits(toolAudit[r], toolCall[toolAudit[r].of], touched))'
    BY <1>1 DEF ToolInv, RecordFits
  <2>4. QED  BY <2>1, <2>2, <2>3 DEF ToolInv
<1>2. CASE edit_policy \/ host_changes \/ UNCHANGED toolVars
  BY <1>1, <1>2, FileStaysTyped DEF edit_policy, host_changes, toolVars
<1>3. ASSUME NEW i \in Invocations,
             \/ request_tool(i) \/ cancel_tool(i) \/ append_record(i) \/ start_tool(i) \/ run_read(i)
             \/ file_patch_read(i) \/ file_patch_write(i) \/ file_patch_verify(i)
             \/ service_change(i) \/ service_status(i)
             \/ time_out_tool(i) \/ notice_cancellation(i) \/ complete_record(i)
      PROVE  ToolInv'
  BY <1>3, RequestStep, CancelStep, AppendStep, StartStep, PatchReadStep, PatchWriteStep, PatchVerifyStep,
     ServiceStep, CancellationStep, CompleteStep
<1>4. QED  BY <1>2, <1>3 DEF ToolExecutionNext

LEMMA ToolInvInit == ToolExecutionInit => ToolInv
<1> SUFFICES ASSUME ToolExecutionInit PROVE ToolInv
  OBVIOUS
<1>1. NoTool \in ToolCalls /\ NoTool.pc = "idle"  BY DEF NoTool, ToolCalls, ToolOutcomes, SeenFiles
<1>2. \A i \in Invocations : toolCall[i] = NoTool  BY DEF ToolExecutionInit
<1>3. ToolTypes  BY <1>1 DEF ToolExecutionInit, ToolTypes
<1>4. \A i \in Invocations : CallFits(i, toolCall[i], touched)
  BY <1>1, <1>2 DEF ToolExecutionInit, CallFits, UnderWay
<1>5. DOMAIN toolAudit = {}  BY DEF ToolExecutionInit
<1>6. QED  BY <1>3, <1>4, <1>5 DEF ToolInv

(* However execute, its timeouts, cancellations and failing saves overlap,  *)
(* and for any limit of the audit: a change of the host is on record unless *)
(* the limit pushed it out, had authority, and no record claims otherwise.  *)
THEOREM AuditOfEveryChange == ToolExecutionSpec => []AuditIsTrue
BY ToolInvIsEnough, ToolInvInit, ToolInvStep, PTL DEF ToolExecutionSpec

-----------------------------------------------------------------------------
(* JumpServer: types.                                                       *)

JmsPcs == {"idle", "connect", "token", "endpoint", "token_ssh", "direct"}

Advertised == [host : JmsHosts, port : SshPorts]

JmsStates == [keys : [Gateway -> HostKeys], permitted : SUBSET JmsAccounts, smart : SUBSET Advertised,
              loopback : BOOLEAN, live : BOOLEAN, issued : Seq(JmsAccounts), spent : SUBSET Nat, moves : Nat]

JmsFlows == [listed : SUBSET JmsAccounts, account : SUBSET JmsAccounts, gateway : SUBSET Gateway]

KokoCalls == [pc : JmsPcs, for : SUBSET JmsAccounts, account : Nat, method : Nat, key : HostKeys \cup {"none"},
              token : Nat, gateway : Gateway \cup {ApiGateway}, session : SUBSET JmsAccounts]

JmsTypes ==
  /\ jms \in JmsStates /\ jmsFlow \in JmsFlows
  /\ jmsAttempt \subseteq [gateway : Gateway, key : HostKeys]
  /\ koko \in [Connects -> KokoCalls]
  /\ offered \in [1..MaxTokens -> Nat]

(* Stages at which a connect call holds a token it has not offered.         *)
HoldsToken(k) == k.pc \in {"endpoint", "token_ssh"}

One(accounts) == \E account \in JmsAccounts : accounts = {account}

(* A connect call: it asks for one account, under a name the account has,   *)
(* holds a token the server issued for it, and has no session yet.          *)
KokoFits(k, issued) ==
  /\ k.pc = "connect" => One(jmsFlow.account) /\ k.account = 1
  /\ k.pc \in {"token", "endpoint", "token_ssh", "direct"} => One(k.for)
  /\ k.pc # "idle" => k.session = {}
  /\ k.pc = "token" =>
       \A account \in k.for : k.account \in 1..Len(connection_account_candidates(account))
  /\ HoldsToken(k) =>
       /\ k.token \in 1..Len(issued)
       /\ NamesAreUnique => issued[k.token] \in k.for
  /\ NamesAreUnique => k.session \subseteq k.for

TokensFit ==
  /\ Len(jms.issued) <= MaxTokens
  /\ \A t \in 1..MaxTokens : offered[t] <= 1 /\ (t > Len(jms.issued) => offered[t] = 0)
  /\ \A c \in Connects : HoldsToken(koko[c]) => offered[koko[c].token] = 0
  /\ \A c, d \in Connects : HoldsToken(koko[c]) /\ HoldsToken(koko[d]) /\ c # d =>
       koko[c].token # koko[d].token

(* The inductive invariant.                                                 *)
JmsInv ==
  /\ JmsTypes /\ TokensFit
  /\ jmsFlow.account = {} \/ One(jmsFlow.account)
  /\ jmsAttempt # {} => One(jmsFlow.account)
  /\ \A c \in Connects : KokoFits(koko[c], jms.issued)

LEMMA JmsInvIsEnough == JmsInv => TokensAreOneTime
BY DEF JmsInv, JmsTypes, TokensFit, KokoFits, TokensAreOneTime

-----------------------------------------------------------------------------
(* The names of an account.                                                 *)

AccountNames(account) == {account.alias, account.name, account.username}

LEMMA WithNameIsSeq ==
  ASSUME NEW S, NEW names \in Seq(S), NEW name \in S, Len(names) >= 1
  PROVE  WithName(names, name) \in Seq(S) /\ Len(WithName(names, name)) >= 1
BY DEF WithName

LEMMA CandidatesAreNames ==
  ASSUME NEW account
  PROVE  /\ Len(connection_account_candidates(account)) \in Nat \ {0}
         /\ \A n \in 1..Len(connection_account_candidates(account)) :
              connection_account_candidates(account)[n] \in AccountNames(account)
<1> DEFINE S == AccountNames(account)
           alias == <<account.alias>>
           first == WithName(alias, account.name)
<1>1. account.alias \in S /\ account.name \in S /\ account.username \in S  BY DEF AccountNames
<1> HIDE DEF S
<1>2. alias \in Seq(S) /\ Len(alias) >= 1  BY <1>1
<1> HIDE DEF alias
<1>3. first \in Seq(S) /\ Len(first) >= 1  BY <1>1, <1>2, WithNameIsSeq
<1> HIDE DEF first
<1>4. WithName(first, account.username) \in Seq(S) /\ Len(WithName(first, account.username)) >= 1
  BY <1>1, <1>3, WithNameIsSeq
<1>5. connection_account_candidates(account) = WithName(first, account.username)
  BY DEF connection_account_candidates, first, alias
<1>6. /\ connection_account_candidates(account) \in Seq(S)
      /\ Len(connection_account_candidates(account)) >= 1
  BY <1>4, <1>5
<1>7. QED  BY <1>6 DEF S

(* The name a call asks under, when it asks for one account.                *)
LEMMA CandidatesOfOne ==
  ASSUME NEW c, NEW account, koko[c].for = {account}
  PROVE  Candidates(c) = connection_account_candidates(account)
BY DEF Candidates, RequestAccount

(* The account found under a name of the one asked for is the one asked     *)
(* for.                                                                     *)
LEMMA NamedIsAskedFor ==
  ASSUME NamesAreUnique, NEW asked \in JmsAccounts, NEW found \in JmsAccounts,
         NEW n \in 1..Len(connection_account_candidates(asked)),
         found.alias = connection_account_candidates(asked)[n]
  PROVE  found = asked
<1>1. found.alias \in AccountNames(asked)  BY CandidatesAreNames
<1>2. {found.alias, found.name, found.username} \cap {asked.alias, asked.name, asked.username} # {}
  BY <1>1 DEF AccountNames
<1>3. QED  BY <1>2 DEF NamesAreUnique

-----------------------------------------------------------------------------
(* Steps that change neither the tokens nor the connect calls.              *)

(* The server's side moves, or the flow chooses.                            *)
LEMMA ElsewhereStep ==
  ASSUME JmsInv, jms' \in JmsStates, jms'.issued = jms.issued, jmsFlow' \in JmsFlows,
         jmsAttempt' \subseteq [gateway : Gateway, key : HostKeys], UNCHANGED <<koko, offered>>,
         jmsFlow'.account = jmsFlow.account \/ One(jmsFlow'.account),
         jmsAttempt' # {} => jmsAttempt # {} \/ One(jmsFlow'.account)
  PROVE  JmsInv'
<1>1. JmsTypes'  BY DEF JmsInv, JmsTypes
<1>2. TokensFit'  BY DEF JmsInv, TokensFit, HoldsToken
<1>3. (jmsFlow.account = {} \/ One(jmsFlow.account))'  BY DEF JmsInv, One
<1>4. (jmsAttempt # {} => One(jmsFlow.account))'  BY DEF JmsInv, One
<1>5. (\A c \in Connects : KokoFits(koko[c], jms.issued))'
  BY DEF JmsInv, KokoFits, HoldsToken, One, NamesAreUnique, connection_account_candidates, WithName
<1>6. QED  BY <1>1, <1>2, <1>3, <1>4, <1>5 DEF JmsInv

LEMMA ServerStep ==
  ASSUME JmsInv, server_permits \/ server_advertises \/ server_changes_key \/ server_ends_login
  PROVE  JmsInv'
<1>1. jms \in JmsStates /\ jms.moves + 1 \in Nat  BY DEF JmsInv, JmsTypes, JmsStates
<1>2. PICK next : next \in JmsStates /\ next.issued = jms.issued /\ Moves(next)
  <2>1. CASE server_permits
    <3>1. PICK accounts \in SUBSET JmsAccounts : Moves([jms EXCEPT !.permitted = accounts])
      BY <2>1 DEF server_permits
    <3>2. [jms EXCEPT !.permitted = accounts] \in JmsStates
          /\ [jms EXCEPT !.permitted = accounts].issued = jms.issued
      BY <1>1 DEF JmsStates
    <3>3. QED  BY <3>1, <3>2
  <2>2. CASE server_advertises
    <3>1. PICK gateway \in Advertised : Moves([jms EXCEPT !.smart = {gateway}])
      BY <2>2 DEF server_advertises, Advertised
    <3>2. [jms EXCEPT !.smart = {gateway}] \in JmsStates
          /\ [jms EXCEPT !.smart = {gateway}].issued = jms.issued
      BY <1>1 DEF JmsStates
    <3>3. QED  BY <3>1, <3>2
  <2>3. CASE server_changes_key
    <3>1. PICK gateway \in Gateway, key \in HostKeys : Moves([jms EXCEPT !.keys[gateway] = key])
      BY <2>3 DEF server_changes_key
    <3>2. [jms EXCEPT !.keys[gateway] = key] \in JmsStates
          /\ [jms EXCEPT !.keys[gateway] = key].issued = jms.issued
      BY <1>1 DEF JmsStates
    <3>3. QED  BY <3>1, <3>2
  <2>4. CASE server_ends_login
    <3>1. [jms EXCEPT !.live = FALSE] \in JmsStates /\ [jms EXCEPT !.live = FALSE].issued = jms.issued
      BY <1>1 DEF JmsStates
    <3>2. QED  BY <2>4, <3>1 DEF server_ends_login
  <2>5. QED  BY <2>1, <2>2, <2>3, <2>4
<1>3. jms' = [next EXCEPT !.moves = jms.moves + 1]  BY <1>2 DEF Moves
<1>4. jms' \in JmsStates /\ jms'.issued = jms.issued  BY <1>1, <1>2, <1>3 DEF JmsStates
<1>5. UNCHANGED <<jmsFlow, jmsAttempt, koko, offered>>  BY <1>2 DEF Moves
<1>6. QED  BY <1>4, <1>5, ElsewhereStep DEF JmsInv, JmsTypes

LEMMA LogInStep ==
  ASSUME JmsInv, start_password_auth \/ complete_otp_login \/ start_access_key_auth
  PROVE  JmsInv'
<1>1. PICK stage : LogIn(stage)  BY DEF start_password_auth, complete_otp_login, start_access_key_auth
<1>2. jms \in JmsStates  BY DEF JmsInv, JmsTypes
<1>3. jms' \in JmsStates /\ jms'.issued = jms.issued  BY <1>1, <1>2 DEF LogIn, JmsStates
<1>4. UNCHANGED <<jmsFlow, jmsAttempt, koko, offered>>  BY <1>1 DEF LogIn
<1>5. QED  BY <1>3, <1>4, ElsewhereStep DEF JmsInv, JmsTypes

LEMMA ChooseStep ==
  ASSUME JmsInv, jms_list_accounts \/ choose_account \/ resolve_ssh_gateway
  PROVE  JmsInv'
<1>1. jms \in JmsStates /\ jmsFlow \in JmsFlows /\ jmsAttempt \subseteq [gateway : Gateway, key : HostKeys]
  BY DEF JmsInv, JmsTypes
<1>2. UNCHANGED <<jms, koko, offered>>  BY DEF jms_list_accounts, choose_account, resolve_ssh_gateway
<1>3. CASE jms_list_accounts
  <2>1. jms.permitted \subseteq JmsAccounts  BY <1>1 DEF JmsStates
  <2>2. jmsFlow' \in JmsFlows /\ jmsFlow'.account = jmsFlow.account
    BY <1>1, <1>3, <2>1 DEF jms_list_accounts, list_accounts_from_asset_detail, JmsFlows
  <2>3. UNCHANGED jmsAttempt  BY <1>3 DEF jms_list_accounts
  <2>4. QED  BY <1>1, <1>2, <2>2, <2>3, ElsewhereStep
<1>4. CASE choose_account
  <2>1. PICK account \in jmsFlow.listed : jmsFlow' = [jmsFlow EXCEPT !.account = {account}]
    BY <1>4 DEF choose_account
  <2>2. account \in JmsAccounts  BY <1>1 DEF JmsFlows
  <2>3. jmsFlow' \in JmsFlows /\ One(jmsFlow'.account)  BY <1>1, <2>1, <2>2 DEF JmsFlows, One
  <2>4. UNCHANGED jmsAttempt  BY <1>4 DEF choose_account
  <2>5. QED  BY <1>1, <1>2, <2>3, <2>4, ElsewhereStep
<1>5. CASE resolve_ssh_gateway
  <2>1. PICK gateway \in Gateway :
          /\ jmsFlow' = [jmsFlow EXCEPT !.gateway = {gateway}]
          /\ jmsAttempt' = jmsAttempt \union {[gateway |-> gateway, key |-> jms.keys[gateway]]}
    BY <1>5 DEF resolve_ssh_gateway, resolve_gateway_endpoint, prepare_host
  <2>2. jms.keys[gateway] \in HostKeys  BY <1>1 DEF JmsStates
  <2>3. jmsAttempt' \subseteq [gateway : Gateway, key : HostKeys]  BY <1>1, <2>1, <2>2
  <2>4. jmsFlow' \in JmsFlows /\ jmsFlow'.account = jmsFlow.account  BY <1>1, <2>1 DEF JmsFlows
  <2>5. One(jmsFlow.account)  BY <1>5 DEF resolve_ssh_gateway, JmsInv
  <2>6. QED  BY <1>1, <1>2, <2>3, <2>4, <2>5, ElsewhereStep
<1>6. QED  BY <1>3, <1>4, <1>5

-----------------------------------------------------------------------------
(* Steps of a connect call.                                                 *)

LEMMA KokoParts ==
  ASSUME JmsInv, NEW c \in Connects
  PROVE  /\ koko[c] \in KokoCalls /\ KokoFits(koko[c], jms.issued)
         /\ koko[c].for \subseteq JmsAccounts /\ koko[c].account \in Nat /\ koko[c].method \in Nat
         /\ koko[c].token \in Nat /\ koko[c].session \subseteq JmsAccounts
<1>1. koko[c] \in KokoCalls /\ KokoFits(koko[c], jms.issued)  BY DEF JmsInv, JmsTypes
<1>2. QED  BY <1>1 DEF KokoCalls

(* A call goes on with the token it holds, or without one.                  *)
LEMMA KokoGoesOn ==
  ASSUME JmsInv, NEW c \in Connects, NEW next \in KokoCalls, Proceed(c, next),
         UNCHANGED <<jms, jmsFlow, offered>>, jmsAttempt' \subseteq jmsAttempt,
         KokoFits(next, jms.issued),
         HoldsToken(next) => HoldsToken(koko[c]) /\ next.token = koko[c].token
  PROVE  JmsInv'
<1>1. \A x \in Connects : koko'[x] = IF x = c THEN next ELSE koko[x]
  BY DEF JmsInv, JmsTypes, Proceed
<1>2. JmsTypes'
  <2>1. koko' \in [Connects -> KokoCalls]  BY DEF JmsInv, JmsTypes, Proceed
  <2>2. QED  BY <2>1 DEF JmsInv, JmsTypes
<1>3. \A x \in Connects : HoldsToken(koko'[x]) => HoldsToken(koko[x]) /\ koko'[x].token = koko[x].token
  BY <1>1
<1>4. TokensFit'
  <2>1. \A x \in Connects : HoldsToken(koko'[x]) => offered[koko'[x].token] = 0
    BY <1>3 DEF JmsInv, TokensFit
  <2>2. \A x, y \in Connects : HoldsToken(koko'[x]) /\ HoldsToken(koko'[y]) /\ x # y =>
          koko'[x].token # koko'[y].token
    BY <1>3 DEF JmsInv, TokensFit
  <2>3. QED  BY <2>1, <2>2 DEF JmsInv, TokensFit, HoldsToken
<1>5. \A x \in Connects : KokoFits(koko'[x], jms.issued)  BY <1>1 DEF JmsInv
<1>6. (\A x \in Connects : KokoFits(koko[x], jms.issued))'
  BY <1>5 DEF KokoFits, HoldsToken, One, NamesAreUnique, connection_account_candidates, WithName
<1>7. (jmsFlow.account = {} \/ One(jmsFlow.account))' /\ (jmsAttempt # {} => One(jmsFlow.account))'
  BY DEF JmsInv, One
<1>8. QED  BY <1>2, <1>4, <1>6, <1>7 DEF JmsInv

LEMMA GiveUpStep ==
  ASSUME JmsInv, NEW c \in Connects, GiveUp(c), UNCHANGED <<jms, jmsFlow, jmsAttempt, offered>>
  PROVE  JmsInv'
<1> DEFINE next == [koko[c] EXCEPT !.pc = "idle"]
<1>1. koko[c] \in KokoCalls /\ KokoFits(koko[c], jms.issued)  BY KokoParts
<1>2. /\ next \in KokoCalls /\ next.pc = "idle" /\ next.for = koko[c].for
      /\ next.session = koko[c].session
  BY <1>1 DEF KokoCalls, JmsPcs
<1>3. Proceed(c, next)  BY DEF GiveUp
<1> HIDE DEF next
<1>4. KokoFits(next, jms.issued) /\ ~ HoldsToken(next)  BY <1>1, <1>2 DEF KokoFits, HoldsToken
<1>5. QED  BY <1>2, <1>3, <1>4, KokoGoesOn

LEMMA UnlockStep ==
  ASSUME JmsInv, NEW c \in Connects, JmsUnlock(c)
  PROVE  JmsInv'
<1>1. PICK check \in jmsAttempt :
        /\ jmsAttempt' = jmsAttempt \ {check}
        /\ Proceed(c, [IdleConnect EXCEPT !.pc = "connect", !.key = check.key])
  BY DEF JmsUnlock
<1>2. check.key \in HostKeys /\ One(jmsFlow.account)  BY DEF JmsInv, JmsTypes
<1> DEFINE next == [IdleConnect EXCEPT !.pc = "connect", !.key = check.key]
<1>3. /\ next \in KokoCalls /\ next.pc = "connect" /\ next.session = {} /\ next.account = 1
  BY <1>2 DEF IdleConnect, KokoCalls, JmsPcs
<1>4. UNCHANGED <<jms, jmsFlow, offered>>  BY DEF JmsUnlock
<1> HIDE DEF next
<1>5. KokoFits(next, jms.issued) /\ ~ HoldsToken(next)  BY <1>2, <1>3 DEF KokoFits, HoldsToken
<1>6. Proceed(c, next)  BY <1>1 DEF next
<1>7. QED  BY <1>1, <1>3, <1>4, <1>5, <1>6, KokoGoesOn

(* A call that asks under the first name, or the next.                      *)
LEMMA AskingFits ==
  ASSUME NEW k \in KokoCalls, k.pc = "token", NEW account \in JmsAccounts, k.for = {account},
         k.session = {}, k.account \in 1..Len(connection_account_candidates(account))
  PROVE  KokoFits(k, jms.issued) /\ ~ HoldsToken(k)
BY DEF KokoFits, HoldsToken, One

LEMMA FlowStep ==
  ASSUME JmsInv, NEW c \in Connects, connect_flow(c)
  PROVE  JmsInv'
<1> DEFINE next == [koko[c] EXCEPT !.pc = "token", !.for = jmsFlow.account]
<1>1. koko[c] \in KokoCalls /\ KokoFits(koko[c], jms.issued) /\ koko[c].pc = "connect"
  BY KokoParts DEF connect_flow, AtPc
<1>2. koko[c].session = {} /\ koko[c].account = 1  BY <1>1 DEF KokoFits
<1>3. PICK account \in JmsAccounts : jmsFlow.account = {account}  BY <1>1 DEF KokoFits, One
<1>4. /\ next \in KokoCalls /\ next.pc = "token" /\ next.for = {account} /\ next.session = {}
      /\ next.account = 1
  BY <1>1, <1>2, <1>3 DEF KokoCalls, JmsPcs
<1>5. Proceed(c, next) /\ UNCHANGED <<jms, jmsFlow, jmsAttempt, offered>>  BY DEF connect_flow
<1> HIDE DEF next
<1>6. 1 \in 1..Len(connection_account_candidates(account))  BY CandidatesAreNames
<1>7. KokoFits(next, jms.issued) /\ ~ HoldsToken(next)  BY <1>4, <1>6, AskingFits
<1>8. QED  BY <1>4, <1>5, <1>7, KokoGoesOn

LEMMA RefusedStep ==
  ASSUME JmsInv, NEW c \in Connects, connection_token_refused(c)
  PROVE  JmsInv'
<1>1. UNCHANGED <<jms, jmsFlow, jmsAttempt, offered>>  BY DEF connection_token_refused
<1>2. koko[c] \in KokoCalls /\ KokoFits(koko[c], jms.issued) /\ koko[c].pc = "token"
  BY KokoParts DEF connection_token_refused, AtPc
<1>3. PICK account \in JmsAccounts : koko[c].for = {account}  BY <1>2 DEF KokoFits, One
<1>4. /\ koko[c].session = {} /\ koko[c].account \in 1..Len(connection_account_candidates(account))
  BY <1>2, <1>3 DEF KokoFits
<1>5. Candidates(c) = connection_account_candidates(account)  BY <1>3, CandidatesOfOne
<1>6. Len(connection_account_candidates(account)) \in Nat  BY CandidatesAreNames
<1>7. \/ GiveUp(c)
      \/ Proceed(c, [koko[c] EXCEPT !.method = @ + 1])
      \/ /\ koko[c].account < Len(connection_account_candidates(account))
         /\ Proceed(c, [koko[c] EXCEPT !.account = @ + 1, !.method = 1])
  BY <1>5 DEF connection_token_refused, NextTry, GiveUp, Proceed
<1>8. CASE GiveUp(c)  BY <1>1, <1>8, GiveUpStep
<1>9. CASE Proceed(c, [koko[c] EXCEPT !.method = @ + 1])
  <2> DEFINE next == [koko[c] EXCEPT !.method = @ + 1]
  <2>1. /\ next \in KokoCalls /\ next.pc = "token" /\ next.for = {account} /\ next.session = {}
        /\ next.account = koko[c].account
    BY <1>2, <1>3, <1>4 DEF KokoCalls
  <2> HIDE DEF next
  <2>2. KokoFits(next, jms.issued) /\ ~ HoldsToken(next)  BY <1>4, <2>1, AskingFits
  <2>3. Proceed(c, next)  BY <1>9 DEF next
  <2>4. QED  BY <1>1, <2>1, <2>2, <2>3, KokoGoesOn
<1>10. CASE /\ koko[c].account < Len(connection_account_candidates(account))
            /\ Proceed(c, [koko[c] EXCEPT !.account = @ + 1, !.method = 1])
  <2> DEFINE k == koko[c].account + 1
             next == [koko[c] EXCEPT !.account = k, !.method = 1]
  <2>0. k \in Nat /\ k \in 1..Len(connection_account_candidates(account))  BY <1>4, <1>6, <1>10
  <2>4. Proceed(c, next)  BY <1>10
  <2> HIDE DEF k
  <2>1. /\ next \in KokoCalls /\ next.pc = "token" /\ next.for = {account} /\ next.session = {}
        /\ next.account = k
    BY <1>2, <1>3, <1>4, <2>0 DEF KokoCalls
  <2> HIDE DEF next
  <2>3. KokoFits(next, jms.issued) /\ ~ HoldsToken(next)  BY <2>0, <2>1, AskingFits
  <2>5. QED  BY <1>1, <2>1, <2>3, <2>4, KokoGoesOn
<1>11. QED  BY <1>7, <1>8, <1>9, <1>10

LEMMA EndpointStep ==
  ASSUME JmsInv, NEW c \in Connects, fetch_token_client_endpoint(c)
  PROVE  JmsInv'
<1>1. UNCHANGED <<jms, jmsFlow, jmsAttempt, offered>>  BY DEF fetch_token_client_endpoint
<1>2. koko[c] \in KokoCalls /\ KokoFits(koko[c], jms.issued) /\ koko[c].pc = "endpoint"
  BY KokoParts DEF fetch_token_client_endpoint, AtPc
<1>3. CASE GiveUp(c)  BY <1>1, <1>3, GiveUpStep
<1>4. ASSUME NEW gateway \in Gateway, Proceed(c, [koko[c] EXCEPT !.pc = "token_ssh", !.gateway = gateway])
      PROVE  JmsInv'
  <2> DEFINE next == [koko[c] EXCEPT !.pc = "token_ssh", !.gateway = gateway]
  <2>1. /\ next \in KokoCalls /\ next.pc = "token_ssh" /\ next.for = koko[c].for
        /\ next.session = koko[c].session /\ next.token = koko[c].token
    BY <1>2 DEF KokoCalls, JmsPcs
  <2>2. Proceed(c, next)  BY <1>4
  <2> HIDE DEF next
  <2>3. KokoFits(next, jms.issued)  BY <1>2, <2>1 DEF KokoFits, HoldsToken
  <2>4. HoldsToken(koko[c])  BY <1>2 DEF HoldsToken
  <2>5. QED  BY <1>1, <2>1, <2>2, <2>3, <2>4, KokoGoesOn
<1>5. QED  BY <1>3, <1>4 DEF fetch_token_client_endpoint

(* A session is on the account asked for.                                   *)
LEMMA SessionStep ==
  ASSUME JmsInv, NEW c \in Connects, NEW account \in JmsAccounts, NamesAreUnique => account \in koko[c].for
  PROVE  LET next == [koko[c] EXCEPT !.pc = "idle", !.session = {account}] IN
         next \in KokoCalls /\ KokoFits(next, jms.issued) /\ ~ HoldsToken(next)
<1> DEFINE next == [koko[c] EXCEPT !.pc = "idle", !.session = {account}]
<1>1. koko[c] \in KokoCalls  BY KokoParts
<1>2. next \in KokoCalls /\ next.pc = "idle" /\ next.for = koko[c].for /\ next.session = {account}
  BY <1>1 DEF KokoCalls, JmsPcs
<1> HIDE DEF next
<1>3. KokoFits(next, jms.issued) /\ ~ HoldsToken(next)  BY <1>2 DEF KokoFits, HoldsToken
<1>4. QED  BY <1>2, <1>3 DEF next

LEMMA PasswordStep ==
  ASSUME JmsInv, NEW c \in Connects, JmsPassword(c)
  PROVE  JmsInv'
<1>1. UNCHANGED <<jms, jmsFlow, jmsAttempt, offered>>  BY DEF JmsPassword
<1>2. koko[c] \in KokoCalls /\ KokoFits(koko[c], jms.issued) /\ koko[c].pc = "direct"
  BY KokoParts DEF JmsPassword, AtPc
<1>3. CASE GiveUp(c)  BY <1>1, <1>3, GiveUpStep
<1>4. CASE \E account \in jms.permitted :
             /\ account.alias = Candidates(c)[1]
             /\ Proceed(c, [koko[c] EXCEPT !.pc = "idle", !.session = {account}])
  <2>1. PICK account \in jms.permitted :
          /\ account.alias = Candidates(c)[1]
          /\ Proceed(c, [koko[c] EXCEPT !.pc = "idle", !.session = {account}])
    BY <1>4
  <2>2. account \in JmsAccounts  BY DEF JmsInv, JmsTypes, JmsStates
  <2>3. PICK asked \in JmsAccounts : koko[c].for = {asked}  BY <1>2 DEF KokoFits, One
  <2>4. Candidates(c) = connection_account_candidates(asked)  BY <2>3, CandidatesOfOne
  <2>5. 1 \in 1..Len(connection_account_candidates(asked))  BY CandidatesAreNames
  <2>6. NamesAreUnique => account \in koko[c].for  BY <2>1, <2>2, <2>3, <2>4, <2>5, NamedIsAskedFor
  <2> DEFINE next == [koko[c] EXCEPT !.pc = "idle", !.session = {account}]
  <2>7. next \in KokoCalls /\ KokoFits(next, jms.issued) /\ ~ HoldsToken(next)  BY <2>2, <2>6, SessionStep
  <2>8. Proceed(c, next)  BY <2>1
  <2> HIDE DEF next
  <2>9. QED  BY <1>1, <2>7, <2>8, KokoGoesOn
<1>5. QED  BY <1>3, <1>4 DEF JmsPassword

(* A token is issued to a call that asked under a name of its account.      *)
LEMMA IssueStep ==
  ASSUME JmsInv, NEW c \in Connects, create_connection_token_with_method(c)
  PROVE  JmsInv'
<1>1. /\ koko[c] \in KokoCalls /\ KokoFits(koko[c], jms.issued) /\ koko[c].pc = "token"
      /\ Len(jms.issued) < MaxTokens /\ UNCHANGED <<jmsFlow, jmsAttempt, offered>>
  BY KokoParts DEF create_connection_token_with_method, AtPc
<1>2. PICK account \in jms.permitted :
        /\ account.alias = Candidates(c)[koko[c].account]
        /\ jms' = [jms EXCEPT !.issued = Append(@, account)]
  BY DEF create_connection_token_with_method
<1>3. jms \in JmsStates /\ jms.issued \in Seq(JmsAccounts) /\ account \in JmsAccounts
  BY DEF JmsInv, JmsTypes, JmsStates
<1> DEFINE n == Len(jms.issued)
           log == jms'.issued
           next == [koko[c] EXCEPT !.pc = "endpoint", !.token = n + 1]
<1>4. jms' \in JmsStates /\ jms'.issued = Append(jms.issued, account)
  <2> DEFINE longer == Append(jms.issued, account)
  <2>1. longer \in Seq(JmsAccounts) /\ jms' = [jms EXCEPT !.issued = longer]  BY <1>2, <1>3
  <2> HIDE DEF longer
  <2>2. jms' \in JmsStates /\ jms'.issued = longer  BY <1>3, <2>1 DEF JmsStates
  <2>3. QED  BY <2>2 DEF longer
<1>5. /\ n \in Nat /\ Len(log) = n + 1 /\ log[n + 1] = account
      /\ \A t \in 1..n : log[t] = jms.issued[t]
  BY <1>3, <1>4
<1>6. /\ next \in KokoCalls /\ next.pc = "endpoint" /\ next.token = n + 1 /\ next.for = koko[c].for
      /\ next.session = koko[c].session
  <2> DEFINE token == n + 1
  <2>1. token \in Nat  BY <1>5
  <2>2. next = [koko[c] EXCEPT !.pc = "endpoint", !.token = token]  OBVIOUS
  <2> HIDE DEF token, next
  <2>3. /\ next \in KokoCalls /\ next.pc = "endpoint" /\ next.token = token /\ next.for = koko[c].for
        /\ next.session = koko[c].session
    BY <1>1, <2>1, <2>2 DEF KokoCalls, JmsPcs
  <2>4. QED  BY <2>3 DEF token
<1>7. PICK asked \in JmsAccounts : koko[c].for = {asked}  BY <1>1 DEF KokoFits, One
<1>8. koko[c].account \in 1..Len(connection_account_candidates(asked)) /\ koko[c].session = {}
  BY <1>1, <1>7 DEF KokoFits
<1>9. Candidates(c) = connection_account_candidates(asked)  BY <1>7, CandidatesOfOne
<1>10. NamesAreUnique => account = asked  BY <1>2, <1>3, <1>8, <1>9, NamedIsAskedFor
<1>11. Proceed(c, next)  BY DEF create_connection_token_with_method
<1>12. \A x \in Connects : koko'[x] = IF x = c THEN next ELSE koko[x]
  BY <1>11 DEF JmsInv, JmsTypes, Proceed
<1>13. koko' \in [Connects -> KokoCalls]  BY <1>6, <1>11 DEF JmsInv, JmsTypes, Proceed
<1> HIDE DEF n, log, next
<1>14. JmsTypes'  BY <1>1, <1>4, <1>13 DEF JmsInv, JmsTypes
<1>15. Len(log) <= MaxTokens /\ n + 1 \in 1..MaxTokens  BY <1>1, <1>5, JmsAssumption DEF n
<1>16. \A x \in Connects \ {c} : HoldsToken(koko[x]) => koko[x].token \in 1..n
  BY DEF JmsInv, KokoFits, n
<1>17. TokensFit'
  <2>1. \A t \in 1..MaxTokens : offered[t] <= 1 /\ (t > n + 1 => offered[t] = 0)
    BY <1>5, JmsAssumption DEF JmsInv, TokensFit, n
  <2>2. offered[n + 1] = 0  BY <1>5, <1>15, JmsAssumption DEF JmsInv, TokensFit, n
  <2>3. \A x \in Connects : HoldsToken(koko'[x]) => offered[koko'[x].token] = 0
    BY <1>6, <1>12, <2>2 DEF JmsInv, TokensFit
  <2>4. \A x \in Connects \ {c} : HoldsToken(koko[x]) => koko[x].token # n + 1  BY <1>5, <1>16
  <2>5. \A x, y \in Connects : HoldsToken(koko'[x]) /\ HoldsToken(koko'[y]) /\ x # y =>
          koko'[x].token # koko'[y].token
    BY <1>6, <1>12, <2>4 DEF JmsInv, TokensFit
  <2>6. QED  BY <1>1, <1>5, <1>15, <2>1, <2>3, <2>5 DEF TokensFit, HoldsToken, log
<1>18. \A x \in Connects : KokoFits(koko'[x], log)
  <2> TAKE x \in Connects
  <2>1. CASE x = c
    <3>1. next.token \in 1..Len(log)  BY <1>5, <1>6
    <3>2. NamesAreUnique => log[next.token] \in next.for  BY <1>5, <1>6, <1>7, <1>10
    <3>3. KokoFits(next, log)  BY <1>6, <1>7, <1>8, <3>1, <3>2 DEF KokoFits, HoldsToken, One
    <3>4. QED  BY <1>12, <2>1, <3>3
  <2>2. CASE x # c
    <3>1. KokoFits(koko[x], jms.issued)  BY DEF JmsInv
    <3>2. HoldsToken(koko[x]) => koko[x].token \in 1..Len(log) /\ log[koko[x].token] = jms.issued[koko[x].token]
      BY <1>5, <1>16, <2>2
    <3>3. KokoFits(koko[x], log)  BY <3>1, <3>2 DEF KokoFits
    <3>4. QED  BY <1>12, <2>2, <3>3
  <2>3. QED  BY <2>1, <2>2
<1>19. (\A x \in Connects : KokoFits(koko[x], jms.issued))'
  BY <1>1, <1>18 DEF log, KokoFits, HoldsToken, One, NamesAreUnique, connection_account_candidates, WithName
<1>20. (jmsFlow.account = {} \/ One(jmsFlow.account))' /\ (jmsAttempt # {} => One(jmsFlow.account))'
  BY <1>1 DEF JmsInv, One
<1>21. QED  BY <1>14, <1>17, <1>19, <1>20 DEF JmsInv

(* A call offers the token it holds, and holds it no more.                  *)
LEMMA OfferKeeps ==
  ASSUME JmsInv, NEW c \in Connects, HoldsToken(koko[c]), NEW next \in KokoCalls, Proceed(c, next),
         offered' = [offered EXCEPT ![koko[c].token] = @ + 1],
         jms' = [jms EXCEPT !.spent = @ \union {koko[c].token}],
         UNCHANGED <<jmsFlow, jmsAttempt>>, KokoFits(next, jms.issued), ~ HoldsToken(next)
  PROVE  JmsInv'
<1> DEFINE token == koko[c].token
<1>1. jms \in JmsStates /\ jms.issued \in Seq(JmsAccounts) /\ Len(jms.issued) \in Nat
  BY DEF JmsInv, JmsTypes, JmsStates
<1>2. token \in 1..Len(jms.issued) /\ token \in Nat /\ offered[token] = 0 /\ token \in 1..MaxTokens
  <2>1. token \in 1..Len(jms.issued) /\ offered[token] = 0 /\ Len(jms.issued) <= MaxTokens
    BY DEF JmsInv, KokoFits, TokensFit
  <2>2. QED  BY <1>1, <2>1, JmsAssumption
<1>3. jms' \in JmsStates /\ jms'.issued = jms.issued  BY <1>1, <1>2 DEF JmsStates
<1> HIDE DEF token
<1>4. /\ offered' \in [1..MaxTokens -> Nat]
      /\ \A t \in 1..MaxTokens : offered'[t] = IF t = token THEN 1 ELSE offered[t]
  BY <1>2 DEF JmsInv, JmsTypes, token
<1>5. \A x \in Connects : koko'[x] = IF x = c THEN next ELSE koko[x]
  BY DEF JmsInv, JmsTypes, Proceed
<1>6. koko' \in [Connects -> KokoCalls]  BY DEF JmsInv, JmsTypes, Proceed
<1>7. JmsTypes'  BY <1>3, <1>4, <1>6 DEF JmsInv, JmsTypes
<1>8. \A x \in Connects : HoldsToken(koko'[x]) =>
        /\ x # c /\ HoldsToken(koko[x]) /\ koko'[x].token = koko[x].token /\ koko[x].token # token
        /\ koko[x].token \in 1..MaxTokens
  <2>1. \A x \in Connects : HoldsToken(koko'[x]) => x # c /\ HoldsToken(koko[x]) /\ koko'[x] = koko[x]
    BY <1>5
  <2>2. \A x \in Connects : x # c /\ HoldsToken(koko[x]) => koko[x].token # token
    BY DEF JmsInv, TokensFit, token
  <2>3. \A x \in Connects : HoldsToken(koko[x]) => koko[x].token \in 1..Len(jms.issued)
    BY DEF JmsInv, KokoFits
  <2>4. Len(jms.issued) <= MaxTokens  BY DEF JmsInv, TokensFit
  <2>5. QED  BY <1>1, <2>1, <2>2, <2>3, <2>4, JmsAssumption
<1>9. TokensFit'
  <2>1. \A t \in 1..MaxTokens : offered'[t] <= 1 /\ (t > Len(jms.issued) => offered'[t] = 0)
    BY <1>1, <1>2, <1>4 DEF JmsInv, TokensFit
  <2>2. \A x \in Connects : HoldsToken(koko'[x]) => offered'[koko'[x].token] = 0
    BY <1>4, <1>8 DEF JmsInv, TokensFit
  <2>3. \A x, y \in Connects : HoldsToken(koko'[x]) /\ HoldsToken(koko'[y]) /\ x # y =>
          koko'[x].token # koko'[y].token
    BY <1>8 DEF JmsInv, TokensFit
  <2>4. QED  BY <1>3, <2>1, <2>2, <2>3 DEF JmsInv, TokensFit, HoldsToken
<1>10. \A x \in Connects : KokoFits(koko'[x], jms'.issued)  BY <1>3, <1>5 DEF JmsInv
<1>11. (\A x \in Connects : KokoFits(koko[x], jms.issued))'
  BY <1>10 DEF KokoFits, HoldsToken, One, NamesAreUnique, connection_account_candidates, WithName
<1>12. (jmsFlow.account = {} \/ One(jmsFlow.account))' /\ (jmsAttempt # {} => One(jmsFlow.account))'
  BY DEF JmsInv, One
<1>13. QED  BY <1>7, <1>9, <1>11, <1>12 DEF JmsInv

LEMMA TokenStep ==
  ASSUME JmsInv, NEW c \in Connects, JmsToken(c)
  PROVE  JmsInv'
<1>1. koko[c] \in KokoCalls /\ KokoFits(koko[c], jms.issued) /\ koko[c].pc = "token_ssh"
  BY KokoParts DEF JmsToken, AtPc
<1>2. HoldsToken(koko[c]) /\ UNCHANGED <<jmsFlow, jmsAttempt>>  BY <1>1 DEF HoldsToken, JmsToken
<1>3. CASE /\ offered' = [offered EXCEPT ![koko[c].token] = @ + 1]
           /\ jms' = [jms EXCEPT !.spent = @ \union {koko[c].token}]
           /\ Proceed(c, [koko[c] EXCEPT !.pc = "idle", !.session = {jms.issued[koko[c].token]}])
  <2> DEFINE account == jms.issued[koko[c].token]
             next == [koko[c] EXCEPT !.pc = "idle", !.session = {account}]
  <2>1. NamesAreUnique => account \in koko[c].for  BY <1>1, <1>2 DEF KokoFits
  <2>2. account \in JmsAccounts
    <3>1. jms.issued \in Seq(JmsAccounts)  BY DEF JmsInv, JmsTypes, JmsStates
    <3>2. koko[c].token \in 1..Len(jms.issued)  BY <1>1, <1>2 DEF KokoFits
    <3>3. QED  BY <3>1, <3>2
  <2>3. next \in KokoCalls /\ KokoFits(next, jms.issued) /\ ~ HoldsToken(next)  BY <2>1, <2>2, SessionStep
  <2>4. Proceed(c, next)  BY <1>3
  <2> HIDE DEF next
  <2>5. QED  BY <1>2, <1>3, <2>3, <2>4, OfferKeeps
<1>4. CASE /\ \/ /\ offered' = [offered EXCEPT ![koko[c].token] = @ + Offers(TRUE)]
                 /\ jms' = [jms EXCEPT !.spent = @ \union {koko[c].token}]
              \/ UNCHANGED <<offered, jms>>
           /\ Proceed(c, [koko[c] EXCEPT !.pc = IF jmsAuth = "password" THEN "direct" ELSE "idle"])
  <2> DEFINE next == [koko[c] EXCEPT !.pc = IF jmsAuth = "password" THEN "direct" ELSE "idle"]
  <2>1. /\ next \in KokoCalls /\ next.pc \in {"direct", "idle"} /\ next.for = koko[c].for
        /\ next.session = koko[c].session
    BY <1>1 DEF KokoCalls, JmsPcs
  <2>2. Proceed(c, next)  BY <1>4
  <2> HIDE DEF next
  <2>3. KokoFits(next, jms.issued) /\ ~ HoldsToken(next)  BY <1>1, <2>1 DEF KokoFits, HoldsToken
  <2>4. CASE UNCHANGED <<offered, jms>>  BY <1>2, <2>1, <2>2, <2>3, <2>4, KokoGoesOn
  <2>5. CASE /\ offered' = [offered EXCEPT ![koko[c].token] = @ + Offers(TRUE)]
             /\ jms' = [jms EXCEPT !.spent = @ \union {koko[c].token}]
    <3>1. Offers(TRUE) = 1  BY DEF Offers
    <3>2. offered' = [offered EXCEPT ![koko[c].token] = @ + 1]  BY <2>5, <3>1
    <3>3. QED  BY <1>2, <2>1, <2>2, <2>3, <2>5, <3>2, OfferKeeps
  <2>6. QED  BY <1>4, <2>4, <2>5
<1>5. QED  BY <1>3, <1>4 DEF JmsToken, Offers

LEMMA JmsInvStep == JmsInv /\ [JumpServerNext]_jmsVars => JmsInv'
<1> SUFFICES ASSUME JmsInv, [JumpServerNext]_jmsVars PROVE JmsInv'
  OBVIOUS
<1>1. CASE \/ server_permits \/ server_advertises \/ server_changes_key \/ server_ends_login
           \/ start_password_auth \/ complete_otp_login \/ start_access_key_auth
           \/ jms_list_accounts \/ choose_account \/ resolve_ssh_gateway
  BY <1>1, ServerStep, LogInStep, ChooseStep
<1>2. ASSUME NEW c \in Connects,
             \/ JmsUnlock(c) \/ connect_flow(c) \/ create_connection_token_with_method(c)
             \/ connection_token_refused(c) \/ fetch_token_client_endpoint(c)
             \/ JmsToken(c) \/ JmsPassword(c)
      PROVE  JmsInv'
  BY <1>2, UnlockStep, FlowStep, IssueStep, RefusedStep, EndpointStep, TokenStep, PasswordStep
<1>3. CASE UNCHANGED jmsVars
  <2>1. UNCHANGED <<jms, jmsFlow, jmsAttempt, koko, offered>>  BY <1>3 DEF jmsVars
  <2>2. QED  BY <2>1, ElsewhereStep DEF JmsInv, JmsTypes
<1>4. QED  BY <1>1, <1>2, <1>3 DEF JumpServerNext

LEMMA JmsInvInit == JumpServerInit => JmsInv
<1> SUFFICES ASSUME JumpServerInit PROVE JmsInv
  OBVIOUS
<1>1. /\ IdleConnect \in KokoCalls /\ IdleConnect.pc = "idle" /\ IdleConnect.session = {}
  BY DEF IdleConnect, KokoCalls, JmsPcs
<1>2. \A c \in Connects : koko[c] = IdleConnect  BY DEF JumpServerInit
<1>3. jms \in JmsStates /\ jms.issued = <<>>
  <2>1. <<>> \in Seq(JmsAccounts)  OBVIOUS
  <2>2. jms \in [keys : [Gateway -> HostKeys], permitted : {JmsAccounts}, smart : {{}},
                 loopback : BOOLEAN, live : {TRUE}, issued : {<<>>}, spent : {{}}, moves : {0}]
    BY DEF JumpServerInit
  <2>3. /\ jms.keys \in [Gateway -> HostKeys] /\ jms.permitted = JmsAccounts /\ jms.smart = {}
        /\ jms.loopback \in BOOLEAN /\ jms.live = TRUE /\ jms.issued = <<>> /\ jms.spent = {} /\ jms.moves = 0
    BY <2>2
  <2>4. PICK keys \in [Gateway -> HostKeys], loopback \in BOOLEAN :
          jms = [keys |-> keys, permitted |-> JmsAccounts, smart |-> {}, loopback |-> loopback, live |-> TRUE,
                 issued |-> <<>>, spent |-> {}, moves |-> 0]
    BY <2>2
  <2>5. jms \in JmsStates  BY <2>1, <2>4 DEF JmsStates
  <2>6. QED  BY <2>3, <2>5
<1>4. JmsTypes
  <2>1. koko \in [Connects -> KokoCalls]  BY <1>1 DEF JumpServerInit
  <2>2. jmsFlow \in JmsFlows /\ jmsAttempt = {}  BY DEF JumpServerInit, JmsFlows
  <2>3. offered \in [1..MaxTokens -> Nat]  BY DEF JumpServerInit
  <2>4. QED  BY <1>3, <2>1, <2>2, <2>3 DEF JmsTypes
<1>5. \A c \in Connects : ~ HoldsToken(koko[c]) /\ KokoFits(koko[c], jms.issued)
  BY <1>1, <1>2 DEF HoldsToken, KokoFits
<1>6. TokensFit
  <2>1. Len(jms.issued) = 0  BY <1>3
  <2>2. \A t \in 1..MaxTokens : offered[t] = 0  BY DEF JumpServerInit
  <2>3. QED  BY <1>5, <2>1, <2>2, JmsAssumption DEF TokensFit
<1>7. jmsFlow.account = {} /\ jmsAttempt = {}  BY DEF JumpServerInit
<1>8. QED  BY <1>4, <1>5, <1>6, <1>7 DEF JmsInv

(* For any number of connect calls that overlap, and whatever the server    *)
(* refuses, moves or revokes meanwhile: a token is offered to a gateway at  *)
(* most once, and where the names tell the accounts apart a session is on   *)
(* the account the call was made for.                                       *)
THEOREM TokensOfferedOnce == JumpServerSpec => []TokensAreOneTime
BY JmsInvIsEnough, JmsInvInit, JmsInvStep, PTL DEF JumpServerSpec

-----------------------------------------------------------------------------
(* Plugins: the registry and the plans.                                     *)

ReviewFields == {"pkg", "additions", "baseline", "expired"}

(* An install has its directory and no row yet; an uninstall that comes to  *)
(* the directories has deleted the rows.                                    *)
DiskFits ==
  /\ DOMAIN rows = Versions
  /\ RowsAreOnDisk
  /\ op.kind \in {"free", "install", "uninstall"} /\ (op.kind = "free" => op = Free)
  /\ op.kind = "install" => op.pkg.version \notin Installed /\ op.pkg.version \in dirs
  /\ op.kind = "uninstall" => /\ DOMAIN op = {"kind", "next"} /\ op.next \in 1..4
                              /\ op.next = 4 => Installed = {}

(* No review outlives the start of an uninstall; the others stay current    *)
(* until an install is through.                                             *)
ReviewsFit ==
  /\ \A r \in reviews : DOMAIN r = ReviewFields
  /\ op.kind = "uninstall" => reviews = {}
  /\ \A r \in reviews : r.additions = Manifest[r.pkg.version] \ granted /\ r.baseline = Baseline

RegistryInv == DiskFits /\ ReviewsFit

(* The call that executes the ChangeSet of a plan took it, and nobody did   *)
(* before.                                                                  *)
Executing(e, p) == call[e].pc = "changeset" /\ call[e].plan = p

CallFields == {"pc", "plan", "version", "step", "tries", "token", "row", "steps"}

PlansFit ==
  /\ DOMAIN plan = Plans /\ DOMAIN applied = Plans /\ DOMAIN call = Calls
  /\ \A p \in Plans : /\ "state" \in DOMAIN plan[p]
                      /\ plan[p].state = "none" => plan[p] = NoPlan
                      /\ plan[p].state \in {"none", "stored", "taken", "lost"}
  /\ \A e \in Calls : /\ "pc" \in DOMAIN call[e]
                      /\ call[e].pc = "changeset" => DOMAIN call[e] = CallFields /\ call[e].plan \in Plans

TakenOnce ==
  /\ \A p \in Plans : /\ plan[p].state \in {"none", "stored"} => applied[p] = {}
                      /\ applied[p] = {} \/ \E x : applied[p] = {x}
  /\ \A e \in Calls, p \in Plans : Executing(e, p) =>
       /\ plan[p].state \notin {"none", "stored"} /\ applied[p] = {}
       /\ \A d \in Calls : Executing(d, p) => d = e

WorkflowInv == PlansFit /\ TakenOnce

PluginInv == RegistryInv /\ WorkflowInv

-----------------------------------------------------------------------------
LEMMA RegistrySame ==
  ASSUME RegistryInv, UNCHANGED registryVars
  PROVE  RegistryInv'
BY DEF RegistryInv, DiskFits, ReviewsFit, RowsAreOnDisk, Installed, Baseline, get_active, registryVars

LEMMA ReviewsStay ==
  ASSUME RegistryInv, UNCHANGED <<rows, active, listed, granted, dirs, op>>,
         \A r \in reviews' : DOMAIN r = ReviewFields
                             /\ r.additions = Manifest[r.pkg.version] \ granted /\ r.baseline = Baseline,
         op.kind = "uninstall" => reviews' = {}
  PROVE  RegistryInv'
<1>1. Baseline' = Baseline  BY DEF Baseline, get_active, Installed
<1>2. QED  BY <1>1 DEF RegistryInv, DiskFits, ReviewsFit, RowsAreOnDisk, Installed

LEMMA ReviewSteps ==
  ASSUME RegistryInv,
         \/ \E pkg \in Packages, dev \in BOOLEAN : prepare_install(pkg, dev)
         \/ \E r \in reviews : ReviewExpires(r) \/ discard_install_review(r)
         \/ \E e \in {"plugin", "key"} \cup Versions : apply_revocation_feed(e)
  PROVE  RegistryInv'
<1>1. ASSUME NEW pkg \in Packages, NEW dev \in BOOLEAN, prepare_install(pkg, dev)
      PROVE  RegistryInv'
  <2> DEFINE n == [pkg |-> pkg, additions |-> inspect_package(pkg) \ granted, baseline |-> Baseline,
                   expired |-> FALSE]
  <2>1. /\ DOMAIN n = ReviewFields /\ n.pkg = pkg /\ n.additions = inspect_package(pkg) \ granted
        /\ n.baseline = Baseline
    BY DEF ReviewFields
  <2>2. reviews' \subseteq reviews \cup {n} /\ op.kind # "uninstall" /\ UNCHANGED <<rows, active, listed, granted, dirs, op>>
    BY <1>1 DEF prepare_install, Free
  <2> HIDE DEF n
  <2>3. QED  BY <2>1, <2>2, ReviewsStay DEF RegistryInv, ReviewsFit, inspect_package
<1>2. ASSUME NEW r \in reviews, ReviewExpires(r)
      PROVE  RegistryInv'
  <2> DEFINE n == [r EXCEPT !.expired = TRUE]
  <2>1. DOMAIN n = ReviewFields /\ n.pkg = r.pkg /\ n.additions = r.additions /\ n.baseline = r.baseline
    BY <1>2 DEF RegistryInv, ReviewsFit, ReviewFields
  <2>2. reviews' \subseteq reviews \cup {n} /\ UNCHANGED <<rows, active, listed, granted, dirs, op>>
    BY <1>2 DEF ReviewExpires
  <2> HIDE DEF n
  <2>3. QED  BY <1>2, <2>1, <2>2, ReviewsStay DEF RegistryInv, ReviewsFit
<1>3. ASSUME NEW r \in reviews, discard_install_review(r)
      PROVE  RegistryInv'
  BY <1>3, ReviewsStay DEF discard_install_review, RegistryInv, ReviewsFit
<1>4. ASSUME NEW e, apply_revocation_feed(e)
      PROVE  RegistryInv'
  BY <1>4, ReviewsStay DEF apply_revocation_feed, RegistryInv, ReviewsFit
<1>5. QED  BY <1>1, <1>2, <1>3, <1>4

LEMMA Installing ==
  ASSUME RegistryInv, NEW r \in reviews, NEW g, NEW dev, NEW ok, confirm_install(r, g, dev, ok)
  PROVE  RegistryInv'
<1>0. op = Free /\ reviews' = reviews \ {r} /\ UNCHANGED <<rows, active, listed, granted>>
  BY DEF confirm_install
<1>1. CASE UNCHANGED <<dirs, op>>
  BY <1>0, <1>1, ReviewsStay DEF RegistryInv, ReviewsFit, Free
<1>2. CASE /\ MayInstall(r.pkg, dev) /\ unpack_package(r.pkg)
           /\ op' = [kind |-> "install", pkg |-> r.pkg, grants |-> g]
  <2>1. r.pkg.version \notin dirs /\ dirs' = dirs \cup {r.pkg.version}
    BY <1>2 DEF MayInstall, unpack_package
  <2>2. op'.kind = "install" /\ op'.pkg = r.pkg  BY <1>2
  <2>3. Installed' = Installed /\ Installed \subseteq dirs
    BY <1>0 DEF RegistryInv, DiskFits, RowsAreOnDisk, Installed
  <2>4. DiskFits'
    <3>1. DOMAIN rows' = Versions  BY <1>0 DEF RegistryInv, DiskFits
    <3>2. QED  BY <2>1, <2>2, <2>3, <3>1 DEF DiskFits, RowsAreOnDisk
  <2>5. Baseline' = Baseline  BY <1>0 DEF Baseline, get_active, Installed
  <2>6. ReviewsFit'  BY <1>0, <2>2, <2>5 DEF RegistryInv, ReviewsFit
  <2>7. QED  BY <2>4, <2>6 DEF RegistryInv
<1>3. QED  BY <1>1, <1>2 DEF confirm_install

LEMMA Installs ==
  ASSUME RegistryInv, install_version \/ InstallFails
  PROVE  RegistryInv'
<1>1. CASE install_version
  <2>1. /\ op.kind = "install" /\ op' = Free /\ reviews' = {} /\ dirs' = dirs
        /\ \A v \in Versions \ {op.pkg.version} : rows'[v] = rows[v]
        /\ DOMAIN rows' = Versions
    BY <1>1 DEF install_version, invalidate_install_reviews, RegistryInv, DiskFits
  <2>2. Installed' \subseteq Installed \cup {op.pkg.version}  BY <2>1 DEF Installed
  <2>3. DiskFits'  BY <2>1, <2>2 DEF RegistryInv, DiskFits, RowsAreOnDisk, Free
  <2>4. QED  BY <2>1, <2>3 DEF RegistryInv, ReviewsFit
<1>2. CASE InstallFails
  <2>1. /\ op.kind = "install" /\ op' = Free /\ dirs' = dirs \ {op.pkg.version}
        /\ UNCHANGED <<rows, active, listed, granted, reviews>>
    BY <1>2 DEF InstallFails
  <2>2. Installed' = Installed /\ Baseline' = Baseline  BY <2>1 DEF Installed, Baseline, get_active
  <2>3. DiskFits'  BY <2>1, <2>2 DEF RegistryInv, DiskFits, RowsAreOnDisk, Free
  <2>4. ReviewsFit'  BY <2>1, <2>2 DEF RegistryInv, ReviewsFit, Free
  <2>5. QED  BY <2>3, <2>4 DEF RegistryInv
<1>3. QED  BY <1>1, <1>2

LEMMA Switching ==
  ASSUME RegistryInv,
         (\E v \in Versions : activate_version(v)) \/ (\E on \in BOOLEAN : set_enabled(on)) \/ uninstall
  PROVE  RegistryInv'
<1>1. reviews' = {} /\ dirs' = dirs  BY DEF activate_version, set_enabled, uninstall, invalidate_install_reviews
<1>2. DOMAIN rows' = Versions /\ Installed' \subseteq Installed
  <2>1. ASSUME NEW on \in BOOLEAN, set_enabled(on)
        PROVE  DOMAIN rows' = Versions /\ Installed' \subseteq Installed
    <3>1. get_active \in Installed  BY <2>1 DEF set_enabled, get_active
    <3>2. DOMAIN rows' = Versions /\ \A v \in Versions \ {get_active} : rows'[v] = rows[v]
      BY <2>1 DEF set_enabled, RegistryInv, DiskFits
    <3>3. QED  BY <3>1, <3>2 DEF Installed
  <2>2. rows' = rows => DOMAIN rows' = Versions /\ Installed' \subseteq Installed
    BY DEF Installed, RegistryInv, DiskFits
  <2>3. QED  BY <2>1, <2>2 DEF activate_version, uninstall
<1>3. op = Free /\ (op' = Free \/ op' = [kind |-> "uninstall", next |-> 1])
  BY DEF activate_version, set_enabled, uninstall
<1>4. DiskFits'
  <2>1. CASE op' = Free  BY <1>1, <1>2, <2>1 DEF RegistryInv, DiskFits, RowsAreOnDisk, Free
  <2>2. CASE op' = [kind |-> "uninstall", next |-> 1]
    <3>1. op'.kind = "uninstall" /\ DOMAIN op' = {"kind", "next"} /\ op'.next = 1  BY <2>2
    <3>2. QED  BY <1>1, <1>2, <3>1 DEF RegistryInv, DiskFits, RowsAreOnDisk
  <2>3. QED  BY <1>3, <2>1, <2>2
<1>5. QED  BY <1>1, <1>4 DEF RegistryInv, ReviewsFit

LEMMA Uninstalling ==
  ASSUME RegistryInv, UninstallStep
  PROVE  RegistryInv'
<1>0. /\ op.kind = "uninstall" /\ reviews' = {} /\ op.next \in 1..4 /\ DOMAIN op = {"kind", "next"}
      /\ op.next = 4 => Installed = {}
  BY DEF UninstallStep, RegistryInv, DiskFits, ReviewsFit
<1>1. /\ op.next \in {1, 2} => rows' = rows /\ dirs' = dirs
      /\ op.next = 3 => rows' = [v \in Versions |-> NoRow] /\ dirs' = dirs
      /\ op.next = 4 => rows' = rows
  BY <1>0 DEF UninstallStep, UninstallOrder
<1>2. \/ op.next = 4 /\ op' = Free
      \/ op.next # 4 /\ op' = [op EXCEPT !.next = @ + 1]
  BY <1>0 DEF UninstallStep, UninstallOrder
<1>3. /\ DOMAIN rows' = Versions
      /\ Installed' \subseteq Installed /\ (op.next = 3 => Installed' = {})
  BY <1>0, <1>1 DEF RegistryInv, DiskFits, Installed
<1>4. op.next # 4 => dirs' = dirs  BY <1>0, <1>1
<1>5. DiskFits'
  <2>1. CASE op.next = 4
    BY <1>0, <1>2, <1>3, <2>1 DEF DiskFits, RowsAreOnDisk, Free
  <2>2. CASE op.next # 4
    <3>1. op'.kind = "uninstall" /\ DOMAIN op' = {"kind", "next"} /\ op'.next = op.next + 1
      BY <1>0, <1>2, <2>2
    <3>2. QED  BY <1>0, <1>3, <1>4, <2>2, <3>1 DEF RegistryInv, DiskFits, RowsAreOnDisk
  <2>3. QED  BY <2>1, <2>2
<1>6. QED  BY <1>0, <1>5 DEF RegistryInv, ReviewsFit

LEMMA RegistryKept ==
  ASSUME PluginInv, [Next]_vars
  PROVE  RegistryInv'
<1>0. RegistryInv  BY DEF PluginInv
<1>1. CASE RegistryNext
  BY <1>0, <1>1, ReviewSteps, Installing, Installs, Switching, Uninstalling DEF RegistryNext
<1>2. CASE UNCHANGED registryVars  BY <1>0, <1>2, RegistrySame
<1>3. CASE WorkflowNext
  <2>1. UNCHANGED registryVars
    BY <1>3 DEF WorkflowNext, make_plan, execute, execute_bound_changeset, StartRun, Attempt, StepFails,
                RunSucceeds, cancel, RunStep, ActionDone
  <2>2. QED  BY <1>2, <2>1
<1>4. CASE startup_recovery
  BY <1>0, <1>4 DEF startup_recovery, RegistryRestart, RegistryInv, DiskFits, ReviewsFit, RowsAreOnDisk, Installed, Free
<1>5. QED  BY <1>1, <1>2, <1>3, <1>4 DEF Next, vars

-----------------------------------------------------------------------------
(* A call that is none but its plan's executor's step.                      *)
LEMMA CallsGoOn ==
  ASSUME WorkflowInv, NEW e \in Calls, plan' = plan, applied' = applied, DOMAIN call' = Calls,
         \A d \in Calls \ {e} : call'[d] = call[d], "pc" \in DOMAIN call'[e], call'[e].pc # "changeset"
  PROVE  WorkflowInv'
<1> USE DEF WorkflowInv, PlansFit
<1>1. \A d \in Calls, p \in Plans : Executing(d, p)' => Executing(d, p)  BY DEF Executing
<1>2. PlansFit'  OBVIOUS
<1>3. TakenOnce'  BY <1>1 DEF TakenOnce
<1>4. QED  BY <1>2, <1>3

LEMMA Executed ==
  ASSUME WorkflowInv, NEW e \in Calls, NEW p \in Plans, execute(e, p)
  PROVE  WorkflowInv'
<1> USE DEF WorkflowInv, PlansFit
<1>1. plan[p].state = "stored" /\ plan' = [plan EXCEPT ![p].state = "taken"] /\ applied' = applied
  BY DEF execute, TakePlan
<1>2. /\ plan'[p].state = "taken" /\ DOMAIN plan'[p] = DOMAIN plan[p]
      /\ \A r \in Plans \ {p} : plan'[r] = plan[r]
      /\ DOMAIN plan' = Plans
  BY <1>1
<1>3. PICK q : /\ call' = [call EXCEPT ![e] = q] /\ "pc" \in DOMAIN q
               /\ q.pc = "changeset" => DOMAIN q = CallFields /\ q.plan = p
  <2> DEFINE r == [pc |-> "returned"]
             n == [pc |-> IF Covered = {} THEN "start" ELSE "changeset", plan |-> p,
                   version |-> plan[p].version, step |-> 1, tries |-> 0, token |-> "live", row |-> "none",
                   steps |-> [i \in DOMAIN Steps |-> "Pending"]]
  <2>1. "pc" \in DOMAIN r /\ r.pc = "returned"  OBVIOUS
  <2>2. "pc" \in DOMAIN n /\ DOMAIN n = CallFields /\ n.plan = p  BY DEF CallFields
  <2>3. call' = [call EXCEPT ![e] = n] \/ call' = [call EXCEPT ![e] = r]  BY DEF execute
  <2> HIDE DEF r, n
  <2>4. QED  BY <2>1, <2>2, <2>3
<1>4. call'[e] = q /\ (\A d \in Calls \ {e} : call'[d] = call[d]) /\ DOMAIN call' = Calls  BY <1>3
<1>5. PlansFit'  BY <1>1, <1>2, <1>3, <1>4 DEF NoPlan
<1>6. \A d \in Calls : ~Executing(d, p) /\ applied[p] = {}  BY <1>1 DEF TakenOnce
<1>7. \A d \in Calls, r \in Plans : Executing(d, r)' => Executing(d, r) \/ (d = e /\ r = p)
  BY <1>3, <1>4 DEF Executing
<1>8. TakenOnce'
  <2>1. \A r \in Plans : plan'[r].state \in {"none", "stored"} => plan[r].state \in {"none", "stored"}
    BY <1>1, <1>2
  <2>2. \A r \in Plans : plan[r].state \notin {"none", "stored"} => plan'[r].state \notin {"none", "stored"}
    BY <1>1, <1>2
  <2>3. \A r \in Plans : /\ plan'[r].state \in {"none", "stored"} => applied'[r] = {}
                         /\ applied'[r] = {} \/ \E x : applied'[r] = {x}
    BY <1>1, <2>1 DEF TakenOnce
  <2>4. ASSUME NEW d \in Calls, NEW r \in Plans, Executing(d, r)'
        PROVE  /\ plan'[r].state \notin {"none", "stored"} /\ applied'[r] = {}
               /\ \A c \in Calls : Executing(c, r)' => c = d
    <3>1. CASE r = p
      <4>1. \A c \in Calls : Executing(c, p)' => c = e  BY <1>6, <1>7
      <4>2. QED  BY <1>1, <1>2, <1>6, <2>4, <3>1, <4>1
    <3>2. CASE r # p
      <4>1. \A c \in Calls : Executing(c, r)' => Executing(c, r)  BY <1>7, <3>2
      <4>2. QED  BY <1>1, <2>2, <2>4, <4>1 DEF TakenOnce
    <3>3. QED  BY <3>1, <3>2
  <2>5. QED  BY <2>3, <2>4 DEF TakenOnce
<1>9. QED  BY <1>5, <1>8

LEMMA Applied ==
  ASSUME WorkflowInv, NEW e \in Calls, NEW answer, execute_bound_changeset(e, answer)
  PROVE  WorkflowInv'
<1> USE DEF WorkflowInv, PlansFit
<1>0. PICK p \in Plans : call[e].plan = p  BY DEF execute_bound_changeset
<1>1. Executing(e, p) /\ p \in Plans /\ DOMAIN call[e] = CallFields  BY <1>0 DEF execute_bound_changeset, Executing
<1>2. applied[p] = {} /\ plan[p].state \notin {"none", "stored"}  BY <1>1 DEF TakenOnce
<1>3. /\ plan' = plan /\ DOMAIN applied' = Plans
      /\ \A r \in Plans \ {p} : applied'[r] = applied[r]
      /\ applied'[p] = {} \/ applied'[p] = {<<e, answer>>}
  BY <1>0, <1>1, <1>2 DEF execute_bound_changeset
<1>4. PICK q : call' = [call EXCEPT ![e] = q] /\ "pc" \in DOMAIN q /\ q.pc # "changeset"
  <2> DEFINE r == [pc |-> "returned"]
             n == [call[e] EXCEPT !.pc = "start"]
  <2>1. "pc" \in DOMAIN r /\ r.pc = "returned"  OBVIOUS
  <2>2. "pc" \in DOMAIN n /\ n.pc = "start"  BY <1>1 DEF CallFields
  <2>3. call' = [call EXCEPT ![e] = n] \/ call' = [call EXCEPT ![e] = r]  BY DEF execute_bound_changeset
  <2> HIDE DEF r, n
  <2>4. QED  BY <2>1, <2>2, <2>3
<1>5. call'[e] = q /\ (\A d \in Calls \ {e} : call'[d] = call[d]) /\ DOMAIN call' = Calls  BY <1>4
<1>6. PlansFit'  BY <1>3, <1>4, <1>5
<1>7. \A d \in Calls, r \in Plans : Executing(d, r)' => Executing(d, r) /\ d # e
  BY <1>4, <1>5 DEF Executing
<1>8. \A d \in Calls : ~Executing(d, p)'
  <2>1. \A d \in Calls : Executing(d, p) => d = e  BY <1>1 DEF TakenOnce
  <2>2. QED  BY <1>1, <1>7, <2>1
<1>9. TakenOnce'
  <2>1. \A r \in Plans : /\ plan[r].state \in {"none", "stored"} => applied'[r] = {}
                         /\ applied'[r] = {} \/ \E x : applied'[r] = {x}
    BY ZenonT(40), <1>2, <1>3 DEF TakenOnce
  <2>2. \A d \in Calls, r \in Plans : Executing(d, r)' =>
          r # p /\ Executing(d, r) /\ applied'[r] = applied[r]
    BY <1>3, <1>7, <1>8
  <2>3. QED  BY <1>3, <2>1, <2>2 DEF TakenOnce
<1>10. QED  BY <1>6, <1>9

LEMMA WorkflowKept ==
  ASSUME PluginInv, [Next]_vars
  PROVE  WorkflowInv'
<1> USE DEF PluginInv
<1>0. WorkflowInv /\ PlansFit  BY DEF WorkflowInv
<1>1. ASSUME UNCHANGED workflowVars PROVE WorkflowInv'
  BY <1>0, <1>1 DEF workflowVars, WorkflowInv, PlansFit, TakenOnce, Executing
<1>2. ASSUME NEW p \in Plans, NEW ok \in BOOLEAN, make_plan(p, ok) PROVE WorkflowInv'
  <2> DEFINE n == [state |-> "stored", version |-> get_active, row |-> "AwaitingApproval"]
  <2>1. n.state = "stored" /\ "state" \in DOMAIN n  OBVIOUS
  <2>2. plan[p].state = "none" /\ plan' = [plan EXCEPT ![p] = n] /\ call' = call /\ applied' = applied
    BY <1>2 DEF make_plan, NoPlan
  <2> HIDE DEF n
  <2>3. plan'[p] = n /\ \A r \in Plans \ {p} : plan'[r] = plan[r]  BY <1>0, <2>2 DEF PlansFit
  <2>4. PlansFit'  BY <1>0, <2>1, <2>2, <2>3 DEF PlansFit
  <2>5. TakenOnce'
    <3>1. \A e \in Calls, r \in Plans : Executing(e, r)' <=> Executing(e, r)  BY <2>2 DEF Executing
    <3>2. QED  BY <1>0, <2>1, <2>2, <2>3, <3>1 DEF WorkflowInv, TakenOnce
  <2>6. QED  BY <2>4, <2>5 DEF WorkflowInv
<1>3. ASSUME NEW e \in Calls, NEW p \in Plans, execute(e, p) PROVE WorkflowInv'
  BY <1>0, <1>3, Executed
<1>4. ASSUME NEW e \in Calls, NEW a, execute_bound_changeset(e, a) PROVE WorkflowInv'
  BY <1>0, <1>4, Applied
<1>5. ASSUME NEW e \in Calls,
             StartRun(e) \/ Attempt(e) \/ StepFails(e) \/ RunSucceeds(e) \/ cancel(e)
             \/ (\E c \in {"holds", "fails", "error"} : RunStep(e, c)) \/ (\E ok \in BOOLEAN : ActionDone(e, ok))
      PROVE WorkflowInv'
  <2>1. UNCHANGED <<plan, applied>>
    BY <1>5 DEF StartRun, Attempt, StepFails, RunSucceeds, cancel, RunStep, ActionDone
  <2>2. DOMAIN call' = Calls /\ \A d \in Calls \ {e} : call'[d] = call[d]
    BY <1>0, <1>5 DEF PlansFit, StartRun, Attempt, StepFails, RunSucceeds, cancel, RunStep, ActionDone
  <2>3. "pc" \in DOMAIN call'[e] /\ call'[e].pc # "changeset"
    <3> USE DEF PlansFit
    <3>1. CASE StartRun(e)  BY <1>0, <3>1 DEF StartRun
    <3>2. CASE Attempt(e)  BY <1>0, <3>2 DEF Attempt
    <3>3. CASE StepFails(e)
      <4>1. \/ \E s : call'[e] = [Ended(call[e], s) EXCEPT !.steps[call[e].step] = "Failed"]
            \/ call'[e] = NextStep(call[e], "Failed")
        BY <1>0, <3>3 DEF StepFails
      <4>2. QED  BY <1>0, <4>1 DEF Ended, NextStep
    <3>4. CASE RunSucceeds(e)  BY <1>0, <3>4 DEF RunSucceeds, Ended
    <3>5. CASE cancel(e)  BY <1>0, <3>5 DEF cancel
    <3>6. ASSUME NEW c \in {"holds", "fails", "error"}, RunStep(e, c)
          PROVE "pc" \in DOMAIN call'[e] /\ call'[e].pc # "changeset"
      <4>1. \/ \E x : call'[e] = [Ended(call[e], "Cancelled") EXCEPT !.steps = x]
            \/ call'[e] = [call[e] EXCEPT !.pc = "returned"]
            \/ \E s : call'[e] = NextStep(call[e], s)
            \/ call'[e] = [call[e] EXCEPT !.pc = "attempt", !.steps[call[e].step] = "Running"]
        <5> DEFINE i == call[e].step
        <5>1. call'[e] = CASE call[e].token = "cancelled" ->
                    [Ended(call[e], "Cancelled") EXCEPT !.steps =
                       [j \in DOMAIN Steps |-> IF j >= i THEN "Cancelled" ELSE call[e].steps[j]]]
               [] call[e].token = "live" /\ c = "error" -> [call[e] EXCEPT !.pc = "returned"]
               [] call[e].token = "live" /\ c = "fails" -> NextStep(call[e], "Skipped")
               [] call[e].token = "live" /\ c = "holds" /\ i \in Covered -> NextStep(call[e], "Succeeded")
               [] OTHER -> [call[e] EXCEPT !.pc = "attempt", !.steps[i] = "Running"]
          BY <1>0, <3>6 DEF RunStep
        <5>2. QED  BY <5>1
      <4>2. QED  BY <1>0, <4>1 DEF Ended, NextStep
    <3>7. ASSUME NEW ok \in BOOLEAN, ActionDone(e, ok)
          PROVE "pc" \in DOMAIN call'[e] /\ call'[e].pc # "changeset"
      BY <1>0, <3>7 DEF ActionDone, NextStep
    <3>8. QED  BY <1>5, <3>1, <3>2, <3>3, <3>4, <3>5, <3>6, <3>7
  <2>4. QED  BY <1>0, <2>1, <2>2, <2>3, CallsGoOn
<1>6. CASE startup_recovery
  <2>1. /\ applied' = applied /\ DOMAIN plan' = Plans /\ DOMAIN call' = Calls
        /\ \A p \in Plans : plan'[p] = IF plan[p] = NoPlan THEN NoPlan
                                       ELSE [plan[p] EXCEPT !.state = "lost", !.row = Interrupted(@)]
    BY <1>6 DEF startup_recovery
  <2>2. \A p \in Plans : /\ "state" \in DOMAIN plan'[p]
                         /\ plan[p].state = "none" => plan'[p] = NoPlan
                         /\ plan[p].state # "none" => plan'[p].state = "lost"
    <3> SUFFICES ASSUME NEW p \in Plans
                 PROVE  /\ "state" \in DOMAIN plan'[p]
                        /\ plan[p].state = "none" => plan'[p] = NoPlan
                        /\ plan[p].state # "none" => plan'[p].state = "lost"
      OBVIOUS
    <3>1. CASE plan[p] = NoPlan
      <4>1. plan'[p] = NoPlan  BY <2>1, <3>1
      <4>2. QED  BY <3>1, <4>1 DEF NoPlan
    <3>2. CASE plan[p] # NoPlan
      <4>1. plan'[p] = [plan[p] EXCEPT !.state = "lost", !.row = Interrupted(@)]  BY <2>1, <3>2
      <4>2. "state" \in DOMAIN plan[p] /\ plan[p].state # "none"  BY <1>0, <3>2 DEF PlansFit
      <4>3. QED  BY <4>1, <4>2
    <3>3. QED  BY <3>1, <3>2
  <2>3. \A e \in Calls : "pc" \in DOMAIN call'[e] /\ call'[e].pc # "changeset"
    <3> SUFFICES ASSUME NEW e \in Calls PROVE "pc" \in DOMAIN call'[e] /\ call'[e].pc # "changeset"  OBVIOUS
    <3>1. "pc" \in DOMAIN call[e]  BY <1>0 DEF PlansFit
    <3>2. \A s : "pc" \in DOMAIN Ended(call[e], s) /\ Ended(call[e], s).pc = "returned"  BY <3>1 DEF Ended
    <3>3. CASE call[e].pc \in {"step", "attempt", "acting"}
      BY <1>6, <3>2, <3>3 DEF startup_recovery
    <3>4. CASE call[e].pc \in {"changeset", "start"}  BY <1>6, <3>4 DEF startup_recovery
    <3>5. CASE call[e].pc \notin {"changeset", "start", "step", "attempt", "acting"}
      BY <1>6, <3>1, <3>5 DEF startup_recovery
    <3>6. QED  BY <3>3, <3>4, <3>5
  <2>4. PlansFit'  BY <1>0, <2>1, <2>2, <2>3 DEF PlansFit, NoPlan
  <2>5. \A e \in Calls, p \in Plans : ~Executing(e, p)'  BY <2>3 DEF Executing
  <2>6. TakenOnce'  BY <1>0, <2>1, <2>2, <2>5 DEF WorkflowInv, TakenOnce, PlansFit, NoPlan
  <2>7. QED  BY <2>4, <2>6 DEF WorkflowInv
<1>7. QED  BY <1>1, <1>2, <1>3, <1>4, <1>5, <1>6 DEF Next, WorkflowNext, vars

LEMMA PluginStarts == Init => PluginInv
<1> SUFFICES ASSUME Init PROVE PluginInv  OBVIOUS
<1> USE DEF Init, RegistryInit
<1>1. Installed = {}  BY DEF Installed
<1>2. RegistryInv  BY <1>1 DEF RegistryInv, DiskFits, ReviewsFit, RowsAreOnDisk, Free
<1>3. WorkflowInv  BY DEF WorkflowInv, PlansFit, TakenOnce, Executing, NoPlan, Idle
<1>4. QED  BY <1>2, <1>3 DEF PluginInv

(* The inductive invariant: what an install, an uninstall and an execute()  *)
(* have done so far.                                                        *)
THEOREM PluginsInductive == Spec => []PluginInv
<1>1. PluginInv /\ [Next]_vars => PluginInv'  BY RegistryKept, WorkflowKept DEF PluginInv
<1>2. QED  BY <1>1, PluginStarts, PTL DEF Spec

(* A version that the database names has its directory, whatever crash came *)
(* between the steps of an install or an uninstall.                         *)
THEOREM InstalledIsOnDisk == Spec => []RowsAreOnDisk
<1>1. PluginInv => RowsAreOnDisk  BY DEF PluginInv, RegistryInv, DiskFits
<1>2. QED  BY <1>1, PluginsInductive, PTL

(* A review that can be confirmed shows what would be added to the grants   *)
(* as they are now.                                                         *)
THEOREM ReviewsShowTheTruth == Spec => []ReviewsAreCurrent
<1>1. PluginInv => ReviewsAreCurrent  BY DEF PluginInv, RegistryInv, ReviewsFit, ReviewsAreCurrent
<1>2. QED  BY <1>1, PluginsInductive, PTL

(* The ChangeSet of a plan is executed once at most, for any plans, steps   *)
(* and calls, and through restarts.                                         *)
THEOREM PlansRunOnce == Spec => []PlanRunsOnce
<1>1. PluginInv => PlanRunsOnce
  <2> SUFFICES ASSUME PluginInv, NEW p \in Plans PROVE Cardinality(applied[p]) <= 1
    BY DEF PlanRunsOnce
  <2>1. applied[p] = {} \/ \E x : applied[p] = {x}  BY DEF PluginInv, WorkflowInv, TakenOnce
  <2>2. Cardinality({}) = 0 /\ \A x : Cardinality({x}) = 1  BY FS_EmptySet, FS_Singleton
  <2>3. QED  BY <2>1, <2>2
<1>2. QED  BY <1>1, PluginsInductive, PTL

-----------------------------------------------------------------------------
(* Plugins: what a run of actions leaves on its host.                       *)

Linked == Releases \cup {OldRelease}

(* A release that was live once is complete, and so is what a run can go    *)
(* back to.                                                                 *)
Whole(link) == link \in Linked => Complete(link) \subseteq host

(* What the steps a run has behind it built is on its host.                 *)
Built(d) ==
  \A i \in DOMAIN Workflow[d] :
    i < deploy[d].step /\ Workflow[d][i] \in BuildSteps => get(Workflow[d][i], ReleaseOf[d]).adds \subseteq host

RunFields == {"pc", "step", "previous", "cancelled"}

DeployFits(d) ==
  /\ DOMAIN deploy[d] = RunFields /\ deploy[d].step \in Nat
  /\ Whole(deploy[d].previous)
  /\ deploy[d].pc = "new" => deploy[d].step = 1
  /\ deploy[d].pc \in {"restart", "health", "restore"} => Workflow[d][deploy[d].step] = "release.activate"
  /\ Built(d)
  /\ deploy[d].pc \in {"step", "restart", "health", "restore"} => deploy[d].step \in DOMAIN Workflow[d]

LinkInv ==
  /\ Whole(current)
  /\ DOMAIN deploy = Deploys
  /\ \A d \in Deploys : DeployFits(d)

(* An action passes over a step only when the step built its part.          *)
Adds(id, r) ==
  CASE id = "git.clone" -> {<<"code", r>>}
    [] id = "python.venv" -> {<<"venv", r>>}
    [] id = "python.pip.install" -> {<<"packages", r>>}
    [] id = "database.migration" -> {<<"migrated", r>>}

LEMMA BuildAdds ==
  ASSUME NEW r, NEW id \in BuildSteps
  PROVE  get(id, r).adds = Adds(id, r) /\ get(id, r).strict /\ Adds(id, r) \subseteq Complete(r)
<1>1. get("git.clone", r) = GitCloneAction(r)  BY DEF get
<1>2. get("python.venv", r) = PythonVenvAction(r)  BY DEF get
<1>3. get("python.pip.install", r) = PythonPipInstallAction(r)  BY DEF get
<1>4. get("database.migration", r) = DatabaseMigrationAction(r)  BY DEF get
<1>5. CASE id = "git.clone"  BY <1>1, <1>5 DEF Adds, GitCloneAction, Action, Complete
<1>6. CASE id = "python.venv"  BY <1>2, <1>6 DEF Adds, PythonVenvAction, Action, Complete
<1>7. CASE id = "python.pip.install"  BY <1>3, <1>7 DEF Adds, PythonPipInstallAction, Action, Complete
<1>8. CASE id = "database.migration"  BY <1>4, <1>8 DEF Adds, DatabaseMigrationAction, Action, Complete
<1>9. QED  BY <1>5, <1>6, <1>7, <1>8 DEF BuildSteps

(* A host loses nothing but the emptiness of a directory.                   *)
Kept == \A name, subject : name # "empty" /\ <<name, subject>> \in host => <<name, subject>> \in host'

LEMMA WholeKept ==
  ASSUME Kept, NEW link, Whole(link)
  PROVE  Whole(link)'
BY DEF Kept, Whole, Complete, Linked, Releases

LEMMA AddsKept ==
  ASSUME Kept, NEW r, NEW id \in BuildSteps, get(id, r).adds \subseteq host
  PROVE  get(id, r).adds \subseteq host'
<1>1. Adds(id, r) \subseteq host  BY BuildAdds
<1>2. Adds(id, r) \subseteq host'  BY <1>1 DEF Kept, Adds, BuildSteps
<1>3. QED  BY <1>2, BuildAdds

LEMMA NextInRange ==
  \A n \in Nat : \A s \in 1..n : s + 1 \in Nat /\ (s # n => s + 1 \in 1..n)
OBVIOUS

LEMMA StepsAreNumbered ==
  ASSUME NEW d \in Deploys
  PROVE  Len(Workflow[d]) \in Nat /\ Len(Workflow[d]) # 0 /\ DOMAIN Workflow[d] = 1..Len(Workflow[d])
<1>1. Workflow[d] \in Seq(STRING) /\ Workflow[d] # <<>>  BY DeployAssumption
<1>2. QED  BY <1>1

(* A run that has come to an activation has built its release.              *)
LEMMA ActivatedIsWhole ==
  ASSUME LinkInv, NEW d \in Deploys, deploy[d].step \in DOMAIN Workflow[d],
         Workflow[d][deploy[d].step] = "release.activate"
  PROVE  Complete(ReleaseOf[d]) \subseteq host
<1>1. Built(d) /\ deploy[d].step \in Nat  BY DEF LinkInv, DeployFits
<1>2. \A id \in BuildSteps : Adds(id, ReleaseOf[d]) \subseteq host
  <2> SUFFICES ASSUME NEW id \in BuildSteps  PROVE  Adds(id, ReleaseOf[d]) \subseteq host
    OBVIOUS
  <2>1. PICK j \in 1..(deploy[d].step - 1) : Workflow[d][j] = id  BY ZenonT(40), DeployAssumption
  <2>2. j \in DOMAIN Workflow[d] /\ j < deploy[d].step  BY <1>1, <2>1, StepsAreNumbered
  <2>3. get(id, ReleaseOf[d]).adds \subseteq host  BY <1>1, <2>1, <2>2 DEF Built
  <2>4. QED  BY <2>3, BuildAdds
<1>3. QED  BY <1>2 DEF BuildSteps, Adds, Complete

(* What a step does to the run it is of; the others keep theirs.            *)
DeployStep(d) ==
  /\ DOMAIN deploy' = Deploys
  /\ \A e \in Deploys : e # d => deploy'[e] = deploy[e]
  /\ DOMAIN deploy'[d] = RunFields /\ deploy'[d].step \in Nat
  /\ deploy'[d].previous \in {deploy[d].previous, current, "link path", ""}
  /\ deploy'[d].pc = "new" => deploy'[d].step = 1
  /\ deploy'[d].pc \in {"restart", "health", "restore"} => Workflow[d][deploy'[d].step] = "release.activate"
  /\ deploy'[d].pc \in {"step", "restart", "health", "restore"} => deploy'[d].step \in DOMAIN Workflow[d]
  /\ \/ deploy'[d].step = deploy[d].step
     \/ /\ deploy'[d].step = deploy[d].step + 1
        /\ Workflow[d][deploy[d].step] \in BuildSteps =>
             get(Workflow[d][deploy[d].step], ReleaseOf[d]).adds \subseteq host'

LEMMA StepFits ==
  ASSUME LinkInv, Kept, NEW d \in Deploys, DeployStep(d),
         Whole(current)'
  PROVE  LinkInv'
<1>1. ASSUME NEW e \in Deploys  PROVE  Built(e)'
  <2>1. SUFFICES ASSUME NEW i \in DOMAIN Workflow[e], i < deploy'[e].step, Workflow[e][i] \in BuildSteps
                 PROVE  get(Workflow[e][i], ReleaseOf[e]).adds \subseteq host'
    BY DEF Built
  <2>2. deploy[e].step \in Nat /\ i \in Nat  BY <1>1, <2>1, StepsAreNumbered DEF LinkInv, DeployFits
  <2>3. CASE i < deploy[e].step  BY <1>1, <2>1, <2>3, AddsKept DEF LinkInv, DeployFits, Built
  <2>4. CASE ~(i < deploy[e].step)
    <3>1. e = d  BY <1>1, <2>1, <2>4 DEF DeployStep
    <3>2. i < deploy'[d].step /\ ~(i < deploy[d].step) /\ deploy[d].step \in Nat  BY <2>1, <2>2, <2>4, <3>1
    <3>3. \/ deploy'[d].step = deploy[d].step
          \/ /\ deploy'[d].step = deploy[d].step + 1
             /\ Workflow[d][deploy[d].step] \in BuildSteps =>
                  get(Workflow[d][deploy[d].step], ReleaseOf[d]).adds \subseteq host'
      BY DEF DeployStep
    <3>4. deploy'[d].step = deploy[d].step + 1  BY <3>2, <3>3
    <3>5. deploy[d].step = i  BY <2>2, <3>2, <3>4
    <3>6. Workflow[d][i] \in BuildSteps => get(Workflow[d][i], ReleaseOf[d]).adds \subseteq host'
      BY <3>2, <3>3, <3>5
    <3>7. QED  BY <2>1, <3>1, <3>6
  <2>5. QED  BY <2>3, <2>4
<1>2. Whole("link path") /\ Whole("")  BY DeployAssumption DEF Whole, Linked, Releases
<1>3. \A e \in Deploys : Whole(deploy[e].previous) /\ Whole(current)  BY DEF LinkInv, DeployFits
<1>4. ASSUME NEW e \in Deploys  PROVE  Whole(deploy[e].previous)'
  <2>1. CASE e = d
    <3>1. PICK link \in {deploy[d].previous, current, "link path", ""} : deploy'[d].previous = link
      BY DEF DeployStep
    <3>2. Whole(link)  BY <1>2, <1>3, <3>1
    <3>3. Whole(link)'  BY <3>2, WholeKept
    <3>4. QED  BY <2>1, <3>1, <3>3 DEF Whole
  <2>2. CASE e # d
    <3>1. PICK link : link = deploy[e].previous  OBVIOUS
    <3>2. Whole(link)'  BY <1>3, <1>4, <3>1, WholeKept
    <3>3. deploy'[e].previous = link  BY <1>4, <2>2, <3>1 DEF DeployStep
    <3>4. QED  BY <3>2, <3>3 DEF Whole
  <2>3. QED  BY <2>1, <2>2
<1>5. ASSUME NEW e \in Deploys  PROVE  DeployFits(e)'
  BY <1>1, <1>4, <1>5 DEF DeployFits, DeployStep, LinkInv, Linked, Releases
<1>6. QED  BY <1>5 DEF LinkInv, DeployStep, Linked, Releases

(* What a step leaves alone.                                                *)
LEMMA NothingLost ==
  ASSUME host \subseteq host'
  PROVE  Kept
BY DEF Kept

LEMMA RunIs ==
  ASSUME LinkInv, NEW d \in Deploys
  PROVE  /\ DOMAIN deploy[d] = RunFields /\ deploy[d].step \in Nat
         /\ deploy[d].pc \in {"restart", "health", "restore"} => Workflow[d][deploy[d].step] = "release.activate"
         /\ deploy[d].pc \in {"step", "restart", "health", "restore"} => deploy[d].step \in DOMAIN Workflow[d]
         /\ DOMAIN deploy = Deploys
         /\ Whole(current)
         /\ Whole(deploy[d].previous)
BY DEF LinkInv, DeployFits

(* A run changes its stage and nothing else of it.                          *)
LEMMA StageFits ==
  ASSUME LinkInv, NEW d \in Deploys, NEW pc, deploy' = [deploy EXCEPT ![d].pc = pc],
         pc \in {"restart", "health", "restore"} =>
           Workflow[d][deploy[d].step] = "release.activate" /\ deploy[d].step \in DOMAIN Workflow[d],
         pc = "step" => deploy[d].step \in DOMAIN Workflow[d], pc # "new"
  PROVE  DeployStep(d)
BY RunIs DEF DeployStep, RunFields

(* A run comes to its next step, or to its end.                             *)
Noted(d, previous) == [Rest(d) EXCEPT ![d].previous = previous]

LEMMA RestFits ==
  ASSUME LinkInv, NEW d \in Deploys, deploy[d].step \in DOMAIN Workflow[d],
         NEW previous \in {deploy[d].previous, current, "link path", ""},
         deploy' = Noted(d, previous),
         Workflow[d][deploy[d].step] \in BuildSteps =>
           get(Workflow[d][deploy[d].step], ReleaseOf[d]).adds \subseteq host'
  PROVE  DeployStep(d)
<1>0. /\ DOMAIN deploy = Deploys /\ DOMAIN deploy[d] = RunFields /\ deploy[d].step \in Nat  BY RunIs
<1>1. /\ Rest(d)[d].step = deploy[d].step + 1 /\ DOMAIN Rest(d)[d] = RunFields /\ DOMAIN Rest(d) = Deploys
      /\ Rest(d)[d].pc = IF deploy[d].step = Len(Workflow[d]) THEN "done" ELSE "step"
      /\ \A e \in Deploys : e # d => Rest(d)[e] = deploy[e]
  BY <1>0 DEF Rest, RunFields
<1>2. /\ deploy'[d].step = Rest(d)[d].step /\ deploy'[d].pc = Rest(d)[d].pc
      /\ deploy'[d].previous = previous /\ DOMAIN deploy'[d] = RunFields
      /\ DOMAIN deploy' = Deploys /\ \A e \in Deploys : e # d => deploy'[e] = Rest(d)[e]
  BY <1>1 DEF Noted, RunFields
<1>3. deploy[d].step \in 1..Len(Workflow[d]) /\ Len(Workflow[d]) \in Nat  BY StepsAreNumbered
<1>4. deploy'[d].pc = "step" => deploy'[d].step \in DOMAIN Workflow[d]
  <2>1. SUFFICES ASSUME deploy'[d].pc = "step"  PROVE  deploy[d].step + 1 \in 1..Len(Workflow[d])
    BY <1>1, <1>2, StepsAreNumbered
  <2>2. deploy[d].step # Len(Workflow[d])  BY <1>1, <1>2, <2>1
  <2>3. QED  BY <1>3, <2>2, NextInRange
<1>5. deploy'[d].step \in Nat /\ deploy'[d].pc \in {"done", "step"}
  <2>1. deploy'[d].step = deploy[d].step + 1  BY <1>1, <1>2
  <2>2. QED  BY <1>1, <1>2, <1>3, <2>1, NextInRange
<1>6. QED  BY <1>1, <1>2, <1>4, <1>5 DEF DeployStep

(* One lemma for each action.                                               *)
LEMMA StartFits ==
  ASSUME LinkInv, NEW d \in Deploys, NEW ok \in BOOLEAN, StartDeploy(d, ok)
  PROVE  LinkInv'
<1>1. PICK pc \in {"step", "refused"} : deploy' = [deploy EXCEPT ![d].pc = pc]  BY DEF StartDeploy
<1>2. host' = host /\ current' = current  BY DEF StartDeploy
<1>3. deploy[d].step = 1  BY DEF LinkInv, DeployFits, StartDeploy
<1>4. deploy[d].step \in DOMAIN Workflow[d]  BY <1>3, StepsAreNumbered
<1>5. DeployStep(d)  BY <1>1, <1>4, StageFits
<1>6. Kept /\ Whole(current)'  BY <1>2, RunIs DEF Kept, Whole, Linked, Releases
<1>7. QED  BY <1>5, <1>6, StepFits

LEMMA FailsFits ==
  ASSUME LinkInv, NEW d \in Deploys, deploy' = Fails(d)
  PROVE  DeployStep(d)
BY StageFits DEF Fails

LEMMA RefuseFits ==
  ASSUME LinkInv, NEW d \in Deploys, RefuseStep(d)
  PROVE  LinkInv'
<1>1. DeployStep(d)  BY FailsFits DEF RefuseStep
<1>2. Kept /\ Whole(current)'  BY RunIs DEF RefuseStep, Kept, Whole, Linked, Releases
<1>3. QED  BY <1>1, <1>2, StepFits

LEMMA CancelFits ==
  ASSUME LinkInv, NEW d \in Deploys, CancelDeploy(d)
  PROVE  LinkInv'
<1>1. deploy' = [deploy EXCEPT ![d].cancelled = TRUE] /\ DOMAIN deploy = Deploys /\ DOMAIN deploy[d] = RunFields
  BY RunIs DEF CancelDeploy
<1>2. DeployStep(d)
  <2>1. /\ DOMAIN deploy' = Deploys /\ DOMAIN deploy'[d] = RunFields
        /\ \A e \in Deploys : e # d => deploy'[e] = deploy[e]
        /\ deploy'[d].pc = deploy[d].pc /\ deploy'[d].step = deploy[d].step
        /\ deploy'[d].previous = deploy[d].previous
    BY <1>1 DEF RunFields
  <2>2. QED  BY <2>1 DEF DeployStep, LinkInv, DeployFits
<1>3. Kept /\ Whole(current)'  BY RunIs DEF CancelDeploy, Kept, Whole, Linked, Releases
<1>4. QED  BY <1>2, <1>3, StepFits

(* A step that is over, with what the run noted before.                     *)
LEMMA PassFits ==
  ASSUME LinkInv, NEW d \in Deploys, deploy[d].step \in DOMAIN Workflow[d], deploy' = Rest(d),
         Workflow[d][deploy[d].step] \in BuildSteps =>
           get(Workflow[d][deploy[d].step], ReleaseOf[d]).adds \subseteq host'
  PROVE  DeployStep(d)
<1>1. DOMAIN deploy = Deploys /\ DOMAIN deploy[d] = RunFields  BY RunIs
<1>2. DOMAIN Rest(d) = Deploys /\ DOMAIN Rest(d)[d] = RunFields /\ Rest(d)[d].previous = deploy[d].previous
  BY <1>1 DEF Rest, RunFields
<1>3. Rest(d) = [Rest(d) EXCEPT ![d].previous = deploy[d].previous]
  BY <1>1 DEF Rest, RunFields
<1>4. QED  BY <1>3, RestFits DEF Noted

LEMMA ExecuteFits ==
  ASSUME LinkInv, NEW d \in Deploys, NEW o \in Outcomes, ExecuteStep(d, o)
  PROVE  LinkInv'
<1>1. deploy[d].step \in DOMAIN Workflow[d]  BY RunIs DEF ExecuteStep
<1>2. host \subseteq host' /\ current' = current  BY DEF ExecuteStep
<1>3. Kept /\ Whole(current)'  BY <1>2, RunIs, NothingLost, WholeKept DEF Whole, Linked, Releases
<1>4. CASE deploy' = Fails(d)  BY <1>3, <1>4, FailsFits, StepFits
<1>5. CASE deploy' = Rest(d) /\ (o = "exit 0" \/ (o = "exit 1" /\ ~This(d).strict))
  <2>1. Workflow[d][deploy[d].step] \in BuildSteps => o = "exit 0"  BY <1>5, BuildAdds DEF This
  <2>2. o = "exit 0" => host' = host \cup This(d).adds  BY DEF ExecuteStep
  <2>3. Workflow[d][deploy[d].step] \in BuildSteps =>
          get(Workflow[d][deploy[d].step], ReleaseOf[d]).adds \subseteq host'
    BY <2>1, <2>2 DEF This
  <2>4. DeployStep(d)  BY <1>1, <1>5, <2>3, PassFits
  <2>5. QED  BY <1>3, <2>4, StepFits
<1>6. QED  BY <1>4, <1>5 DEF ExecuteStep

LEMMA CloneFits ==
  ASSUME LinkInv, NEW d \in Deploys, NEW o \in Outcomes, ExecuteClone(d, o)
  PROVE  LinkInv'
<1>1. deploy[d].step \in DOMAIN Workflow[d] /\ Workflow[d][deploy[d].step] = "git.clone"
  BY RunIs DEF ExecuteClone
<1>2. host \ {<<"empty", ReleaseOf[d]>>} \subseteq host' /\ current' = current  BY DEF ExecuteClone
<1>3. Kept  BY <1>2 DEF Kept
<1>4. Whole(current)'  BY <1>2, <1>3, RunIs, WholeKept DEF Whole, Linked, Releases
<1>5. CASE deploy' = Fails(d)  BY <1>3, <1>4, <1>5, FailsFits, StepFits
<1>6. CASE deploy' = Rest(d) /\ o = "exit 0"
  <2>1. get(Workflow[d][deploy[d].step], ReleaseOf[d]).adds \subseteq host'  BY <1>6 DEF ExecuteClone, This
  <2>2. DeployStep(d)  BY <1>1, <1>6, <2>1, PassFits
  <2>3. QED  BY <1>3, <1>4, <2>2, StepFits
<1>7. QED  BY <1>5, <1>6 DEF ExecuteClone

LEMMA CheckpointFits ==
  ASSUME LinkInv, NEW d \in Deploys, NEW o \in Outcomes, Checkpoint(d, o)
  PROVE  LinkInv'
<1>1. deploy[d].step \in DOMAIN Workflow[d] /\ Workflow[d][deploy[d].step] \notin BuildSteps
  BY RunIs DEF Checkpoint, BuildSteps
<1>2. host' = host /\ current' = current  BY DEF Checkpoint
<1>3. Kept /\ Whole(current)'  BY <1>2, RunIs DEF Kept, Whole, Linked, Releases
<1>4. ASSUME NEW previous \in {current, "link path", ""}, deploy' = Noted(d, previous)
      PROVE  LinkInv'
  BY <1>1, <1>3, <1>4, RestFits, StepFits
<1>5. CASE o = "exit 0"
  <2>1. readlink \in {current, "link path"}  BY DEF readlink
  <2>2. deploy' = Noted(d, readlink)  BY <1>5 DEF Checkpoint, Noted
  <2>3. QED  BY <1>4, <2>1, <2>2
<1>6. CASE o = "exit 1"  BY <1>4, <1>6 DEF Checkpoint, Noted
<1>7. CASE o = "no session"  BY <1>3, <1>7, FailsFits, StepFits DEF Checkpoint
<1>8. QED  BY <1>5, <1>6, <1>7 DEF Outcomes

LEMMA SwitchFits ==
  ASSUME LinkInv, NEW d \in Deploys, NEW o \in Outcomes, switch_current(d, o)
  PROVE  LinkInv'
<1>1. host' = host  BY DEF switch_current
<1>2. Kept  BY <1>1 DEF Kept
<1>3. PICK link : link = current'  OBVIOUS
<1>4. Whole(link)
  <2>1. CASE deploy[d].pc = "step" /\ current' = (IF o = "exit 0" THEN ReleaseOf[d] ELSE current)
             /\ Workflow[d][deploy[d].step] = "release.activate"
    BY <1>3, <2>1, RunIs, ActivatedIsWhole DEF Whole
  <2>2. CASE current' = (IF o = "exit 0" THEN deploy[d].previous ELSE current)
    BY <1>3, <2>2, RunIs
  <2>3. QED  BY <2>1, <2>2 DEF switch_current
<1>5. Whole(current)'
  <2>1. Whole(link)'  BY <1>2, <1>4, WholeKept
  <2>2. QED  BY <1>3, <2>1 DEF Whole
<1>6. DeployStep(d)
  <2>1. CASE deploy' = Fails(d)  BY <2>1, FailsFits
  <2>2. CASE deploy[d].pc = "step" /\ deploy' = To(d, "restart") /\ Workflow[d][deploy[d].step] = "release.activate"
    BY <2>2, RunIs, StageFits DEF To
  <2>3. CASE deploy' = To(d, "restart old")  BY <2>3, StageFits DEF To
  <2>4. QED  BY <2>1, <2>2, <2>3 DEF switch_current
<1>7. QED  BY <1>2, <1>5, <1>6, StepFits

LEMMA ReloadFits ==
  ASSUME LinkInv, NEW d \in Deploys, NEW o \in Outcomes, reload_and_restart(d, o)
  PROVE  LinkInv'
<1>1. host' = host /\ current' = current  BY DEF reload_and_restart
<1>2. Kept /\ Whole(current)'  BY <1>1, RunIs DEF Kept, Whole, Linked, Releases
<1>3. DeployStep(d)
  <2>1. CASE deploy' = Fails(d)  BY <2>1, FailsFits
  <2>2. CASE deploy[d].pc = "restart" /\ deploy' = To(d, "health")  BY <2>2, RunIs, StageFits DEF To
  <2>3. CASE deploy' = To(d, "restored")  BY <2>3, StageFits DEF To
  <2>4. CASE deploy[d].pc = "step" /\ Workflow[d][deploy[d].step] = "systemd.restart" /\ deploy' = Rest(d)
    BY <2>4, RunIs, PassFits DEF BuildSteps
  <2>5. QED  BY <2>1, <2>2, <2>3, <2>4 DEF reload_and_restart
<1>4. QED  BY <1>2, <1>3, StepFits

LEMMA HealthFits ==
  ASSUME LinkInv, NEW d \in Deploys, NEW o \in Outcomes, health_ok(d, o)
  PROVE  LinkInv'
<1>1. host' = host /\ current' = current /\ deploy[d].pc = "health"  BY DEF health_ok
<1>2. Kept /\ Whole(current)'  BY <1>1, RunIs DEF Kept, Whole, Linked, Releases
<1>3. Workflow[d][deploy[d].step] = "release.activate" /\ deploy[d].step \in DOMAIN Workflow[d]  BY <1>1, RunIs
<1>4. CASE deploy' = Rest(d)
  <2>1. DeployStep(d)  BY <1>3, <1>4, PassFits DEF BuildSteps
  <2>2. QED  BY <1>2, <2>1, StepFits
<1>5. CASE deploy' = To(d, "restore")
  <2>1. DeployStep(d)  BY <1>3, <1>5, StageFits DEF To
  <2>2. QED  BY <1>2, <2>1, StepFits
<1>6. CASE deploy' = Fails(d)  BY <1>2, <1>6, FailsFits, StepFits
<1>7. QED  BY <1>4, <1>5, <1>6 DEF health_ok

(* The inductive invariant of the actions.                                  *)
THEOREM ActionsInductive == ActionsSpec => []LinkInv
<1>1. ActionsInit => LinkInv
  <2> SUFFICES ASSUME ActionsInit  PROVE  LinkInv
    OBVIOUS
  <2>1. NoLink \notin Linked /\ "" \notin Linked  BY DeployAssumption DEF NoLink, Linked, Releases
  <2>2. current = NoLink \/ (current = OldRelease /\ Complete(OldRelease) \subseteq host)  BY DEF ActionsInit
  <2>3. Whole(current)  BY <2>1, <2>2 DEF Whole
  <2>4. ASSUME NEW d \in Deploys  PROVE  DeployFits(d)
    <3>1. deploy[d] = Queued  BY DEF ActionsInit
    <3>0. DOMAIN Queued = RunFields  BY DEF Queued, RunFields
    <3>2. /\ DOMAIN deploy[d] = RunFields /\ deploy[d].step = 1 /\ deploy[d].pc = "new" /\ deploy[d].previous = ""
      <4>1. Queued.step = 1 /\ Queued.pc = "new" /\ Queued.previous = ""  BY DEF Queued
      <4>2. QED  BY <3>0, <3>1, <4>1
    <3>3. \A i \in DOMAIN Workflow[d] : i \in Nat /\ i # 0 /\ ~ (i < 1)  BY StepsAreNumbered
    <3>4. Built(d)  BY <3>2, <3>3 DEF Built
    <3>5. Whole(deploy[d].previous)  BY <2>1, <3>2 DEF Whole
    <3>6. deploy[d].step \in Nat
      <4>1. 1 \in Nat  OBVIOUS
      <4>2. QED  BY <3>2, <4>1, Zenon
    <3>7. deploy[d].pc \notin {"step", "restart", "health", "restore"}  BY <3>2
    <3>8. QED  BY <3>2, <3>4, <3>5, <3>6, <3>7 DEF DeployFits
  <2>5. QED  BY <2>3, <2>4 DEF LinkInv, ActionsInit
<1>2. LinkInv /\ [ActionsNext]_actionVars => LinkInv'
  <2> SUFFICES ASSUME LinkInv, [ActionsNext]_actionVars  PROVE  LinkInv'
    OBVIOUS
  <2>1. ASSUME NEW d \in Deploys, NEW ok \in BOOLEAN, StartDeploy(d, ok)  PROVE  LinkInv'  BY <2>1, StartFits
  <2>2. ASSUME NEW d \in Deploys, RefuseStep(d)  PROVE  LinkInv'  BY <2>2, RefuseFits
  <2>3. ASSUME NEW d \in Deploys, CancelDeploy(d)  PROVE  LinkInv'  BY <2>3, CancelFits
  <2>4. ASSUME NEW d \in Deploys, NEW o \in Outcomes, ExecuteStep(d, o)  PROVE  LinkInv'  BY <2>4, ExecuteFits
  <2>5. ASSUME NEW d \in Deploys, NEW o \in Outcomes, ExecuteClone(d, o)  PROVE  LinkInv'  BY <2>5, CloneFits
  <2>6. ASSUME NEW d \in Deploys, NEW o \in Outcomes, Checkpoint(d, o)  PROVE  LinkInv'  BY <2>6, CheckpointFits
  <2>7. ASSUME NEW d \in Deploys, NEW o \in Outcomes, switch_current(d, o)  PROVE  LinkInv'  BY <2>7, SwitchFits
  <2>8. ASSUME NEW d \in Deploys, NEW o \in Outcomes, reload_and_restart(d, o)  PROVE  LinkInv'
    BY <2>8, ReloadFits
  <2>9. ASSUME NEW d \in Deploys, NEW o \in Outcomes, health_ok(d, o)  PROVE  LinkInv'  BY <2>9, HealthFits
  <2>10. CASE host' = host /\ current' = current /\ deploy' = deploy
    BY <2>10 DEF LinkInv, DeployFits, Built, Whole, Linked, Releases
  <2>11. ASSUME NEW c \in AllCaps, RevokeCapability(c)  PROVE  LinkInv'  BY <2>10, <2>11 DEF RevokeCapability
  <2>12. CASE UNCHANGED actionVars  BY <2>10, <2>12 DEF actionVars
  <2>13. QED
    BY <2>1, <2>2, <2>3, <2>4, <2>5, <2>6, <2>7, <2>8, <2>9, <2>11, <2>12 DEF ActionsNext
<1>3. QED  BY <1>1, <1>2, PTL DEF ActionsSpec

(* The `current` link leads to a release only when it is complete.          *)
THEOREM LinksLeadToWholeReleases == ActionsSpec => []LinkedIsComplete
<1>1. LinkInv => LinkedIsComplete  BY DEF LinkInv, Whole, LinkedIsComplete, Linked
<1>2. QED  BY <1>1, ActionsInductive, PTL
=============================================================================
