SPECIFICATION MCSpec
CONSTANTS
  JmsAccounts <- MCJmsAccounts
  JmsHosts = {"api", "lan"}
  ApiHost = "api"
  ProfilePort = 443
  SshPorts = {443}
  HostKeys = {hk1, hk2}
  Connects = {c1}
  MaxTokens = 2
  MaxMoves = 1
  TshUsers = {u1, u2}
  OsLogins = {l1, l2}
  HintLogins = {l3}
  MaxPolls = 2
  MaxLogins = 2
  McpIds = {s1, s2}
  McpEndpoints = {e1, e2}
  McpTools = {t1}
  McpRequests = {q1, q2}
  MaxServers = 1
  MaxMcpChanges = 3
  Invocations = {i1, i2}
  MaxRecords = 1
  Contents = {f1, f2}
INVARIANTS
  TokensAreOneTime
  ToolsFollowUser
  AuditIsTrue
PROPERTIES
  LoginWaitEnds
CHECK_DEADLOCK FALSE
