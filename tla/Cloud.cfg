SPECIFICATION MCSpec
CONSTANTS
  aGroup = aGroup
  aServer = aServer
  anApp = anApp
  aHost = aHost
  Devices = {d1, d2}
  Groups = {aGroup}
  Servers = {aServer}
  Apps = {anApp}
  Hosts = {aHost}
  Starts <- EmptyOrOneServer
  MaxTime = 2
  Imports = {i}
  MaxPending = 1
  Holders = {e1, e2}
  Requests = {r}
  DataKeys = {k1, k2}
  Passphrases = {w1}
  Orgs = {o1, o2}
  Managed = {m}
  Calls = {c1}
  Lifetime = 1
  Patience = 1
  LastTick = 2
CHECK_DEADLOCK FALSE
SYMMETRY Symmetry
INVARIANTS
  GroupsResolve
  PayloadIsRecoverable
PROPERTIES
  GrantsAreDecided
