SPECIFICATION MCSpec
CONSTANTS
  AppIds = {a1, a2}
  Kinds = {"python", "php", "java", "node", "go", "html", "proxy", "net", "other"}
  Names = {"n1", "n2", "n3"}
  Slug <- MCSlug
  Paths = {d1, d2}
  Ports = {po1, po2}
  Services <- MCUserUnits
  Steps = {1, 4}
  Statuses = {"draft", "provisioned"}
  MaxApps = 2
  Jobs = {j1}
  MaxHistory = 1
  Runs = {"r1", "r2"}
  ObsTargets = {t1}
  Tools = {k1}
  TTL = 1
  MaxEntries = 1
  LastTime = 2
  MaxChanges = 1
  Ids = {i1}
  Targets = {t1}
  Changes = {c1}
  Clients = {k1}
  MaxRuns = 2
  MaxVersion = 2
  MaxIncidents = 1
  MaxTimeline = 6
  LastEvent = 7
  DockerNames = {"n1", "n2"}
  DockerClients = {k1, k2}
  RowIds = {r1, r2}
  Urls = {"u1", "u2"}
  Server <- MCServer
  Wishes <- MCWishes
  MaxRegistries = 2
  ProfileIds = {p1, p2}
  CredentialIds = {cr1, cr2}
  Turns = {w1, w2}
  OauthFlows = {f1}
  MaxTries = 2
  MaxSecrets = 2
CHECK_DEADLOCK FALSE
INVARIANTS
  OneOwnerPerService
  RepairWasBound
  SettingsAreOneRequests
  CredentialsResolve
