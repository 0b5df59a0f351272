SPECIFICATION MCSpec
CONSTANTS
  Profiles = {"jump", "target"}
  JumpOf <- MCJumpOf
  Hosts = {"h1", "h2"}
  InitialHost <- MCInitialHost
  InitialKey <- MCInitialKey
  Keys = {"k1", "k2"}
  Secrets = {"right", "wrong"}
  RightSecret = "right"
  Attempts = {a1, a2}
  Preparations = {j1}
  Requests = {r1}
  Sessions = {s1}
  MaxChanges = 1
  Flows = {f1, f2}
  Calls = {c1, c2}
  Conns = {k1, k2}
  Providers = {"jumpserver", "teleport", "boundary"}
  Assets = {"web"}
  AccountsOf <- MCAccountsOf
  PreferredAsset = "web"
  PreferredAccount = "root"
  KeepsPassword = TRUE
  MAX_FLOWS = 1
  Ops = {o1, o2}
  Entries = {"a", "b"}
  MaxRemovals = 2
  Typists = {t1, t2}
  ContextLimit = 3
  MaxOutput = 9
  Folders = {"d1", "d2"}
  HistoryLimit = 1
  Accepts = {p1, p2, p3}
  MaxDrops = 3
SYMMETRY MCSymmetry
CHECK_DEADLOCK FALSE
INVARIANTS
  SessionIsVerified
  EndsOnce
  OutputSinceMark
  NoLostDrop
