CONSTANTS
  r1 = r1
  r2 = r2
  x1 = x1
  x2 = x2
  i1 = i1
  i2 = i2
  k1 = k1
  k2 = k2
  t1 = t1
  t2 = t2
  Rules = {r1, r2}
  Contents = {x1, x2}
  ProfileOf <- MCProfileOf
  PortOf <- MCPortOf
  Identities = {i1, i2}
  IdProfile <- MCIdProfile
  Callers = {c1, c2}
  Tasks = {t1, t2}
  Conns = {k1, k2}
  MaxRules = 2
  MaxListeners = 2
  MaxStreams = 1
  MaxProbes = 1
  None = None
  profile = profile
  port = port
SPECIFICATION MCSpec
CHECK_DEADLOCK FALSE
INVARIANTS
  StopIsFinal
  ServesSavedRule
  IdentityMatches
  EndedIsReleased
PROPERTIES
  LossIsNoticed
  CallsReturn
