CONSTANTS
  u = u
  d = d
  s = s
  remote = remote
  local = local
  Jobs = {u, d}
  Workers = {w1, w2}
  Sessions = {s}
  Paths = {remote, local}
  Uploads <- MCUploads
  None = None
  Concurrency = 2
  SessionOf <- MCSessionOf
  PathOf <- MCPathOf
  Total <- MCTotal
  Length <- MCLength
SPECIFICATION MCSpec
CHECK_DEADLOCK FALSE
INVARIANTS
  QueuedIsServed
  WholeFiles
  CompletedIsDelivered
PROPERTIES
  EveryAttemptEnds
