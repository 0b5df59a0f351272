CONSTANTS
  Clients = {c1, c2}
  c1 = c1
  c2 = c2
  a1 = a1
  a2 = a2
  Parts = {"races", "changes"}
  Driver = driver
  Handles = {h1}
  Approvals = {a1, a2}
  Decisions = {"final", "unusable", "refused", "inspect", "mutate", "gated", "reads", "blocked", "change"}
  Offered = {"approve", "reject", "pause"}
  MaxRounds = 2
  MaxCalls = 2
  MaxBatch = 1
  MayCrash = FALSE
  None = None
SPECIFICATION MCFairSpec
INVARIANTS
  CompletedSettlesChanges
PROPERTIES
  CancelStopsCommands
  RequestsEnd
