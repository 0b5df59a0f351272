CONSTANTS
  Clients = {c1, c2}
  c1 = c1
  c2 = c2
  a1 = a1
  a2 = a2
  Parts = {"clients", "decisions"}
  Driver = driver
  Handles = {h1}
  Approvals = {a1, a2}
  Decisions = {"final", "ask", "abort", "inspect", "mutate", "reads"}
  Offered = {"approve", "reject", "reply", "retry", "resume", "pause"}
  MaxRounds = 3
  MaxCalls = 2
  MaxBatch = 1
  MayCrash = TRUE
  None = None
SPECIFICATION MCSpec
SYMMETRY Symmetry
INVARIANTS
  VerifiedOrUnrecorded
PROPERTIES
  ImplementsLedger
