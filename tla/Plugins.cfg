SPECIFICATION MCSpec
CONSTANTS
  Packages <- MCPackages
  Manifest <- MCManifest
  MAX_REVIEWS = 1
  MaxRevocations = 1
  Steps <- MCSteps
  Plans = {p1}
  Calls = {c1, c2}
  Deploys = {"deploy", "update"}
  ReleaseOf <- MCReleaseOf
  Workflow <- MCWorkflow
  OldRelease = "r0"
SYMMETRY MCSymmetry
CHECK_DEADLOCK FALSE
INVARIANTS
  RowsAreOnDisk
  ReviewsAreCurrent
  PlanRunsOnce
  LinkedIsComplete
