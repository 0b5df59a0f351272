SPECIFICATION MCSpec
CONSTANTS
  Stages <- MCStages
  Targets <- MCTargets
  StageTargets <- MCStageTargets
  DependsOn <- MCDependsOn
  Strategy <- MCStrategy
  Limit <- MCLimit
  Capacity = 2
  PlanFailurePolicies = {"Stop", "PauseForReview"}
  MaxAttempts = 2
  MaxPolicy = 1
  MaxCalls = 1
  MaxFailures = 1
  Calls = {k1}
  Sets = {1, 2, 3}
  Jobs <- MCJobs
  Kinds <- MCKinds
  Decision <- MCDecision
  BatchOf <- MCBatchOf
  FailurePolicies = {"Continue", "Stop", "PauseForReview", "Rollback"}
  MaxVersion = 2
  MaxDrifts = 1
  AgentRuns = {r1}
  Streams = {s1}
  ToolIds = {t1}
  BusCapacity = 1
  MaxFleetEvents = 1
  MaxLog = 6
  MaxBus = 5
  MaxRestarts = 1
CHECK_DEADLOCK FALSE
INVARIANTS
  NeverRetriesSettled
  OwnershipDurable
  OneExecution
  OutcomeIsTrue
  OutcomeOfTargets
  StreamFollowsLog
