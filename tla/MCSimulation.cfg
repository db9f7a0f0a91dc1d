SPECIFICATION FairSimulationSpec
CONSTANTS
  Null = Null
  ten = ten
  w1 = w1
  EventIds = {1, 2, 3}
  Orders = {1, 2}
  Bodies <- MCBodies
  Amounts = {ten}
  MaxDeliveries = 4
  MaxAttempts = 2
  BaseDelay = 1
  MaxDelay = 1
  Workers = {w1}
  KillAt = 2
  Options <- MCOptions
  Concurrency = 2
INVARIANTS
  PassMeansConverged
  FailureHasReason
PROPERTIES
  SimulationEnds
CHECK_DEADLOCK FALSE
