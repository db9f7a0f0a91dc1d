SPECIFICATION FairProcessesSpec
CONSTANTS
  Null = Null
  e1 = e1
  e2 = e2
  o1 = o1
  ten = ten
  w1 = w1
  w2 = w2
  EventIds = {e1, e2}
  Orders = {o1}
  Amounts = {ten}
  Bodies <- MCBodies
  MaxDeliveries = 1
  MaxAttempts = 2
  BaseDelay = 2
  MaxDelay = 2
  Workers = {w1, w2}
  Survivors = {}
  Replayers = {}
  MaxReplays = 0
  Reconcilers = {}
  Snapshots = {}
  MaxRuns = 0
INVARIANTS
  StoppedIsQuiet
  ClosedPoolIsIdle
PROPERTIES
  LoopsAreTheWorkers
  GracefulExit
  LoopLives
  ShutdownEnds
