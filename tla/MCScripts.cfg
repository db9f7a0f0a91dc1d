SPECIFICATION ScriptSpec
CONSTANTS
  Null = Null
  w1 = w1
  w2 = w2
  requestA = requestA
  requestB = requestB
  EventIds <- MCEvents
  Orders <- MCOrders
  Amounts <- MCAmounts
  Bodies <- ScriptBodies
  MaxDeliveries = 4
  MaxAttempts = 2
  BaseDelay = 1
  MaxDelay = 2
  Workers = {w1, w2}
  Survivors = {w1}
  Replayers = {"replayer"}
  MaxReplays = 2
  Reconcilers = {requestA, requestB}
  Snapshots <- MCSnapshots
  MaxRuns = 4
  Scripts <- AllScripts
  WithWorkers = {"worker", "retries", "observability", "reconciliation"}
  Planted = {"dlq", "retry", "dlq-temp"}
  Concurrency = 3
  HotKeyRequests = 3
  DisjointOrders = 3
  UniqueDeliveries = 4
CHECK_DEADLOCK FALSE
SYMMETRY MCSymmetry
INVARIANTS
  FailureHasCause
