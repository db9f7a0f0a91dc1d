SPECIFICATION Spec
CONSTANTS
  Null = Null
  e1 = e1
  e2 = e2
  e3 = e3
  o1 = o1
  o2 = o2
  ten = ten
  w1 = w1
  w2 = w2
  EventIds = {e1, e2, e3}
  Orders = {o1, o2}
  Amounts = {ten}
  Bodies <- MCBodies
  MaxDeliveries = 2
  MaxAttempts = 2
  BaseDelay = 2
  MaxDelay = 3
  Workers = {w1, w2}
  Survivors = {w1, w2}
  Replayers = {}
  MaxReplays = 0
  Reconcilers = {}
  Snapshots = {}
  MaxRuns = 0
SYMMETRY MCSymmetry
INVARIANTS
  NothingNewerLost
  NoUnknownType
  DeliveriesAccounted
  StatusIndependentOfWorkers
