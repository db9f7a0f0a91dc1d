SPECIFICATION RetryingSpec
CONSTANTS
  Null = Null
  NoFile = NoFile
  CorruptFile = CorruptFile
  NoArray = NoArray
  e1 = e1
  o1 = o1
  ten = ten
  w1 = w1
  r1 = r1
  c1 = c1
  d1 = d1
  d2 = d2
  EventIds = {e1}
  Orders = {o1}
  Amounts = {ten}
  Bodies <- MCWideBodies
  MaxDeliveries = 2
  MaxAttempts = 1
  BaseDelay = 1
  MaxDelay = 1
  Workers = {w1}
  Survivors = {w1}
  Replayers = {}
  MaxReplays = 0
  Reconcilers = {}
  Snapshots <- MCSnapshots
  MaxRuns = 0
  Files <- MCFiles
  MaxInteger = 2
  Deliverers = {d1, d2}
  PoolMax = 1
PROPERTIES
  RetriedIsStored
