SPECIFICATION FairSpec
CONSTANTS
  Null = Null
  e1 = e1
  e2 = e2
  o1 = o1
  o2 = o2
  ten = ten
  six = six
  w1 = w1
  w2 = w2
  r1 = r1
  c1 = c1
  EventIds = {e1, e2}
  Orders = {o1, o2}
  Amounts = {ten, six}
  Bodies <- MCBodies
  MaxDeliveries = 1
  MaxAttempts = 2
  BaseDelay = 1
  MaxDelay = 1
  Workers = {w1, w2}
  Survivors = {w1}
  Replayers = {r1}
  MaxReplays = 1
  Reconcilers = {c1}
  Snapshots <- MCSnapshots
  MaxRuns = 1
INVARIANTS
  TypeOK
  NoOrphanLocks
  ReadsAreCurrent
PROPERTIES
  ImplementsLedger
  EveryEventSettles
  NoEndlessWait
