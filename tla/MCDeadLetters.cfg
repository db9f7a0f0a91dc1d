SPECIFICATION ListSpec
CONSTANTS
  Null = Null
  e1 = e1
  e2 = e2
  o1 = o1
  ten = ten
  w1 = w1
  w2 = w2
  r1 = r1
  r2 = r2
  q1 = q1
  EventIds = {e1, e2}
  Orders = {o1}
  Amounts = {ten}
  Bodies <- MCBodies
  MaxDeliveries = 1
  MaxAttempts = 2
  BaseDelay = 1
  MaxDelay = 1
  Workers = {w1, w2}
  Survivors = {w1, w2}
  Replayers = {r1, r2}
  MaxReplays = 2
  Reconcilers = {}
  Snapshots = {}
  MaxRuns = 0
  Clients = {q1}
  AskedLimits <- MCLimits
  MaxLimit = 2
SYMMETRY MCSymmetry
INVARIANTS
  ExactlyOnce
  RetryBudget
  WalksMissNothing
PROPERTIES
  OutcomesAreFinal
  CountersNeverDecrease
