SPECIFICATION QuerySpec
CONSTANTS
  Null = Null
  e1 = e1
  e2 = e2
  o1 = o1
  o2 = o2
  ten = ten
  six = six
  w1 = w1
  w2 = w2
  c1 = c1
  c2 = c2
  q1 = q1
  EventIds = {e1, e2}
  Orders = {o1, o2}
  Amounts = {ten}
  Bodies <- MCOneOrderBodies
  MaxDeliveries = 1
  MaxAttempts = 1
  BaseDelay = 1
  MaxDelay = 1
  Workers = {w1, w2}
  Survivors = {w1, w2}
  Replayers = {}
  MaxReplays = 0
  Reconcilers = {c1}
  Snapshots <- MCOneOrderSnapshots
  MaxRuns = 1
  Readers = {q1}
  AskedOrders = {o1}
INVARIANTS
  HistoryIsChronological
