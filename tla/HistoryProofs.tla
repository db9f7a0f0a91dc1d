--------------------------- MODULE HistoryProofs ----------------------------
(***************************************************************************)
(* The history of an order, for any number of events, workers,             *)
(* reconciliations and snapshots: it explains the order row by row, it has *)
(* exactly the repairs that the committed runs report, and the last run    *)
(* over an order has the last word until a later event arrives.  Without   *)
(* runs, the number of workers makes no difference to where it ends.  What *)
(* the metrics count of it all only grows.                                 *)
(*                                                                         *)
(* Both writers append to the history what they have read of the order     *)
(* under its lock, and that is still true when they commit (LockProofs).   *)
(***************************************************************************)
EXTENDS EventProofs, Metrics, FiniteSetTheorems

(* An order that does not exist has the defaults of its columns.           *)
MissingOrders ==
  \A o \in Orders : ~orders[o].exists =>
    orders[o].status = "pending" /\ orders[o].seq = 0 /\ orders[o].amount = Null

LEMMA MissingInit == Init => MissingOrders
BY DEF Init, TablesInit, NoOrderRow, MissingOrders

LEMMA MissingStep ==
  ASSUME LockInv, MissingOrders, [Next]_vars
  PROVE  MissingOrders'
<1>0. orders \in [Orders -> OrderRow]
  BY DEF LockInv, TypeInv, TypeOK
<1>1. ASSUME NEW w \in Workers, CommitResult(w)
      PROVE  MissingOrders'
  <2> PICK x \in Orders, body \in Bodies :
        /\ x = ClaimedOrder(w)
        /\ orders'[x] = Process(body, InsertOrderIfMissing(orders[x])).order
    BY <1>1, CommitFacts
  <2>1. InsertOrderIfMissing(orders[x]) \in OrderRow
        /\ InsertOrderIfMissing(orders[x]).exists
    BY <1>0, InsertTypes DEF InsertOrderIfMissing, OrderRow
  <2>2. orders'[x].exists
    BY <2>1 DEF Process, Applied, Ignored, OrderRow
  <2>3. \A o \in Orders \ {x} : orders'[o] = orders[o]
    BY <1>0, <1>1 DEF CommitResult
  <2>4. QED BY <2>2, <2>3 DEF MissingOrders
<1>2. ASSUME NEW r \in Reconcilers, CommitRun(r), NEW o \in Orders
      PROVE  orders'[o].exists \/ orders'[o] = orders[o]
  BY <1>0, <1>2 DEF CommitRun, RepairedRow, InsertOrderIfMissing, OrderRow
<1>3. CASE UNCHANGED orders
  BY <1>3 DEF MissingOrders
<1>4. ASSUME NEW r \in Reconcilers, CommitRun(r)
      PROVE  MissingOrders'
  BY <1>2, <1>4 DEF MissingOrders
<1>5. QED
  BY <1>1, <1>3, <1>4
     DEF Next, IngestStep, Ingest, WorkerStep, WorkerNext, Claim, LockOrder,
         BusinessError, ScheduleRetry, SendToDlq, AbortTransaction, Crash, Restart,
         ReplayStep, ReplayNext, ReplaySelect, ReplayCommit, ReplayRefuse,
         ReplayAbort, ReconStep, ReconNext, FetchSnapshot, BeginRun, VisitOrder,
         AbortRun, ClockStep, Tick, vars, tables

(* The other orders of the snapshot exist already.                         *)
LEMMA OthersExist ==
  ASSUME LockInv, MissingOrders, NEW r \in Reconcilers, NEW o \in VisitedBy(r),
         o \notin Repairs(r)
  PROVE  InsertOrderIfMissing(orders[o]) = orders[o]
<1> DEFINE told == recon[r].snapshot.state[o]
<1>1. /\ o \in Orders /\ orders[o] \in OrderRow /\ told \in ProviderRow
      /\ recon[r].seen[o] = orders[o]
  BY SeenFacts DEF LockInv, ReconReads, TypeInv, TypeOK
<1>2. Verdict(orders[o], told) # "REPAIRED"
  BY <1>1 DEF Repairs, WithVerdict
<1>3. told.seq \in Nat /\ told.amount # Null
  BY <1>1, TablesAssumption DEF ProviderRow
<1>4. orders[o].exists
  BY <1>1, <1>2, <1>3 DEF MissingOrders, Verdict
<1>5. QED BY <1>1, <1>4 DEF InsertOrderIfMissing, OrderRow

-----------------------------------------------------------------------------
(* The audit trail                                                         *)

(* What AuditTrail says of one order, and that no row that changed the     *)
(* order is newer than the order, which makes it inductive.                *)
EffectiveIn(rows) == {i \in DOMAIN rows : rows[i].outcome # "IGNORED"}

Chained(rows, i) ==
  \/ i = 1 /\ rows[i].prev = "pending"
  \/ i = 1 /\ rows[i].prev = Null /\ rows[i].outcome = "RECONCILED"
  \/ i > 1 /\ rows[i].prev = rows[i - 1].new

Rises(rows, i, j) ==
  \/ rows[i].seq < rows[j].seq
  \/ rows[i].seq = rows[j].seq /\ rows[j].outcome = "RECONCILED"

Explains(rows, order) ==
  /\ order.exists <=> rows # << >>
  /\ \A i \in DOMAIN rows : Chained(rows, i)
  /\ \A i, j \in EffectiveIn(rows) : i < j => Rises(rows, i, j)
  /\ rows # << >> => order.status = rows[Len(rows)].new
  /\ EffectiveIn(rows) = {} => order.seq = 0
  /\ \A i \in EffectiveIn(rows) :
       /\ rows[i].seq <= order.seq
       /\ (\A j \in EffectiveIn(rows) : j <= i) => order.seq = rows[i].seq

LEMMA ExplainedIsAudited ==
  (\A o \in Orders : Explains(history[o], orders[o])) => AuditTrail
BY DEF AuditTrail, Explains, Effective, EffectiveIn, Chained, Rises

(* A row that starts where the order is, and leaves it where the order     *)
(* then is, continues the trail.                                           *)
LEMMA AppendExplains ==
  ASSUME NEW rows \in Seq(HistoryRow), NEW order \in OrderRow, Explains(rows, order),
         ~order.exists => order.status = "pending" /\ order.seq = 0,
         NEW new \in HistoryRow, NEW next \in OrderRow,
         next.exists /\ next.status = new.new,
         \/ new.prev = order.status
         \/ ~order.exists /\ new.prev = Null /\ new.outcome = "RECONCILED",
         \/ new.outcome = "IGNORED" /\ next.seq = order.seq
         \/ new.outcome # "IGNORED" /\ new.seq = next.seq /\ next.seq > order.seq
         \/ /\ new.outcome = "RECONCILED"
            /\ new.seq = next.seq /\ next.seq = order.seq
  PROVE  Explains(Append(rows, new), next)
<1> DEFINE all == Append(rows, new)
           n == Len(rows) + 1
<1>1. /\ DOMAIN rows = 1 .. Len(rows) /\ Len(rows) \in Nat
      /\ DOMAIN all = 1 .. n /\ Len(all) = n /\ all # << >>
      /\ all[n] = new /\ \A i \in DOMAIN rows : all[i] = rows[i] /\ rows[i] \in HistoryRow
  OBVIOUS
<1>2. /\ order.seq \in Nat /\ next.seq \in Nat /\ new.seq \in Nat
      /\ \A i \in DOMAIN rows : rows[i].seq \in Nat
  BY <1>1 DEF OrderRow, HistoryRow
<1>3. rows = << >> <=> Len(rows) = 0
  OBVIOUS
<1> HIDE DEF all
<1>4. \A i \in DOMAIN all : Chained(all, i)
  <2>1. ASSUME NEW i \in DOMAIN rows PROVE Chained(all, i)
    <3>1. Chained(rows, i)
      BY DEF Explains
    <3>2. i > 1 => i - 1 \in DOMAIN rows
      BY <1>1
    <3>3. QED BY <1>1, <3>1, <3>2 DEF Chained
  <2>2. Chained(all, n)
    <3>1. CASE rows = << >>
      BY <1>1, <1>3, <3>1 DEF Chained, Explains
    <3>2. CASE rows # << >>
      <4>1. order.exists /\ order.status = rows[Len(rows)].new
        BY <3>2 DEF Explains
      <4>2. n > 1 /\ n - 1 = Len(rows) /\ Len(rows) \in DOMAIN rows
        BY <1>1, <1>3, <3>2
      <4>3. QED BY <1>1, <4>1, <4>2 DEF Chained
    <3>3. QED BY <3>1, <3>2
  <2>3. QED BY <1>1, <2>1, <2>2
<1>5. EffectiveIn(all) =
        IF new.outcome = "IGNORED" THEN EffectiveIn(rows) ELSE EffectiveIn(rows) \union {n}
  BY <1>1 DEF EffectiveIn
<1>6. /\ \A i \in EffectiveIn(rows) :
           i \in DOMAIN rows /\ i \in Nat /\ i < n /\ all[i] = rows[i]
      /\ n \in Nat
  BY <1>1 DEF EffectiveIn
<1>7. \A i, j \in EffectiveIn(all) : i < j => Rises(all, i, j)
  <2> SUFFICES ASSUME NEW i \in EffectiveIn(all), NEW j \in EffectiveIn(all), i < j
               PROVE  Rises(all, i, j)
    OBVIOUS
  <2>1. i \in EffectiveIn(rows)
    BY <1>5, <1>6
  <2>2. CASE j \in EffectiveIn(rows)
    BY <1>6, <2>1, <2>2 DEF Explains, Rises
  <2>3. CASE j = n /\ new.outcome # "IGNORED"
    <3>1. rows[i].seq <= order.seq
      BY <2>1 DEF Explains
    <3>2. all[i].seq = rows[i].seq /\ all[j] = new /\ rows[i].seq \in Nat
      BY <1>1, <1>2, <1>6, <2>1, <2>3
    <3>3. QED BY <1>2, <2>3, <3>1, <3>2 DEF Rises
  <2>4. QED BY <1>5, <2>2, <2>3
<1>8. \A i \in EffectiveIn(all) :
        /\ all[i].seq <= next.seq
        /\ (\A j \in EffectiveIn(all) : j <= i) => next.seq = all[i].seq
  <2>1. CASE new.outcome = "IGNORED"
    <3>1. EffectiveIn(all) = EffectiveIn(rows) /\ next.seq = order.seq
      BY <1>5, <2>1
    <3>2. QED BY <1>6, <3>1 DEF Explains
  <2>2. CASE new.outcome # "IGNORED"
    <3>1. EffectiveIn(all) = EffectiveIn(rows) \union {n}
          /\ new.seq = next.seq /\ next.seq >= order.seq
      BY <1>2, <1>5, <2>2
    <3>2. ASSUME NEW i \in EffectiveIn(rows)
          PROVE  all[i].seq <= next.seq /\ ~(\A j \in EffectiveIn(all) : j <= i)
      <4>1. rows[i].seq <= order.seq /\ all[i] = rows[i] /\ rows[i].seq \in Nat
        BY <1>2, <1>6 DEF Explains
      <4>2. ~(n <= i)
        BY <1>6
      <4>3. QED BY <1>2, <3>1, <4>1, <4>2
    <3>3. QED BY <1>1, <1>2, <3>1, <3>2
  <2>3. QED BY <2>1, <2>2
<1>9. EffectiveIn(all) = {} => next.seq = 0
  BY <1>5 DEF Explains
<1>10. QED
  BY <1>1, <1>4, <1>7, <1>8, <1>9 DEF Explains, all

LEMMA WorkerExplains ==
  ASSUME LockInv, MissingOrders, [Next]_vars, NEW w \in Workers, CommitResult(w),
         NEW o \in Orders, Explains(history[o], orders[o])
  PROVE  Explains(history[o], orders[o])'
<1> PICK x \in Orders, body \in Bodies :
      x = ClaimedOrder(w) /\ body = events[ClaimedEvent(w)].body
  BY CommitFacts
<1> DEFINE before == InsertOrderIfMissing(orders[x])
           result == Process(body, before)
<1>1. PICK row \in HistoryRow :
        /\ row.seq = body.seq /\ row.outcome = result.outcome
        /\ row.prev = orders[x].status /\ row.new = result.order.status
        /\ history' = [history EXCEPT ![x] = Append(history[x], row)]
  BY CommitFacts
<1>2. orders'[x] = result.order /\ \A y \in Orders \ {x} : orders'[y] = orders[y]
  <2>1. orders'[x] = result.order
    BY CommitFacts
  <2>2. \A y \in Orders \ {x} : orders'[y] = orders[y]
    BY DEF CommitResult, LockInv, TypeInv, TypeOK
  <2>3. QED BY <2>1, <2>2
<1>3. /\ history \in [Orders -> Seq(HistoryRow)] /\ orders \in [Orders -> OrderRow]
      /\ orders[x] \in OrderRow /\ orders'[x] \in OrderRow
  BY LockStep DEF LockInv, TypeInv, TypeOK
<1>4. CASE o # x
  BY <1>1, <1>2, <1>3, <1>4
<1>5. CASE o = x
  <2>1. /\ before \in OrderRow /\ before.exists
        /\ before.status = orders[x].status /\ before.seq = orders[x].seq
    BY <1>3, InsertTypes DEF InsertOrderIfMissing, OrderRow
  <2>2. body.seq \in Nat /\ before.seq \in Nat
    BY <2>1, BodyFacts DEF OrderRow
  <2> HIDE DEF before
  <2>3. \/ /\ result.outcome = "IGNORED" /\ result.order = before
        \/ /\ result.outcome = "APPLIED" /\ result.order.exists
           /\ result.order.seq = body.seq /\ body.seq > before.seq
    BY <2>1, <2>2 DEF Process, Applied, Ignored, IsNewer, OrderRow
  <2> HIDE DEF result
  <2>4. /\ orders'[x].exists /\ orders'[x].status = row.new
        /\ \/ row.outcome = "IGNORED" /\ orders'[x].seq = orders[x].seq
           \/ /\ row.outcome # "IGNORED"
              /\ row.seq = orders'[x].seq /\ orders'[x].seq > orders[x].seq
    BY <1>1, <1>2, <2>1, <2>3
  <2>5. ~orders[x].exists => orders[x].status = "pending" /\ orders[x].seq = 0
    BY DEF MissingOrders
  <2>6. Explains(Append(history[x], row), orders'[x])
    BY <1>1, <1>3, <1>5, <2>4, <2>5, AppendExplains
  <2>7. history'[x] = Append(history[x], row)
    BY <1>1, <1>3
  <2>8. QED BY <1>5, <2>6, <2>7
<1>6. QED BY <1>4, <1>5

LEMMA RunExplains ==
  ASSUME LockInv, MissingOrders, NEW r \in Reconcilers, CommitRun(r),
         NEW o \in Orders, Explains(history[o], orders[o])
  PROVE  Explains(history[o], orders[o])'
<1> DEFINE local == recon[r].seen[o]
           told  == recon[r].snapshot.state[o]
           row   == RepairHistory(local, told)
<1>1. history[o] \in Seq(HistoryRow) /\ orders[o] \in OrderRow
  BY DEF LockInv, TypeInv, TypeOK
<1>2. CASE o \in Repairs(r)
  <2>1. o \in VisitedBy(r) /\ Verdict(local, told) = "REPAIRED"
    BY <1>2 DEF Repairs, WithVerdict
  <2>2. local = orders[o] /\ told \in ProviderRow
    BY <2>1, SeenFacts DEF LockInv, ReconReads
  <2>3. orders[o].seq \in Nat /\ told.seq \in Nat /\ told.seq >= orders[o].seq
    BY <1>1, <2>1, <2>2 DEF Verdict, OrderRow, ProviderRow
  <2>4. orders'[o] = RepairedRow(told) /\ history'[o] = Append(history[o], row)
    BY <1>2 DEF CommitRun
  <2>5. RepairedRow(told) \in OrderRow /\ row \in HistoryRow
    BY <1>1, <2>2 DEF RepairedRow, RepairHistory, OrderRow, HistoryRow, ProviderRow, Amount
  <2>6. /\ row.outcome = "RECONCILED" /\ row.new = told.status /\ row.seq = told.seq
        /\ row.prev = IF orders[o].exists THEN orders[o].status ELSE Null
    BY <2>2 DEF RepairHistory
  <2>7. /\ RepairedRow(told).exists /\ RepairedRow(told).status = told.status
        /\ RepairedRow(told).seq = told.seq
    BY DEF RepairedRow
  <2>8. ~orders[o].exists => orders[o].status = "pending" /\ orders[o].seq = 0
    BY DEF MissingOrders
  <2> HIDE DEF row, told
  <2>9. told.seq > orders[o].seq \/ told.seq = orders[o].seq
    BY <2>3
  <2>10. Explains(Append(history[o], row), RepairedRow(told))
    BY <1>1, <2>5, <2>6, <2>7, <2>8, <2>9, AppendExplains
  <2>11. QED BY <2>4, <2>10
<1>3. CASE o \notin Repairs(r)
  <2>1. history'[o] = history[o]
    BY <1>3 DEF CommitRun
  <2>2. orders'[o] = orders[o]
    <3>1. CASE o \in VisitedBy(r)
      BY <1>3, <3>1, OthersExist DEF CommitRun
    <3>2. CASE o \notin VisitedBy(r)
      BY <1>3, <3>2 DEF CommitRun
    <3>3. QED BY <3>1, <3>2
  <2>3. QED BY <2>1, <2>2
<1>4. QED BY <1>2, <1>3

HistoryInv ==
  /\ LockInv
  /\ MissingOrders
  /\ \A o \in Orders : Explains(history[o], orders[o])

LEMMA HistoryInit == Init => HistoryInv
<1> SUFFICES ASSUME Init PROVE HistoryInv
  OBVIOUS
<1>1. ASSUME NEW o \in Orders PROVE Explains(history[o], orders[o])
  BY DEF Init, TablesInit, NoOrderRow, Explains, EffectiveIn
<1>2. QED BY <1>1, LockInit, MissingInit DEF HistoryInv

LEMMA HistoryStep == HistoryInv /\ [Next]_vars => HistoryInv'
<1> SUFFICES ASSUME HistoryInv, [Next]_vars PROVE HistoryInv'
  OBVIOUS
<1>1. LockInv' /\ MissingOrders'
  BY LockStep, MissingStep DEF HistoryInv
<1>2. CASE UNCHANGED <<orders, history>>
  BY <1>1, <1>2 DEF HistoryInv
<1>3. ASSUME NEW w \in Workers, CommitResult(w) PROVE HistoryInv'
  BY <1>1, <1>3, WorkerExplains DEF HistoryInv
<1>4. ASSUME NEW r \in Reconcilers, CommitRun(r) PROVE HistoryInv'
  BY <1>1, <1>4, RunExplains DEF HistoryInv
<1>5. QED
  BY <1>2, <1>3, <1>4
     DEF Next, IngestStep, Ingest, WorkerStep, WorkerNext, Claim, LockOrder,
         BusinessError, ScheduleRetry, SendToDlq, AbortTransaction, Crash, Restart,
         ReplayStep, ReplayNext, ReplaySelect, ReplayCommit, ReplayRefuse,
         ReplayAbort, ReconStep, ReconNext, FetchSnapshot, BeginRun, VisitOrder,
         AbortRun, ClockStep, Tick, vars, tables

LEMMA HistoryInvariance == Spec => []HistoryInv
BY HistoryInit, HistoryStep, PTL DEF Spec

(* The audit trail explains every order: chained statuses, rising          *)
(* sequences and a last row that is the state of the order, for any number *)
(* of workers and of reconciliations between them.                         *)
THEOREM OrdersAreExplained == Spec => []AuditTrail
<1>1. HistoryInv => AuditTrail
  BY ExplainedIsAudited DEF HistoryInv
<1>2. QED BY HistoryInvariance, <1>1, PTL

-----------------------------------------------------------------------------
(* Repairs                                                                 *)

(* Only a commit adds a run, and a committed run is never rewritten.       *)
LEMMA OtherStepsKeepRuns ==
  ASSUME [Next]_vars, \A r \in Reconcilers : ~CommitRun(r)
  PROVE  runs' = runs
BY DEF Next, IngestStep, WorkerStep, ReplayStep, ReconStep, ReconNext,
       FetchSnapshot, BeginRun, VisitOrder, AbortRun, ClockStep, vars, reconVars

LEMMA OneMore ==
  ASSUME NEW n \in Nat, NEW T \in SUBSET (1 .. n)
  PROVE  Cardinality(T \union {n + 1}) = Cardinality(T) + 1
<1>1. IsFiniteSet(T)
  <2>1. IsFiniteSet(1 .. n)
    BY FS_Interval
  <2>2. QED BY <2>1, FS_Subset
<1>2. n + 1 \notin T
  OBVIOUS
<1>3. QED BY <1>1, <1>2, FS_AddElement

Balanced(o) == Cardinality(RepairRows(o)) = Cardinality(RepairReports(o))

LEMMA BalanceKept ==
  ASSUME NEW o \in Orders, Balanced(o),
         RepairRows(o)' = RepairRows(o), RepairReports(o)' = RepairReports(o)
  PROVE  Balanced(o)'
BY DEF Balanced

LEMMA WorkerBalances ==
  ASSUME LockInv, NEW w \in Workers, CommitResult(w), runs' = runs,
         NEW o \in Orders, Balanced(o)
  PROVE  Balanced(o)'
<1> PICK x \in Orders, row \in HistoryRow :
      /\ row.outcome # "RECONCILED"
      /\ history' = [history EXCEPT ![x] = Append(history[x], row)]
  <2> DEFINE y == ClaimedOrder(w)
             body == events[ClaimedEvent(w)].body
             result == Process(body, InsertOrderIfMissing(orders[y]))
  <2>1. y \in Orders /\ body \in Bodies
    BY CommitFacts
  <2>2. InsertOrderIfMissing(orders[y]) \in OrderRow
    BY <2>1, InsertTypes DEF LockInv, TypeInv, TypeOK
  <2>3. result.outcome \in {"APPLIED", "IGNORED"}
    BY <2>1, <2>2, ProcessTypes
  <2>4. PICK row \in HistoryRow :
          /\ row.outcome = result.outcome
          /\ history' = [history EXCEPT ![y] = Append(history[y], row)]
    BY CommitFacts
  <2>5. QED BY <2>1, <2>3, <2>4
<1>1. /\ history \in [Orders -> Seq(HistoryRow)]
      /\ history[o] \in Seq(HistoryRow) /\ Len(history[o]) \in Nat
  BY DEF LockInv, TypeInv, TypeOK
<1>2. RepairRows(o)' = RepairRows(o)
  <2>1. CASE o = x
    BY <1>1, <2>1 DEF RepairRows
  <2>2. CASE o # x
    BY <1>1, <2>2 DEF RepairRows
  <2>3. QED BY <2>1, <2>2
<1>3. RepairReports(o)' = RepairReports(o)
  BY DEF RepairReports
<1>4. QED BY <1>2, <1>3, BalanceKept

LEMMA RunBalances ==
  ASSUME LockInv, NEW r \in Reconcilers, CommitRun(r), NEW o \in Orders, Balanced(o)
  PROVE  Balanced(o)'
<1> DEFINE row == RepairHistory(recon[r].seen[o], recon[r].snapshot.state[o])
<1>1. /\ history[o] \in Seq(HistoryRow) /\ Len(history[o]) \in Nat
      /\ runs \in Seq(Run) /\ Len(runs) \in Nat
  BY DEF LockInv, TypeInv, TypeOK
<1>2. /\ DOMAIN runs' = 1 .. (Len(runs) + 1)
      /\ runs'[Len(runs) + 1].repaired = Repairs(r)
      /\ \A i \in DOMAIN runs : runs'[i] = runs[i]
  BY <1>1 DEF CommitRun, Repairs
<1>3. CASE o \in Repairs(r)
  <2>1. history'[o] = Append(history[o], row) /\ row.outcome = "RECONCILED"
    BY <1>3 DEF CommitRun, RepairHistory
  <2> HIDE DEF row
  <2>2. /\ RepairRows(o)' = RepairRows(o) \union {Len(history[o]) + 1}
        /\ RepairRows(o) \subseteq 1 .. Len(history[o])
    BY <1>1, <2>1 DEF RepairRows
  <2>3. /\ RepairReports(o)' = RepairReports(o) \union {Len(runs) + 1}
        /\ RepairReports(o) \subseteq 1 .. Len(runs)
    BY <1>1, <1>2, <1>3 DEF RepairReports
  <2>4. /\ Cardinality(RepairRows(o))' = Cardinality(RepairRows(o)) + 1
        /\ Cardinality(RepairReports(o))' = Cardinality(RepairReports(o)) + 1
    BY <1>1, <2>2, <2>3, OneMore
  <2>5. QED BY <2>4 DEF Balanced
<1>4. CASE o \notin Repairs(r)
  <2>1. RepairRows(o)' = RepairRows(o)
    BY <1>4 DEF CommitRun, RepairRows
  <2>2. RepairReports(o)' = RepairReports(o)
    BY <1>1, <1>2, <1>4 DEF RepairReports
  <2>3. QED BY <2>1, <2>2, BalanceKept
<1>5. QED BY <1>3, <1>4

LEMMA BalanceInit ==
  Init => \A o \in Orders : Balanced(o)
<1> SUFFICES ASSUME Init, NEW o \in Orders PROVE Balanced(o)
  OBVIOUS
<1>1. RepairRows(o) = {} /\ RepairReports(o) = {}
  BY DEF Init, TablesInit, ReconInit, RepairRows, RepairReports
<1>2. QED BY <1>1 DEF Balanced

LEMMA BalanceStep ==
  ASSUME LockInv, [Next]_vars, NEW o \in Orders, Balanced(o)
  PROVE  Balanced(o)'
<1>1. ASSUME NEW r \in Reconcilers, CommitRun(r) PROVE Balanced(o)'
  BY <1>1, RunBalances
<1>2. ASSUME \A r \in Reconcilers : ~CommitRun(r) PROVE runs' = runs
  BY <1>2, OtherStepsKeepRuns
<1>3. ASSUME NEW w \in Workers, CommitResult(w), runs' = runs PROVE Balanced(o)'
  BY <1>3, WorkerBalances
<1>4. CASE UNCHANGED <<history, runs>>
  BY <1>4, BalanceKept DEF RepairRows, RepairReports
<1>5. QED
  BY <1>1, <1>2, <1>3, <1>4
     DEF Next, IngestStep, Ingest, WorkerStep, WorkerNext, Claim, LockOrder,
         BusinessError, ScheduleRetry, SendToDlq, AbortTransaction, Crash, Restart,
         ReplayStep, ReplayNext, ReplaySelect, ReplayCommit, ReplayRefuse,
         ReplayAbort, ReconStep, ReconNext, FetchSnapshot, BeginRun, VisitOrder,
         AbortRun, ClockStep, Tick, vars, tables

(* The history of an order has exactly as many repairs as the committed    *)
(* runs report of it, whatever runs overlapped, failed or died between two *)
(* orders.                                                                 *)
THEOREM RepairsAreReported == Spec => []RunsExplainRepairs
<1> DEFINE Inv == LockInv /\ \A o \in Orders : Balanced(o)
<1>1. Init => Inv
  BY LockInit, BalanceInit
<1>2. Inv /\ [Next]_vars => Inv'
  <2> SUFFICES ASSUME Inv, [Next]_vars PROVE Inv'
    OBVIOUS
  <2>1. \A o \in Orders : Balanced(o)'
    BY BalanceStep
  <2>2. QED BY <2>1, LockStep
<1>3. Inv => RunsExplainRepairs
  BY DEF RunsExplainRepairs, Balanced
<1> HIDE DEF Inv
<1>4. QED BY <1>1, <1>2, <1>3, PTL DEF Spec

-----------------------------------------------------------------------------
(* An order is as the last run over it was told, or at a later sequence.   *)
AsTold(o, told) == orders[o].seq > told.seq \/ orders[o] = RepairedRow(told)

(* Between two runs an order stands still or goes forward.                 *)
LEMMA OnlyForward ==
  ASSUME LockInv, [Next]_vars, \A r \in Reconcilers : ~CommitRun(r),
         NEW o \in Orders
  PROVE  \/ orders'[o].seq > orders[o].seq
         \/ orders'[o] \in {orders[o], InsertOrderIfMissing(orders[o])}
<1>1. ASSUME NEW w \in Workers, CommitResult(w)
      PROVE  \/ orders'[o].seq > orders[o].seq
             \/ orders'[o] \in {orders[o], InsertOrderIfMissing(orders[o])}
  <2> DEFINE x == ClaimedOrder(w)
             row == InsertOrderIfMissing(orders[x])
             body == events[ClaimedEvent(w)].body
             result == Process(body, row)
  <2>1. x \in Orders /\ body \in Bodies /\ orders'[x] = result.order
    BY <1>1, CommitFacts
  <2>2. /\ orders \in [Orders -> OrderRow]
        /\ orders[x] \in OrderRow /\ row \in OrderRow /\ row.seq = orders[x].seq
    BY <2>1, InsertTypes DEF LockInv, TypeInv, TypeOK, InsertOrderIfMissing, OrderRow
  <2>3. body.seq \in Nat /\ orders[x].seq \in Nat
    BY <2>1, <2>2, BodyFacts DEF OrderRow
  <2>4. CASE o # x
    <3>1. orders'[o] = orders[o]
      BY <1>1, <2>2, <2>4 DEF CommitResult
    <3>2. QED BY <3>1
  <2>5. CASE o = x /\ body.type \in DOMAIN EventTypeToStatus /\ IsNewer(body, row)
    <3>1. result.order.seq = body.seq
      BY <2>2, <2>5 DEF Process, Applied, OrderRow
    <3>2. body.seq > orders[x].seq
      BY <2>2, <2>5 DEF IsNewer
    <3>3. QED BY <2>1, <2>5, <3>1, <3>2
  <2>6. CASE o = x /\ ~(body.type \in DOMAIN EventTypeToStatus /\ IsNewer(body, row))
    <3>1. result.order = row
      BY <2>6 DEF Process, Ignored
    <3>2. QED BY <2>1, <2>6, <3>1
  <2>7. QED BY <2>4, <2>5, <2>6
<1>2. CASE UNCHANGED orders
  BY <1>2
<1>3. QED
  BY <1>1, <1>2
     DEF Next, IngestStep, Ingest, WorkerStep, WorkerNext, Claim, LockOrder,
         BusinessError, ScheduleRetry, SendToDlq, AbortTransaction, Crash, Restart,
         ReplayStep, ReplayNext, ReplaySelect, ReplayCommit, ReplayRefuse,
         ReplayAbort, ReconStep, ReconNext, FetchSnapshot, BeginRun, VisitOrder,
         AbortRun, ClockStep, Tick, vars, tables

(* What a commit leaves of an order that the run has visited.              *)
LEMMA CommitLeavesAsTold ==
  ASSUME LockInv, NEW r \in Reconcilers, CommitRun(r), NEW o \in VisitedBy(r)
  PROVE  \/ orders'[o].seq > recon[r].snapshot.state[o].seq
         \/ orders'[o] = RepairedRow(recon[r].snapshot.state[o])
<1> DEFINE told == recon[r].snapshot.state[o]
<1>1. o \in Orders /\ told \in ProviderRow /\ orders[o] \in OrderRow
      /\ recon[r].seen[o] = orders[o]
  BY SeenFacts DEF LockInv, ReconReads, TypeInv, TypeOK
<1>2. told.seq \in Nat /\ orders[o].seq \in Nat
  BY <1>1 DEF ProviderRow, OrderRow
<1>3. o \in Repairs(r) <=> Verdict(orders[o], told) = "REPAIRED"
  BY <1>1 DEF Repairs, WithVerdict
<1>4. CASE o \in Repairs(r)
  <2>1. orders'[o] = RepairedRow(told)
    BY <1>1, <1>4 DEF CommitRun
  <2>2. QED BY <2>1
<1>5. CASE o \notin Repairs(r)
  <2>1. orders'[o] = InsertOrderIfMissing(orders[o])
    BY <1>1, <1>5 DEF CommitRun
  <2>2. orders'[o].seq = orders[o].seq
    BY <1>1, <2>1 DEF InsertOrderIfMissing, OrderRow
  <2>3. CASE told.seq < orders[o].seq
    BY <1>2, <2>2, <2>3
  <2>4. CASE ~(told.seq < orders[o].seq)
    <3>1. /\ orders[o].status = told.status
          /\ orders[o].seq = told.seq /\ orders[o].amount = told.amount
      BY <1>3, <1>5, <2>4 DEF Verdict
    <3>2. orders'[o] = RepairedRow(told)
      BY <1>1, <2>1, <3>1 DEF RepairedRow, InsertOrderIfMissing, OrderRow
    <3>3. QED BY <3>2
  <2>5. QED BY <2>3, <2>4
<1>6. QED BY <1>4, <1>5

LEMMA LastRunStep ==
  ASSUME LockInv, LastRunWins, [Next]_vars
  PROVE  LastRunWins'
<1> SUFFICES ASSUME NEW o \in Orders, NEW i \in RunsOver(o)',
                    \A j \in RunsOver(o)' : j <= i
             PROVE  AsTold(o, runs[i].provider[o])'
  BY DEF LastRunWins, AsTold
<1>1. runs \in Seq(Run) /\ orders[o] \in OrderRow /\ orders[o].seq \in Nat
  BY DEF LockInv, TypeInv, TypeOK, OrderRow
<1>2. ASSUME \A r \in Reconcilers : ~CommitRun(r)
      PROVE  AsTold(o, runs[i].provider[o])'
  <2>1. runs' = runs /\ i \in RunsOver(o)
    BY <1>2, OtherStepsKeepRuns DEF RunsOver
  <2>2. AsTold(o, runs[i].provider[o])
    BY <2>1, OtherStepsKeepRuns DEF LastRunWins, RunsOver, AsTold
  <2>3. runs[i].provider[o].seq \in Nat
    <3>1. runs[i] \in Run /\ runs[i].provider[o] # Null
      BY <1>1, <2>1 DEF RunsOver
    <3>2. runs[i].provider[o] \in ProviderRow
      BY <3>1 DEF Run
    <3>3. QED BY <3>2 DEF ProviderRow
  <2>4. orders'[o] \in OrderRow /\ orders'[o].seq \in Nat
    BY LockStep DEF LockInv, TypeInv, TypeOK, OrderRow
  <2>5. CASE orders'[o].seq > orders[o].seq
    <3>1. orders[o].seq >= runs[i].provider[o].seq
      BY <1>1, <2>2, <2>3 DEF AsTold, RepairedRow
    <3>2. QED BY <1>1, <2>1, <2>3, <2>4, <2>5, <3>1 DEF AsTold
  <2>6. CASE orders'[o] \in {orders[o], InsertOrderIfMissing(orders[o])}
    <3>1. orders'[o].seq = orders[o].seq
      BY <1>1, <2>6 DEF InsertOrderIfMissing, OrderRow
    <3>2. orders[o].exists => orders'[o] = orders[o]
      BY <1>1, <2>6 DEF InsertOrderIfMissing, OrderRow
    <3>3. QED BY <2>1, <2>2, <3>1, <3>2 DEF AsTold, RepairedRow
  <2>7. QED BY <1>2, <2>5, <2>6, OnlyForward
<1>3. ASSUME NEW r \in Reconcilers, CommitRun(r)
      PROVE  AsTold(o, runs[i].provider[o])'
  <2> DEFINE n == Len(runs) + 1
  <2>1. /\ DOMAIN runs' = 1 .. n
        /\ runs'[n].provider = ProviderRows(r)
        /\ \A j \in DOMAIN runs : runs'[j] = runs[j]
    BY <1>1, <1>3 DEF CommitRun
  <2>2. ProviderRows(r)[o] = IF o \in VisitedBy(r) THEN recon[r].snapshot.state[o]
                                                   ELSE Null
    BY DEF ProviderRows
  <2>3. CASE o \in VisitedBy(r)
    <3>1. recon[r].snapshot.state[o] # Null
      BY <2>3, SeenFacts, ReconciliationAssumption DEF LockInv
    <3>2. n \in RunsOver(o)'
      BY <1>1, <2>1, <2>2, <2>3, <3>1 DEF RunsOver
    <3>3. i = n
      BY <1>1, <2>1, <3>2 DEF RunsOver
    <3>4. runs'[i].provider[o] = recon[r].snapshot.state[o]
      BY <2>1, <2>2, <2>3, <3>3
    <3>5. QED BY <1>3, <2>3, <3>4, CommitLeavesAsTold DEF AsTold, RepairedRow
  <2>4. CASE o \notin VisitedBy(r)
    <3>1. n \notin RunsOver(o)'
      BY <2>1, <2>2, <2>4 DEF RunsOver
    <3>2. i \in RunsOver(o) /\ runs'[i] = runs[i]
      BY <1>1, <2>1, <3>1 DEF RunsOver
    <3>3. \A j \in RunsOver(o) : j <= i
      BY <1>1, <2>1 DEF RunsOver
    <3>4. orders'[o] = orders[o]
      BY <1>3, <2>4 DEF CommitRun, Repairs, WithVerdict
    <3>5. QED BY <3>2, <3>3, <3>4 DEF LastRunWins, AsTold, RepairedRow
  <2>5. QED BY <2>3, <2>4
<1>4. QED BY <1>2, <1>3

(* Whatever the number of requests and workers, the age of the snapshots   *)
(* and the order of the fetches, every order is as the last run over it    *)
(* was told, or at a later sequence.                                       *)
THEOREM LastRunHasLastWord == Spec => []LastRunWins
<1>1. Init => LastRunWins
  BY DEF Init, ReconInit, LastRunWins, RunsOver
<1>2. LockInv /\ LastRunWins /\ [Next]_vars => LastRunWins'
  BY LastRunStep
<1>3. QED BY LockInvariance, <1>1, <1>2, PTL DEF Spec

(* What the last run over an order was told is no reason to repair it: the *)
(* order is still so, or it has gone further and the provider is behind.   *)
LEMMA ToldAgainRepairsNothing ==
  ASSUME LockInv, LastRunWins, NEW r \in Reconcilers, CommitRun(r),
         NEW o \in VisitedBy(r), NEW i \in RunsOver(o),
         \A j \in RunsOver(o) : j <= i,
         recon[r].snapshot.state[o] = runs[i].provider[o]
  PROVE  o \notin Repairs(r)
<1> DEFINE told == recon[r].snapshot.state[o]
<1>1. /\ o \in Orders /\ told \in ProviderRow
      /\ orders[o] \in OrderRow /\ recon[r].seen[o] = orders[o]
  BY SeenFacts DEF LockInv, ReconReads, TypeInv, TypeOK
<1>2. told.seq \in Nat /\ orders[o].seq \in Nat
  BY <1>1 DEF ProviderRow, OrderRow
<1>3. orders[o].seq > told.seq \/ orders[o] = RepairedRow(told)
  BY <1>1 DEF LastRunWins
<1>4. CASE orders[o].seq > told.seq
  <2>1. Verdict(orders[o], told) = "STALE_PROVIDER_SNAPSHOT"
    BY <1>2, <1>4 DEF Verdict
  <2>2. QED BY <1>1, <2>1 DEF Repairs, WithVerdict
<1>5. CASE orders[o] = RepairedRow(told)
  <2>1. Verdict(orders[o], told) = "ALREADY_OK"
    BY <1>2, <1>5 DEF Verdict, RepairedRow
  <2>2. QED BY <1>1, <2>1 DEF Repairs, WithVerdict
<1>6. QED BY <1>3, <1>4, <1>5

LEMMA IdempotentStep ==
  ASSUME LockInv, LastRunWins, [Next]_vars, runs' # runs,
         NEW o \in Orders, NEW i \in RunsOver(o),
         \A j \in RunsOver(o) : j <= i,
         runs'[Len(runs')].provider[o] = runs[i].provider[o]
  PROVE  o \notin runs'[Len(runs')].repaired
<1>1. runs \in Seq(Run) /\ runs[i].provider[o] # Null
  BY DEF LockInv, TypeInv, TypeOK, RunsOver
<1>2. PICK r \in Reconcilers : CommitRun(r)
  BY OtherStepsKeepRuns
<1>3. runs'[Len(runs')].repaired = Repairs(r)
      /\ runs'[Len(runs')].provider = ProviderRows(r)
  BY <1>1, <1>2 DEF CommitRun, Repairs
<1>4. CASE o \in VisitedBy(r)
  <2>1. recon[r].snapshot.state[o] = runs[i].provider[o]
    BY <1>3, <1>4 DEF ProviderRows
  <2>2. QED BY <1>2, <1>3, <1>4, <2>1, ToldAgainRepairsNothing
<1>5. CASE o \notin VisitedBy(r)
  BY <1>3, <1>5 DEF Repairs, WithVerdict
<1>6. QED BY <1>4, <1>5

(* A run that is told what the last run over an order was told repairs     *)
(* nothing there.  It follows from the last word of the earlier run, for   *)
(* any steps of workers and of other runs in between, because a run        *)
(* commits what it still reads.                                            *)
THEOREM RepeatedRunChangesNothing == Spec => RunsAreIdempotent
<1> DEFINE Step == runs' # runs =>
             LET run == runs'[Len(runs')]
             IN  \A o \in Orders : \A i \in RunsOver(o) :
                   /\ \A j \in RunsOver(o) : j <= i
                   /\ run.provider[o] = runs[i].provider[o]
                   => o \notin run.repaired
<1>1. LockInv /\ LastRunWins /\ [Next]_vars => Step
  BY IdempotentStep
<1>2. LockInv /\ LastRunWins /\ [Next]_vars => [Step]_vars
  BY <1>1
<1>3. RunsAreIdempotent <=> [][Step]_vars
  BY DEF RunsAreIdempotent
<1> HIDE DEF Step
<1>4. QED BY LockInvariance, LastRunHasLastWord, <1>2, <1>3, PTL DEF Spec

-----------------------------------------------------------------------------
(* Agreement                                                               *)

(* Induction on finite sets: a collection of subsets has a smallest one.   *)
LEMMA SmallestSubset ==
  ASSUME NEW Q, IsFiniteSet(Q), NEW C \in SUBSET (SUBSET Q), C # {}
  PROVE  \E U \in C : \A V \in C : V \subseteq U => V = U
<1>1. C \subseteq FiniteSubsetsOf(Q)
  <2>1. ASSUME NEW U \in C
        PROVE  U \in SUBSET Q /\ IsFiniteSet(U)
    BY FS_Subset
  <2>2. QED BY <2>1 DEF FiniteSubsetsOf
<1>2. IsWellFoundedOn(StrictSubsetOrdering(Q), FiniteSubsetsOf(Q))
  BY FS_StrictSubsetOrderingWellFounded
<1>3. \E U \in C : \A V \in C : ~ (<<V, U>> \in StrictSubsetOrdering(Q))
  BY <1>1, <1>2, WFMin
<1>4. PICK U \in C : \A V \in C : <<V, U>> \notin StrictSubsetOrdering(Q)
  BY <1>3
<1>5. ASSUME NEW V \in C, V \subseteq U, V # U
      PROVE  FALSE
  <2>1. <<V, U>> \in StrictSubsetOrdering(Q)
    BY <1>5 DEF StrictSubsetOrdering
  <2>2. QED BY <1>4, <2>1
<1>6. QED BY <1>5

LEMMA LastIsTaken ==
  ASSUME TypeOK, NEW S \in SUBSET EventIds, IsFiniteSet(S), S # {}
  PROVE  LastTaken(S) \in S
<1> DEFINE After(e) == {f \in S : events[f].id > events[e].id}
           C == {After(e) : e \in S}
<1>1. \A e \in S : events[e].id \in Nat
  BY DEF TypeOK, EventRow
<1>2. C \in SUBSET (SUBSET S) /\ C # {}
  OBVIOUS
<1>3. PICK U \in C : \A V \in C : V \subseteq U => V = U
  <2> HIDE DEF C
  <2>1. QED BY <1>2, SmallestSubset
<1>4. PICK e \in S : U = After(e)
  BY <1>3
<1>5. ASSUME NEW f \in S, events[f].id > events[e].id
      PROVE  FALSE
  <2>1. After(f) \subseteq After(e) /\ f \in After(e) /\ f \notin After(f) /\ After(f) \in C
    BY <1>1, <1>5
  <2>2. QED BY <1>3, <1>4, <2>1
<1>6. \A f \in S : events[f].id <= events[e].id
  BY <1>1, <1>5
<1>7. QED BY <1>6 DEF LastTaken

(* What SingleWorkerRow computes for the sets up to S.                     *)
Computes(row, S) ==
  row = [taken \in SUBSET S |->
           IF taken = {} THEN NoOrderRow
           ELSE ProcessNext(LastTaken(taken), row[taken \ {LastTaken(taken)}])]

LEMMA ComputedAt ==
  ASSUME NEW row, NEW S, Computes(row, S), NEW T \in SUBSET S
  PROVE  row[T] = IF T = {} THEN NoOrderRow
                  ELSE ProcessNext(LastTaken(T), row[T \ {LastTaken(T)}])
<1> DEFINE value(r) ==
      [taken \in SUBSET S |->
         IF taken = {} THEN NoOrderRow
         ELSE ProcessNext(LastTaken(taken), r[taken \ {LastTaken(taken)}])]
<1>1. row = value(row)
  BY DEF Computes
<1>2. value(row)[T] = IF T = {} THEN NoOrderRow
                      ELSE ProcessNext(LastTaken(T), row[T \ {LastTaken(T)}])
  OBVIOUS
<1> HIDE DEF value
<1>3. QED BY <1>1, <1>2

(* Two such computations agree.                                            *)
LEMMA ComputedOnce ==
  ASSUME TypeOK, NEW S \in SUBSET EventIds, IsFiniteSet(S),
         NEW V \in SUBSET S, NEW W \in SUBSET S,
         NEW row, Computes(row, V), NEW other, Computes(other, W),
         NEW T \in SUBSET (V \intersect W)
  PROVE  row[T] = other[T]
<1> DEFINE C == {X \in SUBSET (V \intersect W) : row[X] # other[X]}
<1>1. SUFFICES ASSUME C # {} PROVE FALSE
  OBVIOUS
<1>2. C \in SUBSET (SUBSET S)
  OBVIOUS
<1>3. PICK U \in C : \A X \in C : X \subseteq U => X = U
  <2> HIDE DEF C
  <2>1. QED BY <1>1, <1>2, SmallestSubset
<1>4. /\ U \in SUBSET V /\ U \in SUBSET W /\ U \in SUBSET S /\ U \in SUBSET EventIds
      /\ row[U] # other[U]
  BY <1>3
<1>5. CASE U = {}
  BY <1>4, <1>5, ComputedAt
<1>6. CASE U # {}
  <2>1. LastTaken(U) \in U
    BY <1>4, <1>6, LastIsTaken, FS_Subset
  <2> DEFINE X == U \ {LastTaken(U)}
  <2>2. row[X] = other[X]
    BY <1>3, <1>4, <2>1
  <2>3. row[U] = ProcessNext(LastTaken(U), row[X])
    BY <1>4, <1>6, ComputedAt
  <2>4. other[U] = ProcessNext(LastTaken(U), other[X])
    BY <1>4, <1>6, ComputedAt
  <2> HIDE DEF X
  <2>5. QED BY <1>4, <2>2, <2>3, <2>4
<1>7. QED BY <1>5, <1>6

LEMMA ComputationExists ==
  ASSUME TypeOK, NEW S \in SUBSET EventIds, IsFiniteSet(S)
  PROVE  \E row : Computes(row, S)
<1> DEFINE C == {V \in SUBSET S : ~ \E row : Computes(row, V)}
<1>1. SUFFICES ASSUME C # {} PROVE FALSE
  OBVIOUS
<1>2. C \in SUBSET (SUBSET S)
  OBVIOUS
<1>3. PICK U \in C : \A V \in C : V \subseteq U => V = U
  <2> HIDE DEF C
  <2>1. QED BY <1>1, <1>2, SmallestSubset
<1> DEFINE below(V) == CHOOSE row : Computes(row, V)
           at(V) == below(V)[V]
           last == LastTaken(U)
           full == [T \in SUBSET U |->
                      IF T # U THEN at(T)
                      ELSE IF U = {} THEN NoOrderRow ELSE ProcessNext(last, at(U \ {last}))]
<1>4. U \in SUBSET S /\ ~ \E row : Computes(row, U)
  BY <1>3
<1>5. ASSUME NEW V \in SUBSET U, V # U
      PROVE  Computes(below(V), V)
  <2>1. \E row : Computes(row, V)
    BY <1>3, <1>4, <1>5
  <2>2. QED BY <2>1
<1> HIDE DEF below
<1>6. ASSUME NEW T \in SUBSET S, T # {}
      PROVE  LastTaken(T) \in T
  BY <1>6, LastIsTaken, FS_Subset
<1>7. ASSUME NEW T \in SUBSET U, T # U, T # {}
      PROVE  at(T) = ProcessNext(LastTaken(T), at(T \ {LastTaken(T)}))
  <2> DEFINE X == T \ {LastTaken(T)}
  <2>1. Computes(below(T), T)
    BY <1>5, <1>7
  <2>2. below(T)[T] = ProcessNext(LastTaken(T), below(T)[X])
    BY <1>7, <2>1, ComputedAt
  <2>3. X \in SUBSET T /\ X \in SUBSET U /\ X # U /\ T \in SUBSET S /\ X \in SUBSET S
    BY <1>4, <1>7
  <2> HIDE DEF X
  <2>4. Computes(below(X), X)
    BY <1>5, <2>3
  <2>5. below(T)[X] = below(X)[X]
    BY <2>1, <2>3, <2>4, ComputedOnce
  <2>6. QED BY <2>2, <2>5 DEF X
<1>8. at({}) = NoOrderRow \/ U = {}
  <2>1. CASE U # {}
    <3>1. Computes(below({}), {})
      BY <1>5, <2>1
    <3>2. QED BY <3>1, ComputedAt
  <2>2. QED BY <2>1
<1>9. ASSUME NEW T \in SUBSET U
      PROVE  full[T] = IF T = {} THEN NoOrderRow
                       ELSE ProcessNext(LastTaken(T), full[T \ {LastTaken(T)}])
  <2> DEFINE X == T \ {LastTaken(T)}
  <2>1. T # {} => X \in SUBSET U /\ X # U
    BY <1>4, <1>6
  <2> HIDE DEF at, X
  <2>2. T # {} => full[X] = at(X)
    BY <2>1
  <2>3. CASE T = {}
    BY <1>8, <2>3
  <2>4. CASE T # {} /\ T # U
    <3>1. full[T] = at(T)
      BY <2>4
    <3>2. at(T) = ProcessNext(LastTaken(T), at(X))
      BY <1>7, <2>4 DEF X
    <3> HIDE DEF full
    <3>3. QED BY <2>2, <2>4, <3>1, <3>2 DEF X
  <2>5. CASE T # {} /\ T = U
    <3>1. full[T] = ProcessNext(LastTaken(T), at(X))
      BY <2>5 DEF X
    <3> HIDE DEF full
    <3>2. QED BY <2>2, <2>5, <3>1 DEF X
  <2>6. QED BY <2>3, <2>4, <2>5
<1>10. full = [T \in SUBSET U |->
                 IF T = {} THEN NoOrderRow
                 ELSE ProcessNext(LastTaken(T), full[T \ {LastTaken(T)}])]
  <2>1. full = [T \in SUBSET U |-> full[T]]
    OBVIOUS
  <2> HIDE DEF full
  <2>2. QED BY <1>9, <2>1
<1> HIDE DEF full
<1>11. Computes(full, U)
  BY <1>10 DEF Computes
<1>12. QED BY <1>4, <1>11

LEMMA SingleWorkerComputes ==
  ASSUME TypeOK, NEW o, IsFiniteSet(QueueOf(o))
  PROVE  \E row : Computes(row, QueueOf(o)) /\ SingleWorkerRow(o) = row[QueueOf(o)]
<1> DEFINE S == QueueOf(o)
           computed == CHOOSE row : Computes(row, S)
<1>1. S \in SUBSET EventIds
  BY DEF QueueOf, Stored
<1>2. \E row : Computes(row, S)
  <2> HIDE DEF S
  <2>1. QED BY <1>1, ComputationExists DEF S
<1>3. Computes(computed, S)
  BY <1>2
<1>4. SingleWorkerRow(o) = computed[S]
  BY DEF SingleWorkerRow, Computes
<1>5. QED BY <1>3, <1>4

(* A row that is as the newest of the events in S left it.                 *)
Sets(e, row) ==
  /\ events[e].body.seq = row.seq
  /\ row.status = EventTypeToStatus[events[e].body.type]

Follows(S, row) ==
  \/ row.seq = 0 /\ row.status = "pending"
  \/ row.seq > 0 /\ \E e \in S : Sets(e, row)

Leads(S, row) ==
  /\ \A e \in S : events[e].body.seq <= row.seq
  /\ Follows(S, row)

LEMMA QueueFacts ==
  ASSUME TypeInv, KnownTypes, NEW o, NEW e \in QueueOf(o)
  PROVE  /\ e \in EventIds /\ events[e].body \in Bodies
         /\ events[e].body.event = e /\ events[e].body.order = o
         /\ events[e].body.seq \in Nat
         /\ events[e].body.type \in DOMAIN EventTypeToStatus
<1>1. e \in Stored /\ events[e].body.order = o
  BY DEF QueueOf
<1>2. events[e].body \in Bodies /\ events[e].body.event = e /\ e \in EventIds
  BY <1>1 DEF TypeInv, ControlOK, BodiesOK, Stored
<1>3. events[e].body.type \in AllowedEventTypes
  BY <1>1 DEF KnownTypes
<1>4. DOMAIN EventTypeToStatus = AllowedEventTypes
  BY DEF EventTypeToStatus, AllowedEventTypes
<1>5. QED BY <1>1, <1>2, <1>3, <1>4, BodyFacts

(* One event more.                                                         *)
LEMMA NextLeads ==
  ASSUME TypeInv, KnownTypes, NEW o, NEW e \in QueueOf(o),
         NEW S \in SUBSET QueueOf(o), NEW row \in OrderRow, Leads(S, row)
  PROVE  /\ ProcessNext(e, row) \in OrderRow
         /\ Leads(S \union {e}, ProcessNext(e, row))
<1> DEFINE body == events[e].body
           before == InsertOrderIfMissing(row)
           next == ProcessNext(e, row)
<1>1. /\ body \in Bodies /\ body.seq \in Nat
      /\ body.type \in DOMAIN EventTypeToStatus
  BY QueueFacts
<1>2. /\ before \in OrderRow /\ before.seq = row.seq /\ before.status = row.status
      /\ row.seq \in Nat
  BY InsertTypes DEF InsertOrderIfMissing, OrderRow
<1>3. next \in OrderRow
  BY <1>1, <1>2, ProcessTypes DEF ProcessNext
<1>4. \A f \in S : events[f].body.seq \in Nat
  BY QueueFacts
<1> HIDE DEF before
<1>5. CASE body.seq > row.seq
  <2>1. next.seq = body.seq /\ next.status = EventTypeToStatus[body.type]
    BY <1>1, <1>2, <1>5 DEF ProcessNext, Process, IsNewer, Applied, OrderRow, before
  <2> HIDE DEF next, body
  <2>2. next.seq > 0 /\ Sets(e, next)
    BY <1>1, <1>2, <1>5, <2>1 DEF Sets, body
  <2>3. \A f \in S \union {e} : events[f].body.seq <= next.seq
    BY <1>1, <1>2, <1>4, <1>5, <2>1 DEF Leads, body
  <2>4. Leads(S \union {e}, next)
    BY <2>2, <2>3 DEF Leads, Follows
  <2>5. QED BY <1>3, <2>4 DEF next
<1>6. CASE ~(body.seq > row.seq)
  <2>1. next = before
    BY <1>1, <1>2, <1>6 DEF ProcessNext, Process, IsNewer, Ignored, before
  <2> HIDE DEF next, body
  <2>2. next.seq = row.seq /\ next.status = row.status
    BY <1>2, <2>1
  <2>3. \A f \in S \union {e} : events[f].body.seq <= next.seq
    BY <1>1, <1>2, <1>6, <2>2 DEF Leads, body
  <2>4. Follows(S \union {e}, next)
    BY <2>2 DEF Leads, Follows, Sets
  <2>5. QED BY <1>3, <2>3, <2>4 DEF Leads, next
<1>7. QED BY <1>5, <1>6

(* Whatever set of accepted events has been taken, in queue order.         *)
LEMMA ComputationLeads ==
  ASSUME TypeInv, KnownTypes, NEW o, IsFiniteSet(QueueOf(o)),
         NEW row, Computes(row, QueueOf(o)), NEW S \in SUBSET QueueOf(o)
  PROVE  row[S] \in OrderRow /\ Leads(S, row[S])
<1> DEFINE Q == QueueOf(o)
           Good(T) == row[T] \in OrderRow /\ Leads(T, row[T])
           C == {T \in SUBSET Q : ~Good(T)}
<1>1. SUFFICES ASSUME C # {} PROVE FALSE
  OBVIOUS
<1>2. PICK U \in C : \A V \in C : V \subseteq U => V = U
  <2>1. C \in SUBSET (SUBSET Q) /\ IsFiniteSet(Q)
    OBVIOUS
  <2> HIDE DEF C, Q
  <2>2. QED BY <1>1, <2>1, SmallestSubset
<1>3. U \in SUBSET Q /\ ~Good(U)
  BY <1>2
<1>4. CASE U = {}
  <2>1. row[{}] = NoOrderRow
    BY ComputedAt
  <2>2. NoOrderRow \in OrderRow
    BY DEF NoOrderRow, OrderRow, OrderStatuses, Amount
  <2>3. Leads({}, NoOrderRow)
    BY DEF Leads, Follows, NoOrderRow
  <2>4. QED BY <1>3, <1>4, <2>1, <2>2, <2>3
<1>5. CASE U # {}
  <2> DEFINE last == LastTaken(U)
             X == U \ {last}
  <2>1. Q \in SUBSET EventIds /\ U \in SUBSET EventIds /\ IsFiniteSet(U)
    BY <1>3, FS_Subset DEF QueueOf, Stored
  <2>2. last \in U
    BY <1>5, <2>1, LastIsTaken DEF TypeInv
  <2>3. row[U] = ProcessNext(last, row[X])
    BY <1>3, <1>5, ComputedAt
  <2>4. X \in SUBSET Q /\ X \subseteq U /\ X # U /\ U = X \union {last} /\ last \in Q
    BY <1>3, <2>2
  <2> HIDE DEF X, last
  <2>5. Good(X)
    BY <1>2, <2>4
  <2>6. /\ ProcessNext(last, row[X]) \in OrderRow
        /\ Leads(X \union {last}, ProcessNext(last, row[X]))
    BY <2>4, <2>5, NextLeads
  <2>7. QED BY <1>3, <2>3, <2>4, <2>6
<1>6. QED BY <1>4, <1>5

(* Only finitely many events are stored, though EventIds need not be       *)
(* finite: a step stores at most one more.                                 *)
LEMMA OneMoreIsFinite ==
  ASSUME NEW S, NEW x, NEW T, IsFiniteSet(S), T \subseteq S \union {x}
  PROVE  IsFiniteSet(T)
<1>1. IsFiniteSet(S \union {x})
  BY FS_AddElement
<1>2. QED BY <1>1, FS_Subset

LEMMA OneMoreStored ==
  ASSUME LockInv, [Next]_vars
  PROVE  \E e : Stored' \subseteq Stored \union {e}
<1>0. events \in [EventIds -> EventRow]
  BY DEF LockInv, TypeInv, TypeOK
<1>1. CASE IngestStep
  <2>1. PICK b \in Bodies, isStale \in BOOLEAN : Ingest(b, isStale)
    BY <1>1 DEF IngestStep
  <2>2. \A f \in EventIds \ {b.event} : events'[f] = events[f]
    BY <1>0, <2>1, BodyFacts DEF Ingest
  <2>3. QED BY <2>2 DEF Stored
<1>2. CASE ~IngestStep
  <2>1. ASSUME NEW e \in EventIds, events[e].status = "ABSENT"
        PROVE  events'[e].status = "ABSENT"
    <3>1. Proceeds(events[e], events'[e])
      BY <1>2, RowProceeds
    <3>2. QED
      BY <1>0, <2>1, <3>1
         DEF Proceeds, ComesCloser, Settled, Rescheduled, GivenUp, EventRow, Waiting
  <2>2. QED BY <2>1 DEF Stored
<1>3. QED BY <1>1, <1>2

(* Without reconciliations an order is as the event it took over last left *)
(* it, and that event stays decided.                                       *)
DecidedFor(o) == {e \in EventIds : Decided(e) /\ events[e].body.order = o}

OrdersFollow == \A o \in Orders : Follows(DecidedFor(o), orders[o])

LEMMA FollowStep ==
  ASSUME LockInv, KnownTypes, OrdersFollow, [Next]_vars,
         \A r \in Reconcilers : ~CommitRun(r)
  PROVE  OrdersFollow'
<1> SUFFICES ASSUME NEW o \in Orders
             PROVE  Follows(DecidedFor(o), orders[o])'
  BY DEF OrdersFollow
<1>0. /\ orders \in [Orders -> OrderRow] /\ orders[o] \in OrderRow
      /\ Follows(DecidedFor(o), orders[o])
  BY DEF LockInv, TypeInv, TypeOK, OrdersFollow
<1>1. ASSUME \A e \in DecidedFor(o) : /\ e \in DecidedFor(o)'
                                      /\ events'[e].body = events[e].body,
             orders'[o].seq = orders[o].seq, orders'[o].status = orders[o].status
      PROVE  Follows(DecidedFor(o), orders[o])'
  BY <1>0, <1>1 DEF Follows, Sets
<1>2. ASSUME NEW w \in Workers, CommitResult(w)
      PROVE  Follows(DecidedFor(o), orders[o])'
  <2> PICK c \in EventIds, x \in Orders, body \in Bodies :
        c = ClaimedEvent(w) /\ x = ClaimedOrder(w) /\ body = events[c].body
    BY <1>2, CommitFacts
  <2> DEFINE row == InsertOrderIfMissing(orders[x])
             result == Process(body, row)
  <2>1. /\ body.order = x /\ events[c].status \in Waiting
        /\ \A f \in EventIds \ {c} : events'[f] = events[f]
        /\ events'[c].status = result.outcome
        /\ events'[c].body = body
        /\ orders'[x] = result.order
    BY <1>2, CommitFacts
  <2>2. \A e \in DecidedFor(o) : e \in DecidedFor(o)' /\ events'[e] = events[e]
    <3>1. ~Decided(c)
      BY <2>1 DEF Decided, Waiting
    <3>2. QED BY <2>1, <3>1 DEF DecidedFor, Decided
  <2>3. body.type \in DOMAIN EventTypeToStatus
    <3>1. body.type \in AllowedEventTypes
      BY <2>1 DEF KnownTypes, Stored, Waiting
    <3>2. QED BY <3>1 DEF AllowedEventTypes, EventTypeToStatus
  <2>4. /\ row \in OrderRow /\ row.seq = orders[x].seq /\ row.status = orders[x].status
        /\ row.seq \in Nat /\ body.seq \in Nat
    BY <1>0, InsertTypes, BodyFacts DEF InsertOrderIfMissing, OrderRow
  <2> HIDE DEF row
  <2>5. CASE o # x
    <3>1. orders'[o] = orders[o]
      BY <1>0, <1>2, <2>5 DEF CommitResult
    <3>2. QED BY <1>1, <2>2, <3>1
  <2>6. CASE o = x /\ IsNewer(body, row)
    <3>1. /\ result.order.seq = body.seq
          /\ result.order.status = EventTypeToStatus[body.type]
          /\ result.outcome = "APPLIED"
      BY <2>3, <2>4, <2>6 DEF Process, Applied, OrderRow
    <3>2. orders'[o].seq > 0
      BY <2>1, <2>4, <2>6, <3>1 DEF IsNewer
    <3> HIDE DEF result
    <3>3. c \in DecidedFor(o)' /\ Sets(c, orders[o])'
      BY <2>1, <2>6, <3>1 DEF DecidedFor, Decided, Sets
    <3>4. QED BY <3>2, <3>3 DEF Follows
  <2>7. CASE o = x /\ ~IsNewer(body, row)
    <3>1. result.order = row
      BY <2>3, <2>7 DEF Process, Ignored
    <3>2. QED BY <1>1, <2>1, <2>2, <2>4, <2>7, <3>1
  <2>8. QED BY <2>5, <2>6, <2>7
<1>3. CASE \A w \in Workers : ~CommitResult(w)
  <2>1. UNCHANGED orders
    BY <1>3
       DEF Next, IngestStep, Ingest, WorkerStep, WorkerNext, Claim, LockOrder,
           BusinessError, ScheduleRetry, SendToDlq, AbortTransaction, Crash, Restart,
           ReplayStep, ReplayNext, ReplaySelect, ReplayCommit, ReplayRefuse,
           ReplayAbort, ReconStep, ReconNext, FetchSnapshot, BeginRun, VisitOrder,
           AbortRun, ClockStep, Tick, vars, tables
  <2>2. \A e \in DecidedFor(o) : /\ e \in DecidedFor(o)'
                                 /\ events'[e].body = events[e].body
    BY <1>3, OtherStepsUndecisive DEF Undecisive, DecidedFor
  <2>3. QED BY <1>1, <2>1, <2>2
<1>4. QED BY <1>2, <1>3

(* What had an effect was not too old.                                     *)
AppliedInTime ==
  \A e \in EventIds :
    events[e].status = "APPLIED" => events[e].reason # "STALE_TIMESTAMP"

LEMMA InTimeStep ==
  ASSUME LockInv, AppliedInTime, [Next]_vars
  PROVE  AppliedInTime'
<1>1. ASSUME NEW e \in EventIds, events'[e].status = "APPLIED"
      PROVE  events'[e].reason # "STALE_TIMESTAMP"
  <2>1. Moves(events[e], events'[e])
    BY RowMoves
  <2>2. events[e] \in EventRow
    BY DEF LockInv, TypeInv, TypeOK
  <2>3. QED
    BY <1>1, <2>1, <2>2
       DEF AppliedInTime, Moves, Inserted, Recounted, Proceeds, ComesCloser, Settled,
           Rescheduled, GivenUp, Revived, EventRow
<1>2. QED BY <1>1 DEF AppliedInTime

FollowInv == EffectInv /\ IsFiniteSet(Stored) /\ OrdersFollow /\ AppliedInTime

LEMMA FollowInvariance == ASSUME Reconcilers = {} PROVE Spec => []FollowInv
<1>1. Init => FollowInv
  <2> SUFFICES ASSUME Init
               PROVE  IsFiniteSet(Stored) /\ OrdersFollow /\ AppliedInTime
    BY EffectInit DEF FollowInv
  <2>1. Stored = {}
    BY DEF Init, TablesInit, NoEventRow, Stored
  <2>2. OrdersFollow
    BY DEF Init, TablesInit, NoOrderRow, OrdersFollow, Follows
  <2>3. AppliedInTime
    BY DEF Init, TablesInit, NoEventRow, AppliedInTime
  <2>4. QED BY <2>1, <2>2, <2>3, FS_EmptySet
<1>2. FollowInv /\ [Next]_vars => FollowInv'
  <2> SUFFICES ASSUME FollowInv, [Next]_vars PROVE FollowInv'
    OBVIOUS
  <2>1. IsFiniteSet(Stored')
    BY OneMoreStored, OneMoreIsFinite DEF FollowInv, EffectInv
  <2>2. OrdersFollow'
    BY FollowStep DEF FollowInv, EffectInv
  <2>3. QED BY <2>1, <2>2, InTimeStep, EffectStep DEF FollowInv, EffectInv
<1>3. QED BY <1>1, <1>2, PTL DEF Spec

OneEventPerSequence ==
  \A b, c \in Bodies : b.order = c.order /\ b.seq = c.seq => b.event = c.event

(* Two rows that the events of one queue lead to agree.                    *)
LEMMA LeadersAgree ==
  ASSUME OneEventPerSequence, TypeInv, KnownTypes, NEW o,
         NEW row \in OrderRow, Leads(QueueOf(o), row),
         NEW other \in OrderRow, Leads(QueueOf(o), other)
  PROVE  row.status = other.status /\ row.seq = other.seq
<1>1. row.seq \in Nat /\ other.seq \in Nat
  BY DEF OrderRow
<1>2. \A e \in QueueOf(o) : events[e].body.seq \in Nat
  BY QueueFacts
<1>3. row.seq <= other.seq /\ other.seq <= row.seq
  BY <1>1, <1>2 DEF Leads, Follows, Sets
<1>4. row.seq = other.seq
  BY <1>1, <1>3
<1>5. CASE row.seq = 0
  BY <1>4, <1>5 DEF Leads, Follows
<1>6. CASE row.seq > 0
  <2>1. PICK e \in QueueOf(o) : Sets(e, row)
    BY <1>6 DEF Leads, Follows
  <2>2. PICK f \in QueueOf(o) : Sets(f, other)
    BY <1>4, <1>6 DEF Leads, Follows
  <2>3. events[e].body.seq = events[f].body.seq
    BY <1>4, <2>1, <2>2 DEF Sets
  <2>4. /\ events[e].body \in Bodies /\ events[f].body \in Bodies
        /\ events[e].body.order = o /\ events[f].body.order = o
        /\ events[e].body.event = e /\ events[f].body.event = f
    BY QueueFacts
  <2>5. e = f
    BY <2>3, <2>4 DEF OneEventPerSequence
  <2>6. QED BY <1>4, <2>1, <2>2, <2>5 DEF Sets
<1>7. QED BY <1>1, <1>5, <1>6

(* When the queue is empty, status and sequence of every order are those   *)
(* that a single worker reaches on the same events, however many workers   *)
(* took part and in whatever order they committed, provided no two events  *)
(* of an order share a sequence and nothing is reconciled (DECISIONS.md    *)
(* 27-30).                                                                 *)
THEOREM WorkersDoNotMatter ==
  ASSUME Reconcilers = {}, OneEventPerSequence
  PROVE  Spec => []StatusIndependentOfWorkers
<1>1. FollowInv => StatusIndependentOfWorkers
  <2> SUFFICES ASSUME FollowInv, Quiescent, NEW o \in Orders
               PROVE  /\ orders[o].status = SingleWorkerRow(o).status
                      /\ orders[o].seq    = SingleWorkerRow(o).seq
    BY DEF StatusIndependentOfWorkers
  <2>1. TypeInv /\ TypeOK /\ KnownTypes
    BY DEF FollowInv, EffectInv, LockInv, TypeInv
  <2>2. IsFiniteSet(QueueOf(o))
    BY FS_Subset DEF FollowInv, QueueOf
  <2>3. PICK row : Computes(row, QueueOf(o)) /\ SingleWorkerRow(o) = row[QueueOf(o)]
    BY <2>1, <2>2, SingleWorkerComputes
  <2>4. /\ SingleWorkerRow(o) \in OrderRow
        /\ Leads(QueueOf(o), SingleWorkerRow(o))
    BY <2>1, <2>2, <2>3, ComputationLeads
  <2>5. QueueOf(o) = DecidedFor(o)
    <3>1. \A e \in EventIds : events[e].status \in {"ABSENT", "APPLIED", "IGNORED"}
      BY DEF Quiescent
    <3>2. QED BY <3>1 DEF FollowInv, AppliedInTime, QueueOf, DecidedFor, Decided, Stored
  <2>6. orders[o] \in OrderRow /\ Follows(QueueOf(o), orders[o])
    BY <2>1, <2>5 DEF TypeOK, FollowInv, OrdersFollow
  <2>7. \A e \in QueueOf(o) : events[e].body.seq <= orders[o].seq
    <3>1. ASSUME NEW e \in QueueOf(o)
          PROVE  events[e].body.seq <= orders[o].seq
      <4>1. orders[o].seq >= events[e].body.seq
        BY <2>5 DEF FollowInv, EffectInv, NothingNewerLost, DecidedFor
      <4>2. orders[o].seq \in Nat /\ events[e].body.seq \in Nat
        BY <2>1, <2>6, QueueFacts DEF OrderRow
      <4>3. QED BY <4>1, <4>2
    <3>2. QED BY <3>1
  <2>8. Leads(QueueOf(o), orders[o])
    BY <2>6, <2>7 DEF Leads
  <2>9. QED BY <2>1, <2>4, <2>6, <2>8, LeadersAgree
<1>2. QED BY FollowInvariance, <1>1, PTL

-----------------------------------------------------------------------------
(* A reconciliation that is running has visited the orders of its snapshot *)
(* that are no longer to do.                                               *)
Listed(o, list) == \E i \in DOMAIN list : list[i] = o

Progress(r) ==
  /\ recon[r].pc = "fetched" => recon[r].todo = recon[r].snapshot.list
  /\ recon[r].pc = "running" =>
       \A o \in Orders :
         Listed(o, recon[r].snapshot.list) <=>
           o \in VisitedBy(r) \/ Listed(o, recon[r].todo)

ProgressOK == \A r \in Reconcilers : Progress(r)

-----------------------------------------------------------------------------
LEMMA ProgressInit == Init => ProgressOK
BY DEF Init, ProgressOK, Progress, ReconInit, NoRecon

(* Taking the head off a list leaves it listed only once.                  *)
LEMMA HeadAndTail ==
  ASSUME NEW S, NEW list \in Seq(S), list # << >>, NEW o
  PROVE  Listed(o, list) <=> o = Head(list) \/ Listed(o, Tail(list))
<1>1. ASSUME NEW i \in DOMAIN list, list[i] = o
      PROVE  o = Head(list) \/ Listed(o, Tail(list))
  <2>1. CASE i = 1
    BY <1>1, <2>1
  <2>2. CASE i # 1
    <3>1. i - 1 \in DOMAIN Tail(list) /\ Tail(list)[i - 1] = o
      BY <1>1, <2>2
    <3>2. QED BY <3>1 DEF Listed
  <2>3. QED BY <2>1, <2>2
<1>2. ASSUME NEW i \in DOMAIN Tail(list), Tail(list)[i] = o
      PROVE  Listed(o, list)
  <2>1. i + 1 \in DOMAIN list /\ list[i + 1] = o
    BY <1>2
  <2>2. QED BY <2>1 DEF Listed
<1>3. o = Head(list) => Listed(o, list)
  <2>1. 1 \in DOMAIN list /\ list[1] = Head(list)
    OBVIOUS
  <2>2. QED BY <2>1 DEF Listed
<1>4. QED BY <1>1, <1>2, <1>3 DEF Listed

LEMMA ProgressStep ==
  ASSUME LockInv, ProgressOK, [Next]_vars
  PROVE  ProgressOK'
<1>1. CASE UNCHANGED recon
  BY <1>1 DEF ProgressOK, Progress, VisitedBy
<1>2. ASSUME NEW r \in Reconcilers, ReconStep(r)
      PROVE  ProgressOK'
  <2>0. /\ \A q \in Reconcilers \ {r} : recon'[q] = recon[q]
        /\ recon \in [Reconcilers -> ReconState] /\ recon[r] \in ReconState
        /\ orders \in [Orders -> OrderRow]
    BY <1>2 DEF ReconStep, ReconNext, FetchSnapshot, BeginRun, VisitOrder, CommitRun,
                AbortRun, EndRun, LockInv, TypeInv, TypeOK
  <2>1. Progress(r)'
    <3>1. ASSUME NEW s \in Snapshots, FetchSnapshot(r, s)
          PROVE  Progress(r)'
      <4>1. recon'[r].pc = "fetched" /\ recon'[r].todo = s.list
            /\ recon'[r].snapshot = s
        BY <2>0, <3>1 DEF FetchSnapshot, ReconState
      <4>2. QED BY <4>1 DEF Progress
    <3>2. CASE BeginRun(r)
      <4>1. /\ recon[r].pc = "fetched" /\ recon'[r].pc = "running"
            /\ recon'[r].todo = recon[r].todo
            /\ recon'[r].snapshot = recon[r].snapshot
            /\ recon'[r].seen = recon[r].seen
        BY <2>0, <3>2 DEF BeginRun, ReconState
      <4>2. VisitedBy(r) = {} /\ VisitedBy(r)' = VisitedBy(r)
        BY <4>1 DEF VisitedBy, LockInv, TypeInv, ControlOK, ReconsOK
      <4>3. recon[r].todo = recon[r].snapshot.list
        BY <4>1 DEF ProgressOK, Progress
      <4>4. QED BY <4>1, <4>2, <4>3 DEF Progress
    <3>3. CASE VisitOrder(r)
      <4> PICK x \in Orders : x = Head(recon[r].todo)
        BY <2>0, <3>3 DEF VisitOrder, ReconState
      <4>1. /\ recon[r].pc = "running" /\ recon'[r].pc = "running"
            /\ recon[r].todo # << >> /\ recon'[r].todo = Tail(recon[r].todo)
            /\ recon'[r].snapshot = recon[r].snapshot
            /\ recon'[r].seen = [recon[r].seen EXCEPT ![x] = orders[x]]
        BY <2>0, <3>3 DEF VisitOrder, ReconState
      <4>2. orders[x] # Null
        BY <2>0, TablesAssumption
      <4>3. \A o \in Orders : o \in VisitedBy(r)' <=> o \in VisitedBy(r) \/ o = x
        BY <2>0, <4>1, <4>2 DEF VisitedBy, ReconState
      <4>4. recon[r].todo \in Seq(Orders)
        BY <2>0 DEF ReconState
      <4>5. \A o \in Orders :
              Listed(o, recon[r].todo) <=> o = x \/ Listed(o, recon'[r].todo)
        BY <4>1, <4>4, HeadAndTail
      <4>6. \A o \in Orders :
              Listed(o, recon[r].snapshot.list) <=>
                o \in VisitedBy(r) \/ Listed(o, recon[r].todo)
        BY <4>1 DEF ProgressOK, Progress
      <4>7. \A o \in Orders :
              Listed(o, recon'[r].snapshot.list) <=>
                o \in VisitedBy(r)' \/ Listed(o, recon'[r].todo)
        BY <4>1, <4>3, <4>5, <4>6
      <4>8. QED BY <4>1, <4>7 DEF Progress, Listed
    <3>4. CASE CommitRun(r) \/ AbortRun(r)
      <4>1. recon'[r].pc = "idle"
        BY <2>0, <3>4 DEF CommitRun, AbortRun, EndRun, NoRecon
      <4>2. QED BY <4>1 DEF Progress
    <3>5. QED BY <1>2, <3>1, <3>2, <3>3, <3>4 DEF ReconStep, ReconNext
  <2>2. QED BY <2>0, <2>1 DEF ProgressOK, Progress, VisitedBy
<1>3. QED
  BY <1>1, <1>2 DEF Next, IngestStep, WorkerStep, ReplayStep, ClockStep, vars,
                    reconVars

-----------------------------------------------------------------------------
(* The metrics                                                             *)

(* What is counted is finite, though EventIds need not be.  An event that  *)
(* was ignored as out of order stays ignored.                              *)
CountedOK ==
  /\ IsFiniteSet(Stored)
  /\ IsFiniteSet(DeliveriesWith(DeliveryResults))
  /\ \A e \in EventIds : events[e].reason = "STALE_SEQUENCE" => events[e].status = "IGNORED"

CountInv == LockInv /\ CountedOK

LEMMA MoreIsNotLess ==
  ASSUME NEW S, NEW T, S \subseteq T, IsFiniteSet(T)
  PROVE  /\ Cardinality(S) \in Nat /\ Cardinality(T) \in Nat
         /\ Cardinality(T) >= Cardinality(S)
<1>1. IsFiniteSet(S) /\ Cardinality(S) <= Cardinality(T)
  BY FS_Subset
<1>2. Cardinality(S) \in Nat /\ Cardinality(T) \in Nat
  BY <1>1, FS_CardinalityType
<1>3. QED BY <1>1, <1>2

LEMMA DeliveryRow ==
  ASSUME NEW results, NEW x
  PROVE  x \in DeliveriesWith(results) <=>
           \E p \in EventIds \X results :
             \E k \in 1 .. deliveries[p[1]][p[2]] : x = <<p, k>>
<1>1. x \in DeliveriesWith(results) <=>
        \E p \in EventIds \X results : x \in {p} \X (1 .. deliveries[p[1]][p[2]])
  BY DEF DeliveriesWith
<1>2. ASSUME NEW p, NEW K
      PROVE  x \in {p} \X K <=> \E k \in K : x = <<p, k>>
  OBVIOUS
<1>3. QED BY <1>1, <1>2

(* A delivery adds one row to the log.                                     *)
LEMMA LogGrows ==
  ASSUME LockInv, [Next]_vars
  PROVE  /\ \A results \in SUBSET DeliveryResults :
              DeliveriesWith(results) \subseteq DeliveriesWith(results)'
         /\ \E x : DeliveriesWith(DeliveryResults)' \subseteq
                     DeliveriesWith(DeliveryResults) \union {x}
<1>1. CASE IngestStep
  <2>1. PICK b \in Bodies, isStale \in BOOLEAN : Ingest(b, isStale)
    BY <1>1 DEF IngestStep
  <2> DEFINE e == b.event
             r == DeliveryResult(Upsert(b, isStale), b, isStale)
             n == deliveries[e][r]
  <2>2. /\ e \in EventIds
        /\ deliveries \in [EventIds -> [DeliveryResults -> Nat]]
    BY BodyFacts DEF LockInv, TypeInv, TypeOK
  <2>3. r \in DeliveryResults
    BY DEF DeliveryResult, DeliveryResults
  <2>4. deliveries' = [deliveries EXCEPT ![e][r] = n + 1]
    BY <2>1 DEF Ingest
  <2> HIDE DEF e, r
  <2>5. /\ n \in Nat /\ deliveries'[e][r] = n + 1
        /\ \A f \in EventIds, q \in DeliveryResults :
             <<f, q>> # <<e, r>> => deliveries'[f][q] = deliveries[f][q]
    BY <2>2, <2>3, <2>4
  <2> HIDE DEF n
  <2>6. ASSUME NEW p \in EventIds \X DeliveryResults
        PROVE  /\ 1 .. deliveries[p[1]][p[2]] \subseteq 1 .. deliveries'[p[1]][p[2]]
               /\ \A k \in 1 .. deliveries'[p[1]][p[2]] :
                    k \in 1 .. deliveries[p[1]][p[2]] \/ <<p, k>> = <<<<e, r>>, n + 1>>
    <3>1. PICK f \in EventIds, q \in DeliveryResults : p = <<f, q>>
      OBVIOUS
    <3>2. CASE <<f, q>> = <<e, r>>
      BY <2>5, <3>1, <3>2 DEF n
    <3>3. CASE <<f, q>> # <<e, r>>
      BY <2>5, <3>1, <3>3
    <3>4. QED BY <3>2, <3>3
  <2>7. ASSUME NEW results \in SUBSET DeliveryResults
        PROVE  DeliveriesWith(results) \subseteq DeliveriesWith(results)'
    BY <2>6 DEF DeliveriesWith
  <2>8. DeliveriesWith(DeliveryResults)' \subseteq
          DeliveriesWith(DeliveryResults) \union {<<<<e, r>>, n + 1>>}
    BY <2>6 DEF DeliveriesWith
  <2>9. QED BY <2>7, <2>8
<1>2. CASE ~IngestStep
  <2>1. deliveries' = deliveries
    BY <1>2 DEF Next, WorkerStep, WorkerNext, Claim, LockOrder, CommitResult,
         BusinessError, ScheduleRetry, SendToDlq, AbortTransaction, Crash, Restart,
         ReplayStep, ReplayNext, ReplaySelect, ReplayCommit, ReplayRefuse,
         ReplayAbort, ReconStep, ReconNext, FetchSnapshot, BeginRun, VisitOrder,
         CommitRun, AbortRun, ClockStep, Tick, vars, tables
  <2>2. QED BY <2>1 DEF DeliveriesWith
<1>3. QED BY <1>1, <1>2

(* A dead letter lives again only by a replay.                             *)
LEMMA DeadStay ==
  ASSUME LockInv, [Next]_vars, \A r \in Replayers : ~ReplayStep(r),
         NEW e \in EventIds, events[e].status = "DLQ"
  PROVE  events'[e].status = "DLQ"
<1>1. CASE UNCHANGED events
  BY <1>1
<1>2. events[e] \in EventRow /\ events \in [EventIds -> EventRow]
  BY DEF LockInv, TypeInv, TypeOK
<1>3. CASE ClockStep
  <2>1. events'[e] = IF events[e].next \in {Null, 0} THEN events[e]
                     ELSE [events[e] EXCEPT !.next = events[e].next - 1]
    BY <1>3 DEF ClockStep, Tick
  <2>2. QED BY <1>2, <2>1 DEF EventRow
<1>4. CASE IngestStep
  <2>1. PICK b \in Bodies, isStale \in BOOLEAN : Ingest(b, isStale)
    BY <1>4 DEF IngestStep
  <2>2. events' = [events EXCEPT ![b.event] = Upsert(b, isStale)]
    BY <2>1 DEF Ingest
  <2>3. CASE e = b.event
    BY <1>2, <2>2, <2>3 DEF Upsert, EventRow
  <2>4. CASE e # b.event
    BY <1>2, <2>2, <2>4
  <2>5. QED BY <2>3, <2>4
<1>5. ASSUME NEW w \in Workers, CommitResult(w) \/ ScheduleRetry(w) \/ SendToDlq(w)
      PROVE  events'[e].status = "DLQ"
  <2>1. /\ ClaimedEvent(w) \in EventIds
        /\ events[ClaimedEvent(w)].status \in Waiting
    BY <1>5, ClaimFacts
       DEF CommitResult, ScheduleRetry, SendToDlq, InTransaction, LockInv, WorkerReads
  <2>2. e # ClaimedEvent(w)
    BY <2>1 DEF Waiting
  <2>3. events'[e] = events[e]
    BY <1>2, <1>5, <2>2 DEF CommitResult, ScheduleRetry, SendToDlq
  <2>4. QED BY <2>3
<1>6. QED
  BY <1>1, <1>3, <1>4, <1>5
     DEF Next, WorkerStep, WorkerNext, Claim, LockOrder, BusinessError,
         AbortTransaction, Crash, Restart, ReconStep, ReconNext, FetchSnapshot,
         BeginRun, VisitOrder, CommitRun, AbortRun, vars, tables

(* And an outcome that was counted stays.                                  *)
LEMMA OutOfOrderStays ==
  ASSUME LockInv, CountedOK, [Next]_vars, NEW e \in EventIds
  PROVE  /\ events'[e].reason = "STALE_SEQUENCE" => events'[e].status = "IGNORED"
         /\ events[e].reason = "STALE_SEQUENCE" => events'[e].reason = "STALE_SEQUENCE"
<1>1. /\ events[e] \in EventRow
      /\ events[e].reason = "STALE_SEQUENCE" => events[e].status = "IGNORED"
  BY DEF LockInv, TypeInv, TypeOK, CountedOK
<1>2. Null # "STALE_SEQUENCE"
  BY TablesAssumption
<1> PICK old \in EventRow, new \in EventRow :
      old = events[e] /\ new = events'[e] /\ Moves(old, new)
  BY <1>1, RowMoves, LockStep DEF LockInv, TypeInv, TypeOK
<1>3. CASE Inserted(old, new)
  BY <1>1, <1>2, <1>3 DEF Inserted
<1>4. CASE Recounted(old, new)
  BY <1>1, <1>4 DEF Recounted, EventRow
<1>5. CASE new = old \/ ComesCloser(old, new)
  BY <1>1, <1>5 DEF ComesCloser, EventRow
<1>6. CASE Settled(old, new) \/ Rescheduled(old, new) \/ GivenUp(old, new)
  BY <1>1, <1>6 DEF Settled, Rescheduled, GivenUp, Waiting
<1>7. CASE old.status = "DLQ" /\ new = Revived(old)
  BY <1>1, <1>2, <1>7 DEF Revived, EventRow
<1>8. \/ Inserted(old, new) \/ Recounted(old, new)
      \/ new = old \/ ComesCloser(old, new)
      \/ Settled(old, new) \/ Rescheduled(old, new) \/ GivenUp(old, new)
      \/ old.status = "DLQ" /\ new = Revived(old)
  BY DEF Moves, Proceeds
<1>9. QED BY <1>3, <1>4, <1>5, <1>6, <1>7, <1>8

LEMMA CountInit == Init => CountInv
<1> SUFFICES ASSUME Init PROVE CountInv
  OBVIOUS
<1>1. Stored = {}
  BY DEF Init, TablesInit, NoEventRow, Stored
<1>2. DeliveriesWith(DeliveryResults) = {}
  <2>1. \A p \in EventIds \X DeliveryResults : 1 .. deliveries[p[1]][p[2]] = {}
    BY DEF Init, TablesInit
  <2>2. QED BY <2>1, DeliveryRow
<1>3. \A e \in EventIds : events[e].reason # "STALE_SEQUENCE"
  BY TablesAssumption DEF Init, TablesInit, NoEventRow
<1>4. QED BY <1>1, <1>2, <1>3, LockInit, FS_EmptySet DEF CountInv, CountedOK

LEMMA CountStep == CountInv /\ [Next]_vars => CountInv'
<1> SUFFICES ASSUME CountInv, [Next]_vars PROVE CountInv'
  OBVIOUS
<1>1. LockInv /\ CountedOK
  BY DEF CountInv
<1>2. IsFiniteSet(Stored')
  <2>1. PICK e : Stored' \subseteq Stored \union {e}
    BY <1>1, OneMoreStored
  <2>2. IsFiniteSet(Stored)
    BY <1>1 DEF CountedOK
  <2>3. QED BY <2>1, <2>2, OneMoreIsFinite
<1>3. IsFiniteSet(DeliveriesWith(DeliveryResults)')
  <2>1. PICK x : DeliveriesWith(DeliveryResults)' \subseteq
                   DeliveriesWith(DeliveryResults) \union {x}
    BY <1>1, LogGrows
  <2>2. IsFiniteSet(DeliveriesWith(DeliveryResults))
    BY <1>1 DEF CountedOK
  <2>3. QED BY <2>1, <2>2, OneMoreIsFinite
<1>4. \A e \in EventIds : events'[e].reason = "STALE_SEQUENCE" => events'[e].status = "IGNORED"
  BY <1>1, OutOfOrderStays
<1>5. LockInv'
  BY <1>1, LockStep
<1>6. QED BY <1>2, <1>3, <1>4, <1>5 DEF CountInv, CountedOK

LEMMA CountersStep ==
  ASSUME CountInv, CountInv', [Next]_vars
  PROVE  /\ EventsReceived' >= EventsReceived
         /\ DuplicateEvents' >= DuplicateEvents
         /\ OutOfOrderEvents' >= OutOfOrderEvents
         /\ DlqSize' < DlqSize => \E r \in Replayers : ReplayStep(r)
<1>1. /\ LockInv /\ CountedOK /\ IsFiniteSet(Stored')
      /\ IsFiniteSet(DeliveriesWith(DeliveryResults)')
  BY DEF CountInv, CountedOK
<1>2. EventsReceived' >= EventsReceived
  <2>1. DeliveriesWith(DeliveryResults) \subseteq DeliveriesWith(DeliveryResults)'
    BY <1>1, LogGrows
  <2>2. QED BY <1>1, <2>1, MoreIsNotLess DEF EventsReceived
<1>3. DuplicateEvents' >= DuplicateEvents
  <2>1. {"DUPLICATE"} \in SUBSET DeliveryResults
    BY DEF DeliveryResults
  <2>2. DeliveriesWith({"DUPLICATE"}) \subseteq DeliveriesWith({"DUPLICATE"})'
    BY <1>1, <2>1, LogGrows
  <2>3. DeliveriesWith({"DUPLICATE"})' \subseteq DeliveriesWith(DeliveryResults)'
    BY <2>1 DEF DeliveriesWith
  <2>4. IsFiniteSet(DeliveriesWith({"DUPLICATE"})')
    BY <1>1, <2>3, FS_Subset
  <2>5. QED BY <2>2, <2>4, MoreIsNotLess DEF DuplicateEvents
<1>4. OutOfOrderEvents' >= OutOfOrderEvents
  <2> DEFINE Counted == {e \in EventIds : events[e].reason = "STALE_SEQUENCE"}
  <2>1. Counted \subseteq Counted'
    BY <1>1, OutOfOrderStays
  <2>2. Counted' \subseteq Stored'
    <3>1. \A e \in EventIds :
            events'[e].reason = "STALE_SEQUENCE" => events'[e].status = "IGNORED"
      BY DEF CountInv, CountedOK
    <3>2. QED BY <3>1 DEF Stored
  <2>3. IsFiniteSet(Counted')
    BY <1>1, <2>2, FS_Subset
  <2>4. QED BY <2>1, <2>3, MoreIsNotLess DEF OutOfOrderEvents
<1>5. ASSUME \A r \in Replayers : ~ReplayStep(r) PROVE ~(DlqSize' < DlqSize)
  <2> DEFINE Letters == {e \in EventIds : events[e].status = "DLQ"}
  <2>1. Letters \subseteq Letters'
    BY <1>1, <1>5, DeadStay
  <2>2. Letters' \subseteq Stored'
    BY DEF Stored
  <2>3. IsFiniteSet(Letters')
    BY <1>1, <2>2, FS_Subset
  <2>4. /\ Cardinality(Letters) \in Nat /\ Cardinality(Letters') \in Nat
        /\ Cardinality(Letters') >= Cardinality(Letters)
    BY <2>1, <2>3, MoreIsNotLess
  <2>5. DlqSize = Cardinality(Letters) /\ DlqSize' = Cardinality(Letters')
    BY DEF DlqSize
  <2>6. QED BY <2>4, <2>5
<1>6. QED BY <1>2, <1>3, <1>4, <1>5

(* The metrics that are declared as counters never decrease, and the size  *)
(* of the dead letter queue does so only by a replay, for any number of    *)
(* events (metrics.controller.ts 15-32, metrics.repository.ts 16-25).      *)
THEOREM CountersCountUp == Spec => CountersNeverDecrease
<1>1. CountInv /\ CountInv' /\ [Next]_vars =>
        [/\ EventsReceived' >= EventsReceived
         /\ DuplicateEvents' >= DuplicateEvents
         /\ OutOfOrderEvents' >= OutOfOrderEvents
         /\ DlqSize' < DlqSize => \E r \in Replayers : ReplayStep(r)]_vars
  BY CountersStep
<1>2. QED BY CountInit, CountStep, <1>1, PTL DEF Spec, CountersNeverDecrease
=============================================================================
