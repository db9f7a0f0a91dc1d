----------------------------- MODULE Invariants -----------------------------
(***************************************************************************)
(* What must be true of the payment webhook service in every state, of     *)
(* every step, and in the end.                                             *)
(***************************************************************************)
EXTENDS PaymentService, SequencesExt

-----------------------------------------------------------------------------
(* Types: the schema of the database and the shape of the local state of   *)
(* every process.                                                          *)
TypeOK ==
  /\ events \in [EventIds -> EventRow]
  /\ nextId \in Nat
  /\ deliveries \in [EventIds -> [DeliveryResults -> Nat]]
  /\ orders \in [Orders -> OrderRow]
  /\ history \in [Orders -> Seq(HistoryRow)]
  /\ eventLock \in [EventIds -> Processes \union {Null}]
  /\ orderLock \in [Orders -> Processes \union {Null}]
  /\ worker \in [Workers -> WorkerState]
  /\ replay \in [Replayers -> ReplayState]
  /\ recon \in [Reconcilers -> ReconState]
  /\ advisoryLock \in Reconcilers \union {Null}
  /\ runs \in Seq(Run)

(* The local state that goes with each program counter.                    *)
BodiesOK ==
  \A e \in Stored : events[e].body \in Bodies /\ events[e].body.event = e

WorkersOK ==
  \A w \in Workers :
    /\ InTransaction(w) => /\ worker[w].event # Null
                           /\ worker[w].event.body \in Bodies
                           /\ ClaimedEvent(w) \in Stored
    /\ worker[w].pc = "locked" => worker[w].order # Null

ReplaysOK ==
  \A r \in Replayers : replay[r].pc = "selected" =>
    /\ replay[r].event # Null
    /\ replay[r].event.body \in Bodies
    /\ replay[r].event.body.event \in Stored

ReconsOK ==
  \A r \in Reconcilers :
    /\ recon[r].pc # "idle" => recon[r].snapshot # Null
    /\ recon[r].pc # "running" => VisitedBy(r) = {}

ControlOK == BodiesOK /\ WorkersOK /\ ReplaysOK /\ ReconsOK

-----------------------------------------------------------------------------
(* Row locks and what is read under them                                   *)

(* The row a worker's claim returned is still the committed row when the   *)
(* worker decides on it, because nobody else can change a claimed event:   *)
(* no second worker, no redelivery, no replay (worker.repository.ts 63-75, *)
(* webhook-ingestion.repository.ts 51-53, dlq.repository.ts 95-103).       *)
ClaimedRowIsCurrent ==
  \A w \in Workers : InTransaction(w) =>
    /\ worker[w].event = events[ClaimedEvent(w)]
    /\ worker[w].event.status \in Waiting
    /\ eventLock[ClaimedEvent(w)] = w

(* The order row a worker decides against is still the committed row when  *)
(* it commits, whatever other workers and reconciliations do               *)
(* (worker.repository.ts 110-119, reconciliation.repository.ts 107-121).   *)
OrderReadIsCurrent ==
  \A w \in Workers : worker[w].pc = "locked" =>
    /\ worker[w].order = InsertOrderIfMissing(orders[ClaimedOrder(w)])
    /\ orderLock[ClaimedOrder(w)] = w

(* Equal but for the time left until the next attempt, which passes        *)
(* without a write.                                                        *)
SameRow(row1, row2) == [row1 EXCEPT !.next = Null] = [row2 EXCEPT !.next = Null]

(* The row a replay request decides on is still the committed one when it  *)
(* commits: no worker and no other replay comes between (dlq.repository.ts *)
(* 95-127).                                                                *)
ReplayReadIsCurrent ==
  \A r \in Replayers : replay[r].pc = "selected" =>
    /\ SameRow(replay[r].event, events[replay[r].event.body.event])
    /\ eventLock[replay[r].event.body.event] = r

(* Every order a reconciliation has compared with the provider is still in *)
(* the state it compared when the run commits, possibly much later.        *)
SeenOrdersAreCurrent ==
  \A r \in Reconcilers : \A o \in VisitedBy(r) :
    recon[r].seen[o] = orders[o] /\ orderLock[o] = r

(* Whatever a transaction of any of the three kinds decides on is still    *)
(* true when it commits.                                                   *)
ReadsAreCurrent ==
  /\ ClaimedRowIsCurrent
  /\ OrderReadIsCurrent
  /\ ReplayReadIsCurrent
  /\ SeenOrdersAreCurrent

(* No lock outlives its transaction: every lock is held by a process that  *)
(* is inside the transaction that took it.                                 *)
NoOrphanLocks ==
  /\ \A e \in EventIds : eventLock[e] # Null =>
       \/ \E w \in Workers :
            eventLock[e] = w /\ InTransaction(w) /\ ClaimedEvent(w) = e
       \/ \E r \in Replayers :
            /\ eventLock[e] = r
            /\ replay[r].pc = "selected" /\ replay[r].event.body.event = e
  /\ \A o \in Orders : orderLock[o] # Null =>
       \/ \E w \in Workers :
            orderLock[o] = w /\ worker[w].pc = "locked" /\ ClaimedOrder(w) = o
       \/ \E r \in Reconcilers : orderLock[o] = r /\ o \in VisitedBy(r)

(* p waits for a lock that q holds.                                        *)
WaitsFor(p, q) ==
  \/ /\ p \in Workers
     /\ worker[p].pc = "claimed" /\ orderLock[ClaimedOrder(p)] = q
  \/ /\ p \in Reconcilers
     /\ recon[p].pc = "fetched" /\ advisoryLock = q
  \/ /\ p \in Reconcilers
     /\ recon[p].pc = "running" /\ recon[p].todo # << >>
     /\ orderLock[Head(recon[p].todo)] = q

(* No deadlock: in every set of processes some process waits for nobody in *)
(* the set.  A reconciliation locks many orders in the provider's order;   *)
(* the advisory lock is what keeps two of them from crossing, and a worker *)
(* never waits while it holds an order.                                    *)
NoWaitCycle ==
  \A group \in (SUBSET Processes) \ {{}} :
    \E p \in group : \A q \in group : ~WaitsFor(p, q)

-----------------------------------------------------------------------------
(* The business effect                                                     *)

(* The history rows that event e has left.                                 *)
RowsOf(e) ==
  UNION {{<<o, i>> : i \in {j \in DOMAIN history[o] : history[o][j].event = e}} :
           o \in Orders}

(* The events that the business block has decided.                         *)
Decided(e) ==
  \/ events[e].status = "APPLIED"
  \/ events[e].status = "IGNORED" /\ events[e].reason # "STALE_TIMESTAMP"

(* Exactly once: an event that was decided has exactly one row in the      *)
(* history, in its own order and with the outcome the inbox shows; an      *)
(* event that is waiting, dead or was too old has none - whatever crashed, *)
(* was retried or was replayed (DECISIONS.md 41-45).                       *)
ExactlyOnce ==
  \A e \in EventIds :
    IF Decided(e)
      THEN \E x \in RowsOf(e) :
             LET row == history[x[1]][x[2]]
             IN  /\ RowsOf(e) = {x}
                 /\ x[1] = events[e].body.order
                 /\ row.seq = events[e].body.seq
                 /\ row.outcome = events[e].status
      ELSE RowsOf(e) = {}

(* The unique index on the history is a second line of defence that is     *)
(* never used: no worker that is about to commit finds a row of its event  *)
(* there (DECISIONS.md 21-25).                                             *)
SecondDefenceIdle ==
  \A w \in Workers : worker[w].pc = "locked" => NoHistoryYet(ClaimedEvent(w))

(* The places in the history of an order of the rows that changed it.      *)
Effective(o) == {i \in DOMAIN history[o] : history[o][i].outcome # "IGNORED"}

(* The audit trail explains the order: each row starts where the one       *)
(* before ended (only the row of a reconciliation that created the order   *)
(* has no previous status), sequences of effective rows never decrease,    *)
(* and the order is in the state the last ones left.                       *)
AuditTrail ==
  \A o \in Orders :
    LET rows == history[o]
        eff  == Effective(o)
        last(i) == \A j \in eff : j <= i
    IN  /\ orders[o].exists <=> rows # << >>
        /\ \A i \in DOMAIN rows :
             \/ i = 1 /\ rows[i].prev = "pending"
             \/ i = 1 /\ rows[i].prev = Null /\ rows[i].outcome = "RECONCILED"
             \/ i > 1 /\ rows[i].prev = rows[i - 1].new
        /\ \A i, j \in eff : i < j =>
             \/ rows[i].seq < rows[j].seq
             \/ rows[i].seq = rows[j].seq /\ rows[j].outcome = "RECONCILED"
        /\ rows # << >> => orders[o].status = rows[Len(rows)].new
        /\ eff = {} => orders[o].seq = 0
        /\ \A i \in eff : last(i) => orders[o].seq = rows[i].seq

(* Disorder is harmless: once an event is decided its order is at least as *)
(* far as the event, and an event is ignored only if it was not newer than *)
(* what the order already had.                                             *)
NothingNewerLost ==
  \A e \in EventIds : Decided(e) =>
    orders[events[e].body.order].seq >= events[e].body.seq

(* An event type that ingestion lets in is one the processor knows: the    *)
(* two lists are written apart (payment-webhook.dto.ts 19-25,              *)
(* payment-event-processor.ts 9-15).                                       *)
NoUnknownType == \A e \in EventIds : events[e].reason # "UNKNOWN_EVENT_TYPE"

(* No order ever goes back to an older sequence, not even when a worker    *)
(* and a reconciliation meet on it (DECISIONS.md 151-163).                 *)
SequenceNeverDecreases ==
  [][\A o \in Orders : orders'[o].seq >= orders[o].seq]_vars

(* A decided event is decided for good: later deliveries only count, and a *)
(* dead letter changes only by a replay, which gives it a clean record and *)
(* all its attempts back.                                                  *)
OutcomesAreFinal ==
  [][\A e \in EventIds :
       LET row == events[e]
       IN  /\ row.status \in {"APPLIED", "IGNORED"} =>
                events'[e] = [row EXCEPT !.count = events'[e].count]
           /\ row.status = "DLQ" =>
                \/ events'[e] = [row EXCEPT !.count = events'[e].count]
                \/ events'[e] = [row EXCEPT !.status = "PENDING", !.reason = Null,
                                            !.attempts = 0, !.replays = @ + 1]]_vars

(* Retry budget: an event in the queue has attempts left, a dead letter    *)
(* has used exactly all of them, and a time is set exactly for scheduled   *)
(* retries, which is more than the constraint of migration 003 asks for    *)
(* (retry-policy.ts 23-45, dlq.repository.ts 113-125).                     *)
RetryBudget ==
  \A e \in EventIds :
    LET row == events[e]
    IN  /\ row.status \in Waiting => row.attempts < MaxAttempts
        /\ row.status = "PENDING" => row.attempts = 0
        /\ row.status = "RETRY_SCHEDULED" => row.attempts > 0
        /\ row.status = "DLQ" <=> row.attempts = MaxAttempts
        /\ row.status = "RETRY_SCHEDULED" <=> row.next # Null
        /\ row.next # Null => row.next < MaxDelay

-----------------------------------------------------------------------------
(* Deliveries                                                              *)

DeliveryRows(e) ==
  deliveries[e]["CREATED"] + deliveries[e]["IGNORED"]
    + deliveries[e]["DUPLICATE"] + deliveries[e]["REJECTED"]

(* The inbox and the delivery log agree: every accepted delivery is        *)
(* counted once, and exactly one of them, the first, put the event there.  *)
DeliveriesAccounted ==
  \A e \in EventIds :
    /\ events[e].count = DeliveryRows(e)
    /\ deliveries[e]["CREATED"] + deliveries[e]["IGNORED"] =
         IF e \in Stored THEN 1 ELSE 0
    /\ deliveries[e]["IGNORED"] = 1 <=> events[e].reason = "STALE_TIMESTAMP"

-----------------------------------------------------------------------------
(* Reconciliation                                                          *)

RepairRows(o) == {i \in DOMAIN history[o] : history[o][i].outcome = "RECONCILED"}

(* The runs that report a repair of o.                                     *)
RepairReports(o) == {i \in DOMAIN runs : o \in runs[i].repaired}

(* Every repair in the history is reported by a committed run and every    *)
(* reported repair is in the history: a run that fails half way leaves     *)
(* neither (DECISIONS.md 88-92).                                           *)
RunsExplainRepairs ==
  \A o \in Orders : Cardinality(RepairRows(o)) = Cardinality(RepairReports(o))

(* The runs that visited o.                                                *)
RunsOver(o) == {i \in DOMAIN runs : runs[i].provider[o] # Null}

(* The last run to commit has the last word: whatever requests overlapped, *)
(* in whatever order they had fetched their snapshots, and whatever the    *)
(* workers did before or since, an order is as its last run was told, or   *)
(* at a later sequence.  So a second run with the same snapshot finds      *)
(* nothing to repair (DECISIONS.md 301-305, 326-329).                      *)
LastRunWins ==
  \A o \in Orders : \A i \in RunsOver(o) :
    (\A j \in RunsOver(o) : j <= i) =>
      \/ orders[o].seq > runs[i].provider[o].seq
      \/ orders[o] = RepairedRow(runs[i].provider[o])

(* A run that is told of an order what the last run over it was told       *)
(* repairs nothing there, whatever the workers did in between and even if  *)
(* both had fetched their snapshots at the same time: it takes no order    *)
(* back and writes no history twice (DECISIONS.md 301-305, 326-329).       *)
RunsAreIdempotent ==
  [][runs' # runs =>
       LET run == runs'[Len(runs')]
       IN  \A o \in Orders : \A i \in RunsOver(o) :
             /\ \A j \in RunsOver(o) : j <= i
             /\ run.provider[o] = runs[i].provider[o]
             => o \notin run.repaired]_vars

-----------------------------------------------------------------------------
(* Agreement                                                               *)

(* Every event that was accepted for processing has had its effect.        *)
Quiescent ==
  \A e \in EventIds : events[e].status \in {"ABSENT", "APPLIED", "IGNORED"}

(* The accepted events of an order.                                        *)
QueueOf(o) ==
  {e \in Stored : /\ events[e].body.order = o
                  /\ events[e].reason # "STALE_TIMESTAMP"}

(* The one that a single worker which meets no error takes last.           *)
LastTaken(taken) == CHOOSE e \in taken : \A f \in taken : events[f].id <= events[e].id

ProcessNext(e, row) == Process(events[e].body, InsertOrderIfMissing(row)).order

(* What such a worker makes of the order.                                  *)
SingleWorkerRow(o) ==
  LET row[taken \in SUBSET QueueOf(o)] ==
        IF taken = {} THEN NoOrderRow
        ELSE ProcessNext(LastTaken(taken), row[taken \ {LastTaken(taken)}])
  IN  row[QueueOf(o)]

(* Status and sequence of every order end up the same whatever the number  *)
(* of workers, provided no two events of an order share a sequence and no  *)
(* reconciliation intervenes (DECISIONS.md 27-30).                         *)
StatusIndependentOfWorkers ==
  Quiescent => \A o \in Orders :
    /\ orders[o].status = SingleWorkerRow(o).status
    /\ orders[o].seq    = SingleWorkerRow(o).seq

(* The claim in full: the final result is identical however many workers   *)
(* take part (DECISIONS.md 27-30).                                         *)
ResultIndependentOfWorkers ==
  Quiescent => \A o \in Orders : orders[o] = SingleWorkerRow(o)

-----------------------------------------------------------------------------
(* Progress                                                                *)

(* Every event in the queue is eventually decided or given up, through     *)
(* crashes, failed transactions, retries and lock waits.                   *)
EveryEventSettles ==
  \A e \in EventIds :
    events[e].status \in Waiting ~>
      events[e].status \in {"APPLIED", "IGNORED", "DLQ"}

(* No worker waits for ever for the order of an event it has claimed.      *)
NoEndlessWait ==
  \A w \in Workers : worker[w].pc = "claimed" ~> worker[w].pc # "claimed"
=============================================================================
