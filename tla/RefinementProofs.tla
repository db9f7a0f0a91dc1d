-------------------------- MODULE RefinementProofs --------------------------
(***************************************************************************)
(* The API process implements the service, the worker processes implement  *)
(* it, and the service implements the ledger, for any number of events,    *)
(* orders, processes, requests and snapshots, any size of the pool and any *)
(* contents of the provider's file; what the API has answered 202 is       *)
(* stored; and what a worker's shutdown has waited for is over.            *)
(*                                                                         *)
(* Every commit of the service is one step of the ledger, and every other  *)
(* step leaves it alone.  Two facts are needed beyond EffectInv: a         *)
(* reconciliation that commits has compared exactly the orders its         *)
(* snapshot lists; and an order that does not exist has the defaults of    *)
(* its columns (HistoryProofs), so that the rows a run inserts are always  *)
(* repaired and never left behind empty.                                   *)
(*                                                                         *)
(* Every step of the API process is a step of PaymentService or leaves the *)
(* database alone.  That needs little of the process's own state: a        *)
(* request that was admitted has a body of the provider, and a response    *)
(* whose headers have come has one of the provider's files.                *)
(*                                                                         *)
(* The worker processes, with their loops, timers, shutdowns, kills and    *)
(* restarts, do to the database what PaymentService says of its workers.   *)
(* The flag a shutdown hook sets comes before its wait, so whatever        *)
(* callback or timer is still to come finds it; a transaction is open only *)
(* while a tick is in progress; and no lock outlives its transaction,      *)
(* which is known of the service.                                          *)
(***************************************************************************)
EXTENDS LedgerRefinement, HistoryProofs, ApiProcess, WorkerLoop

RefinementInv == EffectInv /\ MissingOrders /\ ProgressOK

LEMMA RefinementInvariance == Spec => []RefinementInv
<1>1. Init => RefinementInv
  BY EffectInit, MissingInit, ProgressInit DEF RefinementInv
<1>2. RefinementInv /\ [Next]_vars => RefinementInv'
  BY EffectStep, MissingStep, ProgressStep DEF RefinementInv, EffectInv
<1>3. QED BY <1>1, <1>2, PTL DEF Spec

-----------------------------------------------------------------------------
(* The ledger sees of an event row its body and whether it still waits.    *)
Seen(row) == [body |-> row.body, state |-> LedgerState(row.status)]

LEMMA InboxOfOne ==
  ASSUME NEW e \in EventIds, NEW row,
         events \in [EventIds -> EventRow],
         events'[e] = row,
         \A f \in EventIds \ {e} : events'[f] = events[f]
  PROVE  Inbox' = [Inbox EXCEPT ![e] = Seen(row)]
BY DEF Inbox, Seen, LedgerState, Waiting

LEMMA InboxState ==
  ASSUME NEW e \in EventIds
  PROVE  /\ Inbox[e].body = events[e].body
         /\ Inbox[e].state = LedgerState(events[e].status)
BY DEF Inbox

(* Two rows of orders with equal columns are equal.                        *)
LEMMA OrderRowIs ==
  ASSUME NEW row \in OrderRow
  PROVE  row = [exists |-> row.exists, status |-> row.status,
                seq |-> row.seq, amount |-> row.amount]
BY DEF OrderRow

LEMMA Unseen ==
  ASSUME UNCHANGED <<orders, history>>,
         \A e \in EventIds : Seen(events'[e]) = Seen(events[e])
  PROVE  UNCHANGED L!ledger
<1>1. \A e \in EventIds :
        /\ events'[e].body = events[e].body
        /\ LedgerState(events'[e].status) = LedgerState(events[e].status)
  BY DEF Seen
<1>2. Inbox' = Inbox
  BY <1>1 DEF Inbox, LedgerState, Waiting
<1>3. QED BY <1>2 DEF L!ledger

LEMMA IngestMapped ==
  ASSUME LockInv, IngestStep
  PROVE  [L!Next]_(L!ledger)
<1> PICK b \in Bodies, isStale \in BOOLEAN : Ingest(b, isStale)
  BY DEF IngestStep
<1> DEFINE row == Upsert(b, isStale)
<1>0. /\ events \in [EventIds -> EventRow] /\ b.event \in EventIds
      /\ events' = [events EXCEPT ![b.event] = row]
      /\ UNCHANGED <<orders, history>>
  BY BodyFacts DEF Ingest, LockInv, TypeInv, TypeOK
<1>1. CASE events[b.event].status = "ABSENT"
  <2>1. Seen(row) = [body |-> b, state |-> IF isStale THEN "IGNORED" ELSE "WAITING"]
    BY <1>1 DEF Upsert, FirstDelivery, Seen, LedgerState, Waiting
  <2> HIDE DEF row
  <2>2. Inbox' = [Inbox EXCEPT ![b.event] = Seen(row)]
    BY <1>0, InboxOfOne
  <2>3. Inbox[b.event].state = "ABSENT"
    BY <1>0, <1>1, InboxState DEF LedgerState, Waiting
  <2>4. L!Accept(b)
    BY <1>0, <2>1, <2>2, <2>3 DEF L!Accept
  <2>5. QED BY <2>4 DEF L!Next
<1>2. CASE events[b.event].status # "ABSENT"
  <2>1. row.body = events[b.event].body /\ row.status = events[b.event].status
    BY <1>0, <1>2 DEF Upsert, EventRow
  <2> HIDE DEF row
  <2>2. \A e \in EventIds : Seen(events'[e]) = Seen(events[e])
    BY <1>0, <2>1 DEF Seen
  <2>3. QED BY <1>0, <2>2, Unseen
<1>3. QED BY <1>1, <1>2

LEMMA TickMapped ==
  ASSUME LockInv, ClockStep
  PROVE  UNCHANGED L!ledger
<1>1. ASSUME NEW e \in EventIds
      PROVE  Seen(events'[e]) = Seen(events[e])
  <2>1. events[e] \in EventRow
    BY DEF LockInv, TypeInv, TypeOK
  <2>2. events'[e] = IF events[e].next \in {Null, 0} THEN events[e]
                     ELSE [events[e] EXCEPT !.next = events[e].next - 1]
    BY DEF ClockStep, Tick
  <2>3. events'[e].body = events[e].body /\ events'[e].status = events[e].status
    BY <2>1, <2>2 DEF EventRow
  <2>4. QED BY <2>3 DEF Seen
<1>2. UNCHANGED <<orders, history>>
  BY DEF ClockStep, Tick
<1>3. QED BY <1>1, <1>2, Unseen

(* The commit of a worker applies its event, or records that it came late. *)
LEMMA CommitMapped ==
  ASSUME LockInv, KnownTypes, NEW w \in Workers, CommitResult(w)
  PROVE  L!Next
<1> PICK e \in EventIds, o \in Orders, body \in Bodies :
      e = ClaimedEvent(w) /\ o = ClaimedOrder(w) /\ body = events[e].body
  BY CommitFacts
<1> DEFINE old    == orders[o]
           before == InsertOrderIfMissing(old)
           result == Process(body, before)
<1>1. /\ body.event = e /\ body.order = o
      /\ events[e].status \in Waiting
      /\ \A f \in EventIds \ {e} : events'[f] = events[f]
      /\ events'[e].status = result.outcome
      /\ events'[e].body = body
  BY CommitFacts
<1>2. /\ InTransaction(w) /\ worker[w].event = events[e]
      /\ worker[w].order = before
  BY DEF CommitResult, InTransaction, LockInv, WorkerReads
<1>3. /\ orders' = [orders EXCEPT ![o] = result.order]
      /\ history' = [history EXCEPT ![o] =
           Append(history[o], WebhookHistory(body, before, result))]
  BY <1>2 DEF CommitResult
<1>4. /\ events \in [EventIds -> EventRow] /\ old \in OrderRow
      /\ orders \in [Orders -> OrderRow]
  BY DEF LockInv, TypeInv, TypeOK
<1>5. /\ before = [exists |-> TRUE, status |-> old.status,
                   seq |-> old.seq, amount |-> old.amount]
      /\ before = [old EXCEPT !.exists = TRUE]
  <2>1. /\ before \in OrderRow
        /\ before.exists = TRUE /\ before.status = old.status
        /\ before.seq = old.seq /\ before.amount = old.amount
    BY <1>4, InsertTypes DEF InsertOrderIfMissing, OrderRow
  <2>2. before = [old EXCEPT !.exists = TRUE]
    BY DEF InsertOrderIfMissing
  <2> HIDE DEF before
  <2>3. QED BY <2>1, <2>2, OrderRowIs
<1>6. body.type \in AllowedEventTypes /\ body.seq \in Nat /\ old.seq \in Nat
  BY <1>1, <1>4, BodyFacts DEF KnownTypes, Stored, Waiting, OrderRow
<1>7. /\ Inbox[e].body = body /\ Inbox[e].state = "WAITING"
      /\ Inbox' = [Inbox EXCEPT ![e] = Seen(events'[e])]
  BY <1>1, <1>4, InboxState, InboxOfOne DEF LedgerState
<1>8. Inbox' = [Inbox EXCEPT ![e] =
                [body |-> Inbox[e].body, state |-> LedgerState(result.outcome)]]
  BY <1>1, <1>7, InboxState DEF Seen
<1>9. CASE body.seq > old.seq
  <2> DEFINE new == [exists |-> TRUE,
                     status |-> EventTypeToStatus[body.type],
                     seq    |-> body.seq,
                     amount |-> IF body.amount # Null THEN body.amount
                                                      ELSE old.amount]
  <2>1. result = Applied(body, before)
    BY <1>5, <1>6, <1>9 DEF Process, IsNewer, EventTypeToStatus, AllowedEventTypes
  <2>2. result.order = new /\ result.outcome = "APPLIED"
    <3>1. result.order \in OrderRow /\ before \in OrderRow
      BY <1>4, InsertTypes, ProcessTypes
    <3>2. /\ result.outcome = "APPLIED"
          /\ result.order = [before EXCEPT
               !.status = EventTypeToStatus[body.type], !.seq = body.seq,
               !.amount = Coalesce(body.amount, before.amount)]
      BY <2>1 DEF Applied
    <3>3. /\ before.exists = TRUE /\ before.amount = old.amount
      BY <1>5
    <3> HIDE DEF before, result
    <3>4. /\ result.order.exists = TRUE
          /\ result.order.status = EventTypeToStatus[body.type]
          /\ result.order.seq = body.seq
          /\ result.order.amount = IF body.amount # Null THEN body.amount
                                                         ELSE old.amount
      BY <3>1, <3>2, <3>3 DEF OrderRow, Coalesce
    <3>5. QED BY <3>1, <3>2, <3>4, OrderRowIs
  <2>3. WebhookHistory(body, before, result) =
          [event |-> e, seq |-> body.seq, prev |-> old.status,
           new |-> new.status, outcome |-> "APPLIED"]
    BY <1>1, <1>5, <2>2 DEF WebhookHistory
  <2> HIDE DEF result
  <2>4. L!Apply(e)
    <3>1. L!Become(e, "WAITING", "APPLIED")
      BY <1>7, <1>8, <2>2 DEF L!Become, LedgerState, Waiting
    <3>2. orders' = [orders EXCEPT ![o] = new]
      BY <1>3, <2>2
    <3>3. L!Record(o, [event |-> e, seq |-> body.seq, prev |-> old.status,
                       new |-> new.status, outcome |-> "APPLIED"])
      BY <1>3, <2>3 DEF L!Record
    <3>4. L!EventTypeToStatus = EventTypeToStatus
      BY DEF L!EventTypeToStatus, EventTypeToStatus
    <3>5. Inbox[e].body = body /\ body.order = o
      BY <1>1, <1>7
    <3>6. QED
      BY <1>9, <3>1, <3>2, <3>3, <3>4, <3>5 DEF L!Apply
  <2>5. QED BY <2>4 DEF L!Next
<1>10. CASE ~(body.seq > old.seq)
  <2>1. result = Ignored("STALE_SEQUENCE", before)
    BY <1>5, <1>6, <1>10 DEF Process, IsNewer, EventTypeToStatus, AllowedEventTypes
  <2>2. result.order = before /\ result.outcome = "IGNORED"
    BY <2>1 DEF Ignored
  <2>3. WebhookHistory(body, before, result) =
          [event |-> e, seq |-> body.seq, prev |-> old.status,
           new |-> old.status, outcome |-> "IGNORED"]
    BY <1>1, <1>5, <2>2 DEF WebhookHistory
  <2>4. orders' = [orders EXCEPT ![o].exists = TRUE]
    BY <1>3, <1>5, <2>2
  <2> HIDE DEF result
  <2>5. L!Ignore(e)
    <3>1. L!Become(e, "WAITING", "IGNORED")
      BY <1>7, <1>8, <2>2 DEF L!Become, LedgerState, Waiting
    <3>2. L!Record(o, [event |-> e, seq |-> body.seq, prev |-> old.status,
                       new |-> old.status, outcome |-> "IGNORED"])
      BY <1>3, <2>3 DEF L!Record
    <3>3. Inbox[e].body = body /\ body.order = o
      BY <1>1, <1>7
    <3>4. body.seq <= old.seq
      BY <1>6, <1>10
    <3>5. QED
      BY <2>4, <3>1, <3>2, <3>3, <3>4 DEF L!Ignore
  <2>6. QED BY <2>5 DEF L!Next
<1>11. QED BY <1>9, <1>10

LEMMA WorkerMapped ==
  ASSUME LockInv, KnownTypes, NEW w \in Workers, WorkerStep(w)
  PROVE  [L!Next]_(L!ledger)
<1> DEFINE e == ClaimedEvent(w)
<1>0. events \in [EventIds -> EventRow]
  BY DEF LockInv, TypeInv, TypeOK
<1>1. ASSUME InTransaction(w)
      PROVE  /\ e \in EventIds /\ worker[w].event = events[e]
             /\ events[e].status \in Waiting
  BY <1>1, ClaimFacts DEF LockInv, WorkerReads
<1>2. CASE ScheduleRetry(w)
  <2>1. InTransaction(w) /\ UNCHANGED <<orders, history>>
    BY <1>2 DEF ScheduleRetry, InTransaction
  <2>2. /\ events'[e].status = "RETRY_SCHEDULED" /\ events'[e].body = events[e].body
        /\ \A f \in EventIds \ {e} : events'[f] = events[f]
    BY <1>0, <1>1, <1>2, <2>1 DEF ScheduleRetry, EventRow
  <2>3. \A f \in EventIds : Seen(events'[f]) = Seen(events[f])
    BY <1>1, <2>1, <2>2 DEF Seen, LedgerState, Waiting
  <2>4. QED BY <2>1, <2>3, Unseen
<1>3. CASE SendToDlq(w)
  <2> PICK f \in EventIds : f = e
    BY <1>1, <1>3 DEF SendToDlq, InTransaction
  <2>1. InTransaction(w) /\ UNCHANGED <<orders, history>>
    BY <1>3 DEF SendToDlq, InTransaction
  <2>2. /\ events'[f].status = "DLQ" /\ events'[f].body = events[f].body
        /\ \A g \in EventIds \ {f} : events'[g] = events[g]
    BY <1>0, <1>1, <1>3, <2>1 DEF SendToDlq, EventRow
  <2>3. Inbox' = [Inbox EXCEPT ![f] = Seen(events'[f])]
    BY <1>0, <2>2, InboxOfOne
  <2>4. Inbox' = [Inbox EXCEPT ![f] = [body |-> Inbox[f].body, state |-> "DLQ"]]
    BY <2>2, <2>3, InboxState DEF Seen, LedgerState, Waiting
  <2>5. Inbox[f].state = "WAITING"
    BY <1>1, <2>1, InboxState DEF LedgerState
  <2>6. L!GiveUp(f)
    BY <2>1, <2>4, <2>5 DEF L!GiveUp, L!Become
  <2>7. QED BY <2>6 DEF L!Next
<1>4. CASE UNCHANGED tables
  BY <1>4, Unseen DEF tables
<1>5. QED
  BY <1>2, <1>3, <1>4, CommitMapped
     DEF WorkerStep, WorkerNext, Claim, LockOrder, BusinessError,
         AbortTransaction, Crash, Restart

LEMMA ReplayMapped ==
  ASSUME LockInv, NEW r \in Replayers, ReplayStep(r)
  PROVE  [L!Next]_(L!ledger)
<1>1. CASE ReplayCommit(r)
  <2> PICK e \in EventIds : e = replay[r].event.body.event
    BY <1>1, BodyFacts DEF ReplayCommit, LockInv, TypeInv, ControlOK, ReplaysOK
  <2>0. /\ events \in [EventIds -> EventRow] /\ replay[r].event \in EventRow
        /\ UNCHANGED <<orders, history>>
    BY <1>1 DEF ReplayCommit, LockInv, TypeInv, TypeOK, ControlOK, ReplaysOK,
                ReplayState
  <2>1. replay[r].event.status = "DLQ" /\ SameRow(replay[r].event, events[e])
    BY <1>1 DEF ReplayCommit, Replayable, LockInv, ReplayReads
  <2>2. events[e].status = "DLQ"
    BY <2>0, <2>1 DEF SameRow, EventRow
  <2>3. /\ events'[e] = Revived(events[e])
        /\ \A f \in EventIds \ {e} : events'[f] = events[f]
    BY <1>1, <2>0 DEF ReplayCommit
  <2>4. events'[e].status = "PENDING" /\ events'[e].body = events[e].body
    BY <2>0, <2>3 DEF Revived, EventRow
  <2>5. Inbox' = [Inbox EXCEPT ![e] = Seen(events'[e])]
    BY <2>0, <2>3, InboxOfOne
  <2>6. Inbox' = [Inbox EXCEPT ![e] = [body |-> Inbox[e].body, state |-> "WAITING"]]
    BY <2>4, <2>5, InboxState DEF Seen, LedgerState, Waiting
  <2>7. Inbox[e].state = "DLQ"
    BY <2>2, InboxState DEF LedgerState, Waiting
  <2>8. L!Revive(e)
    BY <2>0, <2>6, <2>7 DEF L!Revive, L!Become
  <2>9. QED BY <2>8 DEF L!Next
<1>2. CASE UNCHANGED tables
  BY <1>2, Unseen DEF tables
<1>3. QED
  BY <1>1, <1>2 DEF ReplayStep, ReplayNext, ReplaySelect, ReplayRefuse, ReplayAbort

(* A run repairs exactly the orders that the ledger would: what it has     *)
(* compared is what its snapshot lists, and is still true.                 *)
LEMMA RepairsAreRepairable ==
  ASSUME RefinementInv, NEW r \in Reconcilers, CommitRun(r), NEW o \in Orders
  PROVE  o \in Repairs(r) <=> L!Repairable(o, recon[r].snapshot)
<1> DEFINE local == orders[o]
           told  == recon[r].snapshot.state[o]
<1>1. o \in VisitedBy(r) <=> Listed(o, recon[r].snapshot.list)
  BY DEF CommitRun, RefinementInv, ProgressOK, Progress, Listed
<1>2. o \in VisitedBy(r) =>
        /\ recon[r].seen[o] = local /\ local \in OrderRow
        /\ told \in ProviderRow
  BY SeenFacts DEF RefinementInv, EffectInv, LockInv, ReconReads, TypeInv, TypeOK
<1>3. CASE o \in VisitedBy(r)
  <2>1. o \in Repairs(r) <=> Verdict(local, told) = "REPAIRED"
    BY <1>2, <1>3 DEF Repairs, WithVerdict
  <2>2. local.seq \in Nat /\ told.seq \in Nat
    BY <1>2, <1>3 DEF OrderRow, ProviderRow
  <2>3. Verdict(local, told) = "REPAIRED" <=>
          /\ told.seq >= local.seq
          /\ ~(/\ local.status = told.status
               /\ local.seq = told.seq /\ local.amount = told.amount)
    BY <2>2 DEF Verdict
  <2>4. L!Repairable(o, recon[r].snapshot) <=>
          /\ told.seq >= local.seq
          /\ \/ told.seq # local.seq
             \/ told.status # local.status
             \/ told.amount # local.amount
    BY <1>1, <1>3 DEF L!Repairable, Listed
  <2>5. QED BY <2>1, <2>3, <2>4
<1>4. CASE o \notin VisitedBy(r)
  BY <1>1, <1>4 DEF Repairs, WithVerdict, L!Repairable, Listed
<1>5. QED BY <1>3, <1>4

LEMMA RunMapped ==
  ASSUME RefinementInv, NEW r \in Reconcilers, CommitRun(r)
  PROVE  L!Next
<1> PICK s \in Snapshots : s = recon[r].snapshot
  BY DEF CommitRun, RefinementInv, EffectInv, LockInv, TypeInv, TypeOK, ControlOK,
         ReconsOK, ReconState
<1>1. \A o \in Orders : o \in Repairs(r) <=> L!Repairable(o, s)
  BY RepairsAreRepairable
<1>2. Repairs(r) \subseteq VisitedBy(r) /\ VisitedBy(r) \subseteq Orders
  BY DEF Repairs, WithVerdict, VisitedBy
<1>3. \A o \in VisitedBy(r) : recon[r].seen[o] = orders[o]
  BY DEF RefinementInv, EffectInv, LockInv, ReconReads
<1>4. orders' = [o \in Orders |->
        IF o \in Repairs(r) THEN RepairedRow(s.state[o])
        ELSE IF o \in VisitedBy(r) THEN InsertOrderIfMissing(orders[o])
        ELSE orders[o]]
  BY DEF CommitRun
<1>5. history' = [o \in Orders |->
        IF o \in Repairs(r)
          THEN Append(history[o], RepairHistory(recon[r].seen[o], s.state[o]))
          ELSE history[o]]
  BY DEF CommitRun
<1>6. orders' = [o \in Orders |->
        IF ~L!Repairable(o, s) THEN orders[o]
        ELSE [exists |-> TRUE, status |-> s.state[o].status,
              seq |-> s.state[o].seq, amount |-> s.state[o].amount]]
  BY <1>1, <1>2, <1>4, OthersExist DEF RepairedRow, RefinementInv, EffectInv
<1>7. history' = [o \in Orders |->
        IF ~L!Repairable(o, s) THEN history[o]
        ELSE Append(history[o],
               [event |-> Null, seq |-> s.state[o].seq,
                prev  |-> IF orders[o].exists THEN orders[o].status ELSE Null,
                new   |-> s.state[o].status, outcome |-> "RECONCILED"])]
  BY <1>1, <1>2, <1>3, <1>5 DEF RepairHistory
<1>8. Inbox' = Inbox
  BY DEF CommitRun, Inbox, LedgerState, Waiting
<1>9. L!Reconcile(s)
  BY <1>6, <1>7, <1>8 DEF L!Reconcile
<1>10. QED BY <1>9 DEF L!Next

LEMMA ReconMapped ==
  ASSUME RefinementInv, NEW r \in Reconcilers, ReconStep(r)
  PROVE  [L!Next]_(L!ledger)
<1>1. CASE UNCHANGED tables
  BY <1>1, Unseen DEF tables
<1>2. QED
  BY <1>1, RunMapped DEF ReconStep, ReconNext, FetchSnapshot, BeginRun, VisitOrder,
                         AbortRun

-----------------------------------------------------------------------------
(* The service implements the ledger: under any interleaving of any number *)
(* of workers, redeliveries, retries, crashes, replays and reconciliations *)
(* the orders, their histories and the outcomes of events change as if     *)
(* every transaction had been executed at once, alone, when it commits.    *)
THEOREM ServiceImplementsLedger == Spec => ImplementsLedger
<1>1. Init => L!Init
  BY DEF Init, TablesInit, NoEventRow, NoOrderRow, L!Init, Inbox, LedgerState, Waiting
<1>2. RefinementInv /\ [Next]_vars => [L!Next]_(L!ledger)
  <2> SUFFICES ASSUME RefinementInv, [Next]_vars
               PROVE  [L!Next]_(L!ledger)
    OBVIOUS
  <2>1. LockInv /\ KnownTypes
    BY DEF RefinementInv, EffectInv
  <2>2. CASE UNCHANGED vars
    BY <2>2, Unseen DEF vars, tables
  <2>3. QED
    BY <2>1, <2>2, IngestMapped, TickMapped, WorkerMapped, ReplayMapped, ReconMapped
       DEF Next
<1>3. QED
  BY RefinementInvariance, <1>1, <1>2, PTL DEF Spec, ImplementsLedger, L!Spec

-----------------------------------------------------------------------------
(* The provider's answer                                                   *)

(* What the validation of ProviderClient lets through is what the          *)
(* reconciliation relies on: known orders, each once, and values in every  *)
(* field that its columns can hold - whatever the provider's file was.     *)
THEOREM ValidIsUsable ==
  ASSUME NEW file \in Files \ {CorruptFile}, Valid(file)
  PROVE  Usable(SnapshotOf(OrdersIn(file)))
<1> DEFINE rows == OrdersIn(file)
           list == [i \in DOMAIN rows |-> rows[i].id]
           place(o) == CHOOSE i \in DOMAIN rows : rows[i].id = o
           told(o) == IF \E i \in DOMAIN rows : rows[i].id = o
                        THEN [status |-> rows[place(o)].status,
                              seq    |-> rows[place(o)].seq,
                              amount |-> rows[place(o)].amount]
                        ELSE Unreported
           state == [o \in Orders |-> told(o)]
<1>1. /\ \A i \in DOMAIN rows : ValidRow(rows[i])
      /\ \A i, j \in DOMAIN rows : rows[i].id = rows[j].id => i = j
  BY DEF Valid, DistinctIds
<1>2. Len(rows) \in Nat /\ DOMAIN rows = 1 .. Len(rows)
  <2>1. CASE file = NoFile
    BY <2>1 DEF OrdersIn
  <2>2. CASE file # NoFile
    BY <2>2, ProviderAssumption DEF OrdersIn, Valid
  <2>3. QED BY <2>1, <2>2
<1>3. SnapshotOf(rows) = [list |-> list, state |-> state]
  BY DEF SnapshotOf
<1> HIDE DEF rows
<1>4. list \in Seq(Orders)
  BY <1>1, <1>2 DEF ValidRow
<1>5. ASSUME NEW o \in Orders
      PROVE  told(o) \in ProviderRow /\ told(o).seq <= MaxInteger
  <2>1. CASE \E i \in DOMAIN rows : rows[i].id = o
    <3>1. place(o) \in DOMAIN rows
      BY <2>1
    <3>2. ValidRow(rows[place(o)])
      BY <1>1, <3>1
    <3> HIDE DEF place
    <3>3. QED BY <2>1, <3>2, ProviderAssumption DEF ValidRow, ProviderRow
  <2>2. CASE ~\E i \in DOMAIN rows : rows[i].id = o
    BY <2>2, ProviderAssumption DEF Unreported, ProviderRow, OrderStatuses
  <2>3. QED BY <2>1, <2>2
<1> HIDE DEF told
<1>6. state \in [Orders -> ProviderRow] /\ \A o \in Orders : state[o].seq <= MaxInteger
  BY <1>5
<1>7. \A i, j \in DOMAIN list : list[i] = list[j] => i = j
  BY <1>1
<1> HIDE DEF list, state
<1>8. QED BY <1>3, <1>4, <1>6, <1>7 DEF Usable, Snapshot, WellFormed, rows

-----------------------------------------------------------------------------
(* The process's own state                                                 *)
DeliveryState ==
  [pc : {"none", "sent", "stored", "orphan"}, body : Bodies \union {Null}]

ExchangeState == [pc : {"none", "asked", "body"}, file : Files \union {Null}]

(* A request that was admitted has a body of the provider, and a response  *)
(* whose headers have come has a readable file.                            *)
ProcessInv ==
  /\ delivery \in [Deliverers -> DeliveryState]
  /\ \A d \in Deliverers : delivery[d].pc # "none" => delivery[d].body \in Bodies
  /\ target \in [Replayers -> EventIds \union {Null}]
  /\ exchange \in [Reconcilers -> ExchangeState]
  /\ \A r \in Reconcilers :
       exchange[r].pc = "body" => exchange[r].file \in Files \ {CorruptFile}

LEMMA ProcessInit == ApiInit => ProcessInv
BY DEF ApiInit, ProviderInit, ProcessInv, NoDelivery, DeliveryState, NoExchange,
       ExchangeState

(* Three things happen to a request: it comes, it is stored, or it ends.   *)
Comes(d) == \E b \in Bodies, s \in Signatures : ReceivePayment(d, b, s)

Stores(d) == Store(d) /\ delivery'[d] = [delivery[d] EXCEPT !.pc = "stored"]

Ends(old, new) ==
  \/ new = old
  \/ new = NoDelivery
  \/ old.pc = "sent" /\ new = [old EXCEPT !.pc = "orphan"]

Happens(d) == Comes(d) \/ Stores(d) \/ Ends(delivery[d], delivery'[d])

LEMMA DeliveryStep ==
  ASSUME ProcessInv, [ApiNext]_allVars, NEW d \in Deliverers
  PROVE  Happens(d)
<1>0. delivery \in [Deliverers -> DeliveryState]
  BY DEF ProcessInv
<1>1. CASE UNCHANGED delivery
  BY <1>1 DEF Happens, Ends
<1>2. ASSUME NEW x \in Deliverers,
             delivery' = [delivery EXCEPT ![x] = NoDelivery]
      PROVE  Happens(d)
  BY <1>0, <1>2 DEF Happens, Ends
<1>3. ASSUME NEW x \in Deliverers, NEW b \in Bodies, NEW s \in Signatures,
             ReceivePayment(x, b, s)
      PROVE  Happens(d)
  <2>1. CASE x = d
    BY <1>3, <2>1 DEF Happens, Comes
  <2>2. CASE x # d
    BY <1>0, <1>3, <2>2 DEF ReceivePayment, Happens, Ends
  <2>3. QED BY <2>1, <2>2
<1>4. ASSUME NEW x \in Deliverers, Store(x)
      PROVE  Happens(d)
  <2>1. CASE x = d /\ delivery[d].pc = "orphan"
    BY <1>0, <1>4, <2>1 DEF Store, Happens, Ends
  <2>2. CASE x = d /\ delivery[d].pc # "orphan"
    <3>1. delivery'[d] = [delivery[d] EXCEPT !.pc = "stored"]
      BY <1>0, <1>4, <2>2 DEF Store
    <3>2. QED BY <1>4, <2>2, <3>1 DEF Happens, Stores
  <2>3. CASE x # d
    BY <1>0, <1>4, <2>3 DEF Store, Happens, Ends
  <2>4. QED BY <2>1, <2>2, <2>3
<1>5. CASE ApiCrash
  BY <1>0, <1>5 DEF ApiCrash, Happens, Ends
<1>6. CASE ConnectFails
  BY <1>1, <1>2, <1>6 DEF ConnectFails
<1>7. ASSUME NEW q, SessionEnds(q)
      PROVE  Happens(d)
  BY <1>1, <1>2, <1>7 DEF SessionEnds
<1>8. QED
  BY <1>1, <1>2, <1>3, <1>4, <1>5, <1>6, <1>7
     DEF ApiNext, Connect, Acknowledge, Overflow, StoreFails, AskReplay,
         SelectForReplay, AnswerReplay, ReplayMissing, ReplayFails, EndReplayEarly,
         AskReconcile, ExchangeStep, TakeSnapshot, ReconcileStep, AnswerReconcile,
         ReconcileFails, EndReconcile, ApiStart, Others, apiVars, allVars

LEMMA ProcessStep ==
  ASSUME ProcessInv, [ApiNext]_allVars
  PROVE  ProcessInv'
<1>1. delivery' \in [Deliverers -> DeliveryState]
      /\ \A d \in Deliverers : delivery'[d].pc # "none" => delivery'[d].body \in Bodies
  <2>1. DOMAIN delivery' = Deliverers /\ delivery' = [d \in Deliverers |-> delivery'[d]]
    BY DEF ProcessInv, ApiNext, Connect, ReceivePayment, Store, Acknowledge, Overflow,
           StoreFails, AskReplay, SelectForReplay, AnswerReplay, ReplayMissing,
           ReplayFails, EndReplayEarly, AskReconcile, ExchangeStep, TakeSnapshot,
           ReconcileStep, AnswerReconcile, ReconcileFails, EndReconcile, ConnectFails,
           ApiCrash, SessionEnds, ApiStart, Others, apiVars, allVars
  <2>2. ASSUME NEW d \in Deliverers
        PROVE  /\ delivery'[d] \in DeliveryState
               /\ delivery'[d].pc # "none" => delivery'[d].body \in Bodies
    <3>1. /\ delivery[d] \in DeliveryState
          /\ delivery[d].pc # "none" => delivery[d].body \in Bodies
      BY DEF ProcessInv
    <3>2. CASE Comes(d)
      <4>1. PICK b \in Bodies : delivery'[d] = [pc |-> "sent", body |-> b]
        BY <3>2 DEF Comes, ReceivePayment, ProcessInv
      <4>2. QED BY <4>1 DEF DeliveryState
    <3>3. CASE Stores(d)
      BY <3>1, <3>3 DEF Stores, Store, DeliveryState
    <3>4. CASE Ends(delivery[d], delivery'[d])
      BY <3>1, <3>4 DEF Ends, NoDelivery, DeliveryState
    <3>5. QED BY <3>2, <3>3, <3>4, DeliveryStep DEF Happens
  <2>3. QED BY <2>1, <2>2
<1>2. target' \in [Replayers -> EventIds \union {Null}]
  <2>1. CASE UNCHANGED target
    BY <2>1 DEF ProcessInv
  <2>2. ASSUME NEW r \in Replayers, NEW e \in EventIds \union {Null},
               target' = [target EXCEPT ![r] = e]
        PROVE  target' \in [Replayers -> EventIds \union {Null}]
    BY <2>2 DEF ProcessInv
  <2>3. CASE ApiCrash
    BY <2>3 DEF ApiCrash
  <2>4. QED
    BY <2>1, <2>2, <2>3
       DEF ApiNext, Connect, ReceivePayment, Store, Acknowledge, Overflow,
           StoreFails, AskReplay, SelectForReplay, AnswerReplay, ReplayMissing,
           ReplayFails, EndReplayEarly, AskReconcile, ExchangeStep, TakeSnapshot,
           ReconcileStep, AnswerReconcile, ReconcileFails, EndReconcile, ConnectFails,
           SessionEnds, ApiStart, Others, apiVars, allVars
<1>3. /\ exchange' \in [Reconcilers -> ExchangeState]
      /\ \A r \in Reconcilers :
           exchange'[r].pc = "body" => exchange'[r].file \in Files \ {CorruptFile}
  <2>0. exchange \in [Reconcilers -> ExchangeState]
        /\ NoExchange \in ExchangeState /\ NoExchange.pc = "none"
    BY DEF ProcessInv, NoExchange, ExchangeState
  <2>1. CASE UNCHANGED exchange
    BY <2>1 DEF ProcessInv
  <2>2. ASSUME NEW r \in Reconcilers, Ask(r)
        PROVE  <1>3!1 /\ <1>3!2
    BY <2>0, <2>2 DEF ProcessInv, Ask, ExchangeState
  <2>3. ASSUME NEW r \in Reconcilers, NEW file \in Files, HeadersArrive(r, file)
        PROVE  <1>3!1 /\ <1>3!2
    BY <2>0, <2>3 DEF ProcessInv, HeadersArrive, StatusCode, ExchangeState
  <2>4. ASSUME NEW r \in Reconcilers, EndExchange(r)
        PROVE  <1>3!1 /\ <1>3!2
    BY <2>0, <2>4 DEF ProcessInv, EndExchange
  <2>5. CASE ApiCrash
    BY <2>0, <2>5 DEF ApiCrash
  <2>6. QED
    BY <2>1, <2>2, <2>3, <2>4, <2>5
       DEF ApiNext, Connect, ReceivePayment, Store, Acknowledge, Overflow,
           StoreFails, AskReplay, SelectForReplay, AnswerReplay, ReplayMissing,
           ReplayFails, EndReplayEarly, AskReconcile, ExchangeStep, TimerFires,
           FetchFails, BodyFails, TakeSnapshot, BodyArrives,
           ReconcileStep, AnswerReconcile, ReconcileFails, EndReconcile, ConnectFails,
           SessionEnds, ApiStart, Others, apiVars, allVars
<1>4. QED BY <1>1, <1>2, <1>3 DEF ProcessInv

-----------------------------------------------------------------------------
(* The refinement                                                          *)
LEMMA ServiceStep == ProcessInv /\ [ApiNext]_allVars => [Next]_vars
<1> SUFFICES ASSUME ProcessInv, [ApiNext]_allVars PROVE [Next]_vars
  OBVIOUS
<1>1. CASE UNCHANGED vars
  BY <1>1
<1>2. ASSUME NEW d \in Deliverers, Store(d) PROVE Next
  <2>1. delivery[d].body \in Bodies
    BY <1>2 DEF Store, ProcessInv
  <2>2. PICK isStale \in BOOLEAN : Ingest(delivery[d].body, isStale)
    BY <1>2 DEF Store
  <2>3. UNCHANGED <<worker, replay, reconVars>>
    BY <1>2 DEF Store
  <2>4. QED BY <2>1, <2>2, <2>3 DEF IngestStep, Next
<1>3. ASSUME NEW r \in Replayers, SelectForReplay(r) PROVE Next
  <2>1. target[r] \in EventIds
    BY <1>3 DEF SelectForReplay, ProcessInv
  <2>2. ReplaySelect(r, target[r]) /\ UNCHANGED <<worker, reconVars>>
    BY <1>3 DEF SelectForReplay
  <2>3. QED BY <2>1, <2>2 DEF ReplayNext, ReplayStep, Next
<1>4. ASSUME NEW r \in Replayers,
             ReplayCommit(r) \/ ReplayRefuse(r) \/ ReplayAbort(r),
             UNCHANGED <<worker, reconVars>>
      PROVE  Next
  BY <1>4 DEF ReplayNext, ReplayStep, Next
<1>5. ASSUME NEW r \in Reconcilers, TakeSnapshot(r) PROVE Next
  <2> DEFINE file == exchange[r].file
             s == SnapshotOf(OrdersIn(file))
  <2>1. /\ file \in Files \ {CorruptFile} /\ Valid(file)
        /\ FetchSnapshot(r, s) /\ UNCHANGED <<worker, replay>>
    BY <1>5 DEF TakeSnapshot, BodyArrives, ProcessInv
  <2>2. file # NoArray
    BY <2>1 DEF Valid
  <2>3. Usable(s)
    BY <2>1, ValidIsUsable
  <2>4. s \in Snapshots
    BY <2>1, <2>2, <2>3, SnapshotsAssumption
  <2>5. QED BY <2>1, <2>4 DEF ReconNext, ReconStep, Next
<1>6. ASSUME NEW r \in Reconcilers,
             BeginRun(r) \/ VisitOrder(r) \/ CommitRun(r) \/ AbortRun(r),
             UNCHANGED <<worker, replay>>
      PROVE  Next
  BY <1>6 DEF ReconNext, ReconStep, Next
<1>7. CASE Others
  BY <1>7 DEF Others, Next
<1>8. ASSUME NEW r \in Reconcilers, AskReconcile(r) \/ ExchangeStep(r)
      PROVE  UNCHANGED vars
  BY <1>8 DEF AskReconcile, Ask, ExchangeStep, HeadersArrive, TimerFires, FetchFails,
              BodyFails, vars
<1>9. CASE ConnectFails
  BY <1>1, <1>6, <1>9 DEF ConnectFails, vars, tables
<1>10. ASSUME NEW p \in Deliverers \union Replayers \union Reconcilers, SessionEnds(p)
       PROVE  [Next]_vars
  BY <1>1, <1>4, <1>6, <1>10 DEF SessionEnds
<1>11. QED
  BY <1>1, <1>2, <1>3, <1>4, <1>5, <1>6, <1>7, <1>8, <1>9, <1>10
     DEF ApiNext, Connect, ReceivePayment, Acknowledge, Overflow,
         StoreFails, AskReplay, AnswerReplay, ReplayMissing, ReplayFails,
         EndReplayEarly, ReconcileStep, AnswerReconcile, ReconcileFails,
         EndReconcile, ApiCrash, ApiStart, allVars

LEMMA ProcessInvariance == ApiSpec => []ProcessInv
<1>1. ProcessInv /\ [ApiNext]_allVars => ProcessInv'
  BY ProcessStep
<1>2. QED BY ProcessInit, <1>1, PTL DEF ApiSpec

(* Pool, queue, exchange with the provider, kill and restart give the      *)
(* database no effect that PaymentService does not have: whatever is true  *)
(* of every behaviour of the service is true of the API process.           *)
THEOREM ApiIsTheService == ApiSpec => ImplementsService
<1>1. ApiInit => Init
  BY DEF ApiInit
<1>2. QED
  BY ProcessInvariance, ServiceStep, <1>1, PTL DEF ApiSpec, Spec, ImplementsService

(* So whatever is asked of the API, wherever it is killed and whatever the *)
(* provider answers, an order changes only as the ledger allows.           *)
THEOREM ApiKeepsTheLedger == ApiSpec => ImplementsLedger
BY ApiIsTheService, ServiceImplementsLedger, PTL DEF ImplementsService

-----------------------------------------------------------------------------
(* Answers and the inbox                                                   *)

(* Only a delivery counts, and each one once.                              *)
LEMMA DeliveryCounts ==
  ASSUME LockInv, AllAccounted, NEW b \in Bodies, NEW isStale \in BOOLEAN,
         Ingest(b, isStale), NEW e \in EventIds
  PROVE  events'[e].count = IF e = b.event THEN events[e].count + 1 ELSE events[e].count
<1>1. events \in [EventIds -> EventRow] /\ b.event \in EventIds
  BY BodyFacts DEF LockInv, TypeInv, TypeOK
<1>2. events' = [events EXCEPT ![b.event] = Upsert(b, isStale)]
  BY DEF Ingest
<1>3. CASE e # b.event
  BY <1>1, <1>2, <1>3
<1>4. CASE e = b.event
  <2>1. events'[e] = Upsert(b, isStale)
    BY <1>1, <1>2, <1>4
  <2>2. CASE events[e].status = "ABSENT"
    <3>1. events[e].count = 0
      BY <2>2 DEF AllAccounted, Accounted
    <3>2. Upsert(b, isStale).count = 1
      BY <1>4, <2>2 DEF Upsert, FirstDelivery
    <3>3. QED BY <1>4, <2>1, <3>1, <3>2
  <2>3. CASE events[e].status # "ABSENT"
    BY <1>1, <1>4, <2>1, <2>3 DEF Upsert, EventRow
  <2>4. QED BY <2>2, <2>3
<1>5. QED BY <1>3, <1>4

LEMMA CountsNeverDrop ==
  ASSUME LockInv, AllAccounted, [Next]_vars, NEW e \in EventIds
  PROVE  events'[e].count >= events[e].count
<1>1. events[e] \in EventRow /\ events[e].count \in Nat
  BY DEF LockInv, TypeInv, TypeOK, EventRow
<1>2. CASE IngestStep
  <2>1. PICK b \in Bodies, isStale \in BOOLEAN : Ingest(b, isStale)
    BY <1>2 DEF IngestStep
  <2>2. QED BY <1>1, <2>1, DeliveryCounts
<1>3. CASE ~IngestStep
  <2>1. Proceeds(events[e], events'[e])
    BY <1>3, RowProceeds
  <2>2. events'[e].count = events[e].count
    BY <1>1, <2>1
       DEF Proceeds, ComesCloser, Settled, Rescheduled, GivenUp, Revived, EventRow
  <2>3. QED BY <1>1, <2>2
<1>4. QED BY <1>2, <1>3

(* The requests in progress are finitely many, though Deliverers need not  *)
(* be finite.                                                              *)
Active == {d \in Deliverers : delivery[d].pc # "none"}

(* The requests whose delivery of e is stored and not answered yet.        *)
StoredFor(e) == {d \in Pending(e) : delivery[d].pc = "stored"}

Covered(e) == acked[e] + Cardinality(StoredFor(e)) <= events[e].count

AckInv ==
  /\ IsFiniteSet(Active)
  /\ acked \in [EventIds -> Nat]
  /\ \A e \in EventIds : Covered(e)

LEMMA AckInit == ApiInit => AckInv
<1> SUFFICES ASSUME ApiInit PROVE AckInv
  OBVIOUS
<1>1. Active = {} /\ \A e \in EventIds : StoredFor(e) = {}
  BY DEF ApiInit, NoDelivery, Active, StoredFor, Pending
<1>2. \A e \in EventIds : acked[e] = 0 /\ events[e].count = 0
  BY DEF ApiInit, Init, TablesInit, NoEventRow
<1>3. acked \in [EventIds -> Nat]
  BY DEF ApiInit
<1>4. IsFiniteSet({}) /\ Cardinality({}) = 0
  BY FS_EmptySet
<1>5. \A e \in EventIds : Covered(e)
  BY <1>1, <1>2, <1>4 DEF Covered
<1>6. QED BY <1>1, <1>3, <1>4, <1>5 DEF AckInv

LEMMA ActiveStep ==
  ASSUME ProcessInv, [ApiNext]_allVars, IsFiniteSet(Active)
  PROVE  IsFiniteSet(Active')
<1>1. ASSUME NEW d \in Deliverers, Comes(d)
      PROVE  IsFiniteSet(Active')
  <2>1. Active' = Active \union {d}
    BY <1>1 DEF Comes, ReceivePayment, ProcessInv, Active
  <2>2. QED BY <2>1, FS_AddElement
<1>2. ASSUME \A d \in Deliverers : ~Comes(d)
      PROVE  IsFiniteSet(Active')
  <2>1. ASSUME NEW d \in Deliverers, delivery'[d].pc # "none"
        PROVE  delivery[d].pc # "none"
    <3>1. Stores(d) \/ Ends(delivery[d], delivery'[d])
      BY <1>2, DeliveryStep DEF Happens
    <3>2. QED BY <2>1, <3>1 DEF Stores, Store, Ends, NoDelivery
  <2>2. Active' \subseteq Active
    BY <2>1 DEF Active
  <2>3. QED BY <2>2, FS_Subset
<1>3. QED BY <1>1, <1>2

LEMMA Parts ==
  ASSUME NEW S, IsFiniteSet(S), NEW T \in SUBSET S
  PROVE  /\ IsFiniteSet(T)
         /\ Cardinality(S) \in Nat /\ Cardinality(T) \in Nat
         /\ Cardinality(T) <= Cardinality(S)
BY FS_Subset, FS_CardinalityType

LEMMA PartsAndOneMore ==
  ASSUME NEW S, IsFiniteSet(S), NEW x, NEW T \in SUBSET (S \union {x})
  PROVE  /\ Cardinality(S) \in Nat /\ Cardinality(T) \in Nat
         /\ Cardinality(T) <= Cardinality(S) + 1
<1>1. /\ IsFiniteSet(S \union {x})
      /\ Cardinality(S \union {x}) \in {Cardinality(S), Cardinality(S) + 1}
  BY FS_AddElement
<1>2. Cardinality(S) \in Nat
  BY FS_CardinalityType
<1>3. Cardinality(T) \in Nat /\ Cardinality(T) <= Cardinality(S \union {x})
  BY <1>1, Parts
<1>4. QED BY <1>1, <1>2, <1>3

LEMMA PartsAndOneLess ==
  ASSUME NEW S, IsFiniteSet(S), NEW x \in S, NEW T \in SUBSET (S \ {x})
  PROVE  /\ Cardinality(S) \in Nat /\ Cardinality(T) \in Nat
         /\ Cardinality(T) + 1 <= Cardinality(S)
<1>1. /\ IsFiniteSet(S \ {x})
      /\ Cardinality(S \ {x}) = Cardinality(S) - 1
  BY FS_RemoveElement
<1>2. Cardinality(S) \in Nat
  BY FS_CardinalityType
<1>3. Cardinality(T) \in Nat /\ Cardinality(T) <= Cardinality(S \ {x})
  BY <1>1, Parts
<1>4. QED BY <1>1, <1>2, <1>3

(* Before every step.                                                      *)
LEMMA CoveredFacts ==
  ASSUME LockInv, AckInv, NEW e \in EventIds
  PROVE  /\ IsFiniteSet(StoredFor(e)) /\ Cardinality(StoredFor(e)) \in Nat
         /\ acked[e] \in Nat /\ events[e].count \in Nat
         /\ Covered(e)
<1>1. StoredFor(e) \subseteq Active
  BY DEF StoredFor, Pending, Active
<1>2. IsFiniteSet(StoredFor(e)) /\ Cardinality(StoredFor(e)) \in Nat
  BY <1>1, Parts DEF AckInv
<1>3. QED BY <1>2 DEF AckInv, LockInv, TypeInv, TypeOK, EventRow

(* A statement of this process takes effect: one delivery more is stored,  *)
(* and at most one more waits for its answer.                              *)
LEMMA StoreCovers ==
  ASSUME LockInv, AllAccounted, ProcessInv, AckInv, NEW d \in Deliverers, Store(d),
         NEW e \in EventIds
  PROVE  Covered(e)'
<1> DEFINE body == delivery[d].body
<1>1. body \in Bodies /\ delivery \in [Deliverers -> DeliveryState]
  BY DEF Store, ProcessInv
<1>2. PICK isStale \in BOOLEAN : Ingest(body, isStale)
  BY DEF Store
<1>3. events'[e].count = IF e = body.event THEN events[e].count + 1 ELSE events[e].count
  BY <1>1, <1>2, DeliveryCounts
<1>4. acked' = acked
  BY DEF Store
<1>5. /\ \A x \in Deliverers \ {d} : delivery'[x] = delivery[x]
      /\ delivery'[d] = NoDelivery \/ delivery'[d] = [delivery[d] EXCEPT !.pc = "stored"]
  BY <1>1 DEF Store
<1>6. delivery'[d].pc = "stored" => delivery'[d].body = body
  BY <1>1, <1>5 DEF NoDelivery, DeliveryState
<1> HIDE DEF body
<1>7. CASE e = body.event
  <2>1. StoredFor(e)' \subseteq StoredFor(e) \union {d}
    BY <1>5 DEF StoredFor, Pending
  <2>2. Cardinality(StoredFor(e)') \in Nat
        /\ Cardinality(StoredFor(e)') <= Cardinality(StoredFor(e)) + 1
    BY <2>1, CoveredFacts, PartsAndOneMore
  <2>3. QED BY <1>3, <1>4, <1>7, <2>2, CoveredFacts DEF Covered
<1>8. CASE e # body.event
  <2>1. StoredFor(e)' \subseteq StoredFor(e)
    BY <1>5, <1>6, <1>8 DEF StoredFor, Pending
  <2>2. Cardinality(StoredFor(e)') \in Nat
        /\ Cardinality(StoredFor(e)') <= Cardinality(StoredFor(e))
    BY <2>1, CoveredFacts, Parts
  <2>3. QED BY <1>3, <1>4, <1>8, <2>2, CoveredFacts DEF Covered
<1>9. QED BY <1>7, <1>8

(* An answer takes its request out of those that wait for one.             *)
LEMMA AcknowledgeCovers ==
  ASSUME LockInv, ProcessInv, AckInv, NEW d \in Deliverers, Acknowledge(d),
         NEW e \in EventIds
  PROVE  Covered(e)' /\ acked' \in [EventIds -> Nat]
<1> DEFINE f == delivery[d].body.event
<1>0. acked \in [EventIds -> Nat] /\ delivery \in [Deliverers -> DeliveryState]
      /\ f \in EventIds /\ delivery[d].pc = "stored"
  BY BodyFacts DEF AckInv, ProcessInv, Acknowledge, Returned
<1>1. /\ acked' = [acked EXCEPT ![f] = acked[f] + 1]
      /\ delivery' = [delivery EXCEPT ![d] = NoDelivery]
      /\ events' = events
  BY DEF Acknowledge, vars, tables
<1>2. acked' \in [EventIds -> Nat]
  BY <1>0, <1>1
<1>3. CASE e = f
  <2>1. d \in StoredFor(e) /\ StoredFor(e)' \subseteq StoredFor(e) \ {d}
    BY <1>0, <1>1, <1>3 DEF StoredFor, Pending, NoDelivery
  <2>2. Cardinality(StoredFor(e)') \in Nat
        /\ Cardinality(StoredFor(e)') + 1 <= Cardinality(StoredFor(e))
    BY <2>1, CoveredFacts, PartsAndOneLess
  <2>3. acked'[e] = acked[e] + 1
    BY <1>0, <1>1, <1>3
  <2>4. QED BY <1>1, <1>2, <2>2, <2>3, CoveredFacts DEF Covered
<1>4. CASE e # f
  <2>1. StoredFor(e)' \subseteq StoredFor(e)
    BY <1>0, <1>1 DEF StoredFor, Pending, NoDelivery
  <2>2. Cardinality(StoredFor(e)') \in Nat
        /\ Cardinality(StoredFor(e)') <= Cardinality(StoredFor(e))
    BY <2>1, CoveredFacts, Parts
  <2>3. acked'[e] = acked[e]
    BY <1>0, <1>1, <1>4
  <2>4. QED BY <1>1, <1>2, <2>2, <2>3, CoveredFacts DEF Covered
<1>5. QED BY <1>2, <1>3, <1>4

(* Any other step may end requests, and may be another way for a delivery  *)
(* to be counted, but answers none.                                        *)
LEMMA OthersCover ==
  ASSUME LockInv, AllAccounted, ProcessInv, AckInv, [ApiNext]_allVars,
         \A d \in Deliverers : ~Store(d), acked' = acked, NEW e \in EventIds
  PROVE  Covered(e)'
<1>1. events'[e].count >= events[e].count /\ events'[e].count \in Nat
  BY ServiceStep, LockStep, CountsNeverDrop DEF LockInv, TypeInv, TypeOK, EventRow
<1>2. ASSUME NEW d \in Deliverers, delivery'[d].pc = "stored"
      PROVE  delivery'[d] = delivery[d]
  <2>1. Comes(d) \/ Ends(delivery[d], delivery'[d])
    BY DeliveryStep DEF Happens, Stores
  <2>2. QED
    BY <1>2, <2>1 DEF Comes, ReceivePayment, ProcessInv, Ends, NoDelivery, DeliveryState
<1>3. StoredFor(e)' \subseteq StoredFor(e)
  BY <1>2 DEF StoredFor, Pending
<1>4. Cardinality(StoredFor(e)') \in Nat
      /\ Cardinality(StoredFor(e)') <= Cardinality(StoredFor(e))
  BY <1>3, CoveredFacts, Parts
<1>5. QED BY <1>1, <1>4, CoveredFacts DEF Covered

LEMMA AckStep ==
  ASSUME LockInv, AllAccounted, ProcessInv, AckInv, [ApiNext]_allVars
  PROVE  AckInv'
<1>1. IsFiniteSet(Active')
  BY ActiveStep DEF AckInv
<1>2. ASSUME NEW d \in Deliverers, Store(d)
      PROVE  acked' = acked /\ \A e \in EventIds : Covered(e)'
  BY <1>2, StoreCovers DEF Store
<1>3. ASSUME NEW d \in Deliverers, Acknowledge(d)
      PROVE  acked' \in [EventIds -> Nat] /\ \A e \in EventIds : Covered(e)'
  BY <1>3, AcknowledgeCovers, BodyFacts DEF ProcessInv, Acknowledge, Returned
<1>4. ASSUME \A d \in Deliverers : ~Acknowledge(d)
      PROVE  acked' = acked
  BY <1>4
     DEF ApiNext, Connect, ReceivePayment, Store, Overflow,
         StoreFails, AskReplay, SelectForReplay, AnswerReplay, ReplayMissing,
         ReplayFails, EndReplayEarly, AskReconcile, ExchangeStep, TakeSnapshot,
         ReconcileStep, AnswerReconcile, ReconcileFails, EndReconcile, ConnectFails,
         ApiCrash, SessionEnds, ApiStart, Others, apiVars, allVars
<1>5. ASSUME \A d \in Deliverers : ~Store(d) /\ ~Acknowledge(d)
      PROVE  acked' = acked /\ \A e \in EventIds : Covered(e)'
  BY <1>4, <1>5, OthersCover
<1>6. QED BY <1>1, <1>2, <1>3, <1>5 DEF AckInv

(* 202 is answered only for what the inbox has counted, for any number of  *)
(* concurrent requests and any size of the pool, wherever the process is   *)
(* killed: no answer is given before the event is there, and nothing takes *)
(* the event away afterwards.                                              *)
THEOREM AnswersAreBacked == ApiSpec => []AcknowledgedIsStored
<1> DEFINE ApiInv == LockInv /\ AllAccounted /\ ProcessInv /\ AckInv
<1>1. ApiInit => ApiInv
  BY LockInit, AccountedInit, ProcessInit, AckInit DEF ApiInit
<1>2. ApiInv /\ [ApiNext]_allVars => ApiInv'
  BY LockStep, AccountedStep, ServiceStep, ProcessStep, AckStep
<1>3. ApiInv => AcknowledgedIsStored
  BY DEF AckInv, Covered, StoredFor, AcknowledgedIsStored
<1> HIDE DEF ApiInv
<1>4. QED BY <1>1, <1>2, <1>3, PTL DEF ApiSpec
-----------------------------------------------------------------------------
(* The worker processes                                                    *)

(* A step of a process is a step of its worker, or concerns only its loop. *)
LEMMA LoopIsWorker ==
  ASSUME NEW w \in Workers, LoopNext(w)
  PROVE  WorkerNext(w) \/ UNCHANGED <<tables, rowLocks, worker>>
BY DEF LoopNext, Work, TickFinds, TickFindsNothing, TickThrows, Settle,
       PollTimerFires, LoopHook, PoolHook, HookReturns, Exit, Kill, StartProcess,
       WorkerNext

LEMMA ProcessesStep == [ProcessesNext]_loopVars => [Next]_vars
<1> SUFFICES ASSUME [ProcessesNext]_loopVars PROVE [Next]_vars
  OBVIOUS
<1>1. ASSUME NEW w \in Workers, LoopNext(w), UNCHANGED <<replay, reconVars>>
      PROVE  [Next]_vars
  <2>1. CASE WorkerNext(w)
    BY <1>1, <2>1 DEF WorkerStep, Next
  <2>2. CASE UNCHANGED <<tables, rowLocks, worker>>
    BY <1>1, <2>2 DEF vars
  <2>3. QED BY <1>1, <2>1, <2>2, LoopIsWorker
<1>2. CASE UNCHANGED loopVars
  BY <1>2 DEF loopVars
<1>3. QED BY <1>1, <1>2 DEF ProcessesNext, Next

(* Polling loops, shutdown hooks, kills and restarts give the database no  *)
(* effect that PaymentService does not have: whatever is true of every     *)
(* behaviour of the service is true of the worker processes.               *)
THEOREM ProcessesAreTheService == ProcessesSpec => LoopsAreTheWorkers
<1>1. LoopInit => Init
  BY DEF LoopInit
<1>2. QED BY <1>1, ProcessesStep, PTL DEF ProcessesSpec, Spec, LoopsAreTheWorkers

(* So whichever processes are told to stop, killed or started, and at      *)
(* whatever point of their work, an order changes only as the ledger       *)
(* allows.                                                                 *)
THEOREM ProcessesKeepTheLedger == ProcessesSpec => ImplementsLedger
BY ProcessesAreTheService, ServiceImplementsLedger, PTL DEF LoopsAreTheWorkers

-----------------------------------------------------------------------------
(* The inductive invariant                                                 *)

LoopRuns == {"ticking", "found", "empty", "broken", "timer", "stopped"}

LoopState ==
  [run : LoopRuns, shutdownRequested : BOOLEAN, ending : BOOLEAN,
   hook : Hooks \union {Null}, awaited : BOOLEAN, done : SUBSET Hooks]

LoopTypeOK == loop \in [Workers -> LoopState]

WorkersTyped == worker \in [Workers -> WorkerState]

(* Each clause about one process:                                          *)
(*  - a transaction is open only during a tick;                            *)
(*  - a hook in progress, or over, has set its flag;                       *)
(*  - the loop's hook waits until the promise is settled, and then nothing *)
(*    runs any more but perhaps a timer that will find the flag;           *)
(*  - the pool's hook waits for the client.                                *)
ProcessOK(w) ==
  /\ InTransaction(w) => loop[w].run = "ticking"
  /\ loop[w].hook = "loop" \/ "loop" \in loop[w].done => loop[w].shutdownRequested
  /\ loop[w].hook = "pool" \/ "pool" \in loop[w].done => loop[w].ending
  /\ (loop[w].hook = "loop" /\ ~loop[w].awaited) \/ "loop" \in loop[w].done =>
       loop[w].run \in {"timer", "stopped"}
  /\ "pool" \in loop[w].done => loop[w].run # "ticking"

LoopInv == LoopTypeOK /\ WorkersTyped /\ \A w \in Workers : ProcessOK(w)

LEMMA LoopInitially == LoopInit => LoopInv
<1> SUFFICES ASSUME LoopInit PROVE LoopInv
  OBVIOUS
<1>1. LoopTypeOK /\ \A w \in Workers : ProcessOK(w)
  BY HooksAssumption
     DEF LoopInit, Init, Started, LoopTypeOK, LoopState, LoopRuns, Hooks, ProcessOK,
         WorkerInit, Idle, InTransaction
<1>2. WorkersTyped
  BY TypeInit DEF LoopInit, WorkersTyped, TypeInv, TypeOK
<1>3. QED BY <1>1, <1>2 DEF LoopInv

(* A transaction that ends leaves its worker outside.                      *)
LEMMA Outside ==
  ASSUME WorkersTyped, NEW w \in Workers,
         \/ TickFinds(w) \/ TickThrows(w) \/ TickFindsNothing(w) \/ Crash(w)
  PROVE  ~InTransaction(w)'
<1>1. CASE TickFindsNothing(w) \/ (worker[w].pc = "idle" /\ UNCHANGED worker)
  BY <1>1 DEF TickFindsNothing, InTransaction
<1>2. CASE worker' = [worker EXCEPT ![w] = Idle]
  BY <1>2 DEF WorkersTyped, InTransaction, Idle
<1>3. CASE Crash(w)
  <2>1. [Idle EXCEPT !.pc = "down"].pc = "down"
    BY DEF Idle
  <2>2. QED BY <1>3, <2>1 DEF Crash, WorkersTyped, InTransaction
<1>4. QED
  BY <1>1, <1>2, <1>3
     DEF TickFinds, TickThrows, CommitResult, ScheduleRetry, SendToDlq,
         AbortTransaction, EndTransaction

(* What a step of process w writes to its loop, field by field.            *)
LEMMA LoopWrites ==
  ASSUME LoopTypeOK, NEW w \in Workers, LoopNext(w)
  PROVE  LoopTypeOK' /\ \A v \in Workers \ {w} : loop'[v] = loop[v]
<1>0. loop \in [Workers -> LoopState] /\ loop[w] \in LoopState
  BY DEF LoopTypeOK
<1>1. ASSUME NEW run \in LoopRuns, SetRun(w, run)
      PROVE  LoopTypeOK' /\ \A v \in Workers \ {w} : loop'[v] = loop[v]
  BY <1>0, <1>1 DEF SetRun, LoopTypeOK, LoopState
<1>2. CASE TickFinds(w) \/ TickFindsNothing(w) \/ TickThrows(w) \/ PollTimerFires(w)
  BY <1>1, <1>2
     DEF TickFinds, TickFindsNothing, TickThrows, PollTimerFires, RunLoop, LoopRuns
<1>3. CASE Settle(w)
  <2>1. AfterTick(w) \in LoopRuns
    BY <1>3 DEF Settle, AfterTick, RunLoop, LoopRuns
  <2>2. QED BY <1>0, <1>3, <2>1 DEF Settle, LoopTypeOK, LoopState
<1>4. CASE LoopHook(w) \/ PoolHook(w)
  BY <1>0, <1>4
     DEF LoopHook, PoolHook, LoopTypeOK, LoopState, Hooks, ActivePromise
<1>5. CASE HookReturns(w)
  <2>1. loop[w].done \union {loop[w].hook} \in SUBSET Hooks
    BY <1>0, <1>5 DEF HookReturns, LoopState, Hooks
  <2>2. QED BY <1>0, <1>5, <2>1 DEF HookReturns, LoopTypeOK, LoopState
<1>6. CASE Exit(w) \/ Kill(w)
  <2>1. Started \in LoopState
    BY DEF Started, LoopState, LoopRuns
  <2>2. QED BY <1>0, <1>6, <2>1 DEF Exit, Kill, ForgetLoop, LoopTypeOK
<1>7. CASE Work(w) \/ StartProcess(w)
  BY <1>0, <1>7 DEF Work, StartProcess, LoopTypeOK
<1>8. QED
  BY <1>2, <1>3, <1>4, <1>5, <1>6, <1>7 DEF LoopNext

LEMMA LoopClauses ==
  ASSUME LoopInv, NEW w \in Workers, LoopNext(w)
  PROVE  ProcessOK(w)'
<1>0. /\ loop \in [Workers -> LoopState] /\ loop[w] \in LoopState
      /\ ProcessOK(w) /\ WorkersTyped
  BY DEF LoopInv, LoopTypeOK
<1>1. CASE Work(w)
  BY <1>0, <1>1 DEF Work, ProcessOK
<1>2. CASE TickFinds(w) \/ TickFindsNothing(w) \/ TickThrows(w)
  <2>1. ~InTransaction(w)'
    BY <1>0, <1>2, Outside
  <2>2. loop[w].run = "ticking"
    BY <1>2 DEF TickFinds, TickFindsNothing, TickThrows
  <2>3. PICK run \in {"found", "empty", "broken"} : SetRun(w, run)
    BY <1>2 DEF TickFinds, TickFindsNothing, TickThrows
  <2>4. QED
    BY <1>0, <2>1, <2>2, <2>3 DEF SetRun, ProcessOK, LoopState
<1>3. CASE Settle(w)
  <2>1. /\ loop'[w].run = AfterTick(w)
        /\ UNCHANGED <<loop[w].shutdownRequested, loop[w].ending, loop[w].hook,
                      loop[w].done, worker>>
    BY <1>0, <1>3 DEF Settle, LoopState
  <2>2. /\ loop[w].shutdownRequested => AfterTick(w) = "stopped"
        /\ loop[w].ending => AfterTick(w) # "ticking"
    BY <1>3 DEF Settle, AfterTick, RunLoop
  <2>3. ~InTransaction(w)
    BY <1>0, <1>3 DEF Settle, ProcessOK
  <2>4. QED
    BY <1>0, <2>1, <2>2, <2>3 DEF ProcessOK, InTransaction
<1>4. CASE PollTimerFires(w)
  <2>1. /\ loop'[w].run = RunLoop(w)
        /\ UNCHANGED <<loop[w].shutdownRequested, loop[w].ending, loop[w].hook,
                      loop[w].awaited, loop[w].done, worker>>
    BY <1>0, <1>4 DEF PollTimerFires, SetRun, LoopState
  <2>2. ~InTransaction(w)
    BY <1>0, <1>4 DEF PollTimerFires, ProcessOK
  <2>3. QED
    BY <1>0, <2>1, <2>2 DEF ProcessOK, InTransaction, RunLoop
<1>5. CASE LoopHook(w)
  <2>1. /\ loop'[w].hook = "loop" /\ loop'[w].shutdownRequested
        /\ loop'[w].awaited = ActivePromise(w)
        /\ UNCHANGED <<loop[w].run, loop[w].ending, loop[w].done, worker>>
    BY <1>0, <1>5 DEF LoopHook, LoopState
  <2>2. ~ActivePromise(w) => loop[w].run \in {"timer", "stopped"}
    BY <1>0 DEF ActivePromise, LoopState, LoopRuns
  <2>3. QED
    BY <1>0, <2>1, <2>2 DEF ProcessOK, InTransaction
<1>6. CASE PoolHook(w)
  <2>1. /\ loop'[w].hook = "pool" /\ loop'[w].ending
        /\ UNCHANGED <<loop[w].run, loop[w].shutdownRequested, loop[w].awaited,
                      loop[w].done, worker>>
    BY <1>0, <1>6 DEF PoolHook, LoopState
  <2>2. QED
    BY <1>0, <2>1 DEF ProcessOK, InTransaction
<1>7. CASE HookReturns(w)
  <2>1. /\ loop'[w].hook = Null
        /\ loop'[w].done = loop[w].done \union {loop[w].hook}
        /\ UNCHANGED <<loop[w].run, loop[w].shutdownRequested, loop[w].ending,
                      loop[w].awaited, worker>>
    BY <1>0, <1>7 DEF HookReturns, LoopState
  <2>2. \/ loop[w].hook = "loop" /\ ~loop[w].awaited
        \/ loop[w].hook = "pool" /\ loop[w].run # "ticking"
    BY <1>7 DEF HookReturns, ClientsReturned
  <2>3. QED
    BY <1>0, <2>1, <2>2, HooksAssumption DEF ProcessOK, InTransaction, Hooks
<1>8. CASE Exit(w) \/ Kill(w)
  <2>1. ~InTransaction(w)'
    BY <1>0, <1>8, Outside DEF Exit, Kill
  <2>2. loop'[w] = Started
    BY <1>0, <1>8 DEF Exit, Kill, ForgetLoop
  <2>3. QED
    BY <2>1, <2>2, HooksAssumption DEF ProcessOK, Started, Hooks
<1>9. CASE StartProcess(w)
  <2>1. ~InTransaction(w)' /\ loop' = loop
    BY <1>0, <1>9 DEF StartProcess, Restart, WorkersTyped, InTransaction, Idle
  <2>2. QED BY <1>0, <2>1 DEF ProcessOK
<1>10. QED
  BY <1>1, <1>2, <1>3, <1>4, <1>5, <1>6, <1>7, <1>8, <1>9 DEF LoopNext

(* Only the worker's own transactions change what the lemmas above use.    *)
LEMMA LoopStep ==
  ASSUME LoopInv, WorkersTyped', [ProcessesNext]_loopVars
  PROVE  LoopInv'
<1>1. ASSUME UNCHANGED <<worker, loop>> PROVE LoopInv'
  BY <1>1 DEF LoopInv, LoopTypeOK, ProcessOK, InTransaction
<1>2. ASSUME NEW w \in Workers, LoopNext(w) PROVE LoopInv'
  <2>1. \A v \in Workers \ {w} : worker'[v] = worker[v]
    BY <1>2, LoopIsWorker
       DEF LoopInv, WorkersTyped, WorkerNext, Claim, LockOrder, CommitResult,
           BusinessError, ScheduleRetry, SendToDlq, AbortTransaction, Crash,
           Restart, EndTransaction
  <2>2. \A v \in Workers \ {w} : ProcessOK(v)'
    BY <1>2, <2>1, LoopWrites DEF LoopInv, ProcessOK, InTransaction
  <2>3. QED BY <1>2, <2>2, LoopWrites, LoopClauses DEF LoopInv
<1>3. QED
  BY <1>1, <1>2
     DEF ProcessesNext, IngestStep, ClockStep, ReplayStep, ReconStep, loopVars, vars

LEMMA LoopInvariance == ProcessesSpec => []LoopInv
<1>1. ProcessesSpec => []WorkersTyped
  <2>1. TypeOK => WorkersTyped
    BY DEF TypeOK, WorkersTyped
  <2>2. QED
    BY <2>1, ProcessesAreTheService, TypeCorrect, PTL DEF LoopsAreTheWorkers
<1>2. LoopInv /\ WorkersTyped' /\ [ProcessesNext]_loopVars => LoopInv'
  BY LoopStep
<1>3. QED BY <1>1, <1>2, LoopInitially, PTL DEF ProcessesSpec

-----------------------------------------------------------------------------
(* When the loop's hook has returned, the process is in no tick and starts *)
(* none: the shutdown of the loop is complete, for any number of           *)
(* processes, events and signals.                                          *)
THEOREM StoppedLoopsAreQuiet == ProcessesSpec => []StoppedIsQuiet
<1>1. LoopInv => StoppedIsQuiet
  BY DEF LoopInv, ProcessOK, StoppedIsQuiet
<1>2. QED BY LoopInvariance, <1>1, PTL

(* The pool is closed only when no transaction is open, and none is begun  *)
(* afterwards, whichever hook the framework runs first.                    *)
THEOREM PoolsCloseIdle == ProcessesSpec => []ClosedPoolIsIdle
<1>1. LoopInv => ClosedPoolIsIdle
  BY DEF LoopInv, WorkersTyped, WorkerState, ProcessOK, ClosedPoolIsIdle, InTransaction, Up
<1>2. QED BY LoopInvariance, <1>1, PTL

(* A process that ends of itself leaves no transaction for PostgreSQL to   *)
(* roll back and no row locked.                                            *)
THEOREM ExitsAreGraceful == ProcessesSpec => GracefulExit
<1>1. LoopInv /\ NoOrphanLocks =>
        \A w \in Workers : Exit(w) =>
          /\ worker[w].pc = "idle"
          /\ \A e \in EventIds : eventLock[e] # w
          /\ \A o \in Orders : orderLock[o] # w
  <2> SUFFICES ASSUME LoopInv, NoOrphanLocks, NEW w \in Workers, Exit(w)
               PROVE  /\ worker[w].pc = "idle"
                      /\ \A e \in EventIds : eventLock[e] # w
                      /\ \A o \in Orders : orderLock[o] # w
    OBVIOUS
  <2>1. ~InTransaction(w)
    BY DEF Exit, Hooks, LoopInv, ProcessOK
  <2>2. worker[w].pc = "idle"
    BY <2>1 DEF Exit, Up, LoopInv, WorkersTyped, WorkerState, InTransaction
  <2>3. /\ \A e \in EventIds : eventLock[e] # w
        /\ \A o \in Orders : orderLock[o] # w
    BY <2>1, WorkersAssumption, ProcessesAssumption DEF NoOrphanLocks, InTransaction
  <2>4. QED BY <2>2, <2>3
<1>2. ProcessesSpec => []NoOrphanLocks
  BY ProcessesAreTheService, LocksEndWithTransactions, PTL DEF LoopsAreTheWorkers
<1>3. QED
  BY LoopInvariance, <1>1, <1>2, PTL DEF ProcessesSpec, GracefulExit
=============================================================================
