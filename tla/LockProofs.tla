----------------------------- MODULE LockProofs -----------------------------
(***************************************************************************)
(* Types.  TypeOK alone is not inductive: a commit writes fields of the    *)
(* row its process has read, so the proof needs that a process inside a    *)
(* transaction has one (ControlOK).                                        *)
(*                                                                         *)
(* Row locks.  What a transaction has read under a row lock stays true     *)
(* until it ends, and therefore no order ever goes back to an older        *)
(* sequence.  The invariant has one part per process: its lock, and what   *)
(* it read under it.  A step of one process cannot disturb the part of     *)
(* another, because it changes only rows that are free or its own.         *)
(*                                                                         *)
(* And who waits for them: no lock survives the transaction that took it,  *)
(* and no set of processes waits for each other in a circle.  Of the       *)
(* processes that wait, a worker waits for one that is not a waiting       *)
(* worker, a reconciliation that runs waits for a worker that waits for    *)
(* nobody, and all other reconciliations wait for the one that runs.       *)
(***************************************************************************)
EXTENDS Invariants, TLAPS

TypeInv == TypeOK /\ ControlOK

-----------------------------------------------------------------------------
(* What the assumptions say of a webhook body.                             *)
LEMMA BodyFacts ==
  ASSUME NEW b \in Bodies
  PROVE  /\ b \in Body
         /\ b.event \in EventIds /\ b.order \in Orders
         /\ b.seq \in Nat /\ b.amount \in Amount
         /\ b # Null
BY TablesAssumption DEF Body

(* A snapshot knows the state of every order, with an amount.              *)
LEMMA SnapshotFacts ==
  ASSUME NEW s \in Snapshots, NEW o \in Orders
  PROVE  /\ s.list \in Seq(Orders)
         /\ s.state[o] \in ProviderRow
BY ReconciliationAssumption DEF Snapshot

(* The decision on an event yields an order row again.                     *)
LEMMA ProcessTypes ==
  ASSUME NEW b \in Bodies, NEW row \in OrderRow
  PROVE  /\ Process(b, row).order \in OrderRow
         /\ Process(b, row).outcome \in {"APPLIED", "IGNORED"}
         /\ Process(b, row).reason \in OutcomeReasons
<1>1. ASSUME b.type \in DOMAIN EventTypeToStatus
      PROVE  EventTypeToStatus[b.type] \in OrderStatuses
  BY <1>1 DEF EventTypeToStatus, OrderStatuses
<1>2. Coalesce(b.amount, row.amount) \in Amount
  BY BodyFacts DEF Coalesce, OrderRow
<1>3. ASSUME b.type \in DOMAIN EventTypeToStatus
      PROVE  Applied(b, row).order \in OrderRow
  BY <1>1, <1>2, <1>3, BodyFacts DEF Applied, OrderRow
<1>4. QED
  BY <1>3 DEF Process, Applied, Ignored, OutcomeReasons

(* One counter more.                                                       *)
LEMMA CountTypes ==
  ASSUME NEW S, NEW f \in [S -> Nat], NEW x
  PROVE  [f EXCEPT ![x] = @ + 1] \in [S -> Nat]
<1>1. CASE x \in S
  <2>1. f[x] + 1 \in Nat
    BY <1>1
  <2>2. QED BY <2>1
<1>2. CASE x \notin S
  <2>1. [f EXCEPT ![x] = @ + 1] = f
    BY <1>2
  <2>2. QED BY <2>1
<1>3. QED BY <1>1, <1>2

LEMMA InsertTypes ==
  ASSUME NEW row \in OrderRow
  PROVE  InsertOrderIfMissing(row) \in OrderRow
BY DEF InsertOrderIfMissing, OrderRow

(* Locks are given up or kept, never invented.                             *)
LEMMA ReleaseTypes ==
  ASSUME TypeOK, NEW p, ReleaseLocks(p)
  PROVE  /\ eventLock' \in [EventIds -> Processes \union {Null}]
         /\ orderLock' \in [Orders -> Processes \union {Null}]
BY DEF TypeOK, ReleaseLocks, EventLocksWithout, OrderLocksWithout

-----------------------------------------------------------------------------
LEMMA TypeInit == Init => TypeInv
<1> SUFFICES ASSUME Init PROVE TypeInv
  OBVIOUS
<1> USE DEF Init, TablesInit, WorkerInit, ReplayInit, ReconInit
<1>1. events \in [EventIds -> EventRow] /\ nextId \in Nat
  BY DEF NoEventRow, EventRow, ProcessingStatuses, OutcomeReasons
<1>2. deliveries \in [EventIds -> [DeliveryResults -> Nat]]
  OBVIOUS
<1>3. orders \in [Orders -> OrderRow]
  BY DEF NoOrderRow, OrderRow, OrderStatuses, Amount
<1>4. history \in [Orders -> Seq(HistoryRow)]
  OBVIOUS
<1>5. worker \in [Workers -> WorkerState]
  BY DEF Idle, WorkerState
<1>6. replay \in [Replayers -> ReplayState]
  BY DEF NoReplay, ReplayState
<1>7. recon \in [Reconcilers -> ReconState]
  BY DEF NoRecon, ReconState
<1>8. TypeOK
  BY <1>1, <1>2, <1>3, <1>4, <1>5, <1>6, <1>7 DEF TypeOK
<1>9. ControlOK
  BY DEF ControlOK, BodiesOK, WorkersOK, ReplaysOK, ReconsOK, Stored, NoEventRow, InTransaction, Idle, NoReplay, NoRecon,
         VisitedBy
<1>10. QED
  BY <1>8, <1>9 DEF TypeInv

-----------------------------------------------------------------------------
(* Every step of a component keeps the types and the local states.         *)
LEMMA IngestTypes ==
  ASSUME TypeInv, IngestStep
  PROVE  TypeInv'
<1> PICK b \in Bodies, isStale \in BOOLEAN : Ingest(b, isStale)
  BY DEF IngestStep
<1> DEFINE e == b.event
           row == Upsert(b, isStale)
<1>1. e \in EventIds /\ events[e] \in EventRow /\ nextId \in Nat
  BY BodyFacts DEF TypeInv, TypeOK
<1>2. row \in EventRow /\ row.status # "ABSENT"
      /\ row.body \in Bodies /\ row.body.event = e
  <2>1. CASE events[e].status = "ABSENT"
    BY <1>1, <2>1 DEF Upsert, FirstDelivery, EventRow, ProcessingStatuses,
                      OutcomeReasons
  <2>2. CASE events[e].status # "ABSENT"
    BY <1>1, <2>2 DEF Upsert, EventRow, TypeInv, ControlOK, BodiesOK, Stored
  <2>3. QED BY <2>1, <2>2
<1>3. events' = [events EXCEPT ![e] = row] /\ nextId' \in Nat
  BY <1>1 DEF Ingest
<1> DEFINE result == DeliveryResult(row, b, isStale)
<1>4. deliveries' \in [EventIds -> [DeliveryResults -> Nat]]
  <2>1. deliveries \in [EventIds -> [DeliveryResults -> Nat]]
    BY DEF TypeInv, TypeOK
  <2>2. deliveries' =
          [deliveries EXCEPT ![e] = [deliveries[e] EXCEPT ![result] = @ + 1]]
    BY DEF Ingest
  <2>3. [deliveries[e] EXCEPT ![result] = @ + 1] \in [DeliveryResults -> Nat]
    BY <1>1, <2>1, CountTypes
  <2>4. QED
    BY <2>1, <2>2, <2>3
<1>5. TypeOK'
  <2>1. events' \in [EventIds -> EventRow]
    BY <1>1, <1>2, <1>3 DEF TypeInv, TypeOK
  <2>2. UNCHANGED <<orders, history, eventLock, orderLock, worker, replay,
                    recon, advisoryLock, runs>>
    BY DEF Ingest, IngestStep, rowLocks, reconVars
  <2>3. QED
    BY <1>3, <1>4, <2>1, <2>2 DEF TypeInv, TypeOK
<1>6. ControlOK'
  <2>1. Stored' = Stored \union {e} /\ BodiesOK'
    BY <1>1, <1>2, <1>3
       DEF TypeInv, TypeOK, ControlOK, BodiesOK, Stored
  <2>2. UNCHANGED <<worker, replay, recon>>
    BY DEF IngestStep, reconVars
  <2>3. QED
    BY <2>1, <2>2
       DEF TypeInv, ControlOK, WorkersOK, ReplaysOK, ReconsOK, InTransaction,
           ClaimedEvent, VisitedBy
<1>7. QED BY <1>5, <1>6 DEF TypeInv

LEMMA TickTypes ==
  ASSUME TypeInv, ClockStep
  PROVE  TypeInv'
<1> USE DEF ClockStep, Tick, reconVars, rowLocks
<1>1. \A e \in EventIds :
        /\ events'[e] \in EventRow
        /\ events'[e].body = events[e].body
        /\ events'[e].status = events[e].status
  <2> TAKE e \in EventIds
  <2>1. events[e] \in EventRow
    BY DEF TypeInv, TypeOK
  <2>2. CASE events[e].next \in {Null, 0}
    BY <2>1, <2>2
  <2>3. CASE events[e].next \notin {Null, 0}
    <3>1. events[e].next \in Nat /\ events[e].next # 0
      BY <2>1, <2>3 DEF EventRow
    <3>2. events'[e] = [events[e] EXCEPT !.next = @ - 1]
      BY <2>3
    <3>3. QED
      BY <2>1, <3>1, <3>2 DEF EventRow
  <2>4. QED BY <2>2, <2>3
<1>2. TypeOK'
  <2>1. events' \in [EventIds -> EventRow]
    BY <1>1
  <2>2. QED
    BY <2>1 DEF TypeInv, TypeOK
<1>3. ControlOK'
  BY <1>1 DEF TypeInv, ControlOK, BodiesOK, WorkersOK, ReplaysOK, ReconsOK,
              Stored, InTransaction, ClaimedEvent, VisitedBy
<1>4. QED BY <1>2, <1>3 DEF TypeInv

(* A worker inside a transaction has a stored body, hence an event and an  *)
(* order.                                                                  *)
LEMMA ClaimFacts ==
  ASSUME TypeInv, NEW w \in Workers, InTransaction(w)
  PROVE  /\ worker[w].event \in EventRow
         /\ worker[w].event.body \in Bodies
         /\ ClaimedEvent(w) \in EventIds
         /\ ClaimedOrder(w) \in Orders
BY BodyFacts DEF TypeInv, TypeOK, ControlOK, WorkersOK, WorkerState, ClaimedEvent,
                 ClaimedOrder

(* What a commit may do to a stored event: any new values, the same body.  *)
LEMMA EventWrite ==
  ASSUME TypeInv, NEW e \in Stored, NEW row \in EventRow,
         row.body = events[e].body, row.status # "ABSENT",
         events' = [events EXCEPT ![e] = row]
  PROVE  /\ events' \in [EventIds -> EventRow]
         /\ Stored' = Stored
         /\ BodiesOK'
BY DEF TypeInv, TypeOK, ControlOK, BodiesOK, Stored

(* The local states survive a step that moves none of their processes.     *)
LEMMA OthersKeepState ==
  ASSUME TypeInv, Stored \subseteq Stored'
  PROVE  /\ UNCHANGED worker => WorkersOK'
         /\ UNCHANGED replay => ReplaysOK'
         /\ UNCHANGED recon => ReconsOK'
BY DEF TypeInv, ControlOK, WorkersOK, ReplaysOK, ReconsOK, InTransaction,
       ClaimedEvent, VisitedBy

(* A worker that ends its transaction has nothing left to be wrong.        *)
LEMMA WorkerEnds ==
  ASSUME TypeInv, Stored \subseteq Stored', NEW w \in Workers,
         NEW state \in WorkerState, state.pc \in {"idle", "down"},
         worker' = [worker EXCEPT ![w] = state]
  PROVE  worker' \in [Workers -> WorkerState] /\ WorkersOK'
<1>1. worker' \in [Workers -> WorkerState]
  BY DEF TypeInv, TypeOK
<1>2. WorkersOK'
  BY DEF TypeInv, TypeOK, ControlOK, WorkersOK, InTransaction, ClaimedEvent
<1>3. QED BY <1>1, <1>2

(* A worker that goes on has kept the event of its claim.                  *)
LEMMA WorkerGoesOn ==
  ASSUME TypeInv, Stored \subseteq Stored', NEW w \in Workers,
         NEW state \in WorkerState, state.pc \in {"claimed", "locked", "failed"},
         state.event # Null, state.event.body \in Bodies,
         state.event.body.event \in Stored,
         state.pc = "locked" => state.order # Null,
         worker' = [worker EXCEPT ![w] = state]
  PROVE  worker' \in [Workers -> WorkerState] /\ WorkersOK'
<1>1. worker' \in [Workers -> WorkerState]
  BY DEF TypeInv, TypeOK
<1>2. WorkersOK'
  BY DEF TypeInv, TypeOK, ControlOK, WorkersOK, InTransaction, ClaimedEvent
<1>3. QED BY <1>1, <1>2

LEMMA IdleTypes == Idle \in WorkerState /\ [Idle EXCEPT !.pc = "down"] \in WorkerState
BY DEF Idle, WorkerState

(* The row of an event after its result, a retry or a dead letter.         *)
LEMMA DecidedRow ==
  ASSUME NEW row \in EventRow,
         NEW outcome \in {"APPLIED", "IGNORED"}, NEW reason \in OutcomeReasons
  PROVE  [row EXCEPT !.status = outcome, !.reason = reason, !.next = Null] \in EventRow
BY DEF EventRow, ProcessingStatuses, OutcomeReasons

LEMMA RetryRow ==
  ASSUME NEW row \in EventRow, NEW attempts \in Nat, NEW delay \in Nat
  PROVE  [row EXCEPT !.status = "RETRY_SCHEDULED", !.attempts = attempts,
                     !.next = delay, !.reason = "TRANSIENT_ERROR"] \in EventRow
BY DEF EventRow, ProcessingStatuses, OutcomeReasons

LEMMA DeadRow ==
  ASSUME NEW row \in EventRow, NEW attempts \in Nat
  PROVE  [row EXCEPT !.status = "DLQ", !.attempts = attempts, !.next = Null,
                     !.reason = "MAX_ATTEMPTS_EXHAUSTED"] \in EventRow
BY DEF EventRow, ProcessingStatuses, OutcomeReasons

LEMMA WorkerTypes ==
  ASSUME TypeInv, NEW w \in Workers, WorkerStep(w)
  PROVE  TypeInv'
<1>0. /\ UNCHANGED <<nextId, deliveries, replay, recon, advisoryLock, runs>>
      /\ worker[w] \in WorkerState
      /\ w \in Processes
  BY DEF WorkerStep, WorkerNext, Claim, LockOrder, CommitResult, BusinessError,
         ScheduleRetry, SendToDlq, AbortTransaction, Crash, Restart, tables,
         reconVars, TypeInv, TypeOK, Processes
<1>1. CASE Claim(w)
  <2> PICK e \in EventIds :
        /\ Claimable(e)
        /\ worker' = [worker EXCEPT ![w] =
             [@ EXCEPT !.pc = "claimed", !.event = events[e]]]
        /\ eventLock' = [eventLock EXCEPT ![e] = w]
    BY <1>1 DEF Claim
  <2>1. e \in Stored /\ events[e] \in EventRow
    BY DEF Claimable, Stored, TypeInv, TypeOK
  <2>2. UNCHANGED <<events, orders, history, orderLock>>
    BY <1>1 DEF Claim, tables
  <2>3. worker' \in [Workers -> WorkerState] /\ WorkersOK'
    <3> DEFINE state == [worker[w] EXCEPT !.pc = "claimed", !.event = events[e]]
    <3>1. state \in WorkerState /\ state.event = events[e] /\ state.pc = "claimed"
      BY <1>0, <2>1 DEF WorkerState
    <3>2. events[e] # Null /\ events[e].body \in Bodies /\ events[e].body.event = e
      BY <2>1, TablesAssumption DEF TypeInv, ControlOK, BodiesOK
    <3>3. Stored \subseteq Stored'
      BY <2>2 DEF Stored
    <3>4. worker' = [worker EXCEPT ![w] = state]
      OBVIOUS
    <3> HIDE DEF state
    <3>5. /\ state.event # Null /\ state.event.body \in Bodies
          /\ state.event.body.event \in Stored
      BY <2>1, <3>1, <3>2
    <3>6. QED BY <3>1, <3>3, <3>4, <3>5, WorkerGoesOn
  <2>4. eventLock' \in [EventIds -> Processes \union {Null}]
    BY <1>0 DEF TypeInv, TypeOK
  <2>5. TypeOK'
    BY <1>0, <2>2, <2>3, <2>4 DEF TypeInv, TypeOK
  <2>6. ControlOK'
    BY <1>0, <2>2, <2>3, OthersKeepState DEF TypeInv, ControlOK, BodiesOK, Stored
  <2>7. QED BY <2>5, <2>6 DEF TypeInv
<1>2. CASE LockOrder(w)
  <2> DEFINE o == ClaimedOrder(w)
             read == InsertOrderIfMissing(orders[o])
             state == [worker[w] EXCEPT !.pc = "locked", !.order = read]
  <2>1. InTransaction(w) /\ o \in Orders
    BY <1>2, ClaimFacts DEF LockOrder, InTransaction
  <2>2. read \in OrderRow /\ read # Null
    BY <2>1, InsertTypes, TablesAssumption DEF TypeInv, TypeOK
  <2>3. UNCHANGED <<events, orders, history, eventLock>>
    BY <1>2 DEF LockOrder, tables
  <2>4. worker' = [worker EXCEPT ![w] = state]
    BY <1>2 DEF LockOrder
  <2>5. state \in WorkerState /\ state.pc = "locked" /\ state.order = read
        /\ state.event = worker[w].event
    BY <1>0, <2>2 DEF WorkerState
  <2>6. worker' \in [Workers -> WorkerState] /\ WorkersOK'
    <3>1. /\ worker[w].event # Null /\ worker[w].event.body \in Bodies
          /\ worker[w].event.body.event \in Stored
      BY <2>1 DEF TypeInv, ControlOK, WorkersOK, ClaimedEvent
    <3>2. Stored \subseteq Stored'
      BY <2>3 DEF Stored
    <3> HIDE DEF state, read
    <3>3. QED BY <2>2, <2>4, <2>5, <3>1, <3>2, WorkerGoesOn
  <2>7. orderLock' \in [Orders -> Processes \union {Null}]
    BY <1>0, <1>2 DEF LockOrder, TypeInv, TypeOK
  <2>8. TypeOK'
    BY <1>0, <2>3, <2>6, <2>7 DEF TypeInv, TypeOK
  <2>9. ControlOK'
    BY <1>0, <2>3, <2>6, OthersKeepState DEF TypeInv, ControlOK, BodiesOK, Stored
  <2>10. QED BY <2>8, <2>9 DEF TypeInv
<1>3. CASE CommitResult(w)
  <2> DEFINE e == ClaimedEvent(w)
             o == ClaimedOrder(w)
             body == worker[w].event.body
             result == Process(body, worker[w].order)
             row == [events[e] EXCEPT !.status = result.outcome,
                                      !.reason = result.reason, !.next = Null]
             entry == WebhookHistory(body, worker[w].order, result)
  <2>1. /\ InTransaction(w) /\ e \in Stored /\ e \in EventIds /\ o \in Orders
        /\ body \in Bodies
    BY <1>3, ClaimFacts
       DEF CommitResult, InTransaction, TypeInv, ControlOK, WorkersOK
  <2>2. worker[w].order \in OrderRow
    BY <1>0, <1>3 DEF CommitResult, WorkerState, TypeInv, ControlOK, WorkersOK
  <2>3. /\ result.order \in OrderRow
        /\ result.outcome \in {"APPLIED", "IGNORED"}
        /\ result.reason \in OutcomeReasons
    BY <2>1, <2>2, ProcessTypes
  <2>4. row \in EventRow /\ row.body = events[e].body /\ row.status # "ABSENT"
    <3> HIDE DEF result
    <3>1. events[e] \in EventRow
      BY <2>1 DEF TypeInv, TypeOK
    <3>2. row \in EventRow
      BY <2>3, <3>1, DecidedRow
    <3>3. QED BY <2>3, <3>1, <3>2 DEF EventRow
  <2>5. entry \in HistoryRow
    <3> HIDE DEF result
    <3>1. QED
      BY <2>1, <2>2, <2>3, BodyFacts DEF WebhookHistory, HistoryRow, OrderRow
  <2>6. /\ events' = [events EXCEPT ![e] = row]
        /\ orders' = [orders EXCEPT ![o] = result.order]
        /\ history' = [history EXCEPT ![o] = Append(history[o], entry)]
        /\ worker' = [worker EXCEPT ![w] = Idle]
        /\ ReleaseLocks(w)
    BY <1>3 DEF CommitResult, EndTransaction
  <2> HIDE DEF row, result, entry
  <2>7. events' \in [EventIds -> EventRow] /\ Stored' = Stored /\ BodiesOK'
    BY <2>1, <2>4, <2>6, EventWrite
  <2>8. orders' \in [Orders -> OrderRow] /\ history' \in [Orders -> Seq(HistoryRow)]
    BY <2>1, <2>3, <2>5, <2>6 DEF TypeInv, TypeOK
  <2>9. worker' \in [Workers -> WorkerState] /\ WorkersOK'
    BY <2>6, <2>7, IdleTypes, WorkerEnds DEF Idle
  <2>10. TypeOK'
    BY <1>0, <2>6, <2>7, <2>8, <2>9, ReleaseTypes DEF TypeInv, TypeOK
  <2>11. ControlOK'
    BY <1>0, <2>7, <2>9, OthersKeepState DEF TypeInv, ControlOK
  <2>12. QED BY <2>10, <2>11 DEF TypeInv
<1>4. CASE BusinessError(w)
  <2> DEFINE state == [worker[w] EXCEPT !.pc = "failed", !.order = Null]
  <2>1. InTransaction(w)
    BY <1>4 DEF BusinessError, InTransaction
  <2>2. UNCHANGED <<events, orders, history, eventLock>>
    BY <1>4 DEF BusinessError, tables
  <2>3. state \in WorkerState /\ state.pc = "failed" /\ state.event = worker[w].event
    BY <1>0 DEF WorkerState
  <2>4. worker' = [worker EXCEPT ![w] = state]
    BY <1>4 DEF BusinessError
  <2>5. worker' \in [Workers -> WorkerState] /\ WorkersOK'
    <3>1. /\ worker[w].event # Null /\ worker[w].event.body \in Bodies
          /\ worker[w].event.body.event \in Stored
      BY <2>1 DEF TypeInv, ControlOK, WorkersOK, ClaimedEvent
    <3>2. Stored \subseteq Stored'
      BY <2>2 DEF Stored
    <3> HIDE DEF state
    <3>3. QED BY <2>3, <2>4, <3>1, <3>2, WorkerGoesOn
  <2>6. orderLock' \in [Orders -> Processes \union {Null}]
    BY <1>4 DEF BusinessError, OrderLocksWithout, TypeInv, TypeOK
  <2>7. TypeOK'
    BY <1>0, <2>2, <2>5, <2>6 DEF TypeInv, TypeOK
  <2>8. ControlOK'
    BY <1>0, <2>2, <2>5, OthersKeepState DEF TypeInv, ControlOK, BodiesOK, Stored
  <2>9. QED BY <2>7, <2>8 DEF TypeInv
<1>5. CASE ScheduleRetry(w) \/ SendToDlq(w)
  <2> DEFINE e == ClaimedEvent(w)
  <2>1. InTransaction(w) /\ e \in Stored /\ e \in EventIds
    BY <1>5, ClaimFacts DEF ScheduleRetry, SendToDlq, InTransaction, TypeInv,
                            ControlOK, WorkersOK
  <2>2. NewAttemptCount(worker[w].event.attempts) \in Nat
    BY <2>1, ClaimFacts DEF NewAttemptCount, EventRow
  <2>3. \A delay \in Delays(worker[w].event.attempts) : delay \in Nat
    BY RetryAssumption DEF Delays
  <2>4. PICK row \in EventRow :
          /\ row.body = events[e].body /\ row.status # "ABSENT"
          /\ events' = [events EXCEPT ![e] = row]
    <3>1. events[e] \in EventRow
      BY <2>1 DEF TypeInv, TypeOK
    <3>2. CASE ScheduleRetry(w)
      <4> PICK delay \in Delays(worker[w].event.attempts) :
            events' = [events EXCEPT ![e] =
              [@ EXCEPT !.status   = "RETRY_SCHEDULED",
                        !.attempts = NewAttemptCount(worker[w].event.attempts),
                        !.next     = delay,
                        !.reason   = "TRANSIENT_ERROR"]]
        BY <3>2 DEF ScheduleRetry
      <4> DEFINE retried ==
            [events[e] EXCEPT !.status   = "RETRY_SCHEDULED",
                              !.attempts = NewAttemptCount(worker[w].event.attempts),
                              !.next     = delay,
                              !.reason   = "TRANSIENT_ERROR"]
      <4>1. events' = [events EXCEPT ![e] = retried]
        OBVIOUS
      <4>2. retried \in EventRow
        BY <2>2, <2>3, <3>1, RetryRow
      <4>3. retried.body = events[e].body /\ retried.status # "ABSENT"
        BY <3>1 DEF EventRow
      <4> HIDE DEF retried
      <4>4. QED BY <4>1, <4>2, <4>3
    <3>3. CASE SendToDlq(w)
      <4> DEFINE dead ==
            [events[e] EXCEPT !.status   = "DLQ",
                              !.attempts = NewAttemptCount(worker[w].event.attempts),
                              !.next     = Null,
                              !.reason   = "MAX_ATTEMPTS_EXHAUSTED"]
      <4>1. events' = [events EXCEPT ![e] = dead]
        BY <3>3 DEF SendToDlq
      <4>2. dead \in EventRow
        BY <2>2, <3>1, DeadRow
      <4>3. dead.body = events[e].body /\ dead.status # "ABSENT"
        BY <3>1 DEF EventRow
      <4> HIDE DEF dead
      <4>4. QED BY <4>1, <4>2, <4>3
    <3>4. QED BY <1>5, <3>2, <3>3
  <2>5. /\ worker' = [worker EXCEPT ![w] = Idle]
        /\ ReleaseLocks(w)
        /\ UNCHANGED <<orders, history>>
    BY <1>5 DEF ScheduleRetry, SendToDlq, EndTransaction
  <2>6. events' \in [EventIds -> EventRow] /\ Stored' = Stored /\ BodiesOK'
    BY <2>1, <2>4, EventWrite
  <2>7. worker' \in [Workers -> WorkerState] /\ WorkersOK'
    BY <2>5, <2>6, IdleTypes, WorkerEnds DEF Idle
  <2>8. TypeOK'
    BY <1>0, <2>5, <2>6, <2>7, ReleaseTypes DEF TypeInv, TypeOK
  <2>9. ControlOK'
    BY <1>0, <2>6, <2>7, OthersKeepState DEF TypeInv, ControlOK
  <2>10. QED BY <2>8, <2>9 DEF TypeInv
<1>6. CASE AbortTransaction(w) \/ Crash(w) \/ Restart(w)
  <2>1. UNCHANGED <<events, orders, history>>
    BY <1>6 DEF AbortTransaction, Crash, Restart, tables
  <2>2. PICK state \in WorkerState :
          /\ state.pc \in {"idle", "down"}
          /\ worker' = [worker EXCEPT ![w] = state]
    BY <1>6, IdleTypes DEF AbortTransaction, Crash, Restart, EndTransaction, Idle
  <2>3. worker' \in [Workers -> WorkerState] /\ WorkersOK'
    BY <2>1, <2>2, WorkerEnds DEF Stored
  <2>4. /\ eventLock' \in [EventIds -> Processes \union {Null}]
        /\ orderLock' \in [Orders -> Processes \union {Null}]
    BY <1>6, ReleaseTypes
       DEF AbortTransaction, Crash, Restart, EndTransaction, rowLocks, TypeInv, TypeOK
  <2>5. TypeOK'
    BY <1>0, <2>1, <2>3, <2>4 DEF TypeInv, TypeOK
  <2>6. ControlOK'
    BY <1>0, <2>1, <2>3, OthersKeepState DEF TypeInv, ControlOK, BodiesOK, Stored
  <2>7. QED BY <2>5, <2>6 DEF TypeInv
<1>7. QED
  BY <1>1, <1>2, <1>3, <1>4, <1>5, <1>6 DEF WorkerStep, WorkerNext

LEMMA ReplayTypes ==
  ASSUME TypeInv, NEW r \in Replayers, ReplayStep(r)
  PROVE  TypeInv'
<1>0. /\ UNCHANGED <<nextId, deliveries, orders, history, worker, recon,
                     advisoryLock, runs>>
      /\ replay[r] \in ReplayState
      /\ r \in Processes
  BY DEF ReplayStep, ReplayNext, ReplaySelect, ReplayCommit, ReplayRefuse,
         ReplayAbort, tables, reconVars, TypeInv, TypeOK, Processes
<1>1. CASE \E e \in EventIds : ReplaySelect(r, e)
  <2> PICK e \in EventIds : ReplaySelect(r, e)
    BY <1>1
  <2>1. e \in Stored /\ events[e] \in EventRow
    BY DEF ReplaySelect, Selectable, Stored, TypeInv, TypeOK
  <2>2. UNCHANGED <<events, orderLock>>
    BY DEF ReplaySelect, tables
  <2>3. replay' = [replay EXCEPT ![r] = [pc |-> "selected", event |-> events[e]]]
    BY DEF ReplaySelect
  <2>4. events[e] # Null /\ events[e].body \in Bodies /\ events[e].body.event = e
    BY <2>1, TablesAssumption DEF TypeInv, ControlOK, BodiesOK
  <2>5. replay' \in [Replayers -> ReplayState]
    BY <2>1, <2>3 DEF ReplayState, TypeInv, TypeOK
  <2>6. ReplaysOK'
    BY <2>1, <2>2, <2>3, <2>4
       DEF ReplaysOK, ReplayState, Stored, TypeInv, TypeOK, ControlOK
  <2>7. eventLock' \in [EventIds -> Processes \union {Null}]
    BY <1>0 DEF ReplaySelect, TypeInv, TypeOK
  <2>8. TypeOK'
    BY <1>0, <2>2, <2>5, <2>7 DEF TypeInv, TypeOK
  <2>9. ControlOK'
    BY <1>0, <2>2, <2>6, OthersKeepState DEF TypeInv, ControlOK, BodiesOK, Stored
  <2>10. QED BY <2>8, <2>9 DEF TypeInv
<1>2. CASE ReplayCommit(r) \/ ReplayRefuse(r) \/ ReplayAbort(r)
  <2>1. replay' = [replay EXCEPT ![r] = NoReplay] /\ ReleaseLocks(r)
    BY <1>2 DEF ReplayCommit, ReplayRefuse, ReplayAbort, EndReplay
  <2>2. /\ events' \in [EventIds -> EventRow]
        /\ Stored' = Stored
        /\ BodiesOK'
    <3>1. CASE ReplayCommit(r)
      <4> DEFINE e == replay[r].event.body.event
                 row == Revived(events[e])
      <4>1. e \in Stored /\ events[e] \in EventRow
        BY <3>1 DEF ReplayCommit, TypeInv, TypeOK, ControlOK, ReplaysOK, Stored
      <4>2. row \in EventRow /\ row.body = events[e].body /\ row.status # "ABSENT"
        <5>1. events[e].replays + 1 \in Nat
          BY <4>1 DEF EventRow
        <5>2. QED
          BY <4>1, <5>1 DEF Revived, EventRow, ProcessingStatuses, OutcomeReasons
      <4>3. events' = [events EXCEPT ![e] = row]
        BY <3>1 DEF ReplayCommit
      <4> HIDE DEF row
      <4>4. QED BY <4>1, <4>2, <4>3, EventWrite
    <3>2. CASE ReplayRefuse(r) \/ ReplayAbort(r)
      BY <3>2 DEF ReplayRefuse, ReplayAbort, tables, TypeInv, TypeOK, ControlOK,
                  BodiesOK, Stored
    <3>3. QED BY <1>2, <3>1, <3>2
  <2>3. replay' \in [Replayers -> ReplayState] /\ ReplaysOK'
    BY <2>1, <2>2 DEF NoReplay, ReplayState, ReplaysOK, TypeInv, TypeOK, ControlOK
  <2>4. TypeOK'
    BY <1>0, <2>1, <2>2, <2>3, ReleaseTypes DEF TypeInv, TypeOK
  <2>5. ControlOK'
    BY <1>0, <2>2, <2>3, OthersKeepState DEF TypeInv, ControlOK
  <2>6. QED BY <2>4, <2>5 DEF TypeInv
<1>3. QED BY <1>1, <1>2 DEF ReplayStep, ReplayNext

(* A running reconciliation has a snapshot; its rows are order rows.       *)
LEMMA SeenFacts ==
  ASSUME TypeInv, NEW r \in Reconcilers, NEW o \in VisitedBy(r)
  PROVE  /\ o \in Orders
         /\ recon[r].seen[o] \in OrderRow
         /\ recon[r].snapshot \in Snapshots
         /\ recon[r].snapshot.state[o] \in ProviderRow
<1>1. o \in Orders /\ recon[r].seen[o] \in OrderRow /\ recon[r].pc = "running"
  BY DEF VisitedBy, TypeInv, TypeOK, ReconState, ControlOK, ReconsOK
<1>2. recon[r].snapshot \in Snapshots
  BY <1>1 DEF TypeInv, TypeOK, ReconState, ControlOK, ReconsOK
<1>3. QED BY <1>1, <1>2, SnapshotFacts

LEMMA ReconTypes ==
  ASSUME TypeInv, NEW r \in Reconcilers, ReconStep(r)
  PROVE  TypeInv'
<1>0. /\ UNCHANGED <<events, nextId, deliveries, worker, replay>>
      /\ recon[r] \in ReconState
      /\ r \in Processes
  BY DEF ReconStep, ReconNext, FetchSnapshot, BeginRun, VisitOrder, CommitRun,
         AbortRun, tables, TypeInv, TypeOK, Processes
<1>1. CASE \E s \in Snapshots : FetchSnapshot(r, s)
  <2> PICK s \in Snapshots : FetchSnapshot(r, s)
    BY <1>1
  <2> DEFINE state == [recon[r] EXCEPT !.pc = "fetched", !.snapshot = s, !.todo = s.list]
  <2>1. /\ recon' = [recon EXCEPT ![r] = state]
        /\ UNCHANGED <<orders, history, eventLock, orderLock, advisoryLock, runs>>
    BY DEF FetchSnapshot, tables, rowLocks
  <2>2. s.list \in Seq(Orders) /\ s # Null
    BY ReconciliationAssumption, TablesAssumption DEF Snapshot
  <2>3. state \in ReconState /\ state.seen = recon[r].seen /\ state.snapshot = s
    BY <1>0, <2>2 DEF ReconState
  <2> HIDE DEF state
  <2>4. recon' \in [Reconcilers -> ReconState] /\ ReconsOK'
    BY <2>1, <2>2, <2>3
       DEF FetchSnapshot, TypeInv, TypeOK, ControlOK, ReconsOK, VisitedBy
  <2>5. TypeOK'
    BY <1>0, <2>1, <2>4 DEF TypeInv, TypeOK
  <2>6. ControlOK'
    BY <1>0, <2>4, OthersKeepState DEF TypeInv, ControlOK, BodiesOK, Stored
  <2>7. QED BY <2>5, <2>6 DEF TypeInv
<1>2. CASE BeginRun(r)
  <2>1. UNCHANGED <<orders, history, eventLock, orderLock, runs>> /\ advisoryLock' = r
    BY <1>2 DEF BeginRun, tables, rowLocks
  <2>2. recon' \in [Reconcilers -> ReconState] /\ ReconsOK'
    BY <1>0, <1>2
       DEF BeginRun, ReconState, TypeInv, TypeOK, ControlOK, ReconsOK, VisitedBy
  <2>3. TypeOK'
    BY <1>0, <2>1, <2>2 DEF TypeInv, TypeOK
  <2>4. ControlOK'
    BY <1>0, <2>2, OthersKeepState DEF TypeInv, ControlOK, BodiesOK, Stored
  <2>5. QED BY <2>3, <2>4 DEF TypeInv
<1>3. CASE VisitOrder(r)
  <2> DEFINE o == Head(recon[r].todo)
             state == [recon[r] EXCEPT !.todo = Tail(recon[r].todo),
                         !.seen = [recon[r].seen EXCEPT ![o] = orders[o]]]
  <2>1. o \in Orders /\ Tail(recon[r].todo) \in Seq(Orders) /\ recon[r].pc = "running"
    BY <1>0, <1>3 DEF VisitOrder, ReconState
  <2>2. /\ recon' = [recon EXCEPT ![r] = state]
        /\ orderLock' = [orderLock EXCEPT ![o] = r]
        /\ UNCHANGED <<orders, history, eventLock, advisoryLock, runs>>
    BY <1>0, <1>3 DEF VisitOrder, tables, ReconState, TypeInv, TypeOK
  <2>3. state \in ReconState /\ state.pc = "running"
        /\ state.snapshot = recon[r].snapshot
    <3>1. [recon[r].seen EXCEPT ![o] = orders[o]] \in [Orders -> OrderRow \union {Null}]
      BY <1>0, <2>1 DEF ReconState, TypeInv, TypeOK
    <3>2. QED BY <1>0, <2>1, <3>1 DEF ReconState
  <2> HIDE DEF state
  <2>4. recon' \in [Reconcilers -> ReconState] /\ ReconsOK'
    BY <2>1, <2>2, <2>3 DEF TypeInv, TypeOK, ControlOK, ReconsOK, VisitedBy
  <2>5. orderLock' \in [Orders -> Processes \union {Null}]
    BY <1>0, <2>2 DEF TypeInv, TypeOK
  <2>6. TypeOK'
    BY <1>0, <2>2, <2>4, <2>5 DEF TypeInv, TypeOK
  <2>7. ControlOK'
    BY <1>0, <2>4, OthersKeepState DEF TypeInv, ControlOK, BodiesOK, Stored
  <2>8. QED BY <2>6, <2>7 DEF TypeInv
<1>4. CASE CommitRun(r) \/ AbortRun(r)
  <2>1. /\ recon' = [recon EXCEPT ![r] = NoRecon]
        /\ advisoryLock' \in {advisoryLock, Null}
        /\ ReleaseLocks(r)
    BY <1>4 DEF CommitRun, AbortRun, EndRun
  <2>2. recon' \in [Reconcilers -> ReconState] /\ ReconsOK'
    BY <2>1 DEF NoRecon, ReconState, TypeInv, TypeOK, ControlOK, ReconsOK, VisitedBy
  <2>3. /\ orders' \in [Orders -> OrderRow]
        /\ history' \in [Orders -> Seq(HistoryRow)]
        /\ runs' \in Seq(Run)
    <3>1. CASE CommitRun(r)
      <4>1. ASSUME NEW o \in VisitedBy(r)
            PROVE  /\ RepairedRow(recon[r].snapshot.state[o]) \in OrderRow
                   /\ RepairHistory(recon[r].seen[o], recon[r].snapshot.state[o])
                        \in HistoryRow
        BY SeenFacts DEF RepairedRow, RepairHistory, OrderRow, HistoryRow,
                         ProviderRow, Amount
      <4>2. Repairs(r) \subseteq VisitedBy(r) /\ VisitedBy(r) \subseteq Orders
        BY DEF Repairs, WithVerdict, VisitedBy
      <4>3. orders' \in [Orders -> OrderRow]
        BY <3>1, <4>1, <4>2, InsertTypes DEF CommitRun, TypeInv, TypeOK
      <4>4. history' \in [Orders -> Seq(HistoryRow)]
        BY <3>1, <4>1, <4>2 DEF CommitRun, TypeInv, TypeOK
      <4>5. runs' \in Seq(Run)
        <5>1. \A verdict : WithVerdict(r, verdict) \subseteq Orders
          BY DEF WithVerdict, VisitedBy
        <5>2. ProviderRows(r) \in [Orders -> ProviderRow \union {Null}]
          BY SeenFacts DEF ProviderRows
        <5>3. QED BY <3>1, <5>1, <5>2 DEF CommitRun, Run, TypeInv, TypeOK
      <4>6. QED BY <4>3, <4>4, <4>5
    <3>2. CASE AbortRun(r)
      BY <3>2 DEF AbortRun, tables, TypeInv, TypeOK
    <3>3. QED BY <1>4, <3>1, <3>2
  <2>4. TypeOK'
    BY <1>0, <2>1, <2>2, <2>3, ReleaseTypes DEF TypeInv, TypeOK
  <2>5. ControlOK'
    BY <1>0, <2>2, OthersKeepState DEF TypeInv, ControlOK, BodiesOK, Stored
  <2>6. QED BY <2>4, <2>5 DEF TypeInv
<1>5. QED BY <1>1, <1>2, <1>3, <1>4 DEF ReconStep, ReconNext

LEMMA TypeStep == TypeInv /\ [Next]_vars => TypeInv'
<1> SUFFICES ASSUME TypeInv, [Next]_vars PROVE TypeInv'
  OBVIOUS
<1>1. CASE Next
  BY <1>1, IngestTypes, TickTypes, WorkerTypes, ReplayTypes, ReconTypes DEF Next
<1>2. CASE UNCHANGED vars
  BY <1>2 DEF vars, tables, rowLocks, reconVars, TypeInv, TypeOK, ControlOK,
              BodiesOK, WorkersOK, ReplaysOK, ReconsOK, Stored, InTransaction,
              ClaimedEvent, VisitedBy
<1>3. QED BY <1>1, <1>2

(* In every reachable state the tables obey their schema and every process *)
(* inside a transaction has the rows its next statements use.              *)
LEMMA TypeInvariance == Spec => []TypeInv
BY TypeInit, TypeStep, PTL DEF Spec

(* The tables obey their schema and the local states their shape, for any  *)
(* number of events, orders, workers and requests: whatever is interleaved, *)
(* no commit writes a value its column cannot hold.                        *)
THEOREM TypeCorrect == Spec => []TypeOK
<1>1. TypeInv => TypeOK
  BY DEF TypeInv
<1>2. QED BY TypeInvariance, <1>1, PTL

-----------------------------------------------------------------------------
(* Row locks                                                               *)

(* Only a scheduled retry has a time, so that the clock never changes a    *)
(* row that can be claimed.                                                *)
QueueOK == \A e \in EventIds : events[e].status = "PENDING" => events[e].next = Null

WorkerReads(w) ==
  /\ InTransaction(w) =>
       /\ worker[w].event = events[ClaimedEvent(w)]
       /\ worker[w].event.status \in Waiting
       /\ worker[w].event.next \in {Null, 0}
       /\ eventLock[ClaimedEvent(w)] = w
  /\ worker[w].pc = "locked" =>
       /\ worker[w].order = InsertOrderIfMissing(orders[ClaimedOrder(w)])
       /\ orderLock[ClaimedOrder(w)] = w

ReplayReads(r) ==
  replay[r].pc = "selected" =>
    /\ SameRow(replay[r].event, events[replay[r].event.body.event])
    /\ eventLock[replay[r].event.body.event] = r

ReconReads(r) ==
  \A o \in VisitedBy(r) : recon[r].seen[o] = orders[o] /\ orderLock[o] = r

LockInv ==
  /\ TypeInv
  /\ QueueOK
  /\ \A w \in Workers : WorkerReads(w)
  /\ \A r \in Replayers : ReplayReads(r)
  /\ \A r \in Reconcilers : ReconReads(r)

-----------------------------------------------------------------------------
LEMMA LockInit == Init => LockInv
<1> SUFFICES ASSUME Init PROVE LockInv
  OBVIOUS
<1>1. TypeInv
  BY TypeInit
<1>2. QueueOK
  BY DEF Init, TablesInit, NoEventRow, QueueOK
<1>3. \A w \in Workers : WorkerReads(w)
  BY DEF Init, WorkerInit, Idle, WorkerReads, InTransaction
<1>4. \A r \in Replayers : ReplayReads(r)
  BY DEF Init, ReplayInit, NoReplay, ReplayReads
<1>5. \A r \in Reconcilers : ReconReads(r)
  BY DEF Init, ReconInit, NoRecon, ReconReads, VisitedBy
<1>6. QED BY <1>1, <1>2, <1>3, <1>4, <1>5 DEF LockInv

(* Row by row, a step of p leaves alone what others have locked.           *)
SparesOthers(p) ==
  /\ \A e \in EventIds : eventLock[e] \notin {p, Null} =>
       events'[e] = events[e] /\ eventLock'[e] = eventLock[e]
  /\ \A o \in Orders : orderLock[o] \notin {p, Null} =>
       orders'[o] = orders[o] /\ orderLock'[o] = orderLock[o]

(* What another process has read is not disturbed by such a step.          *)
LEMMA OthersUndisturbed ==
  ASSUME LockInv, NEW p, SparesOthers(p)
  PROVE  /\ \A w \in Workers \ {p} : worker'[w] = worker[w] => WorkerReads(w)'
         /\ \A r \in Replayers \ {p} : replay'[r] = replay[r] => ReplayReads(r)'
         /\ \A r \in Reconcilers \ {p} : recon'[r] = recon[r] => ReconReads(r)'
<1>1. ASSUME NEW w \in Workers \ {p}, worker'[w] = worker[w]
      PROVE  WorkerReads(w)'
  <2>1. WorkerReads(w) /\ w # Null
    BY WorkersAssumption DEF LockInv
  <2>2. InTransaction(w) => ClaimedEvent(w) \in EventIds /\ ClaimedOrder(w) \in Orders
    BY ClaimFacts DEF LockInv
  <2>3. QED
    BY <1>1, <2>1, <2>2
       DEF SparesOthers, WorkerReads, InTransaction, ClaimedEvent, ClaimedOrder
<1>2. ASSUME NEW r \in Replayers \ {p}, replay'[r] = replay[r]
      PROVE  ReplayReads(r)'
  <2>1. ReplayReads(r) /\ r # Null
    BY ReplayAssumption DEF LockInv
  <2>2. replay[r].pc = "selected" => replay[r].event.body.event \in EventIds
    BY BodyFacts DEF LockInv, TypeInv, ControlOK, ReplaysOK
  <2>3. QED
    BY <1>2, <2>1, <2>2 DEF SparesOthers, ReplayReads
<1>3. ASSUME NEW r \in Reconcilers \ {p}, recon'[r] = recon[r]
      PROVE  ReconReads(r)'
  <2>1. ReconReads(r) /\ r # Null
    BY ReconciliationAssumption DEF LockInv
  <2>2. QED
    BY <1>3, <2>1 DEF SparesOthers, ReconReads, VisitedBy
<1>4. QED BY <1>1, <1>2, <1>3

-----------------------------------------------------------------------------
LEMMA IngestLocks ==
  ASSUME LockInv, IngestStep
  PROVE  LockInv'
<1> PICK b \in Bodies, isStale \in BOOLEAN : Ingest(b, isStale)
  BY DEF IngestStep
<1>1. TypeInv'
  BY IngestTypes DEF LockInv
<1>2. /\ b.event \in EventIds /\ EventFree(b.event)
      /\ events' = [events EXCEPT ![b.event] = Upsert(b, isStale)]
      /\ UNCHANGED <<orders, eventLock, orderLock, worker, replay, recon>>
  BY BodyFacts DEF Ingest, IngestStep, rowLocks, reconVars
<1>3. SparesOthers(Null)
  BY <1>2 DEF SparesOthers, EventFree, LockInv, TypeInv, TypeOK
<1>4. QueueOK'
  <2>1. events[b.event] \in EventRow
    BY <1>2 DEF LockInv, TypeInv, TypeOK
  <2>2. Upsert(b, isStale).status = "PENDING" => Upsert(b, isStale).next = Null
    BY <1>2, <2>1 DEF Upsert, FirstDelivery, EventRow, LockInv, QueueOK
  <2>3. QED
    BY <1>2, <2>2 DEF LockInv, QueueOK, TypeInv, TypeOK
<1>5. Null \notin Workers \union Replayers \union Reconcilers
  BY WorkersAssumption, ReplayAssumption, ReconciliationAssumption
<1>6. QED
  BY <1>1, <1>2, <1>3, <1>4, <1>5, OthersUndisturbed DEF LockInv

(* The clock changes only the time of a retry that is not due: not of a    *)
(* row that a worker has claimed, and nothing a replay looks at.           *)
LEMMA TickLocks ==
  ASSUME LockInv, ClockStep
  PROVE  LockInv'
<1>1. TypeInv'
  BY TickTypes DEF LockInv
<1>2. UNCHANGED <<orders, eventLock, orderLock, worker, replay, recon>>
  BY DEF ClockStep, Tick, rowLocks, reconVars
<1>3. ASSUME NEW e \in EventIds
      PROVE  /\ events[e].next \in {Null, 0} => events'[e] = events[e]
             /\ events'[e].status = events[e].status
             /\ SameRow(events'[e], events[e])
  <2>1. events[e] \in EventRow
    BY DEF LockInv, TypeInv, TypeOK
  <2>2. events'[e] = IF events[e].next \in {Null, 0} THEN events[e]
                     ELSE [events[e] EXCEPT !.next = events[e].next - 1]
    BY DEF ClockStep, Tick
  <2>3. QED BY <2>1, <2>2 DEF SameRow, EventRow
<1>4. QueueOK'
  BY <1>3 DEF LockInv, QueueOK
<1>5. ASSUME NEW w \in Workers PROVE WorkerReads(w)'
  <2>1. WorkerReads(w)
    BY DEF LockInv
  <2>2. InTransaction(w) => ClaimedEvent(w) \in EventIds
    BY ClaimFacts DEF LockInv
  <2>3. QED
    BY <1>2, <1>3, <2>1, <2>2 DEF WorkerReads, InTransaction, ClaimedEvent, ClaimedOrder
<1>6. ASSUME NEW r \in Replayers PROVE ReplayReads(r)'
  <2>1. ReplayReads(r)
    BY DEF LockInv
  <2>2. replay[r].pc = "selected" => replay[r].event.body.event \in EventIds
    BY BodyFacts DEF LockInv, TypeInv, ControlOK, ReplaysOK
  <2>3. QED
    BY <1>2, <1>3, <2>1, <2>2 DEF ReplayReads, SameRow
<1>7. \A r \in Reconcilers : ReconReads(r)'
  BY <1>2 DEF LockInv, ReconReads, VisitedBy
<1>8. QED BY <1>1, <1>4, <1>5, <1>6, <1>7 DEF LockInv

(* Giving up the locks of p spares the locks of others.                    *)
LEMMA ReleaseSpares ==
  ASSUME NEW p, ReleaseLocks(p)
  PROVE  /\ \A e \in EventIds : eventLock[e] # p => eventLock'[e] = eventLock[e]
         /\ \A o \in Orders : orderLock[o] # p => orderLock'[o] = orderLock[o]
BY DEF ReleaseLocks, EventLocksWithout, OrderLocksWithout

(* A worker writes only the event and the order it has locked.             *)
LEMMA WorkerLocks ==
  ASSUME LockInv, NEW w \in Workers, WorkerStep(w)
  PROVE  LockInv'
<1>0. /\ UNCHANGED <<replay, recon>>
      /\ w # Null /\ w \notin Replayers /\ w \notin Reconcilers
      /\ \A v \in Workers \ {w} : worker'[v] = worker[v]
      /\ worker[w] \in WorkerState
      /\ eventLock \in [EventIds -> Processes \union {Null}]
      /\ orderLock \in [Orders -> Processes \union {Null}]
      /\ events \in [EventIds -> EventRow] /\ orders \in [Orders -> OrderRow]
      /\ worker \in [Workers -> WorkerState]
      /\ WorkerReads(w)
  BY WorkersAssumption, ProcessesAssumption
     DEF WorkerStep, WorkerNext, Claim, LockOrder, CommitResult, BusinessError,
         ScheduleRetry, SendToDlq, AbortTransaction, Crash, Restart,
         EndTransaction, reconVars, LockInv, TypeInv, TypeOK
<1>1. TypeInv'
  BY WorkerTypes DEF LockInv
<1>2. InTransaction(w) => ClaimedEvent(w) \in EventIds /\ ClaimedOrder(w) \in Orders
  BY ClaimFacts DEF LockInv
<1>3. SparesOthers(w) /\ QueueOK' /\ WorkerReads(w)'
  <2>1. CASE Claim(w)
    <3> PICK e \in EventIds :
          /\ Claimable(e) /\ Unlocked(e)
          /\ worker' = [worker EXCEPT ![w] =
               [@ EXCEPT !.pc = "claimed", !.event = events[e]]]
          /\ eventLock' = [eventLock EXCEPT ![e] = w]
      BY <2>1 DEF Claim
    <3>1. UNCHANGED <<events, orders, orderLock>>
      BY <2>1 DEF Claim, tables
    <3>2. SparesOthers(w)
      BY <1>0, <3>1 DEF SparesOthers, Unlocked, EventFree
    <3>3. QueueOK'
      BY <3>1 DEF LockInv, QueueOK
    <3>4. events[e].body.event = e /\ events[e].status \in Waiting
          /\ events[e].next \in {Null, 0}
      BY DEF Claimable, Waiting, LockInv, QueueOK, TypeInv, ControlOK, BodiesOK, Stored
    <3>5. worker'[w].pc = "claimed" /\ worker'[w].event = events[e]
      BY <1>0 DEF WorkerState
    <3>6. WorkerReads(w)'
      BY <1>0, <3>1, <3>4, <3>5 DEF WorkerReads, InTransaction, ClaimedEvent
    <3>7. QED BY <3>2, <3>3, <3>6
  <2>2. CASE LockOrder(w)
    <3> DEFINE o == ClaimedOrder(w)
    <3>1. UNCHANGED <<events, orders, eventLock>> /\ InTransaction(w)
          /\ orderLock[o] = Null /\ orderLock' = [orderLock EXCEPT ![o] = w]
      BY <2>2 DEF LockOrder, tables, InTransaction, OrderFree
    <3>2. SparesOthers(w)
      BY <1>0, <1>2, <3>1 DEF SparesOthers
    <3>3. QueueOK'
      BY <3>1 DEF LockInv, QueueOK
    <3>4. worker'[w].pc = "locked" /\ worker'[w].event = worker[w].event
          /\ worker'[w].order = InsertOrderIfMissing(orders[o])
      BY <1>0, <2>2 DEF LockOrder, WorkerState
    <3>5. WorkerReads(w)'
      BY <1>0, <1>2, <3>1, <3>4
         DEF WorkerReads, InTransaction, ClaimedEvent, ClaimedOrder
    <3>6. QED BY <3>2, <3>3, <3>5
  <2>3. CASE BusinessError(w)
    <3>1. UNCHANGED <<events, orders, eventLock>> /\ InTransaction(w)
          /\ orderLock' = OrderLocksWithout(w)
      BY <2>3 DEF BusinessError, tables, InTransaction
    <3>2. SparesOthers(w)
      BY <3>1 DEF SparesOthers, OrderLocksWithout
    <3>3. QueueOK'
      BY <3>1 DEF LockInv, QueueOK
    <3>4. worker'[w].pc = "failed" /\ worker'[w].event = worker[w].event
      BY <1>0, <2>3 DEF BusinessError, WorkerState
    <3>5. WorkerReads(w)'
      BY <1>0, <3>1, <3>4 DEF WorkerReads, InTransaction, ClaimedEvent
    <3>6. QED BY <3>2, <3>3, <3>5
  <2>4. CASE CommitResult(w) \/ ScheduleRetry(w) \/ SendToDlq(w)
    <3> DEFINE e == ClaimedEvent(w)
               o == ClaimedOrder(w)
    <3>1. InTransaction(w) /\ ReleaseLocks(w) /\ worker'[w] = Idle
      BY <1>0, <2>4 DEF CommitResult, ScheduleRetry, SendToDlq, EndTransaction,
                        InTransaction
    <3>2. PICK row : /\ events' = [events EXCEPT ![e] = row]
                     /\ row.status # "PENDING"
      <4>1. CASE CommitResult(w)
        <5> DEFINE result == Process(worker[w].event.body, worker[w].order)
                   row == [events[e] EXCEPT !.status = result.outcome,
                                            !.reason = result.reason,
                                            !.next   = Null]
        <5>1. events' = [events EXCEPT ![e] = row]
          BY <4>1 DEF CommitResult
        <5>2. result.outcome # "PENDING"
          BY DEF Process, Applied, Ignored
        <5>3. row.status = result.outcome
          <6>1. events[e] \in EventRow
            BY <1>0, <1>2, <3>1
          <6> HIDE DEF result
          <6>2. QED BY <6>1 DEF EventRow
        <5> HIDE DEF row, result
        <5>4. QED BY <5>1, <5>2, <5>3
      <4>2. CASE ScheduleRetry(w)
        <5> PICK delay \in Delays(worker[w].event.attempts) :
              events' = [events EXCEPT ![e] =
                [@ EXCEPT !.status   = "RETRY_SCHEDULED",
                          !.attempts = NewAttemptCount(worker[w].event.attempts),
                          !.next     = delay,
                          !.reason   = "TRANSIENT_ERROR"]]
          BY <4>2 DEF ScheduleRetry
        <5> DEFINE row ==
              [events[e] EXCEPT !.status   = "RETRY_SCHEDULED",
                                !.attempts = NewAttemptCount(worker[w].event.attempts),
                                !.next     = delay,
                                !.reason   = "TRANSIENT_ERROR"]
        <5>1. events' = [events EXCEPT ![e] = row]
          OBVIOUS
        <5>2. row.status = "RETRY_SCHEDULED"
          BY <1>0, <1>2, <3>1 DEF EventRow
        <5> HIDE DEF row
        <5>3. QED BY <5>1, <5>2
      <4>3. CASE SendToDlq(w)
        <5> DEFINE row ==
              [events[e] EXCEPT !.status   = "DLQ",
                                !.attempts = NewAttemptCount(worker[w].event.attempts),
                                !.next     = Null,
                                !.reason   = "MAX_ATTEMPTS_EXHAUSTED"]
        <5>1. events' = [events EXCEPT ![e] = row]
          BY <4>3 DEF SendToDlq
        <5>2. row.status = "DLQ"
          BY <1>0, <1>2, <3>1 DEF EventRow
        <5> HIDE DEF row
        <5>3. QED BY <5>1, <5>2
      <4>4. QED BY <2>4, <4>1, <4>2, <4>3
    <3>3. \A x \in Orders : orderLock[x] # w => orders'[x] = orders[x]
      BY <1>0, <1>2, <2>4, <3>1
         DEF CommitResult, ScheduleRetry, SendToDlq, WorkerReads
    <3>4. SparesOthers(w)
      BY <1>0, <1>2, <3>1, <3>2, <3>3, ReleaseSpares DEF SparesOthers, WorkerReads
    <3>5. QueueOK'
      BY <1>0, <1>2, <3>1, <3>2 DEF LockInv, QueueOK
    <3>6. WorkerReads(w)'
      BY <3>1 DEF WorkerReads, InTransaction, Idle
    <3>7. QED BY <3>4, <3>5, <3>6
  <2>5. CASE AbortTransaction(w) \/ Crash(w) \/ Restart(w)
    <3>1. UNCHANGED <<events, orders>> /\ worker'[w].pc \in {"idle", "down"}
      BY <1>0, <2>5
         DEF AbortTransaction, Crash, Restart, EndTransaction, tables, Idle
    <3>2. SparesOthers(w)
      BY <2>5, <3>1, ReleaseSpares
         DEF AbortTransaction, Crash, Restart, EndTransaction, rowLocks, SparesOthers
    <3>3. QueueOK'
      BY <3>1 DEF LockInv, QueueOK
    <3>4. WorkerReads(w)'
      BY <3>1 DEF WorkerReads, InTransaction
    <3>5. QED BY <3>2, <3>3, <3>4
  <2>6. QED
    BY <2>1, <2>2, <2>3, <2>4, <2>5 DEF WorkerStep, WorkerNext
<1>4. QED
  BY <1>0, <1>1, <1>3, OthersUndisturbed DEF LockInv

(* A replay request writes only the event it has locked.                   *)
LEMMA ReplayLocks ==
  ASSUME LockInv, NEW r \in Replayers, ReplayStep(r)
  PROVE  LockInv'
<1>0. /\ UNCHANGED <<orders, worker, recon>>
      /\ r # Null /\ r \notin Workers /\ r \notin Reconcilers
      /\ \A q \in Replayers \ {r} : replay'[q] = replay[q]
      /\ eventLock \in [EventIds -> Processes \union {Null}]
      /\ events \in [EventIds -> EventRow]
      /\ replay \in [Replayers -> ReplayState]
      /\ ReplayReads(r)
  BY ReplayAssumption, ProcessesAssumption
     DEF ReplayStep, ReplayNext, ReplaySelect, ReplayCommit, ReplayRefuse,
         ReplayAbort, EndReplay, tables, reconVars, LockInv, TypeInv, TypeOK
<1>1. TypeInv'
  BY ReplayTypes DEF LockInv
<1>2. SparesOthers(r) /\ QueueOK' /\ ReplayReads(r)'
  <2>1. CASE \E e \in EventIds : ReplaySelect(r, e)
    <3> PICK e \in EventIds : ReplaySelect(r, e)
      BY <2>1
    <3>1. UNCHANGED <<events, orderLock>> /\ eventLock[e] = Null
          /\ eventLock' = [eventLock EXCEPT ![e] = r]
          /\ replay'[r] = [pc |-> "selected", event |-> events[e]]
      BY <1>0 DEF ReplaySelect, Selectable, EventFree, tables
    <3>2. SparesOthers(r)
      BY <1>0, <3>1 DEF SparesOthers
    <3>3. QueueOK'
      BY <3>1 DEF LockInv, QueueOK
    <3>4. events[e].body.event = e
      BY DEF ReplaySelect, Selectable, Stored, LockInv, TypeInv, ControlOK, BodiesOK
    <3>5. ReplayReads(r)'
      BY <1>0, <3>1, <3>4 DEF ReplayReads, SameRow
    <3>6. QED BY <3>2, <3>3, <3>5
  <2>2. CASE ReplayCommit(r) \/ ReplayRefuse(r) \/ ReplayAbort(r)
    <3> DEFINE e == replay[r].event.body.event
    <3>1. ReleaseLocks(r) /\ replay'[r] = NoReplay /\ e \in EventIds
          /\ eventLock[e] = r
      BY <1>0, <2>2, BodyFacts
         DEF ReplayCommit, ReplayRefuse, ReplayAbort, EndReplay, ReplayReads,
             LockInv, TypeInv, ControlOK, ReplaysOK
    <3>2. \/ events' = events
          \/ events' = [events EXCEPT ![e] = Revived(events[e])]
      BY <2>2 DEF ReplayCommit, ReplayRefuse, ReplayAbort, tables
    <3>3. SparesOthers(r)
      BY <1>0, <3>1, <3>2, ReleaseSpares DEF SparesOthers
    <3>4. Revived(events[e]).next = Null
      BY <1>0, <3>1 DEF Revived, EventRow
    <3>5. QueueOK'
      BY <1>0, <3>1, <3>2, <3>4 DEF LockInv, QueueOK
    <3>6. ReplayReads(r)'
      BY <3>1 DEF ReplayReads, NoReplay
    <3>7. QED BY <3>3, <3>5, <3>6
  <2>3. QED BY <2>1, <2>2 DEF ReplayStep, ReplayNext
<1>3. QED
  BY <1>0, <1>1, <1>2, OthersUndisturbed DEF LockInv

(* A reconciliation writes only orders it has visited and locked.          *)
LEMMA ReconLocks ==
  ASSUME LockInv, NEW r \in Reconcilers, ReconStep(r)
  PROVE  LockInv'
<1>0. /\ UNCHANGED <<events, worker, replay>>
      /\ r # Null /\ r \notin Workers /\ r \notin Replayers
      /\ \A q \in Reconcilers \ {r} : recon'[q] = recon[q]
      /\ orderLock \in [Orders -> Processes \union {Null}]
      /\ orders \in [Orders -> OrderRow]
      /\ recon \in [Reconcilers -> ReconState] /\ recon[r] \in ReconState
      /\ ReconReads(r)
  BY ReconciliationAssumption, ProcessesAssumption
     DEF ReconStep, ReconNext, FetchSnapshot, BeginRun, VisitOrder, CommitRun,
         AbortRun, EndRun, tables, LockInv, TypeInv, TypeOK
<1>1. TypeInv'
  BY ReconTypes DEF LockInv
<1>2. QueueOK'
  BY <1>0 DEF LockInv, QueueOK
<1>3. SparesOthers(r) /\ ReconReads(r)'
  <2>1. CASE (\E s \in Snapshots : FetchSnapshot(r, s)) \/ BeginRun(r)
    <3>1. UNCHANGED <<orders, eventLock, orderLock>>
      BY <2>1 DEF FetchSnapshot, BeginRun, tables, rowLocks
    <3>2. recon'[r].seen = recon[r].seen
      <4>1. CASE BeginRun(r)
        BY <1>0, <4>1 DEF BeginRun, ReconState
      <4>2. ASSUME NEW s \in Snapshots, FetchSnapshot(r, s)
            PROVE  recon'[r].seen = recon[r].seen
        BY <1>0, <4>2 DEF FetchSnapshot, ReconState
      <4>3. QED BY <2>1, <4>1, <4>2
    <3>3. QED
      BY <1>0, <3>1, <3>2 DEF SparesOthers, ReconReads, VisitedBy
  <2>2. CASE VisitOrder(r)
    <3> DEFINE o == Head(recon[r].todo)
    <3>1. UNCHANGED <<orders, eventLock>> /\ orderLock[o] = Null
          /\ orderLock' = [orderLock EXCEPT ![o] = r]
      BY <2>2 DEF VisitOrder, OrderFree, tables
    <3>2. recon'[r].seen = [recon[r].seen EXCEPT ![o] = orders[o]]
      BY <1>0, <2>2 DEF VisitOrder, ReconState
    <3>3. o \in Orders
      BY <1>0, <2>2 DEF VisitOrder, ReconState
    <3>4. SparesOthers(r)
      BY <1>0, <3>1, <3>3 DEF SparesOthers
    <3>5. ReconReads(r)'
      BY <1>0, <3>1, <3>2, <3>3 DEF ReconReads, VisitedBy, ReconState
    <3>6. QED BY <3>4, <3>5
  <2>3. CASE CommitRun(r) \/ AbortRun(r)
    <3>1. ReleaseLocks(r) /\ recon'[r] = NoRecon
      BY <1>0, <2>3 DEF CommitRun, AbortRun, EndRun
    <3>2. \A o \in Orders : orderLock[o] # r => orders'[o] = orders[o]
      <4>1. CASE CommitRun(r)
        <5>1. Repairs(r) \subseteq VisitedBy(r)
          BY DEF Repairs, WithVerdict
        <5>2. \A o \in VisitedBy(r) : orderLock[o] = r
          BY <1>0 DEF ReconReads
        <5>3. QED BY <4>1, <5>1, <5>2 DEF CommitRun
      <4>2. CASE AbortRun(r)
        BY <4>2 DEF AbortRun, tables
      <4>3. QED BY <2>3, <4>1, <4>2
    <3>3. SparesOthers(r)
      BY <1>0, <3>1, <3>2, ReleaseSpares DEF SparesOthers
    <3>4. ReconReads(r)'
      BY <3>1 DEF ReconReads, VisitedBy, NoRecon
    <3>5. QED BY <3>3, <3>4
  <2>4. QED BY <2>1, <2>2, <2>3 DEF ReconStep, ReconNext
<1>4. QED
  BY <1>0, <1>1, <1>2, <1>3, OthersUndisturbed DEF LockInv

LEMMA LockStep == LockInv /\ [Next]_vars => LockInv'
<1> SUFFICES ASSUME LockInv, [Next]_vars PROVE LockInv'
  OBVIOUS
<1>1. CASE Next
  BY <1>1, IngestLocks, TickLocks, WorkerLocks, ReplayLocks, ReconLocks DEF Next
<1>2. CASE UNCHANGED vars
  <2>1. TypeInv'
    BY <1>2, TypeStep DEF LockInv
  <2>2. UNCHANGED <<events, orders, eventLock, orderLock, worker, replay, recon>>
    BY <1>2 DEF vars, tables, rowLocks, reconVars
  <2>3. QED
    BY <2>1, <2>2
       DEF LockInv, QueueOK, WorkerReads, ReplayReads, ReconReads, InTransaction,
           ClaimedEvent, ClaimedOrder, VisitedBy
<1>3. QED BY <1>1, <1>2

LEMMA LockInvariance == Spec => []LockInv
BY LockInit, LockStep, PTL DEF Spec

-----------------------------------------------------------------------------
(* Every transaction decides on rows that are still as it read them when   *)
(* it commits: a worker on its event and its order, a replay on its event, *)
(* a reconciliation on every order of a snapshot of any length, however    *)
(* many workers, redeliveries and requests there are.                      *)
THEOREM DecisionsAreCurrent == Spec => []ReadsAreCurrent
<1>1. LockInv => ReadsAreCurrent
  <2>1. LockInv => ClaimedRowIsCurrent /\ OrderReadIsCurrent
    BY DEF LockInv, WorkerReads, ClaimedRowIsCurrent, OrderReadIsCurrent
  <2>2. LockInv => ReplayReadIsCurrent
    BY DEF LockInv, ReplayReads, ReplayReadIsCurrent
  <2>3. LockInv => SeenOrdersAreCurrent
    BY DEF LockInv, ReconReads, SeenOrdersAreCurrent
  <2>4. QED BY <2>1, <2>2, <2>3 DEF ReadsAreCurrent
<1>2. QED BY LockInvariance, <1>1, PTL

(* The decision on one event never lowers the sequence of its order.       *)
LEMMA ProcessRaises ==
  ASSUME NEW b \in Bodies, NEW row \in OrderRow
  PROVE  Process(b, row).order.seq >= row.seq
<1>1. b.seq \in Nat /\ row.seq \in Nat
  BY BodyFacts DEF OrderRow
<1>2. CASE b.type \in DOMAIN EventTypeToStatus /\ IsNewer(b, row)
  <2>1. Process(b, row).order.seq = b.seq
    BY <1>2 DEF Process, Applied, OrderRow
  <2>2. QED BY <1>1, <1>2, <2>1 DEF IsNewer
<1>3. CASE ~(b.type \in DOMAIN EventTypeToStatus /\ IsNewer(b, row))
  BY <1>1, <1>3 DEF Process, Ignored
<1>4. QED BY <1>2, <1>3

LEMMA SequenceStep ==
  ASSUME LockInv, [Next]_vars, NEW o \in Orders
  PROVE  orders'[o].seq >= orders[o].seq
<1>0. orders[o] \in OrderRow /\ orders[o].seq \in Nat /\ orders \in [Orders -> OrderRow]
  BY DEF LockInv, TypeInv, TypeOK, OrderRow
<1>1. ASSUME NEW w \in Workers, CommitResult(w)
      PROVE  orders'[o].seq >= orders[o].seq
  <2> DEFINE x == ClaimedOrder(w)
             body == worker[w].event.body
             new == Process(body, worker[w].order).order
  <2>1. InTransaction(w) /\ x \in Orders /\ body \in Bodies
    BY <1>1, ClaimFacts DEF CommitResult, InTransaction, LockInv
  <2>2. worker[w].order = InsertOrderIfMissing(orders[x]) /\ orders[x] \in OrderRow
    BY <1>0, <1>1, <2>1 DEF CommitResult, LockInv, WorkerReads
  <2>3. worker[w].order \in OrderRow /\ worker[w].order.seq = orders[x].seq
    BY <2>2, InsertTypes DEF InsertOrderIfMissing, OrderRow
  <2>4. new.seq >= orders[x].seq
    BY <2>1, <2>3, ProcessRaises
  <2>5. orders' = [orders EXCEPT ![x] = new]
    BY <1>1 DEF CommitResult
  <2> HIDE DEF new
  <2>6. QED BY <1>0, <2>1, <2>4, <2>5
<1>2. ASSUME NEW r \in Reconcilers, CommitRun(r)
      PROVE  orders'[o].seq >= orders[o].seq
  <2>1. CASE o \in Repairs(r)
    <3>1. o \in VisitedBy(r)
          /\ Verdict(recon[r].seen[o], recon[r].snapshot.state[o]) = "REPAIRED"
      BY <2>1 DEF Repairs, WithVerdict
    <3>2. recon[r].seen[o] = orders[o]
      BY <3>1 DEF LockInv, ReconReads
    <3>3. recon[r].snapshot.state[o].seq \in Nat
      BY <3>1, SeenFacts DEF ProviderRow, LockInv
    <3>4. recon[r].snapshot.state[o].seq >= orders[o].seq
      BY <1>0, <3>1, <3>2, <3>3 DEF Verdict
    <3>5. orders'[o] = RepairedRow(recon[r].snapshot.state[o])
      BY <1>2, <2>1 DEF CommitRun
    <3>6. QED BY <3>4, <3>5 DEF RepairedRow
  <2>2. CASE o \notin Repairs(r)
    <3>1. orders'[o] \in {orders[o], InsertOrderIfMissing(orders[o])}
      BY <1>2, <2>2 DEF CommitRun
    <3>2. QED BY <1>0, <3>1 DEF InsertOrderIfMissing, OrderRow
  <2>3. QED BY <2>1, <2>2
<1>3. CASE UNCHANGED orders
  BY <1>0, <1>3
<1>4. QED
  BY <1>1, <1>2, <1>3
     DEF Next, IngestStep, Ingest, WorkerStep, WorkerNext, Claim, LockOrder,
         BusinessError, ScheduleRetry, SendToDlq, AbortTransaction, Crash, Restart,
         ReplayStep, ReplayNext, ReplaySelect, ReplayCommit, ReplayRefuse,
         ReplayAbort, ReconStep, ReconNext, FetchSnapshot, BeginRun, VisitOrder,
         AbortRun, ClockStep, Tick, vars, tables

(* No order ever goes back to an older sequence, whatever workers and      *)
(* reconciliations meet on it and however old the provider's snapshot is.  *)
THEOREM SequencesNeverDecrease == Spec => SequenceNeverDecreases
<1>1. LockInv /\ [Next]_vars => \A o \in Orders : orders'[o].seq >= orders[o].seq
  BY SequenceStep
<1>2. QED
  BY LockInvariance, <1>1, PTL DEF Spec, SequenceNeverDecreases

-----------------------------------------------------------------------------
(* Process p is inside the transaction that locked the event, the order.   *)
HoldsEvent(p, e) ==
  \/ p \in Workers /\ InTransaction(p) /\ ClaimedEvent(p) = e
  \/ /\ p \in Replayers
     /\ replay[p].pc = "selected" /\ replay[p].event.body.event = e

HoldsOrder(p, o) ==
  \/ p \in Workers /\ worker[p].pc = "locked" /\ ClaimedOrder(p) = o
  \/ p \in Reconcilers /\ o \in VisitedBy(p)

LEMMA LocksAreHeld ==
  NoOrphanLocks <=>
    /\ \A e \in EventIds : eventLock[e] # Null => HoldsEvent(eventLock[e], e)
    /\ \A o \in Orders : orderLock[o] # Null => HoldsOrder(orderLock[o], o)
BY DEF NoOrphanLocks, HoldsEvent, HoldsOrder

(* A step of p that takes locks only for itself has to account for those.  *)
LEMMA OwnLocksSuffice ==
  ASSUME NoOrphanLocks, NEW p,
         \A w \in Workers \ {p} : worker'[w] = worker[w],
         \A r \in Replayers \ {p} : replay'[r] = replay[r],
         \A r \in Reconcilers \ {p} : recon'[r] = recon[r],
         \A e \in EventIds :
           \/ eventLock'[e] = Null
           \/ eventLock'[e] = p /\ HoldsEvent(p, e)'
           \/ eventLock'[e] = eventLock[e] /\ eventLock[e] # p,
         \A o \in Orders :
           \/ orderLock'[o] = Null
           \/ orderLock'[o] = p /\ HoldsOrder(p, o)'
           \/ orderLock'[o] = orderLock[o] /\ orderLock[o] # p
  PROVE  NoOrphanLocks'
<1>1. ASSUME NEW e \in EventIds, NEW q, q = eventLock'[e], q # Null
      PROVE  HoldsEvent(q, e)'
  <2>1. CASE q = p /\ HoldsEvent(p, e)'
    BY <2>1
  <2>2. CASE q = eventLock[e] /\ q # p
    <3>1. HoldsEvent(q, e)
      BY <1>1, <2>2, LocksAreHeld
    <3>2. QED
      BY <2>2, <3>1 DEF HoldsEvent, InTransaction, ClaimedEvent
  <2>3. QED BY <1>1, <2>1, <2>2
<1>2. ASSUME NEW o \in Orders, NEW q, q = orderLock'[o], q # Null
      PROVE  HoldsOrder(q, o)'
  <2>1. CASE q = p /\ HoldsOrder(p, o)'
    BY <2>1
  <2>2. CASE q = orderLock[o] /\ q # p
    <3>1. HoldsOrder(q, o)
      BY <1>2, <2>2, LocksAreHeld
    <3>2. QED
      BY <2>2, <3>1 DEF HoldsOrder, ClaimedOrder, VisitedBy
  <2>3. QED BY <1>2, <2>1, <2>2
<1>3. \A e \in EventIds : eventLock'[e] # Null =>
        \/ \E w \in Workers :
             eventLock'[e] = w /\ (InTransaction(w) /\ ClaimedEvent(w) = e)'
        \/ \E r \in Replayers :
             /\ eventLock'[e] = r
             /\ replay'[r].pc = "selected" /\ replay'[r].event.body.event = e
  BY <1>1 DEF HoldsEvent
<1>4. \A o \in Orders : orderLock'[o] # Null =>
        \/ \E w \in Workers :
             orderLock'[o] = w /\ worker'[w].pc = "locked" /\ ClaimedOrder(w)' = o
        \/ \E r \in Reconcilers : orderLock'[o] = r /\ o \in VisitedBy(r)'
  BY <1>2 DEF HoldsOrder
<1>5. QED BY <1>3, <1>4 DEF NoOrphanLocks

LEMMA OrphanInit == Init => NoOrphanLocks
BY DEF Init, TablesInit, NoOrphanLocks

LEMMA WorkerLeavesNoOrphan ==
  ASSUME LockInv, NoOrphanLocks, NEW w \in Workers, WorkerStep(w)
  PROVE  NoOrphanLocks'
<1>0. /\ UNCHANGED <<replay, recon>>
      /\ \A v \in Workers \ {w} : worker'[v] = worker[v]
      /\ worker \in [Workers -> WorkerState]
      /\ eventLock \in [EventIds -> Processes \union {Null}]
      /\ orderLock \in [Orders -> Processes \union {Null}]
      /\ w \notin Replayers /\ w \notin Reconcilers /\ w # Null
  BY WorkersAssumption, ProcessesAssumption
     DEF WorkerStep, WorkerNext, Claim, LockOrder, CommitResult, BusinessError,
         ScheduleRetry, SendToDlq, AbortTransaction, Crash, Restart,
         EndTransaction, reconVars, LockInv, TypeInv, TypeOK
<1>1. /\ \A e \in EventIds : eventLock[e] = w => HoldsEvent(w, e)
      /\ \A o \in Orders : orderLock[o] = w => HoldsOrder(w, o)
  BY <1>0, LocksAreHeld
<1>2. /\ \A e \in EventIds :
           \/ eventLock'[e] = Null
           \/ eventLock'[e] = w /\ HoldsEvent(w, e)'
           \/ eventLock'[e] = eventLock[e] /\ eventLock[e] # w
      /\ \A o \in Orders :
           \/ orderLock'[o] = Null
           \/ orderLock'[o] = w /\ HoldsOrder(w, o)'
           \/ orderLock'[o] = orderLock[o] /\ orderLock[o] # w
  <2>1. CASE Claim(w)
    <3> PICK f \in EventIds :
          /\ Claimable(f)
          /\ worker' = [worker EXCEPT ![w] =
               [@ EXCEPT !.pc = "claimed", !.event = events[f]]]
          /\ eventLock' = [eventLock EXCEPT ![f] = w]
      BY <2>1 DEF Claim
    <3>1. worker'[w].pc = "claimed" /\ worker'[w].event = events[f]
      BY <1>0 DEF WorkerState
    <3>2. events[f].body.event = f
      BY DEF Claimable, LockInv, TypeInv, ControlOK, BodiesOK, Stored
    <3>3. HoldsEvent(w, f)'
      BY <3>1, <3>2 DEF HoldsEvent, InTransaction, ClaimedEvent
    <3>4. /\ \A e \in EventIds : eventLock[e] # w
          /\ \A o \in Orders : orderLock[o] # w
          /\ orderLock' = orderLock
      BY <1>0, <1>1, <2>1 DEF Claim, HoldsEvent, HoldsOrder, InTransaction
    <3>5. QED BY <1>0, <3>3, <3>4
  <2>2. CASE LockOrder(w)
    <3> PICK x \in Orders : x = ClaimedOrder(w)
      BY <2>2, ClaimFacts DEF LockOrder, InTransaction, LockInv
    <3>1. /\ worker'[w].pc = "locked" /\ worker'[w].event = worker[w].event
          /\ worker[w].pc = "claimed"
          /\ eventLock' = eventLock /\ orderLock' = [orderLock EXCEPT ![x] = w]
      BY <1>0, <2>2 DEF LockOrder, WorkerState
    <3>2. \A e \in EventIds : HoldsEvent(w, e) => HoldsEvent(w, e)'
      BY <1>0, <3>1 DEF HoldsEvent, InTransaction, ClaimedEvent
    <3>3. HoldsOrder(w, x)'
      BY <3>1 DEF HoldsOrder, ClaimedOrder
    <3>4. \A o \in Orders : orderLock[o] # w
      BY <1>0, <1>1, <3>1 DEF HoldsOrder
    <3>5. QED BY <1>0, <1>1, <3>1, <3>2, <3>3, <3>4
  <2>3. CASE BusinessError(w)
    <3>1. /\ worker'[w].pc = "failed" /\ worker'[w].event = worker[w].event
          /\ worker[w].pc \in {"claimed", "locked"}
          /\ eventLock' = eventLock /\ orderLock' = OrderLocksWithout(w)
      BY <1>0, <2>3 DEF BusinessError, WorkerState
    <3>2. \A e \in EventIds : HoldsEvent(w, e) => HoldsEvent(w, e)'
      BY <1>0, <3>1 DEF HoldsEvent, InTransaction, ClaimedEvent
    <3>3. QED BY <1>0, <1>1, <3>1, <3>2 DEF OrderLocksWithout
  <2>4. CASE Restart(w)
    <3>1. worker[w].pc = "down" /\ eventLock' = eventLock /\ orderLock' = orderLock
      BY <2>4 DEF Restart, rowLocks
    <3>2. /\ \A e \in EventIds : eventLock[e] # w
          /\ \A o \in Orders : orderLock[o] # w
      BY <1>0, <1>1, <3>1 DEF HoldsEvent, HoldsOrder, InTransaction
    <3>3. QED BY <3>1, <3>2
  <2>5. CASE ReleaseLocks(w)
    BY <2>5 DEF ReleaseLocks, EventLocksWithout, OrderLocksWithout
  <2>6. QED
    BY <2>1, <2>2, <2>3, <2>4, <2>5
       DEF WorkerStep, WorkerNext, CommitResult, ScheduleRetry, SendToDlq,
           AbortTransaction, Crash, EndTransaction
<1>3. QED BY <1>0, <1>2, OwnLocksSuffice

LEMMA ReplayLeavesNoOrphan ==
  ASSUME LockInv, NoOrphanLocks, NEW r \in Replayers, ReplayStep(r)
  PROVE  NoOrphanLocks'
<1>0. /\ UNCHANGED <<worker, recon>>
      /\ \A q \in Replayers \ {r} : replay'[q] = replay[q]
      /\ replay \in [Replayers -> ReplayState]
      /\ eventLock \in [EventIds -> Processes \union {Null}]
      /\ r \notin Workers /\ r \notin Reconcilers /\ r # Null
  BY ReplayAssumption, ProcessesAssumption
     DEF ReplayStep, ReplayNext, ReplaySelect, ReplayCommit, ReplayRefuse,
         ReplayAbort, EndReplay, reconVars, LockInv, TypeInv, TypeOK
<1>1. CASE \E f \in EventIds : ReplaySelect(r, f)
  <2> PICK f \in EventIds : ReplaySelect(r, f)
    BY <1>1
  <2>1. /\ replay[r].pc = "idle" /\ replay'[r].pc = "selected"
        /\ replay'[r].event = events[f] /\ events[f].body.event = f
        /\ eventLock' = [eventLock EXCEPT ![f] = r] /\ orderLock' = orderLock
    BY <1>0 DEF ReplaySelect, Selectable, Stored, LockInv, TypeInv, ControlOK, BodiesOK
  <2>2. HoldsEvent(r, f)'
    BY <2>1 DEF HoldsEvent
  <2>3. /\ \A e \in EventIds : eventLock[e] # r
        /\ \A o \in Orders : orderLock[o] # r
    BY <1>0, <2>1, LocksAreHeld DEF HoldsEvent, HoldsOrder
  <2>4. /\ \A e \in EventIds :
             \/ eventLock'[e] = r /\ HoldsEvent(r, e)'
             \/ eventLock'[e] = eventLock[e] /\ eventLock[e] # r
        /\ \A o \in Orders : orderLock'[o] = orderLock[o] /\ orderLock[o] # r
    BY <1>0, <2>1, <2>2, <2>3
  <2>5. QED BY <1>0, <2>4, OwnLocksSuffice
<1>2. CASE ReleaseLocks(r)
  <2>1. /\ \A e \in EventIds :
             \/ eventLock'[e] = Null
             \/ eventLock'[e] = eventLock[e] /\ eventLock[e] # r
        /\ \A o \in Orders :
             \/ orderLock'[o] = Null
             \/ orderLock'[o] = orderLock[o] /\ orderLock[o] # r
    BY <1>2 DEF ReleaseLocks, EventLocksWithout, OrderLocksWithout
  <2>2. QED BY <1>0, <2>1, OwnLocksSuffice
<1>3. QED
  BY <1>1, <1>2 DEF ReplayStep, ReplayNext, ReplayCommit, ReplayRefuse, ReplayAbort,
                    EndReplay

LEMMA ReconLeavesNoOrphan ==
  ASSUME LockInv, NoOrphanLocks, NEW r \in Reconcilers, ReconStep(r)
  PROVE  NoOrphanLocks'
<1>0. /\ UNCHANGED <<worker, replay>>
      /\ \A q \in Reconcilers \ {r} : recon'[q] = recon[q]
      /\ recon \in [Reconcilers -> ReconState] /\ recon[r] \in ReconState
      /\ orderLock \in [Orders -> Processes \union {Null}]
      /\ orders \in [Orders -> OrderRow]
      /\ r \notin Workers /\ r \notin Replayers /\ r # Null
  BY ReconciliationAssumption, ProcessesAssumption
     DEF ReconStep, ReconNext, FetchSnapshot, BeginRun, VisitOrder, CommitRun,
         AbortRun, EndRun, tables, LockInv, TypeInv, TypeOK
<1>1. /\ \A e \in EventIds : eventLock[e] # r
      /\ \A o \in Orders : orderLock[o] = r => o \in VisitedBy(r)
  BY <1>0, LocksAreHeld DEF HoldsEvent, HoldsOrder
<1>2. CASE (\E s \in Snapshots : FetchSnapshot(r, s)) \/ BeginRun(r)
  <2>1. UNCHANGED <<eventLock, orderLock>>
    BY <1>2 DEF FetchSnapshot, BeginRun, rowLocks
  <2>2. recon'[r].seen = recon[r].seen
    <3>1. CASE BeginRun(r)
      BY <1>0, <3>1 DEF BeginRun, ReconState
    <3>2. ASSUME NEW s \in Snapshots, FetchSnapshot(r, s)
          PROVE  recon'[r].seen = recon[r].seen
      BY <1>0, <3>2 DEF FetchSnapshot, ReconState
    <3>3. QED BY <1>2, <3>1, <3>2
  <2>3. \A o \in Orders : o \in VisitedBy(r) => HoldsOrder(r, o)'
    BY <2>2 DEF HoldsOrder, VisitedBy
  <2>4. /\ \A e \in EventIds : eventLock'[e] = eventLock[e] /\ eventLock[e] # r
        /\ \A o \in Orders :
             \/ orderLock'[o] = r /\ HoldsOrder(r, o)'
             \/ orderLock'[o] = orderLock[o] /\ orderLock[o] # r
    BY <1>1, <2>1, <2>3
  <2>5. QED BY <1>0, <2>4, OwnLocksSuffice
<1>3. CASE VisitOrder(r)
  <2> PICK x \in Orders : x = Head(recon[r].todo)
    BY <1>0, <1>3 DEF VisitOrder, ReconState
  <2>1. eventLock' = eventLock /\ orderLock' = [orderLock EXCEPT ![x] = r]
    BY <1>3 DEF VisitOrder
  <2>2. recon'[r].seen = [recon[r].seen EXCEPT ![x] = orders[x]]
    BY <1>0, <1>3 DEF VisitOrder, ReconState
  <2>3. orders[x] # Null
    BY <1>0, TablesAssumption
  <2>4. /\ HoldsOrder(r, x)'
        /\ \A o \in Orders : o \in VisitedBy(r) => HoldsOrder(r, o)'
    BY <1>0, <2>2, <2>3 DEF HoldsOrder, VisitedBy, ReconState
  <2>5. /\ \A e \in EventIds : eventLock'[e] = eventLock[e] /\ eventLock[e] # r
        /\ \A o \in Orders :
             \/ orderLock'[o] = r /\ HoldsOrder(r, o)'
             \/ orderLock'[o] = orderLock[o] /\ orderLock[o] # r
    BY <1>0, <1>1, <2>1, <2>4
  <2>6. QED BY <1>0, <2>5, OwnLocksSuffice
<1>4. CASE ReleaseLocks(r)
  <2>1. /\ \A e \in EventIds :
             \/ eventLock'[e] = Null
             \/ eventLock'[e] = eventLock[e] /\ eventLock[e] # r
        /\ \A o \in Orders :
             \/ orderLock'[o] = Null
             \/ orderLock'[o] = orderLock[o] /\ orderLock[o] # r
    BY <1>4 DEF ReleaseLocks, EventLocksWithout, OrderLocksWithout
  <2>2. QED BY <1>0, <2>1, OwnLocksSuffice
<1>5. QED
  BY <1>2, <1>3, <1>4 DEF ReconStep, ReconNext, CommitRun, AbortRun, EndRun

LEMMA OrphanStep == LockInv /\ NoOrphanLocks /\ [Next]_vars => NoOrphanLocks'
<1> SUFFICES ASSUME LockInv, NoOrphanLocks, [Next]_vars PROVE NoOrphanLocks'
  OBVIOUS
<1>1. CASE UNCHANGED <<rowLocks, worker, replay, recon>>
  BY <1>1 DEF rowLocks, NoOrphanLocks, InTransaction, ClaimedEvent, ClaimedOrder,
              VisitedBy
<1>2. CASE IngestStep \/ ClockStep \/ UNCHANGED vars
  BY <1>1, <1>2 DEF IngestStep, Ingest, ClockStep, Tick, vars, rowLocks, reconVars
<1>3. QED
  BY <1>2, WorkerLeavesNoOrphan, ReplayLeavesNoOrphan, ReconLeavesNoOrphan DEF Next

(* No row lock outlives its transaction: whoever holds one is inside the   *)
(* transaction that took it, after errors rolled back to the savepoint,    *)
(* aborted transactions, crashes and restarts of any number of processes.  *)
THEOREM LocksEndWithTransactions == Spec => []NoOrphanLocks
BY LockInvariance, OrphanInit, OrphanStep, PTL DEF Spec

-----------------------------------------------------------------------------
(* The advisory lock belongs to the one reconciliation that runs, and what *)
(* a reconciliation still has to visit it has not locked yet: a snapshot   *)
(* lists no order twice.                                                   *)
AdvisoryOK ==
  \A r \in Reconcilers : advisoryLock = r <=> recon[r].pc = "running"

Unvisited(r) ==
  recon[r].pc # "idle" =>
    /\ \A i, j \in DOMAIN recon[r].todo :
         recon[r].todo[i] = recon[r].todo[j] => i = j
    /\ \A i \in DOMAIN recon[r].todo : recon[r].todo[i] \notin VisitedBy(r)

TodoOK == \A r \in Reconcilers : Unvisited(r)

LEMMA WaitInit == Init => AdvisoryOK /\ TodoOK
BY ReconciliationAssumption
   DEF Init, ReconInit, NoRecon, AdvisoryOK, TodoOK, Unvisited

LEMMA AdvisoryStep ==
  ASSUME LockInv, AdvisoryOK, [Next]_vars
  PROVE  AdvisoryOK'
<1>1. CASE UNCHANGED <<recon, advisoryLock>>
  BY <1>1 DEF AdvisoryOK
<1>2. ASSUME NEW r \in Reconcilers, ReconStep(r)
      PROVE  AdvisoryOK'
  <2>0. /\ \A q \in Reconcilers \ {r} : recon'[q] = recon[q]
        /\ recon \in [Reconcilers -> ReconState] /\ recon[r] \in ReconState
        /\ r # Null
    BY <1>2, ReconciliationAssumption
       DEF ReconStep, ReconNext, FetchSnapshot, BeginRun, VisitOrder, CommitRun,
           AbortRun, EndRun, LockInv, TypeInv, TypeOK
  <2>1. ASSUME NEW s \in Snapshots, FetchSnapshot(r, s)
        PROVE  AdvisoryOK'
    <3>1. /\ recon[r].pc = "idle" /\ recon'[r].pc = "fetched"
          /\ advisoryLock' = advisoryLock
      BY <2>0, <2>1 DEF FetchSnapshot, ReconState
    <3>2. QED BY <2>0, <3>1 DEF AdvisoryOK
  <2>2. CASE BeginRun(r)
    <3>1. /\ advisoryLock = Null /\ recon'[r].pc = "running"
          /\ advisoryLock' = r
      BY <2>0, <2>2 DEF BeginRun, AdvisoryFree, ReconState
    <3>2. \A q \in Reconcilers \ {r} : recon'[q].pc # "running"
      BY <2>0, <3>1, ReconciliationAssumption DEF AdvisoryOK
    <3>3. QED BY <3>1, <3>2 DEF AdvisoryOK
  <2>3. CASE VisitOrder(r)
    <3>1. recon'[r].pc = recon[r].pc /\ advisoryLock' = advisoryLock
      BY <2>0, <2>3 DEF VisitOrder, ReconState
    <3>2. QED BY <2>0, <3>1 DEF AdvisoryOK
  <2>4. CASE CommitRun(r) \/ AbortRun(r)
    <3>1. /\ recon'[r].pc = "idle"
          /\ advisoryLock' = IF advisoryLock = r THEN Null ELSE advisoryLock
      BY <2>0, <2>4 DEF CommitRun, AbortRun, EndRun, NoRecon
    <3>2. QED BY <2>0, <3>1, ReconciliationAssumption DEF AdvisoryOK
  <2>5. QED BY <1>2, <2>1, <2>2, <2>3, <2>4 DEF ReconStep, ReconNext
<1>3. QED
  BY <1>1, <1>2 DEF Next, IngestStep, WorkerStep, ReplayStep, ClockStep, vars,
                    reconVars

LEMMA StillUnvisited ==
  ASSUME NEW r, recon'[r] = recon[r], Unvisited(r)
  PROVE  Unvisited(r)'
<1>1. VisitedBy(r)' = VisitedBy(r)
  BY DEF VisitedBy
<1>2. QED BY <1>1 DEF Unvisited

LEMMA TodoStep ==
  ASSUME LockInv, TodoOK, [Next]_vars
  PROVE  TodoOK'
<1>1. CASE UNCHANGED recon
  <2>1. ASSUME NEW q \in Reconcilers PROVE Unvisited(q)'
    <3>1. Unvisited(q) /\ recon'[q] = recon[q]
      BY <1>1 DEF TodoOK
    <3>2. QED BY <3>1, StillUnvisited
  <2>2. QED BY <2>1 DEF TodoOK
<1>2. ASSUME NEW r \in Reconcilers, ReconStep(r)
      PROVE  TodoOK'
  <2>0. /\ \A q \in Reconcilers \ {r} : recon'[q] = recon[q]
        /\ recon \in [Reconcilers -> ReconState] /\ recon[r] \in ReconState
        /\ orders \in [Orders -> OrderRow]
    BY <1>2 DEF ReconStep, ReconNext, FetchSnapshot, BeginRun, VisitOrder, CommitRun,
                AbortRun, EndRun, LockInv, TypeInv, TypeOK
  <2>1. ASSUME NEW s \in Snapshots, FetchSnapshot(r, s)
        PROVE  Unvisited(r)'
    <3>1. recon[r].pc = "idle" /\ recon'[r].todo = s.list
          /\ recon'[r].seen = recon[r].seen
      BY <2>0, <2>1 DEF FetchSnapshot, ReconState
    <3>2. VisitedBy(r)' = {}
      BY <3>1 DEF VisitedBy, LockInv, TypeInv, ControlOK, ReconsOK
    <3>3. \A i, j \in DOMAIN s.list : s.list[i] = s.list[j] => i = j
      BY ReconciliationAssumption DEF WellFormed
    <3>4. QED BY <3>1, <3>2, <3>3 DEF Unvisited
  <2>2. ASSUME BeginRun(r)
        PROVE  Unvisited(r)'
    <3>1. /\ recon[r].pc # "idle" /\ recon'[r].todo = recon[r].todo
          /\ recon'[r].seen = recon[r].seen
      BY <2>0, <2>2 DEF BeginRun, ReconState
    <3>2. Unvisited(r) /\ VisitedBy(r)' = VisitedBy(r)
      BY <3>1 DEF TodoOK, VisitedBy
    <3>3. QED BY <3>1, <3>2 DEF Unvisited
  <2>3. ASSUME VisitOrder(r)
        PROVE  Unvisited(r)'
    <3> PICK x \in Orders : x = Head(recon[r].todo)
      BY <2>0, <2>3 DEF VisitOrder, ReconState
    <3> DEFINE todo == recon[r].todo
    <3>1. /\ todo \in Seq(Orders) /\ todo # << >>
          /\ recon'[r].todo = Tail(todo)
          /\ recon'[r].seen = [recon[r].seen EXCEPT ![x] = orders[x]]
      BY <2>0, <2>3 DEF VisitOrder, ReconState
    <3>2. /\ \A i, j \in DOMAIN todo : todo[i] = todo[j] => i = j
          /\ \A i \in DOMAIN todo : todo[i] \notin VisitedBy(r)
      BY <2>3 DEF VisitOrder, TodoOK, Unvisited
    <3>3. VisitedBy(r)' \subseteq VisitedBy(r) \union {x}
      BY <2>0, <3>1 DEF VisitedBy, ReconState
    <3> HIDE DEF todo
    <3>4. /\ 1 \in DOMAIN todo /\ todo[1] = Head(todo)
          /\ \A i \in DOMAIN Tail(todo) :
               i + 1 \in DOMAIN todo /\ i + 1 # 1 /\ Tail(todo)[i] = todo[i + 1]
      BY <3>1
    <3>5. x = Head(todo)
      BY DEF todo
    <3>6. /\ \A i, j \in DOMAIN Tail(todo) : Tail(todo)[i] = Tail(todo)[j] => i = j
          /\ \A i \in DOMAIN Tail(todo) : Tail(todo)[i] \notin VisitedBy(r)'
      <4>1. ASSUME NEW i \in DOMAIN Tail(todo), NEW j \in DOMAIN Tail(todo),
                   Tail(todo)[i] = Tail(todo)[j]
            PROVE  i = j
        <5>1. i + 1 = j + 1
          BY <3>2, <3>4, <4>1
        <5>2. i \in Nat /\ j \in Nat
          BY <3>1
        <5>3. QED BY <5>1, <5>2
      <4>2. QED BY <3>2, <3>3, <3>4, <3>5, <4>1
    <3>7. /\ \A i, j \in DOMAIN recon'[r].todo :
               recon'[r].todo[i] = recon'[r].todo[j] => i = j
          /\ \A i \in DOMAIN recon'[r].todo : recon'[r].todo[i] \notin VisitedBy(r)'
      BY <3>1, <3>6
    <3>8. QED BY <3>7 DEF Unvisited
  <2>4. ASSUME CommitRun(r) \/ AbortRun(r)
        PROVE  Unvisited(r)'
    <3>1. recon'[r].pc = "idle"
      BY <2>0, <2>4 DEF CommitRun, AbortRun, EndRun, NoRecon
    <3>2. QED BY <3>1 DEF Unvisited
  <2>5. Unvisited(r)'
    BY <1>2, <2>1, <2>2, <2>3, <2>4 DEF ReconStep, ReconNext
  <2>6. ASSUME NEW q \in Reconcilers \ {r} PROVE Unvisited(q)'
    <3>1. Unvisited(q) /\ recon'[q] = recon[q]
      BY <2>0 DEF TodoOK
    <3>2. QED BY <3>1, StillUnvisited
  <2>7. QED BY <2>5, <2>6 DEF TodoOK
<1>3. QED
  BY <1>1, <1>2 DEF Next, IngestStep, WorkerStep, ReplayStep, ClockStep, vars,
                    reconVars

-----------------------------------------------------------------------------
WaitInv == LockInv /\ NoOrphanLocks /\ AdvisoryOK /\ TodoOK

LEMMA WaitInvariance == Spec => []WaitInv
<1>1. Init => WaitInv
  BY LockInit, OrphanInit, WaitInit DEF WaitInv
<1>2. WaitInv /\ [Next]_vars => WaitInv'
  BY LockStep, OrphanStep, AdvisoryStep, TodoStep DEF WaitInv
<1>3. QED BY <1>1, <1>2, PTL DEF Spec

Runs(p) == p \in Reconcilers /\ recon[p].pc = "running"

(* Who has what another process waits for either waits for nobody, or is   *)
(* the reconciliation that runs and not the one that waits.                *)
LEMMA HoldersGoOn ==
  ASSUME WaitInv, NEW p \in Processes, NEW q \in Processes, WaitsFor(p, q)
  PROVE  \/ q \in Workers /\ worker[q].pc = "locked"
         \/ Runs(q) /\ ~Runs(p)
<1>0. /\ \A r \in Processes : r # Null
      /\ Workers \intersect Reconcilers = {} /\ Workers \intersect Replayers = {}
      /\ Replayers \intersect Reconcilers = {}
  BY WorkersAssumption, ReplayAssumption, ReconciliationAssumption,
     ProcessesAssumption DEF Processes
<1>1. ASSUME NEW o \in Orders, orderLock[o] = q
      PROVE  \/ q \in Workers /\ worker[q].pc = "locked"
             \/ Runs(q) /\ o \in VisitedBy(q)
  <2>1. HoldsOrder(q, o)
    BY <1>0, <1>1, LocksAreHeld DEF WaitInv
  <2>2. q \in Reconcilers /\ o \in VisitedBy(q) => recon[q].pc = "running"
    BY DEF WaitInv, LockInv, TypeInv, ControlOK, ReconsOK
  <2>3. QED BY <2>1, <2>2 DEF HoldsOrder, Runs
<1>2. CASE p \in Workers /\ worker[p].pc = "claimed" /\ orderLock[ClaimedOrder(p)] = q
  <2>1. ClaimedOrder(p) \in Orders
    BY <1>2, ClaimFacts DEF InTransaction, WaitInv, LockInv
  <2>2. ~Runs(p)
    BY <1>0, <1>2 DEF Runs
  <2>3. QED BY <1>1, <1>2, <2>1, <2>2
<1>3. CASE p \in Reconcilers /\ recon[p].pc = "fetched" /\ advisoryLock = q
  <2>1. q \in Reconcilers
    BY <1>0, <1>3 DEF WaitInv, LockInv, TypeInv, TypeOK
  <2>2. Runs(q)
    BY <1>3, <2>1 DEF Runs, WaitInv, AdvisoryOK
  <2>3. QED BY <1>3, <2>2 DEF Runs
<1>4. CASE /\ p \in Reconcilers /\ recon[p].pc = "running"
           /\ recon[p].todo # << >> /\ orderLock[Head(recon[p].todo)] = q
  <2> DEFINE todo == recon[p].todo
             o    == Head(todo)
  <2>1. todo \in Seq(Orders)
    BY <1>4 DEF WaitInv, LockInv, TypeInv, TypeOK, ReconState
  <2>2. o \in Orders /\ 1 \in DOMAIN todo /\ todo[1] = o
    BY <1>4, <2>1
  <2>3. o \notin VisitedBy(p)
    BY <1>4, <2>2 DEF WaitInv, TodoOK, Unvisited
  <2>4. Runs(q) => q = p
    BY <1>4 DEF Runs, WaitInv, AdvisoryOK
  <2>5. QED BY <1>1, <1>4, <2>2, <2>3, <2>4
<1>5. QED BY <1>2, <1>3, <1>4 DEF WaitsFor

(* No deadlock, whatever the number of workers, orders and reconciliations *)
(* and in whatever order the provider lists the orders: in every set of    *)
(* processes one waits for nobody in the set.                              *)
THEOREM NobodyWaitsInCircles == Spec => []NoWaitCycle
<1>1. WaitInv => NoWaitCycle
  <2> SUFFICES ASSUME WaitInv, NEW group \in SUBSET Processes, group # {}
               PROVE  \E p \in group : \A q \in group : ~WaitsFor(p, q)
    BY DEF NoWaitCycle
  <2>1. CASE \E p \in group : p \in Workers /\ worker[p].pc = "locked"
    <3> PICK p \in group : p \in Workers /\ worker[p].pc = "locked"
      BY <2>1
    <3>1. \A q \in group : ~WaitsFor(p, q)
      BY ProcessesAssumption DEF WaitsFor
    <3>2. QED BY <3>1
  <2>2. CASE /\ ~\E p \in group : p \in Workers /\ worker[p].pc = "locked"
             /\ \E p \in group : Runs(p)
    <3> PICK p \in group : Runs(p)
      BY <2>2
    <3>1. \A q \in group : ~WaitsFor(p, q)
      BY <2>2, HoldersGoOn
    <3>2. QED BY <3>1
  <2>3. CASE /\ ~\E p \in group : p \in Workers /\ worker[p].pc = "locked"
             /\ ~\E p \in group : Runs(p)
    <3> PICK p \in group : TRUE
      OBVIOUS
    <3>1. \A q \in group : ~WaitsFor(p, q)
      BY <2>3, HoldersGoOn
    <3>2. QED BY <3>1
  <2>4. QED BY <2>1, <2>2, <2>3
<1>2. QED BY WaitInvariance, <1>1, PTL
=============================================================================
