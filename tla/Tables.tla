------------------------------- MODULE Tables -------------------------------
(***************************************************************************)
(* The PostgreSQL tables that the payment webhook service shares between   *)
(* its processes, in the state the last COMMIT left them, and the row      *)
(* locks that open transactions hold.  The columns are those of            *)
(* src/src/database/migrations/001-create-tables.sql that a decision of    *)
(* the code depends on.                                                    *)
(*                                                                         *)
(* An uncommitted write is invisible to every other transaction (READ      *)
(* COMMITTED), so it is kept in the local state of the process that will   *)
(* commit it and reaches the tables in its commit action.                  *)
(***************************************************************************)
EXTENDS Integers, Sequences, PaymentEventProcessor

CONSTANTS
  EventIds,      \* provider event identifiers
  Orders,        \* order identifiers
  Amounts,       \* amounts (with their currency)
  Bodies         \* the raw webhook bodies the provider may send

Amount == Amounts \union {Null}

Body == [event : EventIds, order : Orders, type : STRING,
         seq : Nat, amount : Amount]

VARIABLES
  events,        \* webhook_events: inbox and work queue, one row per event_id
  nextId,        \* the identity column of webhook_events
  deliveries,    \* webhook_deliveries: how many rows of each result per event
  orders,        \* orders
  history,       \* order_status_history, per order, in insertion order
  eventLock,     \* FOR UPDATE locks on webhook_events rows
  orderLock      \* FOR UPDATE locks on orders rows (an uncommitted INSERT
                 \* of the order makes other writers wait just the same)

tables == <<events, nextId, deliveries, orders, history>>
rowLocks == <<eventLock, orderLock>>

-----------------------------------------------------------------------------
ProcessingStatuses ==
  {"ABSENT", "PENDING", "RETRY_SCHEDULED", "APPLIED", "IGNORED", "DLQ"}

OutcomeReasons ==
  {Null, "STALE_TIMESTAMP", "STALE_SEQUENCE", "UNKNOWN_EVENT_TYPE",
   "TRANSIENT_ERROR", "MAX_ATTEMPTS_EXHAUSTED"}

DeliveryResults == {"CREATED", "IGNORED", "DUPLICATE", "REJECTED"}

EventRow ==
  [id       : Nat,
   body     : Bodies \union {Null},
   status   : ProcessingStatuses,        \* processing_status
   reason   : OutcomeReasons,            \* outcome_reason
   attempts : Nat,                       \* attempt_count
   next     : Nat \union {Null},         \* next_attempt_at, ticks from now
   count    : Nat,                       \* delivery_count
   replays  : Nat]                       \* replay_count

OrderRow ==
  [exists : BOOLEAN, status : OrderStatuses, seq : Nat, amount : Amount]

HistoryRow ==
  [event : EventIds \union {Null}, seq : Nat,
   prev  : OrderStatuses \union {Null}, new : OrderStatuses,
   outcome : {"APPLIED", "IGNORED", "RECONCILED"}]

(* What the service reads and stores is well typed, and NULL is no value.  *)
ASSUME TablesAssumption ==
  /\ Bodies \subseteq Body
  /\ Null \notin EventIds \union Orders \union Amounts \union Body \union Int
  /\ Null \notin OrderStatuses
  /\ Null \notin {"STALE_TIMESTAMP", "STALE_SEQUENCE", "UNKNOWN_EVENT_TYPE",
                  "TRANSIENT_ERROR", "MAX_ATTEMPTS_EXHAUSTED"}
  /\ Null \notin EventRow \union OrderRow

(* An event_id without a row.                                              *)
NoEventRow ==
  [id |-> 0, body |-> Null, status |-> "ABSENT", reason |-> Null,
   attempts |-> 0, next |-> Null, count |-> 0, replays |-> 0]

(* The column defaults of orders, in a row that does not exist yet.        *)
NoOrderRow ==
  [exists |-> FALSE, status |-> "pending", seq |-> 0, amount |-> Null]

(* INSERT INTO orders (id) VALUES (..) ON CONFLICT (id) DO NOTHING         *)
InsertOrderIfMissing(row) == [row EXCEPT !.exists = TRUE]

(* A history row of the worker: event_id set, source WEBHOOK.              *)
WebhookHistory(body, before, result) ==
  [event |-> body.event, seq |-> body.seq, prev |-> before.status,
   new |-> result.order.status, outcome |-> result.outcome]

Stored == {e \in EventIds : events[e].status # "ABSENT"}

(* The states in which the work queue still owes the event an outcome.     *)
Waiting == {"PENDING", "RETRY_SCHEDULED"}

TablesInit ==
  /\ events = [e \in EventIds |-> NoEventRow]
  /\ nextId = 1
  /\ deliveries = [e \in EventIds |-> [r \in DeliveryResults |-> 0]]
  /\ orders = [o \in Orders |-> NoOrderRow]
  /\ history = [o \in Orders |-> << >>]
  /\ eventLock = [e \in EventIds |-> Null]
  /\ orderLock = [o \in Orders |-> Null]

(* A transaction that wants a row lock waits until the row is free.        *)
AnyOrder(o) == TRUE

EventFree(e) == eventLock[e] = Null
OrderFree(o) == orderLock[o] = Null

(* COMMIT and ROLLBACK give up every row lock of process p.                *)
EventLocksWithout(p) ==
  [e \in EventIds |-> IF eventLock[e] = p THEN Null ELSE eventLock[e]]

AllOrderLocks(p) == orderLock

OrderLocksWithout(p) ==
  [o \in Orders |-> IF orderLock[o] = p THEN Null ELSE orderLock[o]]

ReleaseLocks(p) ==
  /\ eventLock' = EventLocksWithout(p)
  /\ orderLock' = OrderLocksWithout(p)

(* Time passes: a scheduled retry comes one tick closer.                   *)
Tick ==
  /\ \E e \in EventIds : events[e].next \notin {Null, 0}
  /\ events' = [e \in EventIds |->
       IF events[e].next \in {Null, 0} THEN events[e]
                                       ELSE [events[e] EXCEPT !.next = @ - 1]]
  /\ UNCHANGED <<nextId, deliveries, orders, history, rowLocks>>
=============================================================================
