----------------------------- MODULE Ingestion -----------------------------
(***************************************************************************)
(* Webhook ingestion: what one authenticated POST /webhooks/payments does  *)
(* to the database (src/src/webhooks).  The whole request is one SQL       *)
(* statement, so one action.  The provider may send any body at any time,  *)
(* again and again, in any order: a redelivery after a lost response or a  *)
(* 503 is just another Ingest of the same body.                            *)
(***************************************************************************)
EXTENDS Tables

CONSTANT MaxDeliveries   \* bound: deliveries modelled per event_id

ASSUME IngestionAssumption == MaxDeliveries \in Nat

(* ALLOWED_EVENT_TYPES: any other type is answered 400 and changes nothing. *)
MoreEventTypes ==
  {"payment.pending", "payment.authorized", "payment.captured",
   "payment.refunded", "payment.failed", "payment.disputed"}

AllowedEventTypes ==
  {"payment.pending", "payment.authorized", "payment.captured",
   "payment.refunded", "payment.failed"}

(* The row of a first delivery.  isStale: occurred_at lies more than five  *)
(* minutes before received_at; such an event never enters the work queue.  *)
FirstDelivery(body, isStale) ==
  [id |-> nextId, body |-> body,
   status   |-> IF isStale THEN "IGNORED" ELSE "PENDING",
   reason   |-> IF isStale THEN "STALE_TIMESTAMP" ELSE Null,
   attempts |-> 0, next |-> Null, count |-> 1, replays |-> 0]

(* INSERT .. ON CONFLICT (event_id) DO UPDATE SET delivery_count = .. + 1  *)
DoNothing(body, isStale) ==
  IF events[body.event].status = "ABSENT" THEN FirstDelivery(body, isStale)
                                          ELSE events[body.event]

Upsert(body, isStale) ==
  LET row == events[body.event]
  IN  IF row.status = "ABSENT" THEN FirstDelivery(body, isStale)
                               ELSE [row EXCEPT !.count = @ + 1]

(* delivery_result: equal payload_hash means the same raw body.            *)
StaleBeforeCount(row, body, isStale) ==
  IF isStale THEN "IGNORED"
  ELSE IF row.count = 1 THEN "CREATED"
  ELSE IF row.body = body THEN "DUPLICATE" ELSE "REJECTED"

DeliveryResult(row, body, isStale) ==
  CASE row.count = 1 /\ isStale            -> "IGNORED"
    [] row.count = 1 /\ ~isStale           -> "CREATED"
    [] row.count # 1 /\ row.body = body    -> "DUPLICATE"
    [] row.count # 1 /\ row.body # body    -> "REJECTED"

(* The statement waits while another transaction holds the event row.      *)
Ingest(body, isStale) ==
  LET e   == body.event
      row == Upsert(body, isStale)
  IN  /\ body.type \in AllowedEventTypes
      /\ EventFree(e)
      /\ events[e].count < MaxDeliveries
      /\ events' = [events EXCEPT ![e] = row]
      /\ nextId' = IF events[e].status = "ABSENT" THEN nextId + 1 ELSE nextId
      /\ deliveries' =
           [deliveries EXCEPT ![e][DeliveryResult(row, body, isStale)] = @ + 1]
      /\ UNCHANGED <<orders, history, rowLocks>>
=============================================================================
