----------------------- MODULE PaymentEventProcessor -----------------------
(***************************************************************************)
(* The pure decision of src/src/worker/payment-event-processor.ts: what    *)
(* one event does to one order row.  A body stands for the stored payload, *)
(* a record [event, order, type, seq, amount]; an order row is a record    *)
(* [exists, status, seq, amount].  The field amount stands for the pair    *)
(* of columns amount and currency: an event carries both or neither.       *)
(***************************************************************************)
EXTENDS Integers

CONSTANT Null    \* SQL NULL

EventTypeToStatus ==
  [type \in {"payment.pending", "payment.authorized", "payment.captured",
             "payment.refunded", "payment.failed"} |->
     CASE type = "payment.pending"    -> "pending"
       [] type = "payment.authorized" -> "authorized"
       [] type = "payment.captured"   -> "captured"
       [] type = "payment.refunded"   -> "refunded"
       [] type = "payment.failed"     -> "failed"]

OrderStatuses == {"pending", "authorized", "captured", "refunded", "failed"}

(* A result that leaves the order as it is.                                *)
Ignored(reason, order) ==
  [outcome |-> "IGNORED", reason |-> reason, order |-> order]

(* Variants that the model-checking runs put in the place of the next      *)
(* definition stand before it here and in the other modules: each is a     *)
(* slip the code could have, and a property that names it must fail.       *)

(* COALESCE(payload amount, stored amount): a payload without an amount    *)
(* keeps the amount of the order.                                          *)
OverwriteAmount(amount, stored) == amount

Coalesce(amount, stored) == IF amount = Null THEN stored ELSE amount

AppliedUnmapped(body, order) ==
  [outcome |-> "APPLIED", reason |-> Null,
   order   |-> [order EXCEPT !.status = body.type, !.seq = body.seq]]

Applied(body, order) ==
  [outcome |-> "APPLIED", reason |-> Null,
   order   |-> [order EXCEPT !.status = EventTypeToStatus[body.type],
                             !.seq    = body.seq,
                             !.amount = Coalesce(body.amount, order.amount)]]

(* event.sequence > order.last_sequence                                    *)
AlwaysNewer(body, order) == TRUE
NewerByTwo(body, order) == body.seq > order.seq + 1

IsNewer(body, order) == body.seq > order.seq

(* process(event, order) with the UPDATE of orders its result leads to.    *)
Process(body, order) ==
  IF body.type \notin DOMAIN EventTypeToStatus
    THEN Ignored("UNKNOWN_EVENT_TYPE", order)
  ELSE IF IsNewer(body, order)
    THEN Applied(body, order)
  ELSE Ignored("STALE_SEQUENCE", order)
=============================================================================
