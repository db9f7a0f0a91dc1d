---------------------------- MODULE Convergence ----------------------------
(***************************************************************************)
(* What a reader of an order sees, src/src/orders/orders.repository.ts,    *)
(* and what the simulator concludes from it,                               *)
(* provider-simulator/convergence.js.                                      *)
(***************************************************************************)
EXTENDS Generator, FiniteSets

(* GET /orders/:id.  The order and its events come from one REPEATABLE     *)
(* READ snapshot, so the reading is one step; an order without a row is    *)
(* answered 404.                                                           *)
OrderDetail(o) ==
  [order  |-> orders[o],
   status |-> [e \in {f \in Stored : events[f].body.order = o} |-> events[e].status]]

NotFailed == {"APPLIED", "IGNORED", "PENDING", "RETRY_SCHEDULED"}

TerminalStatuses == {"APPLIED", "IGNORED"}

OrderVerdict ==
  [converged : BOOLEAN, terminalFail : BOOLEAN, pending : Nat, dlq : Nat, lost : Nat]

SameState(order, expected) ==
  /\ order.status = expected.status
  /\ order.seq = expected.seq
  /\ order.amount = expected.amount

(* checkOrderConvergence.  The events are looked at only once the state    *)
(* matches.                                                                *)
CheckOrder(detail, expected, expectedEvents) ==
  LET known   == DOMAIN detail.status
      lost    == expectedEvents \ known
      dlq     == {e \in expectedEvents \intersect known : detail.status[e] = "DLQ"}
      pending == {e \in (expectedEvents \intersect known) \ dlq :
                    detail.status[e] \notin TerminalStatuses}
  IN  IF SameState(detail.order, expected)
      THEN [converged |-> lost \union dlq \union pending = {},
            terminalFail |-> dlq # {}, pending |-> Cardinality(pending),
            dlq |-> Cardinality(dlq), lost |-> Cardinality(lost)]
      ELSE [converged |-> FALSE, terminalFail |-> detail.order.seq > expected.seq,
            pending |-> 0, dlq |-> 0, lost |-> 0]
=============================================================================
