------------------------------ MODULE Metrics ------------------------------
(***************************************************************************)
(* GET /metrics, src/src/metrics: what one statement counts in the tables  *)
(* while everything else goes on.  The latencies are left out.             *)
(***************************************************************************)
EXTENDS PaymentService, FiniteSets

(* SELECT .. FROM webhook_deliveries, the rows of some results.            *)
DeliveriesWith(results) ==
  UNION {{p} \X (1..deliveries[p[1]][p[2]]) : p \in EventIds \X results}

EventsReceived == Cardinality(DeliveriesWith(DeliveryResults))

DuplicateEvents == Cardinality(DeliveriesWith({"DUPLICATE"}))

OutOfOrderEvents == Cardinality({e \in EventIds : events[e].reason = "STALE_SEQUENCE"})

DlqSize == Cardinality({e \in EventIds : events[e].status = "DLQ"})

(* The metrics declared "# TYPE .. counter" never decrease, though they    *)
(* are counted from rows that workers and replays rewrite: no replay takes *)
(* back an outcome that was counted.  dlq_size is a gauge, and it alone    *)
(* may fall (metrics.controller.ts 15-32, metrics.repository.ts 16-25).    *)
CountersNeverDecrease ==
  [][/\ EventsReceived' >= EventsReceived
     /\ DuplicateEvents' >= DuplicateEvents
     /\ OutOfOrderEvents' >= OutOfOrderEvents
     /\ DlqSize' < DlqSize => \E r \in Replayers : ReplayStep(r)]_vars
=============================================================================
