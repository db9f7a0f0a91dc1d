------------------------ MODULE VerificationScripts ------------------------
(***************************************************************************)
(* What the five scripts of src/scripts do and assert, as steps of         *)
(* ScriptRunner.  Event and order names stand for the suffixes the scripts *)
(* put behind the prefix of a run; statements that only look at the form   *)
(* of an answer (an array, a number, a latency, the absence of a column)   *)
(* are left out.                                                           *)
(***************************************************************************)
EXTENDS ScriptRunner

CONSTANTS
  requestA, requestB,   \* the reconciliations that a script asks for
  HotKeyRequests,       \* bound: the 100 simultaneous requests of a hot key
  DisjointOrders,       \* bound: the 5 orders of test D
  UniqueDeliveries      \* bound: the 800 unique deliveries of the burst

Do(op, of, want) == [op |-> op, of |-> of, want |-> want]

(* Answers that a script accepts: any, or any 202, or one result.          *)
Unchecked == DeliveryResults \union {"REFUSED"}
Accepted == DeliveryResults

Webhook(e, o, type, seq, amount) ==
  [event |-> e, order |-> o, type |-> type, seq |-> seq, amount |-> amount]

Send1(body, want) == Do("send", <<body>>, want)

-----------------------------------------------------------------------------
(* scripts/verify-worker.ts                                                *)

(* A: an event overtaken by a newer one has no effect.                     *)
TestA ==
  <<Send1(Webhook("a-refund", "order-a", "payment.refunded", 3, "1000.00"), Accepted),
    Do("poll", "a-refund", {"APPLIED"}),
    Do("order", "order-a", [status |-> "refunded", seq |-> 3]),
    Send1(Webhook("a-capture", "order-a", "payment.captured", 2, "1000.00"), Accepted),
    Do("poll", "a-capture", {"IGNORED"}),
    Do("event", "a-capture", [reason |-> "STALE_SEQUENCE"]),
    Do("order", "order-a", [status |-> "refunded", seq |-> 3]),
    Do("rows", "order-a", 2)>>

(* B: two events in order.                                                 *)
TestB ==
  <<Send1(Webhook("b-auth", "order-b", "payment.authorized", 1, "1000.00"), Unchecked),
    Do("poll", "b-auth", {"APPLIED"}),
    Send1(Webhook("b-capture", "order-b", "payment.captured", 2, "1000.00"), Unchecked),
    Do("poll", "b-capture", {"APPLIED"}),
    Do("order", "order-b", [status |-> "captured", seq |-> 2])>>

(* C: a duplicate after the event was processed.                           *)
TestC ==
  LET payload == Webhook("c", "order-c", "payment.authorized", 1, "1000.00")
  IN  <<Send1(payload, Unchecked),
        Do("poll", "c", {"APPLIED"}),
        Send1(payload, {"DUPLICATE"}),
        Do("event", "c", [count |-> 2]),
        Do("rowsOf", "c", 1),
        Do("order", "order-c", [status |-> "authorized"])>>

(* D: events of different orders, one after the other but not awaited.     *)
OrderD == <<"order-d-0", "order-d-1", "order-d-2", "order-d-3", "order-d-4">>
EventD == <<"d-0", "d-1", "d-2", "d-3", "d-4">>

ForEach(made(_)) == [i \in 1 .. DisjointOrders |-> made(i)]

TestD ==
  LET sent(i)    == Send1(Webhook(EventD[i], OrderD[i], "payment.authorized", 1,
                                  "1000.00"), Unchecked)
      polled(i)  == Do("poll", EventD[i], {"APPLIED", "IGNORED"})
      counted(i) == Do("rowsOf", EventD[i], 1)
  IN  ForEach(sent) \o ForEach(polled) \o ForEach(counted)
      \o <<Do("notPending", {EventD[i] : i \in 1 .. DisjointOrders}, TRUE)>>

(* E: GET /orders/:id of the order of test A.                              *)
TestE ==
  <<Do("order", "order-a", [status |-> "refunded", seq |-> 3]),
    Do("listed", "order-a", 2),
    Do("orders", {"order-none"}, FALSE)>>

WorkerScript == TestA \o TestB \o TestC \o TestD \o TestE

-----------------------------------------------------------------------------
(* scripts/verify-ingestion.ts; the workers are stopped.                   *)

HotKey ==
  LET payload == Webhook("hotkey", "order-hotkey", "payment.authorized", 1, "500.00")
  IN  <<Do("send", [i \in 1 .. HotKeyRequests |-> payload], Accepted),
        Do("event", "hotkey", [count |-> HotKeyRequests]),
        Do("recorded", "hotkey", HotKeyRequests)>>

Stale ==
  <<Do("sendStale",
       <<Webhook("stale", "order-stale", "payment.pending", 0, "100.00")>>, {"IGNORED"}),
    Do("event", "stale", [status |-> "IGNORED", reason |-> "STALE_TIMESTAMP"])>>

(* A signature of a's, and none.                                           *)
Forged(e) ==
  <<Do("forge", e, {}), Do("event", e, [status |-> "ABSENT"]), Do("recorded", e, 0)>>

RejectedDelivery ==
  LET original == Webhook("rejected", "order-rejected", "payment.authorized", 1, "999.00")
  IN  <<Send1(original, {"CREATED"}),
        Send1([original EXCEPT !.amount = "1.00"], {"REJECTED"}),
        Do("event", "rejected", [body |-> original])>>

IngestionOrders ==
  {"order-hotkey", "order-stale", "order-invalid", "order-nosig", "order-rejected"}

(* Unique deliveries and one duplicate, at a random place.                 *)
EventBurst == <<"burst-0", "burst-1", "burst-2", "burst-3">>

Burst ==
  LET delivery(i) == Webhook(EventBurst[i], "order-burst", "payment.authorized", 1, "100.00")
      unique      == [i \in 1 .. UniqueDeliveries |-> delivery(i)]
  IN  <<Do("send", <<delivery(1)>> \o unique, Accepted)>>

IngestionScript ==
  HotKey \o Stale \o Forged("invalid-sig") \o Forged("no-sig") \o RejectedDelivery
  \o <<Do("orders", IngestionOrders, FALSE)>> \o Burst

-----------------------------------------------------------------------------
(* scripts/verify-retries-dlq.ts                                           *)

(* Rows inserted by SQL, with an amount that NUMERIC(12,2) refuses.        *)
Oversized(e, o) == Webhook(e, o, "payment.captured", 1, "99999999999999.99")

PlantedRow(body, attempts) ==
  [id |-> 0, body |-> body, status |-> "PENDING", reason |-> Null,
   attempts |-> attempts, next |-> Null, count |-> 1, replays |-> 0]

(* The last attempt fails: a dead letter, and no trace of its effect.      *)
ScenarioA ==
  <<Do("insertEvent", "dlq", PlantedRow(Oversized("dlq", "order-dlq"), MaxAttempts - 1)),
    Do("poll", "dlq", {"DLQ"}),
    Do("event", "dlq", [attempts |-> MaxAttempts, next |-> Null,
                        reason |-> "MAX_ATTEMPTS_EXHAUSTED"]),
    Do("rowsOf", "dlq", 0),
    Do("orders", {"order-dlq"}, FALSE)>>

(* The newest dead letter is on the first page.                            *)
ScenarioB == <<Do("event", "dlq", [status |-> "DLQ"])>>

(* A replay, and at once a second one.                                     *)
ScenarioC ==
  <<Do("replay", "dlq", "REPLAYED"),
    Do("replay", "dlq", "NOT_IN_DLQ"),
    Do("event", "dlq", [replays |-> 1]),
    Do("rowsOf", "dlq", 0)>>

(* A first attempt fails: the event is retried.                            *)
ScenarioD ==
  <<Do("insertEvent", "retry", PlantedRow(Oversized("retry", "order-retry"), 0)),
    Do("retry", "retry", TRUE),
    Do("rowsOf", "retry", 0)>>

RetriesScript == ScenarioA \o ScenarioB \o ScenarioC \o ScenarioD

-----------------------------------------------------------------------------
(* scripts/verify-reconciliation.ts                                        *)

LocalOrder(status, seq, amount) ==
  [exists |-> TRUE, status |-> status, seq |-> seq, amount |-> amount]

Reported(status, seq, amount) == [status |-> status, seq |-> seq, amount |-> amount]

(* An order that is not reported has a state that nobody asks for.         *)
Provider(list, state) ==
  [list  |-> list,
   state |-> [o \in Orders |-> IF o \in DOMAIN state THEN state[o]
                               ELSE Reported("pending", 0, "100.00")]]

FourOrders ==
  Provider(<<"missing", "divergent", "identical", "stale">>,
    [missing   |-> Reported("captured", 3, "150.00"),
     divergent |-> Reported("captured", 3, "100.00"),
     identical |-> Reported("captured", 3, "200.00"),
     stale     |-> Reported("authorized", 2, "300.00")])

ConcurrentOrder ==
  Provider(<<"concurrent">>, [concurrent |-> Reported("captured", 3, "500.00")])

Setup ==
  <<Do("insertOrder", "divergent", LocalOrder("authorized", 2, "50.00")),
    Do("insertOrder", "identical", LocalOrder("captured", 3, "200.00")),
    Do("insertOrder", "stale", LocalOrder("refunded", 5, "300.00")),
    Do("file", "provider", FourOrders)>>

Repaired(seq, amount) == [exists |-> TRUE, status |-> "captured", seq |-> seq, amount |-> amount]

RepairedRows ==
  <<Do("rows", "missing", 1), Do("rows", "divergent", 1),
    Do("rows", "identical", 0), Do("rows", "stale", 0)>>

FirstRun ==
  <<Do("reconcile", {requestA}, 200),
    Do("reports", 1, [repaired |-> 2, ok |-> 1, stale |-> 1]),
    Do("order", "missing", Repaired(3, "150.00")),
    Do("order", "divergent", Repaired(3, "100.00")),
    Do("order", "stale", [status |-> "refunded", seq |-> 5])>>
  \o RepairedRows

(* Nothing is repaired twice.                                              *)
SecondRun ==
  <<Do("reconcile", {requestA}, 200),
    Do("reports", 1, [repaired |-> 0, ok |-> 3, stale |-> 1])>>
  \o RepairedRows
  \o <<Do("order", "missing", [status |-> "captured"])>>

(* Two runs side by side repair an order once.                             *)
ConcurrentRuns ==
  <<Do("insertOrder", "concurrent", LocalOrder("pending", 0, Null)),
    Do("file", "provider", ConcurrentOrder),
    Do("reconcile", {requestA, requestB}, 200),
    Do("reports", 2, [repaired |-> 1]),
    Do("rows", "concurrent", 1)>>

ReconciliationScript == Setup \o FirstRun \o SecondRun \o ConcurrentRuns

-----------------------------------------------------------------------------
(* scripts/verify-observability.ts                                         *)

(* A valid event, a duplicate, and an event with a lower sequence: that it *)
(* is 0 makes it stale even if it is processed first.                      *)
ObservedEvents ==
  LET payload == Webhook("evt-001", "order-001", "payment.authorized", 1, "100.00")
  IN  <<Do("measure", "metrics", {}),
        Send1(payload, {"CREATED"}),
        Send1(payload, {"DUPLICATE"}),
        Send1(Webhook("evt-002", "order-001", "payment.pending", 0, "100.00"), Accepted),
        Do("wait", {"evt-001", "evt-002"}, {}),
        Do("event", "evt-002", [reason |-> "STALE_SEQUENCE"]),
        Do("grew", "metrics", [received |-> 3, duplicates |-> 1, outOfOrder |-> 1])>>

TemporaryDeadLetter ==
  [PlantedRow(Webhook("dlq-temp", "order-dlq", "payment.failed", 0, Null), MaxAttempts)
     EXCEPT !.status = "DLQ", !.reason = "MAX_ATTEMPTS_EXHAUSTED"]

ObservedDlq ==
  <<Do("insertEvent", "dlq-temp", TemporaryDeadLetter),
    Do("dlqSize", "metrics", 1),
    Do("deleteEvent", "dlq-temp", {}),
    Do("dlqSize", "metrics", 0)>>

ObservabilityScript == ObservedEvents \o ObservedDlq

-----------------------------------------------------------------------------
(* The five                                                                *)

AllScripts ==
  [worker |-> WorkerScript, ingestion |-> IngestionScript, retries |-> RetriesScript,
   reconciliation |-> ReconciliationScript, observability |-> ObservabilityScript]

(* The bodies that a script sends or inserts.                              *)
BodiesOf(d) ==
  IF d.op \in {"send", "sendStale"} THEN {d.of[i] : i \in DOMAIN d.of}
  ELSE IF d.op = "insertEvent" THEN {d.want.body}
  ELSE {}

BodiesIn(steps) == UNION {BodiesOf(steps[i]) : i \in DOMAIN steps}

ScriptBodies ==
  BodiesIn(WorkerScript) \union BodiesIn(IngestionScript)
    \union BodiesIn(RetriesScript) \union BodiesIn(ObservabilityScript)

(* Events and orders that a script only asks for.                          *)
UnsentEvents == {"invalid-sig", "no-sig"}

UnsentOrders == IngestionOrders \union {"order-none"}

ASSUME ScriptsAssumption ==
  /\ HotKeyRequests \in Nat \ {0}
  /\ DisjointOrders \in DOMAIN OrderD
  /\ UniqueDeliveries \in DOMAIN EventBurst
  /\ Scripts = AllScripts
  /\ WithWorkers = DOMAIN AllScripts \ {"ingestion"}
  /\ Planted = {"dlq", "retry", "dlq-temp"}
  /\ ScriptBodies \subseteq Bodies
  /\ UnsentEvents \subseteq EventIds
  /\ UnsentOrders \subseteq Orders
  /\ "50.00" \in Amounts
  /\ {FourOrders, ConcurrentOrder} \subseteq Snapshots
  /\ {requestA, requestB} \subseteq Reconcilers
  /\ requestA # requestB

(* Scenario D looks for a second attempt: with one attempt only, which the *)
(* configuration allows, it fails every time.                              *)
ASSUME SecondAttemptAssumption == MaxAttempts >= 2
=============================================================================
