---------------------------- MODULE ScriptProofs -----------------------------
(***************************************************************************)
(* No verification script fails by chance: for any number of workers,      *)
(* events, orders and requests, any number of attempts and any amount of   *)
(* simultaneous requests, a script that fails has met something outside    *)
(* the logic of the service.                                               *)
(*                                                                         *)
(* As long as nothing of that kind has happened, a script knows enough of  *)
(* the tables at each of its steps, whatever the workers do meanwhile,     *)
(* that its next assertion holds.  What it knows is said per script.       *)
(***************************************************************************)
EXTENDS VerificationScripts, HistoryProofs

(* An event that the script has not planted was given up.                  *)
DeadEvent == \E e \in Stored \ Planted : events[e].status = "DLQ"

-----------------------------------------------------------------------------
(* What each script knows                                                  *)

Original == Webhook("rejected", "order-rejected", "payment.authorized", 1, "999.00")

IngestionKnows ==
  /\ ~failed /\ AllAccounted
  /\ \A o \in Orders : orders[o] = NoOrderRow
  /\ \A e \in UnsentEvents : events[e].status = "ABSENT"
  /\ step = 1 => /\ done \subseteq 1 .. HotKeyRequests /\ done # 1 .. HotKeyRequests
                 /\ events["hotkey"].count = Cardinality(done)
  /\ step > 1 => events["hotkey"].count = HotKeyRequests
  /\ step \in 2 .. 15 => done = {}
  /\ step <= 4 => events["stale"].status = "ABSENT"
  /\ step > 4 => /\ events["stale"].status = "IGNORED"
                 /\ events["stale"].reason = "STALE_TIMESTAMP"
  /\ step <= 12 => events["rejected"].status = "ABSENT"
  /\ step > 12 => /\ events["rejected"].status # "ABSENT"
                  /\ events["rejected"].body = Original

PlantedRows ==
  (IF step > 1 THEN {"dlq"} ELSE {}) \union (IF step > 11 THEN {"retry"} ELSE {})

(* An event that nobody replays dies after its last attempt only.          *)
Limited(row) ==
  /\ row.status \in Waiting => row.attempts < MaxAttempts
  /\ row.status = "DLQ" =>
       /\ row.attempts = MaxAttempts /\ row.next = Null
       /\ row.reason = "MAX_ATTEMPTS_EXHAUSTED"

RetriesKnow ==
  /\ ~failed
  /\ Stored = PlantedRows
  /\ \A e \in Stored : events[e].status \in Waiting \union {"DLQ"}
  /\ \A o \in Orders : orders[o] = NoOrderRow /\ history[o] = << >>
  /\ \A r \in Replayers : replay[r].pc = "selected" =>
       step \in {7, 8} /\ replay[r].event.body.event = "dlq"
  /\ Limited(events["dlq"])
  /\ step > 11 => Limited(events["retry"])
  /\ step \in 3 .. 7 => events["dlq"].status = "DLQ"
  /\ events["dlq"].replays = IF step > 7 THEN 1 ELSE 0

Observed1 == Webhook("evt-001", "order-001", "payment.authorized", 1, "100.00")
Observed2 == Webhook("evt-002", "order-001", "payment.pending", 0, "100.00")

ObservedRows ==
  (IF step > 2 THEN {"evt-001"} ELSE {}) \union (IF step > 4 THEN {"evt-002"} ELSE {})
  \union (IF step \in 9 .. 10 THEN {"dlq-temp"} ELSE {})

ObservabilityKnows ==
  /\ failed => step > 6 /\ DeadEvent
  /\ CountedOK
  /\ Stored = ObservedRows
  /\ \A e \in EventIds \ Stored : events[e] = NoEventRow
  /\ \A r \in Replayers : replay[r].pc = "idle"
  /\ base = [received |-> 0, duplicates |-> 0, outOfOrder |-> 0, dlq |-> 0]
  /\ done = {}
  /\ step <= 2 => \A e \in EventIds : \A r \in DeliveryResults : deliveries[e][r] = 0
  /\ step > 2 => /\ events["evt-001"].body = Observed1
                 /\ events["evt-001"].count >= 1
                 /\ deliveries["evt-001"]["CREATED"] >= 1
  /\ step > 3 => deliveries["evt-001"]["DUPLICATE"] >= 1
  /\ step > 4 => /\ events["evt-002"].body = Observed2
                 /\ deliveries["evt-002"]["CREATED"] >= 1
  /\ events["evt-002"].status # "APPLIED"
  /\ events["evt-002"].status = "IGNORED" => events["evt-002"].reason = "STALE_SEQUENCE"
  /\ step > 5 => \A e \in {"evt-001", "evt-002"} : events[e].status \notin Waiting
  /\ step \in 9 .. 10 => events["dlq-temp"].status = "DLQ"

Divergent == LocalOrder("authorized", 2, "50.00")
Identical == LocalOrder("captured", 3, "200.00")
Ahead == LocalOrder("refunded", 5, "300.00")
Inserted23 == LocalOrder("pending", 0, Null)

Asked == IF step = 23 THEN {requestA, requestB} ELSE {requestA}

OneRepaired == step > 23 \/ (step = 23 /\ done # {})

ReconciliationKnows ==
  /\ ~failed
  /\ \A e \in EventIds : events[e] = NoEventRow
  /\ step = 23 => done \in {{}, {requestA}, {requestB}}
  /\ step # 23 => done = {}
  /\ file = IF step <= 4 THEN Null ELSE IF step <= 22 THEN FourOrders ELSE ConcurrentOrder
  /\ ProgressOK
  /\ \A r \in Reconcilers : recon[r].pc # "idle" =>
       /\ step \in {5, 14, 23} /\ r \in Asked \ done
       /\ recon[r].snapshot = file
  /\ orders["missing"] = IF step <= 5 THEN NoOrderRow ELSE Repaired(3, "150.00")
  /\ orders["divergent"] = IF step <= 1 THEN NoOrderRow
                           ELSE IF step <= 5 THEN Divergent ELSE Repaired(3, "100.00")
  /\ orders["identical"] = IF step <= 2 THEN NoOrderRow ELSE Identical
  /\ orders["stale"] = IF step <= 3 THEN NoOrderRow ELSE Ahead
  /\ orders["concurrent"] = IF step <= 21 THEN NoOrderRow
                            ELSE IF OneRepaired THEN Repaired(3, "500.00") ELSE Inserted23
  /\ Len(history["missing"]) = IF step <= 5 THEN 0 ELSE 1
  /\ Len(history["divergent"]) = IF step <= 5 THEN 0 ELSE 1
  /\ Len(history["identical"]) = 0 /\ Len(history["stale"]) = 0
  /\ Len(history["concurrent"]) = IF OneRepaired THEN 1 ELSE 0
  /\ Len(runs) = IF step <= 5 THEN 0 ELSE IF step <= 14 THEN 1
                 ELSE IF ~OneRepaired THEN 2 ELSE IF step = 23 THEN 3 ELSE 4
  /\ step > 5 => /\ runs[1].repaired = {"missing", "divergent"}
                 /\ runs[1].ok = {"identical"} /\ runs[1].stale = {"stale"}
  /\ step > 14 => /\ runs[2].repaired = {} /\ runs[2].stale = {"stale"}
                  /\ runs[2].ok = {"missing", "divergent", "identical"}
  /\ OneRepaired => runs[3].repaired = {"concurrent"}
  /\ step > 23 => runs[4].repaired = {}

(* What remains true once a step is past.                                  *)
Past(d) ==
  /\ d.op = "send" => events[d.of[1].event].status # "ABSENT"
  /\ d.op = "poll" => events[d.of].status \in d.want

ARefund == Webhook("a-refund", "order-a", "payment.refunded", 3, "1000.00")
ACapture == Webhook("a-capture", "order-a", "payment.captured", 2, "1000.00")
BAuth == Webhook("b-auth", "order-b", "payment.authorized", 1, "1000.00")
BCapture == Webhook("b-capture", "order-b", "payment.captured", 2, "1000.00")
CAuth == Webhook("c", "order-c", "payment.authorized", 1, "1000.00")
DAuth(i) == Webhook(EventD[i], OrderD[i], "payment.authorized", 1, "1000.00")

WorkerBodies ==
  {ARefund, ACapture, BAuth, BCapture, CAuth} \union {DAuth(i) : i \in 1 .. DisjointOrders}

HistoryNames ==
  \A o \in Orders : \A i \in DOMAIN history[o] : history[o][i].event \in EventIds

WorkerKnows ==
  /\ ~failed /\ done = {}
  /\ EffectInv /\ HistoryInv /\ OrdersFollow /\ HistoryNames
  /\ \A e \in EventIds : events[e].status = "IGNORED" => events[e].reason = "STALE_SEQUENCE"
  /\ \A e \in Stored : events[e].body \in WorkerBodies
  /\ \A k \in 1 .. Len(WorkerScript) : k < step => Past(WorkerScript[k])
  /\ step <= 14 => events["c"].status = "ABSENT"
  /\ step \in 15 .. 16 => events["c"].count = 1
  /\ step > 16 => events["c"].count = 2

Knows ==
  /\ script = "ingestion"      => IngestionKnows
  /\ script = "retries"        => RetriesKnow
  /\ script = "observability"  => ObservabilityKnows
  /\ script = "reconciliation" => ReconciliationKnows
  /\ script = "worker"         => WorkerKnows

ScriptInv ==
  /\ script \in DOMAIN Scripts
  /\ step \in Nat \ {0}
  /\ exit \in {"running", "passed", "failed"}
  /\ exit = "running" /\ causes = {} => LockInv /\ Knows
  /\ FailureHasCause

-----------------------------------------------------------------------------
(* Steps                                                                   *)

(* The actions that leave no trace in causes.                              *)
LEMMA Blameless ==
  ASSUME ScriptNext, causes = {}, causes' = {}
  PROVE  \/ \E i \in DOMAIN Current.of, stale \in BOOLEAN : Send(i, stale)
         \/ SendForged \/ PollFinds \/ RetrySeen
         \/ RetryNotSeen /\ events[Current.of].status \notin Waiting
         \/ WaitEnds /\ \A e \in Current.of : events[e].status \notin Waiting
         \/ Query \/ Measure \/ WriteFile
         \/ InsertEvent \/ DeleteEvent \/ InsertOrder
         \/ \E r \in Replayers : AskReplay(r) \/ ReplayAnswered(r)
         \/ \E r \in Reconcilers : Reconcile(r) \/ ReconcileAnswered(r)
         \/ Finish \/ WorkersStep
<1>1. ASSUME NEW cause, causes' = causes \union {cause} PROVE FALSE
  BY <1>1
<1>2. ~PollTimesOut /\ ~Unreachable
  BY <1>1 DEF PollTimesOut, Unreachable, Throw
<1>3. \A i : ~SendFails(i)
  BY <1>1 DEF SendFails
<1>4. \A r : ~ReplayFails(r) /\ ~ReconcileFails(r)
  BY <1>1 DEF ReplayFails, ReconcileFails
<1>5. /\ WaitEnds => \A e \in Current.of : events[e].status \notin Waiting
      /\ RetryNotSeen => events[Current.of].status \notin Waiting
  BY <1>1 DEF WaitEnds, RetryNotSeen
<1>6. ASSUME NEW i, Send(i, TRUE) \/ Send(i, FALSE)
      PROVE  \E j \in DOMAIN Current.of, stale \in BOOLEAN : Send(j, stale)
  <2>1. i \in DOMAIN Current.of
    BY <1>6 DEF Send, InFlight
  <2>2. QED BY <1>6, <2>1
<1>7. QED BY <1>2, <1>3, <1>4, <1>5, <1>6 DEF ScriptNext

(* The control state of a script while it runs.                            *)
LEMMA Running ==
  ASSUME ScriptNext, step \in Nat \ {0}
  PROVE  /\ exit = "running" /\ script' = script
         /\ step' \in Nat \ {0}
         /\ exit' \in {"running", "passed", "failed"}
         /\ causes \subseteq causes'
<1>1. UNCHANGED runVars => step' = step /\ exit' = exit /\ causes' = causes /\ script' = script
  BY DEF runVars
<1>2. ASSUME NEW x, NEW all, Answered(x, all) PROVE step' \in Nat \ {0}
  BY <1>2 DEF Answered, Advance
<1>3. ASSUME NEW i, Send(i, TRUE) \/ Send(i, FALSE) \/ SendFails(i)
      PROVE  /\ exit = "running" /\ script' = script /\ step' \in Nat \ {0}
             /\ exit' = exit /\ causes \subseteq causes'
  BY <1>2, <1>3 DEF Send, SendFails, Doing, Keep
<1>4. ASSUME NEW r, AskReplay(r) \/ ReplayAnswered(r) \/ ReplayFails(r)
      PROVE  /\ exit = "running" /\ script' = script /\ step' \in Nat \ {0}
             /\ exit' = exit /\ causes \subseteq causes'
  <2>1. CASE AskReplay(r)
    <3>1. UNCHANGED runVars
      BY <2>1 DEF AskReplay
    <3>2. QED BY <1>1, <2>1, <3>1 DEF AskReplay, Doing
  <2>2. CASE ReplayAnswered(r)
    <3>1. /\ Doing("replay") /\ Advance /\ UNCHANGED <<script, exit>>
          /\ causes \subseteq causes'
      BY <2>2 DEF ReplayAnswered
    <3>2. QED BY <3>1 DEF Doing, Advance
  <2>3. CASE ReplayFails(r)
    BY <2>3 DEF ReplayFails, Doing, Advance
  <2>4. QED BY <1>4, <2>1, <2>2, <2>3
<1>5. ASSUME NEW r, Reconcile(r) \/ ReconcileAnswered(r) \/ ReconcileFails(r)
      PROVE  /\ exit = "running" /\ script' = script /\ step' \in Nat \ {0}
             /\ exit' = exit /\ causes \subseteq causes'
  <2>1. CASE Reconcile(r)
    <3>1. UNCHANGED runVars
      BY <2>1 DEF Reconcile
    <3>2. QED BY <1>1, <2>1, <3>1 DEF Reconcile, Doing
  <2>2. CASE ReconcileAnswered(r)
    BY <1>2, <2>2 DEF ReconcileAnswered, Doing, Keep
  <2>3. CASE ReconcileFails(r)
    BY <1>2, <2>3 DEF ReconcileFails, Doing
  <2>4. QED BY <1>5, <2>1, <2>2, <2>3
<1>6. CASE SendForged \/ PollFinds \/ PollTimesOut \/ RetrySeen \/ RetryNotSeen \/ WaitEnds
  <2>1. CASE PollTimesOut
    BY <2>1 DEF PollTimesOut, Throw, Doing
  <2>2. CASE WaitEnds
    BY <2>2 DEF WaitEnds, Advance, Doing
  <2>3. CASE SendForged \/ PollFinds \/ RetrySeen
    BY <2>3 DEF SendForged, PollFinds, RetrySeen, Doing, Advance, Keep
  <2>4. CASE RetryNotSeen
    BY <2>4 DEF RetryNotSeen, Doing, Advance
  <2>5. QED BY <1>6, <2>1, <2>2, <2>3, <2>4
<1>7. CASE Query \/ Measure \/ InsertEvent \/ DeleteEvent \/ InsertOrder \/ WriteFile
  <2>1. exit = "running" /\ Advance /\ UNCHANGED <<script, causes, exit>>
    <3>1. CASE Query
      BY <3>1 DEF Query, Doing, Keep
    <3>2. CASE InsertEvent \/ DeleteEvent \/ InsertOrder
      BY <3>2 DEF InsertEvent, DeleteEvent, InsertOrder, Doing, Keep
    <3>3. CASE Measure \/ WriteFile
      BY <3>3 DEF Measure, WriteFile, Doing
    <3>4. QED BY <1>7, <3>1, <3>2, <3>3
  <2>2. QED BY <2>1 DEF Advance
<1>8. CASE Unreachable \/ Finish \/ WorkersStep
  BY <1>1, <1>8 DEF Unreachable, Finish, WorkersStep, Throw
<1>9. CASE \E i : Send(i, TRUE) \/ Send(i, FALSE) \/ SendFails(i)
  BY <1>3, <1>9
<1>10. CASE \E r : AskReplay(r) \/ ReplayAnswered(r) \/ ReplayFails(r)
  BY <1>4, <1>10
<1>11. CASE \E r : Reconcile(r) \/ ReconcileAnswered(r) \/ ReconcileFails(r)
  BY <1>5, <1>11
<1>12. QED
  BY <1>6, <1>7, <1>8, <1>9, <1>10, <1>11 DEF ScriptNext

(* What a blameless step of a running script is, by the operation that it  *)
(* is at.                                                                  *)
ByOperation ==
  /\ Current.op \in {"send", "sendStale"} =>
       \E i \in DOMAIN Current.of, stale \in BOOLEAN : Send(i, stale)
  /\ Current.op = "forge" => SendForged
  /\ Current.op = "poll" => PollFinds
  /\ Current.op = "retry" =>
       RetrySeen \/ (RetryNotSeen /\ events[Current.of].status \notin Waiting)
  /\ Current.op = "wait" =>
       WaitEnds /\ \A e \in Current.of : events[e].status \notin Waiting
  /\ Current.op \in Queries => Query
  /\ Current.op = "measure" => Measure
  /\ Current.op = "file" => WriteFile
  /\ Current.op = "insertEvent" => InsertEvent
  /\ Current.op = "deleteEvent" => DeleteEvent
  /\ Current.op = "insertOrder" => InsertOrder
  /\ Current.op = "replay" => \E r \in Replayers : AskReplay(r) \/ ReplayAnswered(r)
  /\ Current.op = "reconcile" =>
       \E r \in Reconcilers : Reconcile(r) \/ ReconcileAnswered(r)

LEMMA Operations ==
  ASSUME ScriptNext, causes = {}, causes' = {}
  PROVE  \/ Finish
         \/ WorkersStep
         \/ step <= Len(Steps) /\ exit' = exit /\ ByOperation
<1> DEFINE Goal == step <= Len(Steps) /\ exit' = exit /\ ByOperation
<1> SUFFICES ASSUME ~Finish, ~WorkersStep PROVE Goal
  OBVIOUS
<1>1. ASSUME NEW i \in DOMAIN Current.of, NEW stale \in BOOLEAN, Send(i, stale)
      PROVE  Goal
  <2>1. step <= Len(Steps) /\ exit' = exit /\ Current.op \in {"send", "sendStale"}
    BY <1>1 DEF Send, Doing, Keep
  <2>2. QED BY <1>1, <2>1 DEF ByOperation, Queries
<1>2. CASE SendForged
  BY <1>2 DEF SendForged, Doing, Keep, ByOperation, Queries
<1>3. CASE PollFinds
  BY <1>3 DEF PollFinds, Doing, Keep, ByOperation, Queries
<1>4. CASE RetrySeen \/ (RetryNotSeen /\ events[Current.of].status \notin Waiting)
  <2>1. step <= Len(Steps) /\ exit' = exit /\ Current.op = "retry"
    BY <1>4 DEF RetrySeen, RetryNotSeen, Doing, Keep
  <2>2. QED BY <1>4, <2>1 DEF ByOperation, Queries
<1>5. CASE WaitEnds /\ \A e \in Current.of : events[e].status \notin Waiting
  <2>1. step <= Len(Steps) /\ exit' = exit /\ Current.op = "wait"
    BY <1>5 DEF WaitEnds, Doing
  <2>2. QED BY <1>5, <2>1 DEF ByOperation, Queries
<1>6. CASE Query
  <2>1. step <= Len(Steps) /\ exit' = exit /\ Current.op \in Queries
    BY <1>6 DEF Query, Doing, Keep
  <2>2. QED BY <1>6, <2>1 DEF ByOperation, Queries
<1>7. CASE Measure \/ WriteFile
  <2>1. /\ step <= Len(Steps) /\ exit' = exit
        /\ Current.op = IF Measure THEN "measure" ELSE "file"
    BY <1>7 DEF Measure, WriteFile, Doing
  <2>2. QED BY <1>7, <2>1 DEF ByOperation, Queries
<1>8. CASE InsertEvent
  BY <1>8 DEF InsertEvent, Doing, Keep, ByOperation, Queries
<1>9. CASE DeleteEvent
  BY <1>9 DEF DeleteEvent, Doing, Keep, ByOperation, Queries
<1>10. CASE InsertOrder
  BY <1>10 DEF InsertOrder, Doing, Keep, ByOperation, Queries
<1>11. ASSUME NEW r \in Replayers, AskReplay(r) \/ ReplayAnswered(r)
       PROVE  Goal
  <2>1. step <= Len(Steps) /\ exit' = exit /\ Current.op = "replay"
    BY <1>11 DEF AskReplay, ReplayAnswered, Doing, runVars
  <2>2. QED BY <1>11, <2>1 DEF ByOperation, Queries
<1>12. ASSUME NEW r \in Reconcilers, Reconcile(r) \/ ReconcileAnswered(r)
       PROVE  Goal
  <2>1. step <= Len(Steps) /\ exit' = exit /\ Current.op = "reconcile"
    BY <1>12 DEF Reconcile, ReconcileAnswered, Doing, Keep, runVars
  <2>2. QED BY <1>12, <2>1 DEF ByOperation, Queries
<1> HIDE DEF Goal
<1>13. CASE \E i \in DOMAIN Current.of, stale \in BOOLEAN : Send(i, stale)
  BY <1>1, <1>13
<1>14. CASE \E r \in Replayers : AskReplay(r) \/ ReplayAnswered(r)
  BY <1>11, <1>14
<1>15. CASE \E r \in Reconcilers : Reconcile(r) \/ ReconcileAnswered(r)
  BY <1>12, <1>15
<1>16. QED
  BY <1>2, <1>3, <1>4, <1>5, <1>6, <1>7, <1>8, <1>9, <1>10, <1>13, <1>14, <1>15, Blameless

(* A body that is sent is one of the provider's.                           *)
LEMMA SentBodies ==
  ASSUME NEW steps \in {WorkerScript, IngestionScript, RetriesScript, ObservabilityScript},
         NEW k \in DOMAIN steps, steps[k].op \in {"send", "sendStale"},
         NEW i \in DOMAIN steps[k].of
  PROVE  steps[k].of[i] \in BodiesIn(steps) /\ steps[k].of[i] \in Bodies
<1>1. steps[k].of[i] \in BodiesOf(steps[k])
  BY DEF BodiesOf
<1>2. steps[k].of[i] \in BodiesIn(steps)
  BY <1>1 DEF BodiesIn
<1>3. BodiesIn(steps) \subseteq ScriptBodies
  BY DEF ScriptBodies
<1>4. QED BY <1>2, <1>3, ScriptsAssumption

LEMMA InsertedBodies ==
  ASSUME NEW steps \in {WorkerScript, IngestionScript, RetriesScript, ObservabilityScript},
         NEW k \in DOMAIN steps, steps[k].op = "insertEvent"
  PROVE  steps[k].want.body \in Bodies
<1>1. steps[k].want.body \in BodiesOf(steps[k])
  BY DEF BodiesOf
<1>2. steps[k].want.body \in BodiesIn(steps)
  BY <1>1 DEF BodiesIn
<1>3. BodiesIn(steps) \subseteq ScriptBodies
  BY DEF ScriptBodies
<1>4. QED BY <1>2, <1>3, ScriptsAssumption

LEMMA ScriptOf ==
  /\ script = "ingestion" => Steps = IngestionScript
  /\ script = "retries" => Steps = RetriesScript
  /\ script = "observability" => Steps = ObservabilityScript
  /\ script = "reconciliation" => Steps = ReconciliationScript
  /\ script = "worker" => Steps = WorkerScript
BY ScriptsAssumption DEF Steps, AllScripts

(* Sends and the workers are the service at work.                          *)
LEMMA SendIngests ==
  ASSUME NEW i, NEW stale \in BOOLEAN, Send(i, stale), Current.of[i] \in Bodies
  PROVE  IngestStep
BY DEF Send, IngestStep

LEMMA ServiceGoesOn ==
  ASSUME LockInv, WorkersStep
  PROVE  [Next]_vars /\ LockInv'
<1>1. [Next]_vars
  BY DEF WorkersStep, Next
<1>2. QED BY <1>1, LockStep

LEMMA NothingMoves == ASSUME LockInv, UNCHANGED vars PROVE LockInv'
BY LockStep

(* What a query asserts.                                                   *)
LEMMA HoldsIs ==
  /\ Current.op = "event" => (Holds <=> Shows(events[Current.of], Current.want))
  /\ Current.op = "order" => (Holds <=> Shows(orders[Current.of], Current.want))
  /\ Current.op = "rows" => (Holds <=> Len(history[Current.of]) = Current.want)
  /\ Current.op = "rowsOf" => (Holds <=> Cardinality(RowsOf(Current.of)) = Current.want)
  /\ Current.op = "recorded" => (Holds <=> DeliveryRows(Current.of) = Current.want)
  /\ Current.op = "notPending" =>
       (Holds <=> \A e \in Current.of : events[e].status # "PENDING")
  /\ Current.op = "orders" =>
       (Holds <=> \A o \in Current.of : orders[o].exists = Current.want)
  /\ Current.op = "dlqSize" => (Holds <=> DlqSize = base.dlq + Current.want)
  /\ Current.op = "grew" =>
       (Holds <=> \A m \in DOMAIN Current.want :
                    Measured[m] - base[m] >= Current.want[m])
  /\ Current.op = "reports" =>
       (Holds <=> \A v \in DOMAIN Current.want : Total(v) = Current.want[v])
  /\ Current.op = "listed" =>
       (Holds <=> /\ Cardinality(EventsFor(Current.of)) >= Current.want
                  /\ Len(history[Current.of]) >= Current.want
                  /\ \E i \in DOMAIN history[Current.of] :
                       history[Current.of][i].outcome = "IGNORED")
BY DEF Holds

LEMMA ShowsAll ==
  /\ \A row, x : Shows(row, [count |-> x]) <=> row.count = x
  /\ \A row, x : Shows(row, [status |-> x]) <=> row.status = x
  /\ \A row, x : Shows(row, [reason |-> x]) <=> row.reason = x
  /\ \A row, x : Shows(row, [replays |-> x]) <=> row.replays = x
  /\ \A row, x : Shows(row, [body |-> x]) <=> row.body = x
  /\ \A row, x, y : Shows(row, [status |-> x, reason |-> y]) <=>
                       row.status = x /\ row.reason = y
  /\ \A row, x, y : Shows(row, [status |-> x, seq |-> y]) <=>
                       row.status = x /\ row.seq = y
  /\ \A row, x, y, z : Shows(row, [attempts |-> x, next |-> y, reason |-> z]) <=>
                          row.attempts = x /\ row.next = y /\ row.reason = z
BY DEF Shows

-----------------------------------------------------------------------------
(* Ingestion                                                               *)

HotDelivery == Webhook("hotkey", "order-hotkey", "payment.authorized", 1, "500.00")

IngestionOps == {"send", "sendStale", "event", "recorded", "forge", "orders"}

LEMMA IngestionSteps ==
  /\ Len(IngestionScript) = 16
  /\ \A k \in 1 .. 16 : IngestionScript[k].op \in IngestionOps
  /\ \A k \in 1 .. 16 :
       /\ IngestionScript[k].op = "send" <=> k \in {1, 12, 13, 16}
       /\ IngestionScript[k].op = "sendStale" <=> k = 4
  /\ IngestionScript[1] = Do("send", [i \in 1 .. HotKeyRequests |-> HotDelivery], Accepted)
  /\ IngestionScript[2] = Do("event", "hotkey", [count |-> HotKeyRequests])
  /\ IngestionScript[3] = Do("recorded", "hotkey", HotKeyRequests)
BY DEF IngestionScript, HotKey, HotDelivery, Stale, Forged, RejectedDelivery, Burst,
       IngestionOps, Send1, Do

(* The row of an event after it was sent, and the answer.                  *)
LEMMA SentRow ==
  ASSUME LockInv, NEW b \in Bodies, NEW stale \in BOOLEAN, Ingest(b, stale)
  PROVE  /\ b.event \in EventIds /\ events'[b.event] = Upsert(b, stale)
         /\ \A e \in EventIds \ {b.event} :
              events'[e] = events[e] /\ deliveries'[e] = deliveries[e]
         /\ UNCHANGED <<orders, history>>
         /\ deliveries'[b.event] =
              [deliveries[b.event] EXCEPT
                 ![DeliveryResult(Upsert(b, stale), b, stale)] = @ + 1]
<1>1. b.event \in EventIds
  BY BodyFacts
<1>2. /\ events \in [EventIds -> EventRow]
      /\ deliveries \in [EventIds -> [DeliveryResults -> Nat]]
  BY DEF LockInv, TypeInv, TypeOK
<1>3. QED BY <1>1, <1>2 DEF Ingest

(* A first delivery, and one that is not the first.                        *)
LEMMA FirstRow ==
  ASSUME NEW b, NEW stale \in BOOLEAN, events[b.event].status = "ABSENT"
  PROVE  /\ Upsert(b, stale).status = IF stale THEN "IGNORED" ELSE "PENDING"
         /\ Upsert(b, stale).reason = IF stale THEN "STALE_TIMESTAMP" ELSE Null
         /\ Upsert(b, stale).body = b /\ Upsert(b, stale).count = 1
         /\ DeliveryResult(Upsert(b, stale), b, stale) =
              IF stale THEN "IGNORED" ELSE "CREATED"
<1>1. Upsert(b, stale) = FirstDelivery(b, stale)
  BY DEF Upsert
<1>2. QED BY <1>1 DEF FirstDelivery, DeliveryResult

LEMMA NextRow ==
  ASSUME LockInv, NEW b \in Bodies, NEW stale \in BOOLEAN,
         events[b.event].status # "ABSENT"
  PROVE  LET old == events[b.event]
             new == Upsert(b, stale)
         IN  /\ new = [old EXCEPT !.count = old.count + 1]
             /\ new.count = old.count + 1 /\ old.count \in Nat
             /\ new.status = old.status /\ new.body = old.body
             /\ new.reason = old.reason
             /\ old.count >= 1 =>
                  DeliveryResult(new, b, stale) =
                    IF old.body = b THEN "DUPLICATE" ELSE "REJECTED"
<1>1. events[b.event] \in EventRow
  BY BodyFacts DEF LockInv, TypeInv, TypeOK
<1> DEFINE old == events[b.event]
           new == Upsert(b, stale)
<1>2. new = [old EXCEPT !.count = old.count + 1]
  BY <1>1 DEF Upsert
<1>3. /\ new.count = old.count + 1 /\ old.count \in Nat
      /\ new.status = old.status /\ new.body = old.body
      /\ new.reason = old.reason
  BY <1>1, <1>2 DEF EventRow
<1> HIDE DEF new
<1>4. old.count >= 1 => DeliveryResult(new, b, stale) =
                          IF old.body = b THEN "DUPLICATE" ELSE "REJECTED"
  BY <1>3 DEF DeliveryResult
<1>5. QED BY <1>2, <1>3, <1>4 DEF new

LEMMA StoredCount ==
  ASSUME LockInv, AllAccounted, NEW e \in EventIds, events[e].status # "ABSENT"
  PROVE  events[e].count >= 1
<1> DEFINE log == deliveries[e]
<1>1. \A r \in DeliveryResults : log[r] \in Nat
  BY DEF LockInv, TypeInv, TypeOK
<1> HIDE DEF log
<1>2. Accounted(events[e], log)
  BY DEF AllAccounted, log
<1>3. QED BY <1>1, <1>2 DEF Accounted, DeliveryResults

LEMMA SendResult ==
  ASSUME NEW row, NEW b, NEW stale \in BOOLEAN
  PROVE  DeliveryResult(row, b, stale) \in DeliveryResults
BY DEF DeliveryResult, DeliveryResults

(* The requests of a step are answered one by one.                         *)
LEMMA AnsweredOne ==
  ASSUME NEW x, NEW n \in Nat, Answered(x, 1 .. n), x \in (1 .. n) \ done,
         done \subseteq 1 .. n, done # 1 .. n, step \in Nat
  PROVE  /\ Cardinality(done) \in Nat
         /\ \/ /\ step' = step + 1 /\ done' = {}
               /\ Cardinality(done) + 1 = n
            \/ /\ step' = step /\ done' = done \union {x}
               /\ done' \subseteq 1 .. n /\ done' # 1 .. n
               /\ Cardinality(done') = Cardinality(done) + 1
<1>1. IsFiniteSet(1 .. n) /\ Cardinality(1 .. n) = n
  BY FS_Interval
<1>2. IsFiniteSet(done)
  BY <1>1, FS_Subset
<1>3. /\ Cardinality(done) \in Nat
      /\ Cardinality(done \union {x}) = Cardinality(done) + 1
  BY <1>2, FS_CardinalityType, FS_AddElement
<1>4. CASE done \union {x} = 1 .. n
  BY <1>1, <1>3, <1>4 DEF Answered, Advance
<1>5. CASE done \union {x} # 1 .. n
  BY <1>3, <1>5 DEF Answered
<1>6. QED BY <1>4, <1>5

StaleDelivery == Webhook("stale", "order-stale", "payment.pending", 0, "100.00")

Altered == [Original EXCEPT !.amount = "1.00"]

LEMMA IngestionSteps2 ==
  /\ IngestionScript[4] = Do("sendStale", <<StaleDelivery>>, {"IGNORED"})
  /\ IngestionScript[5] =
       Do("event", "stale", [status |-> "IGNORED", reason |-> "STALE_TIMESTAMP"])
  /\ IngestionScript[6].op = "forge" /\ IngestionScript[9].op = "forge"
  /\ IngestionScript[7] = Do("event", "invalid-sig", [status |-> "ABSENT"])
  /\ IngestionScript[8] = Do("recorded", "invalid-sig", 0)
  /\ IngestionScript[10] = Do("event", "no-sig", [status |-> "ABSENT"])
  /\ IngestionScript[11] = Do("recorded", "no-sig", 0)
<1> USE DEF IngestionScript, HotKey, Stale, Forged, RejectedDelivery, Burst, Send1, Do
<1>1. IngestionScript[4] = Do("sendStale", <<StaleDelivery>>, {"IGNORED"})
  BY DEF StaleDelivery
<1>2. IngestionScript[5] =
        Do("event", "stale", [status |-> "IGNORED", reason |-> "STALE_TIMESTAMP"])
  OBVIOUS
<1>3. /\ IngestionScript[6].op = "forge" /\ IngestionScript[9].op = "forge"
      /\ IngestionScript[7] = Do("event", "invalid-sig", [status |-> "ABSENT"])
      /\ IngestionScript[8] = Do("recorded", "invalid-sig", 0)
      /\ IngestionScript[10] = Do("event", "no-sig", [status |-> "ABSENT"])
      /\ IngestionScript[11] = Do("recorded", "no-sig", 0)
  OBVIOUS
<1> HIDE DEF IngestionScript
<1>4. QED BY <1>1, <1>2, <1>3

LEMMA IngestionSteps3 ==
  /\ IngestionScript[12] = Do("send", <<Original>>, {"CREATED"})
  /\ IngestionScript[13] = Do("send", <<Altered>>, {"REJECTED"})
  /\ IngestionScript[14] = Do("event", "rejected", [body |-> Original])
  /\ IngestionScript[15].op = "orders" /\ IngestionScript[15].of = IngestionOrders
  /\ IngestionScript[15].want = FALSE
  /\ IngestionScript[16].op = "send" /\ IngestionScript[16].want = Accepted
<1> USE DEF IngestionScript, HotKey, Stale, Forged, RejectedDelivery, Burst, Send1, Do
<1>1. IngestionScript[12] = Do("send", <<Original>>, {"CREATED"})
  BY DEF Original
<1>2. IngestionScript[13] = Do("send", <<Altered>>, {"REJECTED"})
  BY SMTT(30) DEF Original, Altered
<1>3. IngestionScript[14] = Do("event", "rejected", [body |-> Original])
  BY DEF Original
<1>4. IngestionScript[15].op = "orders" /\ IngestionScript[15].of = IngestionOrders
  OBVIOUS
<1>5. IngestionScript[15].want = FALSE
  OBVIOUS
<1>6. IngestionScript[16].op = "send" /\ IngestionScript[16].want = Accepted
  OBVIOUS
<1> HIDE DEF IngestionScript
<1>7. QED BY <1>1, <1>2, <1>3, <1>4, <1>5, <1>6

LEMMA IngestionHolds ==
  ASSUME LockInv, IngestionKnows, Steps = IngestionScript, step \in Nat \ {0},
         Query
  PROVE  Holds
<1>1. step \in 1 .. 16 /\ Current = IngestionScript[step] /\ Current.op \in Queries
  BY IngestionSteps DEF Query, Doing, Current
<1>2. step \notin {1, 4, 6, 9, 12, 13, 16}
  BY <1>1, IngestionSteps, IngestionSteps2 DEF Queries, Do
<1>3. CASE step = 2
  BY <1>1, <1>3, IngestionSteps, HoldsIs, ShowsAll DEF Do, IngestionKnows
<1>4. CASE step \in {3, 8, 11}
  <2>0. HotDelivery \in Bodies
    <3>1. HotDelivery \in BodiesOf(IngestionScript[1])
      <4> DEFINE d == IngestionScript[1]
      <4>1. d = Do("send", [i \in 1 .. HotKeyRequests |-> HotDelivery], Accepted)
        BY IngestionSteps
      <4>2. d.op = "send" /\ d.of = [i \in 1 .. HotKeyRequests |-> HotDelivery]
        BY <4>1 DEF Do
      <4>3. HotKeyRequests \in Nat \ {0}
        BY ScriptsAssumption
      <4>4. 1 \in DOMAIN d.of /\ d.of[1] = HotDelivery
        BY <4>2, <4>3
      <4> HIDE DEF d
      <4>5. BodiesOf(d) = {d.of[i] : i \in DOMAIN d.of}
        BY <4>2 DEF BodiesOf
      <4>6. HotDelivery \in BodiesOf(d)
        BY <4>4, <4>5
      <4>7. QED BY <4>6 DEF d
    <3>2. HotDelivery \in ScriptBodies
      BY <3>1, IngestionSteps DEF BodiesIn, ScriptBodies
    <3>3. QED BY <3>2, ScriptsAssumption
  <2>1. Current.of \in EventIds
    <3>1. "hotkey" \in EventIds
      BY <2>0, BodyFacts DEF HotDelivery, Webhook
    <3>2. QED BY <1>1, <1>4, <3>1, IngestionSteps, IngestionSteps2, ScriptsAssumption
              DEF Do, UnsentEvents
  <2>2. DeliveryRows(Current.of) = events[Current.of].count
    BY <2>1, AccountedIsEnough DEF IngestionKnows, DeliveriesAccounted
  <2>3. Current.of \in UnsentEvents => events[Current.of].count = 0
    BY <2>1 DEF IngestionKnows, AllAccounted, Accounted
  <2>4. QED BY <1>1, <1>4, <2>2, <2>3, IngestionSteps, IngestionSteps2, HoldsIs
              DEF Do, IngestionKnows, UnsentEvents
<1>5. CASE step \in {5, 7, 10, 14}
  BY <1>1, <1>5, IngestionSteps2, IngestionSteps3, HoldsIs, ShowsAll
     DEF Do, IngestionKnows, UnsentEvents
<1>6. CASE step = 15
  <2>1. IngestionOrders \subseteq Orders
    BY ScriptsAssumption DEF UnsentOrders
  <2>2. /\ Current.op = "orders" /\ Current.of = IngestionOrders
        /\ Current.want = FALSE
    BY <1>1, <1>6, IngestionSteps3
  <2>3. \A o \in IngestionOrders : orders[o].exists = FALSE
    BY <2>1 DEF IngestionKnows, NoOrderRow
  <2>4. \A o \in Current.of : orders[o].exists = Current.want
    BY <2>2, <2>3
  <2>5. QED BY <2>2, <2>4, HoldsIs
<1>7. QED BY <1>1, <1>2, <1>3, <1>4, <1>5, <1>6

(* The last step is about other events than those before it.               *)
BurstDelivery(j) ==
  Webhook(EventBurst[j], "order-burst", "payment.authorized", 1, "100.00")

LEMMA BurstEvents ==
  ASSUME NEW i \in DOMAIN IngestionScript[16].of
  PROVE  IngestionScript[16].of[i].event \in {"burst-0", "burst-1", "burst-2", "burst-3"}
<1> DEFINE unique == [j \in 1 .. UniqueDeliveries |-> BurstDelivery(j)]
           last == Do("send", <<BurstDelivery(1)>> \o unique, Accepted)
<1>1. Burst = <<last>>
  BY DEF Burst, BurstDelivery
<1> HIDE DEF last, unique
<1>2. IngestionScript[16] = last
  BY <1>1 DEF IngestionScript, HotKey, Stale, Forged, RejectedDelivery, Send1, Do
<1>3. IngestionScript[16].of = <<BurstDelivery(1)>> \o unique
  <2>1. last.of = <<BurstDelivery(1)>> \o unique
    BY DEF Do, last
  <2>2. QED BY <1>2, <2>1
<1>4. UniqueDeliveries \in 1 .. 4
  BY ScriptsAssumption DEF EventBurst
<1>5. \A j \in 1 .. 4 :
        BurstDelivery(j).event \in {"burst-0", "burst-1", "burst-2", "burst-3"}
  BY DEF Webhook, EventBurst, BurstDelivery
<1>6. unique \in Seq({BurstDelivery(j) : j \in 1 .. 4})
  BY <1>4 DEF unique
<1>7. IngestionScript[16].of[i] \in {BurstDelivery(j) : j \in 1 .. 4}
  BY <1>3, <1>4, <1>6
<1>8. QED BY <1>5, <1>7

LEMMA OnlyOne ==
  ASSUME NEW x, NEW b, done = {}, x \in DOMAIN <<b>>, Answered(x, DOMAIN <<b>>)
  PROVE  step' = step + 1 /\ done' = {} /\ x = 1
BY DEF Answered, Advance

LEMMA IngestionPasses ==
  ASSUME LockInv, IngestionKnows, step \in Nat \ {0}, step \notin {1, 4, 12, 13},
         step' = step + 1, done' = {}, failed' = FALSE, UNCHANGED vars
  PROVE  IngestionKnows'
<1>1. events' = events /\ deliveries' = deliveries /\ orders' = orders
  BY DEF vars, tables
<1>2. AllAccounted'
  BY <1>1 DEF IngestionKnows, AllAccounted
<1>3. QED BY <1>1, <1>2 DEF IngestionKnows

LEMMA IngestionEvents ==
  /\ UnsentEvents \subseteq EventIds
  /\ "hotkey" \in EventIds /\ "stale" \in EventIds /\ "rejected" \in EventIds
<1>1. ASSUME NEW k \in {1, 4, 12}, IngestionScript[k].op \in {"send", "sendStale"},
             1 \in DOMAIN IngestionScript[k].of
      PROVE  IngestionScript[k].of[1].event \in EventIds
  <2>1. k \in DOMAIN IngestionScript
    BY IngestionSteps
  <2>2. QED BY <1>1, <2>1, SentBodies, BodyFacts
<1>2. "hotkey" \in EventIds
  BY <1>1, IngestionSteps, ScriptsAssumption DEF Do, HotDelivery, Webhook
<1>3. "stale" \in EventIds
  BY <1>1, IngestionSteps, IngestionSteps2 DEF Do, StaleDelivery, Webhook
<1>4. "rejected" \in EventIds
  BY <1>1, IngestionSteps, IngestionSteps3 DEF Do, Original, Webhook
<1>5. QED BY <1>2, <1>3, <1>4, ScriptsAssumption

LEMMA IngestionSends ==
  ASSUME LockInv, IngestionKnows, Steps = IngestionScript, step \in Nat \ {0},
         NEW i \in DOMAIN Current.of, NEW stale \in BOOLEAN, Send(i, stale)
  PROVE  LockInv' /\ IngestionKnows'
<1> DEFINE b == Current.of[i]
           result == DeliveryResult(Upsert(b, stale), b, stale)
<1>1. /\ step \in 1 .. 16 /\ Current = IngestionScript[step]
      /\ stale <=> step = 4
      /\ step \in {1, 4, 12, 13, 16}
  BY IngestionSteps DEF Send, Doing, Current
<1>2. b \in Bodies
  BY <1>1, SentBodies, IngestionSteps
<1>3. IngestStep
  BY <1>2, SendIngests
<1>4. LockInv' /\ AllAccounted'
  BY <1>3, LockStep, DeliveryAccounted DEF Next, IngestionKnows
<1>5. /\ Ingest(b, stale) /\ Answered(i, DOMAIN Current.of) /\ i \notin done
      /\ failed' = (failed \/ result \notin Current.want)
  BY DEF Send, Check, InFlight
<1>6. /\ b.event \in EventIds /\ events'[b.event] = Upsert(b, stale)
      /\ \A e \in EventIds \ {b.event} : events'[e] = events[e]
      /\ orders' = orders
  BY <1>2, <1>5, SentRow
<1>7. UnsentEvents \subseteq EventIds /\ "hotkey" \in EventIds /\ "stale" \in EventIds
      /\ "rejected" \in EventIds
  BY IngestionEvents
<1>8. result \in DeliveryResults
  BY SendResult
<1>9. step \in Nat
  OBVIOUS
<1> HIDE DEF result
<1>10. CASE step = 1
  <2>1. b = HotDelivery /\ DOMAIN Current.of = 1 .. HotKeyRequests /\ Current.want = Accepted
    BY <1>1, <1>10, IngestionSteps DEF Do
  <2>2. b.event = "hotkey"
    BY <2>1 DEF HotDelivery, Webhook
  <2>3. failed' = FALSE
    BY <1>5, <1>8, <2>1 DEF IngestionKnows, Accepted
  <2>4. /\ done \subseteq 1 .. HotKeyRequests /\ done # 1 .. HotKeyRequests
        /\ events["hotkey"].count = Cardinality(done)
    BY <1>10 DEF IngestionKnows
  <2>5. HotKeyRequests \in Nat
    BY ScriptsAssumption
  <2>6. events'["hotkey"].count = Cardinality(done) + 1
    <3>1. CASE events["hotkey"].status = "ABSENT"
      <4>1. events["hotkey"].count = 0
        BY <1>7, <3>1 DEF IngestionKnows, AllAccounted, Accounted
      <4>2. events'["hotkey"].count = 1
        BY <1>6, <2>2, <3>1, FirstRow
      <4>3. QED BY <2>4, <4>1, <4>2
    <3>2. CASE events["hotkey"].status # "ABSENT"
      BY <1>2, <1>6, <2>2, <2>4, <3>2, NextRow
    <3>3. QED BY <3>1, <3>2
  <2>7. /\ Cardinality(done) \in Nat
        /\ \/ /\ step' = step + 1 /\ done' = {}
              /\ Cardinality(done) + 1 = HotKeyRequests
           \/ /\ step' = step
              /\ done' \subseteq 1 .. HotKeyRequests /\ done' # 1 .. HotKeyRequests
              /\ Cardinality(done') = Cardinality(done) + 1
    <3>1. i \in (1 .. HotKeyRequests) \ done
      BY <1>5, <2>1
    <3>2. Answered(i, 1 .. HotKeyRequests)
      BY <1>5, <2>1
    <3>3. QED BY <2>4, <2>5, <3>1, <3>2, AnsweredOne
  <2> HIDE DEF b
  <2>8. QED
    BY <1>4, <1>6, <1>7, <1>10, <2>2, <2>3, <2>6, <2>7 DEF IngestionKnows, UnsentEvents
<1>11. CASE step = 4
  <2>1. Current.of = <<StaleDelivery>> /\ Current.want = {"IGNORED"}
    BY <1>1, <1>11, IngestionSteps2 DEF Do
  <2>2. done = {}
    BY <1>11 DEF IngestionKnows
  <2>3. b = StaleDelivery /\ step' = step + 1 /\ done' = {}
    BY <1>5, <2>1, <2>2, OnlyOne
  <2>4. b.event = "stale"
    BY <2>3 DEF StaleDelivery, Webhook
  <2>5. /\ events'["stale"].status = "IGNORED"
        /\ events'["stale"].reason = "STALE_TIMESTAMP"
        /\ result = "IGNORED"
    <3>1. stale = TRUE /\ events[b.event].status = "ABSENT"
      BY <1>1, <1>11, <2>4 DEF IngestionKnows
    <3>2. /\ Upsert(b, stale).status = "IGNORED"
          /\ Upsert(b, stale).reason = "STALE_TIMESTAMP"
          /\ result = "IGNORED"
      BY <3>1, FirstRow DEF result
    <3>3. QED BY <1>6, <2>4, <3>2
  <2>6. failed' = FALSE
    BY <1>5, <2>1, <2>5 DEF IngestionKnows
  <2> HIDE DEF b
  <2>7. QED
    BY <1>4, <1>6, <1>7, <1>11, <2>3, <2>4, <2>5, <2>6 DEF IngestionKnows, UnsentEvents
<1>12. CASE step = 12
  <2>1. Current.of = <<Original>> /\ Current.want = {"CREATED"}
    BY <1>1, <1>12, IngestionSteps3 DEF Do
  <2>2. done = {}
    BY <1>12 DEF IngestionKnows
  <2>3. b = Original /\ step' = step + 1 /\ done' = {}
    BY <1>5, <2>1, <2>2, OnlyOne
  <2>4. b.event = "rejected"
    BY <2>3 DEF Original, Webhook
  <2>5. /\ events'["rejected"].status = "PENDING"
        /\ events'["rejected"].body = Original
        /\ result = "CREATED"
    BY <1>1, <1>6, <1>12, <2>3, <2>4, FirstRow DEF IngestionKnows, result
  <2>6. failed' = FALSE
    BY <1>5, <2>1, <2>5 DEF IngestionKnows
  <2> HIDE DEF b
  <2>7. QED
    BY <1>4, <1>6, <1>7, <1>12, <2>3, <2>4, <2>5, <2>6 DEF IngestionKnows, UnsentEvents
<1>13. CASE step = 13
  <2>1. Current.of = <<Altered>> /\ Current.want = {"REJECTED"}
    BY <1>1, <1>13, IngestionSteps3 DEF Do
  <2>2. done = {} /\ events["rejected"].status # "ABSENT" /\ events["rejected"].body = Original
    BY <1>13 DEF IngestionKnows
  <2>3. b = Altered /\ step' = step + 1 /\ done' = {}
    BY <1>5, <2>1, <2>2, OnlyOne
  <2>4. b.event = "rejected" /\ Original # Altered
    BY <2>3 DEF Original, Altered, Webhook
  <2>5. events["rejected"].count >= 1
    BY <1>7, <2>2, StoredCount DEF IngestionKnows
  <2>6. /\ events'["rejected"].status # "ABSENT"
        /\ events'["rejected"].body = Original
        /\ result = "REJECTED"
    BY <1>2, <1>6, <2>2, <2>3, <2>4, <2>5, NextRow DEF result
  <2>7. failed' = FALSE
    BY <1>5, <2>1, <2>6 DEF IngestionKnows
  <2> HIDE DEF b
  <2>8. QED
    BY <1>4, <1>6, <1>7, <1>13, <2>3, <2>4, <2>6, <2>7 DEF IngestionKnows, UnsentEvents
<1>14. CASE step = 16
  <2>1. b.event \in {"burst-0", "burst-1", "burst-2", "burst-3"}
    BY <1>1, <1>14, BurstEvents
  <2>2. failed' = FALSE
    BY <1>1, <1>5, <1>8, <1>14, IngestionSteps3 DEF IngestionKnows, Accepted
  <2>3. step' \in {16, 17}
    BY <1>5, <1>14 DEF Answered, Advance
  <2> HIDE DEF b
  <2>4. QED
    BY <1>4, <1>6, <1>7, <1>14, <2>1, <2>2, <2>3 DEF IngestionKnows, UnsentEvents
<1>15. QED BY <1>1, <1>10, <1>11, <1>12, <1>13, <1>14

LEMMA IngestionStep ==
  ASSUME script = "ingestion", exit = "running", LockInv, IngestionKnows,
         step \in Nat \ {0}, ScriptNext, causes = {}, causes' = {}
  PROVE  \/ exit' = "running" /\ LockInv' /\ IngestionKnows'
         \/ exit' = "passed"
<1>1. Steps = IngestionScript
  BY ScriptOf
<1>2. CASE Finish
  BY <1>2 DEF Finish, IngestionKnows
<1>3. ~WorkersStep
  BY ScriptsAssumption DEF WorkersStep
<1>4. CASE step <= Len(Steps) /\ exit' = exit /\ ByOperation
  <2>1. step \in 1 .. 16 /\ Current = IngestionScript[step]
    BY <1>1, <1>4, IngestionSteps DEF Current
  <2>2. Current.op \in IngestionOps
    BY <2>1, IngestionSteps
  <2>3. CASE Current.op \in {"send", "sendStale"}
    <3>1. PICK i \in DOMAIN Current.of, stale \in BOOLEAN : Send(i, stale)
      BY <1>4, <2>3 DEF ByOperation
    <3>2. LockInv' /\ IngestionKnows'
      BY <1>1, <3>1, IngestionSends
    <3>3. QED BY <1>4, <3>2
  <2>4. CASE Current.op = "forge"
    <3>1. SendForged
      BY <1>4, <2>4 DEF ByOperation
    <3>2. step \notin {1, 4, 12, 13}
      BY <2>1, <2>4, IngestionSteps
    <3>3. step' = step + 1 /\ done' = {} /\ failed' = FALSE /\ UNCHANGED vars
      BY <3>1 DEF SendForged, Advance, IngestionKnows
    <3>4. QED BY <1>4, <3>2, <3>3, NothingMoves, IngestionPasses
  <2>5. CASE Current.op \in {"event", "recorded", "orders"}
    <3>1. Query
      BY <1>4, <2>5 DEF ByOperation, Queries
    <3>2. step \notin {1, 4, 12, 13}
      BY <2>1, <2>5, IngestionSteps
    <3>3. Holds
      BY <1>1, <3>1, IngestionHolds
    <3>4. step' = step + 1 /\ done' = {} /\ failed' = FALSE /\ UNCHANGED vars
      BY <3>1, <3>3 DEF Query, Advance, Check, IngestionKnows
    <3>5. QED BY <1>4, <3>2, <3>4, NothingMoves, IngestionPasses
  <2>6. QED BY <2>2, <2>3, <2>4, <2>5 DEF IngestionOps
<1>5. QED BY <1>2, <1>3, <1>4, Operations

-----------------------------------------------------------------------------
(* Rows that a script writes itself                                        *)

(* Nobody has read, and nobody holds, a row that is not there.             *)
LEMMA InsertedEvent ==
  ASSUME LockInv, NEW e \in EventIds, events[e].status = "ABSENT",
         NEW row \in EventRow, row.status # "ABSENT", row.next = Null,
         row.body \in Bodies, row.body.event = e,
         events' = [events EXCEPT ![e] = row], nextId' = nextId + 1,
         UNCHANGED <<deliveries, orders, history, rowLocks, worker, replay, reconVars>>
  PROVE  LockInv' /\ Stored' = Stored \union {e}
<1> USE DEF LockInv
<1>1. /\ events' \in [EventIds -> EventRow] /\ nextId' \in Nat
      /\ events'[e] = row
      /\ \A f \in EventIds \ {e} : events'[f] = events[f]
  BY DEF TypeInv, TypeOK
<1>2. Stored' = Stored \union {e} /\ e \notin Stored
  BY <1>1 DEF Stored
<1>3. TypeInv'
  <2>1. TypeOK'
    BY <1>1 DEF TypeInv, TypeOK, rowLocks, reconVars
  <2>2. BodiesOK'
    BY <1>1, <1>2 DEF TypeInv, ControlOK, BodiesOK
  <2>3. WorkersOK' /\ ReplaysOK' /\ ReconsOK'
    BY <1>2, OthersKeepState DEF reconVars
  <2>4. QED BY <2>1, <2>2, <2>3 DEF TypeInv, ControlOK
<1>4. QueueOK'
  BY <1>1 DEF QueueOK
<1>5. ASSUME NEW w \in Workers PROVE WorkerReads(w)'
  <2>1. InTransaction(w) => ClaimedEvent(w) \in Stored
    BY DEF TypeInv, ControlOK, WorkersOK
  <2>2. InTransaction(w) => events'[ClaimedEvent(w)] = events[ClaimedEvent(w)]
    BY <1>1, <1>2, <2>1 DEF Stored
  <2>3. /\ worker' = worker /\ eventLock' = eventLock /\ orderLock' = orderLock
        /\ orders' = orders
    BY DEF rowLocks
  <2>4. QED BY <2>2, <2>3 DEF WorkerReads, InTransaction, ClaimedEvent, ClaimedOrder
<1>6. ASSUME NEW r \in Replayers PROVE ReplayReads(r)'
  <2>1. replay[r].pc = "selected" => replay[r].event.body.event \in Stored
    BY DEF TypeInv, ControlOK, ReplaysOK
  <2>2. replay[r].pc = "selected" =>
          events'[replay[r].event.body.event] = events[replay[r].event.body.event]
    BY <1>1, <1>2, <2>1 DEF Stored
  <2>3. replay' = replay /\ eventLock' = eventLock
    BY DEF rowLocks
  <2>4. QED BY <2>2, <2>3 DEF ReplayReads
<1>7. ASSUME NEW r \in Reconcilers PROVE ReconReads(r)'
  BY DEF ReconReads, VisitedBy, rowLocks, reconVars
<1>8. QED BY <1>2, <1>3, <1>4, <1>5, <1>6, <1>7

(* A worker has only rows that are waiting.                                *)
LEMMA DeletedEvent ==
  ASSUME LockInv, NEW e \in EventIds, events[e].status \notin Waiting,
         \A r \in Replayers : replay[r].pc = "idle",
         events' = [events EXCEPT ![e] = NoEventRow],
         UNCHANGED <<nextId, deliveries, orders, history, rowLocks, worker, replay,
                     reconVars>>
  PROVE  LockInv' /\ Stored' = Stored \ {e}
<1> USE DEF LockInv
<1>1. /\ events' \in [EventIds -> EventRow]
      /\ events'[e] = NoEventRow
      /\ \A f \in EventIds \ {e} : events'[f] = events[f]
  BY DEF TypeInv, TypeOK, NoEventRow, EventRow, ProcessingStatuses, OutcomeReasons
<1>2. Stored' = Stored \ {e}
  BY <1>1 DEF Stored, NoEventRow
<1>3. ASSUME NEW w \in Workers, InTransaction(w)
      PROVE  ClaimedEvent(w) \in Stored \ {e}
  BY <1>3 DEF TypeInv, ControlOK, WorkersOK, WorkerReads
<1>4. TypeInv'
  <2>1. TypeOK'
    BY <1>1 DEF TypeInv, TypeOK, rowLocks, reconVars
  <2>2. BodiesOK'
    BY <1>1, <1>2 DEF TypeInv, ControlOK, BodiesOK, Stored
  <2>3. WorkersOK'
    BY <1>2, <1>3 DEF TypeInv, ControlOK, WorkersOK, InTransaction, ClaimedEvent
  <2>4. ReplaysOK'
    BY DEF ReplaysOK
  <2>5. ReconsOK'
    BY DEF TypeInv, ControlOK, ReconsOK, reconVars, VisitedBy
  <2>6. QED BY <2>1, <2>2, <2>3, <2>4, <2>5 DEF TypeInv, ControlOK
<1>5. QueueOK'
  BY <1>1 DEF QueueOK, NoEventRow
<1>6. ASSUME NEW w \in Workers PROVE WorkerReads(w)'
  <2>1. InTransaction(w) => events'[ClaimedEvent(w)] = events[ClaimedEvent(w)]
    BY <1>1, <1>3 DEF Stored
  <2>2. /\ worker' = worker /\ eventLock' = eventLock /\ orderLock' = orderLock
        /\ orders' = orders
    BY DEF rowLocks
  <2>3. QED BY <2>1, <2>2 DEF WorkerReads, InTransaction, ClaimedEvent, ClaimedOrder
<1>7. \A r \in Replayers : ReplayReads(r)'
  BY DEF ReplayReads
<1>8. ASSUME NEW r \in Reconcilers PROVE ReconReads(r)'
  BY DEF ReconReads, VisitedBy, rowLocks, reconVars
<1>9. QED BY <1>2, <1>4, <1>5, <1>6, <1>7, <1>8

LEMMA InsertedOrder ==
  ASSUME LockInv, NEW o \in Orders, NEW row \in OrderRow, Stored = {},
         \A r \in Reconcilers : recon[r].pc = "idle",
         orders' = [orders EXCEPT ![o] = row],
         UNCHANGED <<events, nextId, deliveries, history, rowLocks, worker, replay,
                     reconVars>>
  PROVE  LockInv'
<1> USE DEF LockInv
<1>1. TypeInv'
  <2>1. TypeOK'
    BY DEF TypeInv, TypeOK, rowLocks, reconVars
  <2>2. Stored' = Stored
    BY DEF Stored
  <2>3. BodiesOK'
    BY <2>2 DEF BodiesOK
  <2>4. WorkersOK' /\ ReplaysOK' /\ ReconsOK'
    BY <2>2, OthersKeepState DEF reconVars
  <2>5. QED BY <2>1, <2>3, <2>4 DEF TypeInv, ControlOK
<1>2. QueueOK'
  BY DEF QueueOK
<1>3. ASSUME NEW w \in Workers PROVE WorkerReads(w)'
  <2>1. ~InTransaction(w) /\ worker[w].pc # "locked"
    BY DEF TypeInv, ControlOK, WorkersOK, InTransaction
  <2>2. QED BY <2>1 DEF WorkerReads, InTransaction
<1>4. \A r \in Replayers : ReplayReads(r)'
  BY DEF ReplayReads, rowLocks
<1>5. \A r \in Reconcilers : ReconReads(r)'
  BY DEF ReconReads, VisitedBy, reconVars, TypeInv, ControlOK, ReconsOK
<1>6. QED BY <1>1, <1>2, <1>3, <1>4, <1>5

(* What the workers do to a row.                                           *)
LEMMA WorkersProceed ==
  ASSUME LockInv, WorkersStep, NEW e \in EventIds
  PROVE  /\ Proceeds(events[e], events'[e])
         /\ events[e].status \notin Waiting => events'[e].status = events[e].status
         /\ UNCHANGED <<nextId, deliveries, replay, reconVars, runVars>>
<1>1. CASE ClockStep
  <2>1. events'[e].status = events[e].status
    BY <1>1 DEF ClockStep, Tick, LockInv, TypeInv, TypeOK
  <2>2. UNCHANGED <<nextId, deliveries, replay, reconVars, runVars>>
    BY <1>1 DEF ClockStep, Tick, WorkersStep
  <2>3. QED BY <1>1, <2>1, <2>2, TickProceeds
<1>2. ASSUME NEW w \in Workers, WorkerStep(w)
      PROVE  /\ Proceeds(events[e], events'[e])
             /\ events[e].status \notin Waiting => events'[e].status = events[e].status
             /\ UNCHANGED <<nextId, deliveries, replay, reconVars, runVars>>
  <2>1. \/ events' = events
        \/ /\ InTransaction(w)
           /\ \E row : events' = [events EXCEPT ![ClaimedEvent(w)] = row]
    BY <1>2 DEF WorkerStep, WorkerNext, Claim, LockOrder, CommitResult, BusinessError,
                ScheduleRetry, SendToDlq, AbortTransaction, Crash, Restart, tables,
                InTransaction
  <2>2. InTransaction(w) => events[ClaimedEvent(w)].status \in Waiting
    BY DEF LockInv, WorkerReads
  <2>3. events[e].status \notin Waiting => events'[e].status = events[e].status
    <3>1. events \in [EventIds -> EventRow]
      BY DEF LockInv, TypeInv, TypeOK
    <3>2. QED BY <2>1, <2>2, <3>1
  <2>4. UNCHANGED <<nextId, deliveries>>
    BY <1>2 DEF WorkerStep, WorkerNext, Claim, LockOrder, CommitResult, BusinessError,
                ScheduleRetry, SendToDlq, AbortTransaction, Crash, Restart, tables
  <2>5. UNCHANGED <<replay, reconVars, runVars>>
    BY <1>2 DEF WorkerStep, WorkersStep
  <2>6. QED BY <1>2, <2>3, <2>4, <2>5, WorkerProceeds
<1>3. QED BY <1>1, <1>2 DEF WorkersStep

(* The events that a script plants are never decided.                      *)
LEMMA PlantedUndecided ==
  ASSUME LockInv, WorkersStep, Stored \subseteq Planted
  PROVE  /\ UNCHANGED <<orders, history>>
         /\ \A e \in EventIds : ~Settled(events[e], events'[e])
<1>1. ASSUME NEW w \in Workers, CommitResult(w) PROVE FALSE
  <2> DEFINE e == ClaimedEvent(w)
             row == InsertOrderIfMissing(orders[ClaimedOrder(w)])
  <2>1. /\ e \in EventIds /\ ClaimedOrder(w) \in Orders /\ events[e].body \in Bodies
        /\ events[e].status \in Waiting
        /\ events'[e].status = Process(events[e].body, row).outcome
    BY <1>1, CommitFacts
  <2>2. row \in OrderRow
    BY <2>1, InsertTypes DEF LockInv, TypeInv, TypeOK
  <2> HIDE DEF row, e
  <2>3. events'[e].status \in {"APPLIED", "IGNORED"}
    BY <2>1, <2>2, ProcessTypes
  <2>4. e \in Planted
    BY <2>1 DEF Stored, Waiting
  <2>5. QED BY <2>3, <2>4 DEF WorkersStep
<1>2. ClockStep => UNCHANGED <<orders, history>>
  BY DEF ClockStep, Tick
<1>3. ASSUME NEW w \in Workers, WorkerStep(w) PROVE UNCHANGED <<orders, history>>
  BY <1>1, <1>3 DEF WorkerStep, WorkerNext, Claim, LockOrder, BusinessError,
                ScheduleRetry, SendToDlq, AbortTransaction, Crash, Restart, tables
<1>4. UNCHANGED <<orders, history>>
  BY <1>2, <1>3 DEF WorkersStep
<1>5. ASSUME NEW e \in EventIds, Settled(events[e], events'[e]) PROVE FALSE
  <2>1. e \in Planted
    BY <1>5 DEF Settled, Stored, Waiting
  <2>2. QED BY <1>5, <2>1 DEF Settled, WorkersStep
<1>6. QED BY <1>4, <1>5

-----------------------------------------------------------------------------
(* Retries                                                                 *)

RetriesOps == {"insertEvent", "poll", "event", "rowsOf", "orders", "replay", "retry"}

FirstPlanted == PlantedRow(Oversized("dlq", "order-dlq"), MaxAttempts - 1)
SecondPlanted == PlantedRow(Oversized("retry", "order-retry"), 0)

LEMMA RetriesSteps ==
  /\ Len(RetriesScript) = 13
  /\ \A k \in 1 .. 13 : RetriesScript[k].op \in RetriesOps
  /\ \A k \in 1 .. 13 :
       /\ RetriesScript[k].op = "insertEvent" <=> k \in {1, 11}
       /\ RetriesScript[k].op = "poll" <=> k = 2
       /\ RetriesScript[k].op = "replay" <=> k \in {7, 8}
       /\ RetriesScript[k].op = "retry" <=> k = 12
       /\ RetriesScript[k].op = "event" <=> k \in {3, 6, 9}
       /\ RetriesScript[k].op = "rowsOf" <=> k \in {4, 10, 13}
       /\ RetriesScript[k].op = "orders" <=> k = 5
BY DEF RetriesScript, ScenarioA, ScenarioB, ScenarioC, ScenarioD, RetriesOps, Do

LEMMA RetriesSteps2 ==
  /\ RetriesScript[1] = Do("insertEvent", "dlq", FirstPlanted)
  /\ RetriesScript[11] = Do("insertEvent", "retry", SecondPlanted)
  /\ RetriesScript[2] = Do("poll", "dlq", {"DLQ"})
  /\ RetriesScript[3] = Do("event", "dlq", [attempts |-> MaxAttempts, next |-> Null,
                                            reason |-> "MAX_ATTEMPTS_EXHAUSTED"])
  /\ RetriesScript[6] = Do("event", "dlq", [status |-> "DLQ"])
  /\ RetriesScript[9] = Do("event", "dlq", [replays |-> 1])
  /\ RetriesScript[7] = Do("replay", "dlq", "REPLAYED")
  /\ RetriesScript[8] = Do("replay", "dlq", "NOT_IN_DLQ")
<1> USE DEF RetriesScript, ScenarioA, ScenarioB, ScenarioC, ScenarioD, Do
<1>1. /\ RetriesScript[1] = Do("insertEvent", "dlq", FirstPlanted)
      /\ RetriesScript[11] = Do("insertEvent", "retry", SecondPlanted)
  BY DEF FirstPlanted, SecondPlanted
<1>2. RetriesScript[2] = Do("poll", "dlq", {"DLQ"})
  OBVIOUS
<1>3. RetriesScript[3] = Do("event", "dlq", [attempts |-> MaxAttempts, next |-> Null,
                                            reason |-> "MAX_ATTEMPTS_EXHAUSTED"])
  OBVIOUS
<1>4. /\ RetriesScript[6] = Do("event", "dlq", [status |-> "DLQ"])
      /\ RetriesScript[9] = Do("event", "dlq", [replays |-> 1])
      /\ RetriesScript[7] = Do("replay", "dlq", "REPLAYED")
      /\ RetriesScript[8] = Do("replay", "dlq", "NOT_IN_DLQ")
  OBVIOUS
<1> HIDE DEF RetriesScript
<1>5. QED BY <1>1, <1>2, <1>3, <1>4

LEMMA RetriesSteps3 ==
  /\ RetriesScript[4] = Do("rowsOf", "dlq", 0)
  /\ RetriesScript[10] = Do("rowsOf", "dlq", 0)
  /\ RetriesScript[13] = Do("rowsOf", "retry", 0)
  /\ RetriesScript[5].of = {"order-dlq"} /\ RetriesScript[5].want = FALSE
  /\ RetriesScript[12].of = "retry"
<1> USE DEF RetriesScript, ScenarioA, ScenarioB, ScenarioC, ScenarioD, Do
<1>1. /\ RetriesScript[4] = Do("rowsOf", "dlq", 0)
      /\ RetriesScript[10] = Do("rowsOf", "dlq", 0)
      /\ RetriesScript[13] = Do("rowsOf", "retry", 0)
  OBVIOUS
<1>2. RetriesScript[5].of = {"order-dlq"}
  OBVIOUS
<1>3. RetriesScript[5].want = FALSE
  OBVIOUS
<1>4. RetriesScript[12].of = "retry"
  OBVIOUS
<1> HIDE DEF RetriesScript
<1>5. QED BY <1>1, <1>2, <1>3, <1>4

LEMMA RetriesBodies ==
  /\ FirstPlanted.body \in Bodies /\ FirstPlanted.body.event = "dlq"
  /\ FirstPlanted.body.order = "order-dlq"
  /\ SecondPlanted.body \in Bodies /\ SecondPlanted.body.event = "retry"
  /\ "dlq" \in EventIds /\ "retry" \in EventIds /\ "order-dlq" \in Orders
<1>1. FirstPlanted.body \in Bodies /\ SecondPlanted.body \in Bodies
  BY InsertedBodies, RetriesSteps, RetriesSteps2 DEF Do
<1>2. /\ FirstPlanted.body.event = "dlq" /\ FirstPlanted.body.order = "order-dlq"
      /\ SecondPlanted.body.event = "retry"
  BY DEF FirstPlanted, SecondPlanted, PlantedRow, Oversized, Webhook
<1>3. QED BY <1>1, <1>2, BodyFacts

LEMMA NoRows ==
  ASSUME NEW e, \A o \in Orders : history[o] = << >>
  PROVE  Cardinality(RowsOf(e)) = 0
<1>1. \A x : x \notin RowsOf(e)
  BY RowsMember
<1>2. QED BY <1>1, FS_EmptySet

LEMMA RetriesHolds ==
  ASSUME LockInv, RetriesKnow, Steps = RetriesScript, step \in Nat \ {0}, Query
  PROVE  Holds /\ step \notin {1, 2, 7, 8, 11}
<1>1. step \in 1 .. 13 /\ Current = RetriesScript[step] /\ Current.op \in Queries
  BY RetriesSteps DEF Query, Doing, Current
<1>2. step \in {3, 4, 5, 6, 9, 10, 13}
  BY <1>1, RetriesSteps DEF Queries, Do
<1>3. CASE step \in {3, 6, 9}
  BY <1>1, <1>3, RetriesSteps2, HoldsIs, ShowsAll DEF Do, RetriesKnow, Limited
<1>4. CASE step \in {4, 10, 13}
  <2>1. Current.op = "rowsOf" /\ Current.want = 0
    BY <1>1, <1>4, RetriesSteps3 DEF Do
  <2>2. Cardinality(RowsOf(Current.of)) = 0
    BY NoRows DEF RetriesKnow
  <2>3. QED BY <1>2, <1>4, <2>1, <2>2, HoldsIs
<1>5. CASE step = 5
  <2>1. Current.op = "orders" /\ Current.of = {"order-dlq"} /\ Current.want = FALSE
    BY <1>1, <1>5, RetriesSteps, RetriesSteps3
  <2>2. orders["order-dlq"].exists = FALSE
    BY RetriesBodies DEF RetriesKnow, NoOrderRow
  <2>3. \A o \in Current.of : orders[o].exists = Current.want
    BY <2>1, <2>2
  <2>4. QED BY <1>5, <2>1, <2>3, HoldsIs
<1>6. QED BY <1>2, <1>3, <1>4, <1>5

LEMMA RetriesPass ==
  ASSUME LockInv, RetriesKnow, step \in Nat \ {0}, step \notin {1, 7, 8, 11},
         step = 2 => events["dlq"].status = "DLQ",
         step' = step + 1, failed' = FALSE, UNCHANGED vars
  PROVE  RetriesKnow'
<1>1. /\ events' = events /\ orders' = orders /\ history' = history /\ replay' = replay
      /\ Stored' = Stored /\ PlantedRows' = PlantedRows
  BY DEF vars, tables, Stored, PlantedRows
<1>2. QED BY <1>1 DEF RetriesKnow

LEMMA RetriesInsert ==
  ASSUME LockInv, RetriesKnow, Steps = RetriesScript, step \in {1, 11}, InsertEvent
  PROVE  LockInv' /\ RetriesKnow'
<1> DEFINE e == Current.of
           row == [Current.want EXCEPT !.id = nextId]
<1>1. /\ step = 1 => e = "dlq" /\ Current.want = FirstPlanted
      /\ step = 11 => e = "retry" /\ Current.want = SecondPlanted
  BY RetriesSteps2 DEF Do, Current
<1>2. nextId \in Nat /\ MaxAttempts \in Nat \ {0} /\ MaxAttempts - 1 \in Nat
  BY RetryAssumption DEF LockInv, TypeInv, TypeOK
<1>3. e \in EventIds /\ Current.want.body \in Bodies /\ Current.want.body.event = e
  BY <1>1, RetriesBodies
<1>4. /\ row \in EventRow /\ row.status = "PENDING" /\ row.next = Null
      /\ row.body = Current.want.body /\ row.replays = 0
      /\ row.attempts = IF step = 1 THEN MaxAttempts - 1 ELSE 0
  BY <1>1, <1>2, <1>3 DEF FirstPlanted, SecondPlanted, PlantedRow, EventRow,
                          ProcessingStatuses, OutcomeReasons
<1>5. events' = [events EXCEPT ![e] = row] /\ nextId' = nextId + 1
  BY DEF InsertEvent
<1>6. /\ UNCHANGED <<deliveries, orders, history, rowLocks, worker, replay, reconVars>>
      /\ failed' = failed /\ step' = step + 1
  BY DEF InsertEvent, Advance
<1>7. events[e].status = "ABSENT"
  BY <1>1, <1>3 DEF RetriesKnow, PlantedRows, Stored
<1> HIDE DEF e, row
<1>8. LockInv' /\ Stored' = Stored \union {e}
  BY <1>3, <1>4, <1>5, <1>6, <1>7, InsertedEvent
<1>9. /\ events'[e] = row
      /\ \A f \in EventIds \ {e} : events'[f] = events[f]
  BY <1>3, <1>5 DEF LockInv, TypeInv, TypeOK
<1>10. Stored' = PlantedRows'
  BY <1>1, <1>6, <1>8 DEF RetriesKnow, PlantedRows
<1>11. \A f \in Stored' : events'[f].status \in Waiting \union {"DLQ"}
  BY <1>4, <1>8, <1>9 DEF RetriesKnow, Waiting, Stored
<1>12. \A r \in Replayers : replay'[r].pc # "selected"
  BY <1>6 DEF RetriesKnow
<1>13. CASE step = 1
  <2>1. e = "dlq" /\ step' = 2
    BY <1>1, <1>6, <1>13
  <2>2. /\ events'["dlq"].status = "PENDING" /\ events'["dlq"].attempts = MaxAttempts - 1
        /\ events'["dlq"].replays = 0
    BY <1>4, <1>9, <1>13, <2>1
  <2>3. Limited(events["dlq"])'
    BY <1>2, <2>2 DEF Limited
  <2>4. QED
    BY <1>6, <1>8, <1>10, <1>11, <1>12, <1>13, <2>1, <2>2, <2>3 DEF RetriesKnow
<1>14. CASE step = 11
  <2>1. step' = 12 /\ events'["dlq"] = events["dlq"]
    BY <1>1, <1>6, <1>9, <1>14, RetriesBodies
  <2>2. e = "retry" /\ events'["retry"].status = "PENDING" /\ events'["retry"].attempts = 0
    BY <1>1, <1>4, <1>9, <1>14
  <2>3. Limited(events["retry"])'
    BY <1>2, <2>2 DEF Limited
  <2>4. Limited(events["dlq"])'
    BY <2>1 DEF RetriesKnow, Limited
  <2>5. QED
    BY <1>6, <1>8, <1>10, <1>11, <1>12, <1>14, <2>1, <2>3, <2>4 DEF RetriesKnow
<1>15. QED BY <1>13, <1>14

LEMMA LimitedStays ==
  ASSUME NEW old \in EventRow, NEW new, Limited(old),
         \/ new = old \/ ComesCloser(old, new)
         \/ Rescheduled(old, new) \/ GivenUp(old, new)
  PROVE  /\ Limited(new)
         /\ old.status = "DLQ" => new.status = "DLQ"
         /\ new.replays = old.replays
<1>1. MaxAttempts \in Nat /\ Null \notin Nat /\ old.attempts \in Nat
  BY RetryAssumption, TablesAssumption DEF EventRow
<1>2. CASE new = old
  BY <1>2
<1>3. CASE ComesCloser(old, new)
  <2>1. /\ new.status = old.status /\ new.attempts = old.attempts
        /\ new.replays = old.replays /\ old.next # Null
    BY <1>1, <1>3 DEF ComesCloser, EventRow
  <2>2. QED BY <2>1 DEF Limited
<1>4. CASE Rescheduled(old, new)
  <2>1. old.attempts + 1 < MaxAttempts
    BY <1>1, <1>4 DEF Rescheduled, IsDlq, NewAttemptCount
  <2>2. QED BY <1>4, <2>1 DEF Rescheduled, SameEvent, Limited, Waiting
<1>5. CASE GivenUp(old, new)
  <2>1. old.attempts + 1 = MaxAttempts
    BY <1>1, <1>5 DEF GivenUp, IsDlq, NewAttemptCount, Limited
  <2>2. QED BY <1>5, <2>1 DEF GivenUp, SameEvent, Limited, Waiting
<1>6. QED BY <1>2, <1>3, <1>4, <1>5

LEMMA RetriesQueue ==
  ASSUME LockInv, RetriesKnow, step \in Nat \ {0}, WorkersStep, script = "retries"
  PROVE  LockInv' /\ RetriesKnow'
<1>1. LockInv'
  BY ServiceGoesOn
<1>2. Stored \subseteq Planted
  BY ScriptsAssumption DEF RetriesKnow, PlantedRows
<1>3. /\ UNCHANGED <<orders, history>>
      /\ \A e \in EventIds : ~Settled(events[e], events'[e])
  BY <1>2, PlantedUndecided
<1>4. /\ replay' = replay
      /\ step' = step /\ failed' = failed
  BY RetriesBodies, WorkersProceed DEF runVars
<1>5. ASSUME NEW e \in EventIds
      PROVE  LET old == events[e]
                 new == events'[e]
             IN  \/ new = old \/ ComesCloser(old, new)
                 \/ Rescheduled(old, new) \/ GivenUp(old, new)
  <2>1. Proceeds(events[e], events'[e])
    BY WorkersProceed
  <2>2. events[e].status = "DLQ" => events'[e].status = "DLQ"
    BY WorkersProceed DEF Waiting
  <2>3. events[e].status = "DLQ" => events'[e] # Revived(events[e])
    <3>1. events[e] \in EventRow
      BY DEF LockInv, TypeInv, TypeOK
    <3>2. QED BY <2>2, <3>1 DEF Revived, EventRow
  <2>4. QED BY <1>3, <2>1, <2>3 DEF Proceeds
<1>6. ASSUME NEW e \in EventIds
      PROVE  /\ e \in Stored <=> e \in Stored'
             /\ e \in Stored => events'[e].status \in Waiting \union {"DLQ"}
  <2>1. events[e] \in EventRow
    BY DEF LockInv, TypeInv, TypeOK
  <2>2. QED
    BY <1>5, <2>1 DEF ComesCloser, Rescheduled, GivenUp, Stored, Waiting, RetriesKnow,
                      EventRow
<1>7. Stored' = Stored
  BY <1>6 DEF Stored
<1>8. /\ Limited(events["dlq"])'
      /\ events["dlq"].status = "DLQ" => events'["dlq"].status = "DLQ"
      /\ events'["dlq"].replays = events["dlq"].replays
  <2>1. events["dlq"] \in EventRow /\ "dlq" \in EventIds
    BY RetriesBodies DEF LockInv, TypeInv, TypeOK
  <2>2. Limited(events["dlq"])
    BY DEF RetriesKnow
  <2>3. QED BY <1>5, <2>1, <2>2, LimitedStays
<1>9. PlantedRows' = PlantedRows
  BY <1>4 DEF PlantedRows
<1>10. \A e \in Stored' : events'[e].status \in Waiting \union {"DLQ"}
  BY <1>6, <1>7 DEF Stored
<1>11. step' > 11 => Limited(events["retry"])'
  <2>1. events["retry"] \in EventRow /\ "retry" \in EventIds
    BY RetriesBodies DEF LockInv, TypeInv, TypeOK
  <2>2. step' > 11 => Limited(events["retry"])
    BY <1>4 DEF RetriesKnow
  <2>3. Limited(events["retry"]) => Limited(events'["retry"])
    BY <1>5, <2>1, LimitedStays
  <2>4. QED BY <2>2, <2>3 DEF Limited
<1>12. QED
  BY <1>1, <1>3, <1>4, <1>7, <1>8, <1>9, <1>10, <1>11 DEF RetriesKnow

LEMMA RetriesReplay ==
  ASSUME LockInv, RetriesKnow, Steps = RetriesScript, step \in {7, 8},
         NEW r \in Replayers, AskReplay(r) \/ ReplayAnswered(r), causes = {}, causes' = {}
  PROVE  LockInv' /\ RetriesKnow'
<1>1. Current = RetriesScript[step] /\ Current.of = "dlq"
  BY RetriesSteps2 DEF Current, Do
<1>2. "dlq" \in EventIds /\ "dlq" \in Stored
  BY RetriesBodies DEF RetriesKnow, PlantedRows
<1>3. events["dlq"].body.event = "dlq"
  BY <1>2 DEF LockInv, TypeInv, ControlOK, BodiesOK
<1>4. ReplayStep(r)
  BY <1>1, <1>2 DEF AskReplay, ReplayAnswered, ReplayStep, ReplayNext
<1>5. LockInv'
  BY <1>4, LockStep DEF Next
<1>6. replay \in [Replayers -> ReplayState]
  BY DEF LockInv, TypeInv, TypeOK
<1>7. CASE AskReplay(r)
  <2>1. /\ replay' = [replay EXCEPT ![r] = [pc |-> "selected", event |-> events["dlq"]]]
        /\ UNCHANGED tables /\ UNCHANGED runVars
    BY <1>1, <1>7 DEF AskReplay, ReplaySelect
  <2>2. \A s \in Replayers : replay'[s].pc = "selected" => replay'[s].event.body.event = "dlq"
    BY <1>3, <1>6, <2>1 DEF RetriesKnow
  <2>3. /\ events' = events /\ orders' = orders /\ history' = history
        /\ step' = step /\ failed' = failed
    BY <2>1 DEF tables, runVars
  <2>4. Stored' = Stored /\ PlantedRows' = PlantedRows
    BY <2>3 DEF Stored, PlantedRows
  <2>5. QED BY <1>5, <2>2, <2>3, <2>4 DEF RetriesKnow
<1>8. CASE ReplayAnswered(r)
  <2> DEFINE row == replay[r].event
  <2>1. replay[r].pc = "selected" /\ row.body.event = "dlq"
    <3>1. replay[r].pc = "selected"
      BY <1>8 DEF ReplayAnswered, ReplayCommit, ReplayRefuse
    <3>2. QED BY <3>1 DEF RetriesKnow
  <2>2. SameRow(row, events["dlq"]) /\ eventLock["dlq"] = r
    BY <2>1 DEF LockInv, ReplayReads
  <2>3. row \in EventRow /\ events["dlq"] \in EventRow
    <3>1. row # Null /\ replay[r] \in ReplayState
      BY <1>6, <2>1 DEF LockInv, TypeInv, ControlOK, ReplaysOK
    <3>2. QED BY <1>2, <3>1 DEF ReplayState, LockInv, TypeInv, TypeOK
  <2>4. row.status = events["dlq"].status /\ row.replays = events["dlq"].replays
    BY <2>2, <2>3 DEF SameRow, EventRow
  <2>5. ReplayCommit(r) \/ ReplayRefuse(r)
    BY <1>8 DEF ReplayAnswered
  <2>6. failed' = (failed \/ ~(IF Replayable(row)
                                 THEN Current.want = "REPLAYED" /\ row.replays = 0
                                 ELSE Current.want = "NOT_IN_DLQ"))
    BY <1>8 DEF ReplayAnswered, Check
  <2>7. Replayable(row) => row.replays = 0
    <3>1. Replayable(row) /\ row.replays > 0 => causes' = causes \union {"died again"}
      BY <1>8 DEF ReplayAnswered
    <3>2. row.replays \in Nat
      BY <2>3 DEF EventRow
    <3> HIDE DEF row
    <3>3. ~(Replayable(row) /\ row.replays > 0)
      BY <3>1
    <3>4. QED BY <3>2, <3>3
  <2>8. step' = step + 1
    BY <1>8 DEF ReplayAnswered, Advance
  <2>9. \A s \in Replayers : replay'[s].pc # "selected"
    <3>1. ASSUME NEW s \in Replayers, replay[s].pc = "selected" PROVE s = r
      <4>1. replay[s].event.body.event = "dlq"
        BY <3>1 DEF RetriesKnow
      <4>2. eventLock["dlq"] = s
        BY <3>1, <4>1 DEF LockInv, ReplayReads
      <4>3. QED BY <2>2, <4>2
    <3>2. replay' = [replay EXCEPT ![r] = NoReplay]
      BY <2>5 DEF ReplayCommit, ReplayRefuse, EndReplay
    <3>3. QED BY <1>6, <3>1, <3>2 DEF NoReplay
  <2>10. UNCHANGED <<orders, history>>
    BY <2>5 DEF ReplayCommit, ReplayRefuse, tables
  <2> HIDE DEF row
  <2>11. CASE step = 7
    <3>1. row.status = "DLQ" /\ Current.want = "REPLAYED"
      BY <1>1, <2>4, <2>11, RetriesSteps2 DEF RetriesKnow, Do
    <3>2. Replayable(row) /\ failed' = FALSE
      BY <2>6, <2>7, <3>1 DEF Replayable, RetriesKnow
    <3>3. events' = [events EXCEPT !["dlq"] = Revived(events["dlq"])]
      BY <2>1, <2>5, <3>2 DEF ReplayCommit, ReplayRefuse, row
    <3>4. /\ events'["dlq"] = Revived(events["dlq"])
          /\ \A f \in EventIds \ {"dlq"} : events'[f] = events[f]
      BY <1>2, <3>3 DEF LockInv, TypeInv, TypeOK
    <3>5. /\ events'["dlq"].status = "PENDING" /\ events'["dlq"].attempts = 0
          /\ events'["dlq"].replays = 1
      BY <2>3, <2>11, <3>4 DEF Revived, EventRow, RetriesKnow
    <3>6. Limited(events["dlq"])'
      BY <3>5, RetryAssumption DEF Limited
    <3>7. Stored' = Stored /\ PlantedRows' = PlantedRows
      BY <1>2, <2>8, <2>11, <3>4, <3>5 DEF Stored, PlantedRows
    <3>8. \A e \in Stored' : events'[e].status \in Waiting \union {"DLQ"}
      BY <3>4, <3>5, <3>7 DEF RetriesKnow, Stored, Waiting
    <3>9. QED
      BY <1>5, <2>8, <2>9, <2>10, <2>11, <3>2, <3>5, <3>6, <3>7, <3>8 DEF RetriesKnow
  <2>12. CASE step = 8
    <3>1. row.replays = 1 /\ Current.want = "NOT_IN_DLQ"
      BY <1>1, <2>4, <2>12, RetriesSteps2 DEF RetriesKnow, Do
    <3>2. ~Replayable(row)
      BY <2>7, <3>1
    <3>3. failed' = FALSE
      BY <2>6, <3>1, <3>2 DEF RetriesKnow
    <3>4. events' = events
      BY <2>5, <3>2 DEF ReplayCommit, ReplayRefuse, tables, row
    <3>5. Stored' = Stored /\ PlantedRows' = PlantedRows
      BY <2>8, <2>12, <3>4 DEF Stored, PlantedRows
    <3>6. QED
      BY <1>5, <2>8, <2>9, <2>10, <2>12, <3>3, <3>4, <3>5 DEF RetriesKnow
  <2>13. QED BY <2>11, <2>12
<1>9. QED BY <1>7, <1>8

(* A second attempt of the planted event either is to come or was made.    *)
LEMMA RetryThere ==
  ASSUME RetriesKnow, step = 12, events["retry"].status \notin Waiting
  PROVE  RetryEvidence(events["retry"])
<1>1. "retry" \in Stored /\ Limited(events["retry"])
  BY DEF RetriesKnow, PlantedRows
<1>2. events["retry"].status = "DLQ"
  BY <1>1 DEF RetriesKnow
<1>3. MaxAttempts >= 2
  BY SecondAttemptAssumption
<1>4. QED BY <1>1, <1>2, <1>3 DEF Limited, RetryEvidence

LEMMA RetriesStep ==
  ASSUME script = "retries", exit = "running", LockInv, RetriesKnow,
         step \in Nat \ {0}, ScriptNext, causes = {}, causes' = {}
  PROVE  \/ exit' = "running" /\ LockInv' /\ RetriesKnow'
         \/ exit' = "passed"
<1>1. Steps = RetriesScript
  BY ScriptOf
<1>2. CASE Finish
  BY <1>2 DEF Finish, RetriesKnow
<1>3. CASE WorkersStep
  BY <1>3, RetriesQueue DEF WorkersStep, runVars
<1>4. CASE step <= Len(Steps) /\ exit' = exit /\ ByOperation
  <2>1. step \in 1 .. 13 /\ Current = RetriesScript[step]
    BY <1>1, <1>4, RetriesSteps DEF Current
  <2>2. Current.op \in RetriesOps
    BY <2>1, RetriesSteps
  <2>3. CASE Current.op = "insertEvent"
    BY <1>1, <1>4, <2>1, <2>3, RetriesSteps, RetriesInsert DEF ByOperation
  <2>4. CASE Current.op = "replay"
    <3>1. PICK r \in Replayers : AskReplay(r) \/ ReplayAnswered(r)
      BY <1>4, <2>4 DEF ByOperation
    <3>2. step \in {7, 8}
      BY <2>1, <2>4, RetriesSteps
    <3>3. QED BY <1>1, <1>4, <3>1, <3>2, RetriesReplay
  <2>5. CASE Current.op = "poll"
    <3>1. PollFinds /\ step = 2
      BY <1>4, <2>1, <2>5, RetriesSteps DEF ByOperation
    <3>2. step \notin {1, 7, 8, 11}
      BY <3>1
    <3>3. /\ events["dlq"].status = "DLQ"
          /\ step' = step + 1 /\ failed' = FALSE /\ UNCHANGED vars
      BY <2>1, <3>1, RetriesSteps2 DEF PollFinds, Advance, RetriesKnow, Do
    <3>4. QED BY <1>4, <3>2, <3>3, NothingMoves, RetriesPass
  <2>6. CASE Current.op = "retry"
    <3>1. RetrySeen /\ step = 12
      <4>1. step = 12 /\ Current.of = "retry"
        BY <2>1, <2>6, RetriesSteps, RetriesSteps3
      <4>2. ~(RetryNotSeen /\ events["retry"].status \notin Waiting)
        BY <4>1, RetryThere DEF RetryNotSeen
      <4>3. QED BY <1>4, <2>6, <4>1, <4>2 DEF ByOperation
    <3>2. step \notin {1, 2, 7, 8, 11}
      BY <3>1
    <3>3. step' = step + 1 /\ failed' = FALSE /\ UNCHANGED vars
      BY <3>1 DEF RetrySeen, Advance, RetriesKnow
    <3>4. QED BY <1>4, <3>2, <3>3, NothingMoves, RetriesPass
  <2>7. CASE Current.op \in {"event", "rowsOf", "orders"}
    <3>1. Query
      BY <1>4, <2>7 DEF ByOperation, Queries
    <3>2. Holds /\ step \notin {1, 2, 7, 8, 11}
      BY <1>1, <3>1, RetriesHolds
    <3>3. step' = step + 1 /\ failed' = FALSE /\ UNCHANGED vars
      BY <3>1, <3>2 DEF Query, Advance, Check, RetriesKnow
    <3>4. QED BY <1>4, <3>2, <3>3, NothingMoves, RetriesPass
  <2>8. QED BY <2>2, <2>3, <2>4, <2>5, <2>6, <2>7 DEF RetriesOps
<1>5. QED BY <1>2, <1>3, <1>4, Operations

-----------------------------------------------------------------------------
(* Observability                                                           *)

ObservabilityOps ==
  {"measure", "send", "wait", "event", "grew", "insertEvent", "dlqSize", "deleteEvent"}

LEMMA DoFields ==
  \A op, of, want : /\ Do(op, of, want).op = op /\ Do(op, of, want).of = of
                    /\ Do(op, of, want).want = want
BY DEF Do

LEMMA ObservabilitySteps ==
  /\ Len(ObservabilityScript) = 11
  /\ ObservabilityScript[1] = Do("measure", "metrics", {})
  /\ ObservabilityScript[2] = Do("send", <<Observed1>>, {"CREATED"})
  /\ ObservabilityScript[3] = Do("send", <<Observed1>>, {"DUPLICATE"})
  /\ ObservabilityScript[4] = Do("send", <<Observed2>>, Accepted)
  /\ ObservabilityScript[5] = Do("wait", {"evt-001", "evt-002"}, {})
  /\ ObservabilityScript[6] = Do("event", "evt-002", [reason |-> "STALE_SEQUENCE"])
  /\ ObservabilityScript[7] =
       Do("grew", "metrics", [received |-> 3, duplicates |-> 1, outOfOrder |-> 1])
  /\ ObservabilityScript[8] = Do("insertEvent", "dlq-temp", TemporaryDeadLetter)
  /\ ObservabilityScript[9] = Do("dlqSize", "metrics", 1)
  /\ ObservabilityScript[10] = Do("deleteEvent", "dlq-temp", {})
  /\ ObservabilityScript[11] = Do("dlqSize", "metrics", 0)
<1> DEFINE s1 == Do("measure", "metrics", {})
           s2 == Do("send", <<Observed1>>, {"CREATED"})
           s3 == Do("send", <<Observed1>>, {"DUPLICATE"})
           s4 == Do("send", <<Observed2>>, Accepted)
           s5 == Do("wait", {"evt-001", "evt-002"}, {})
           s6 == Do("event", "evt-002", [reason |-> "STALE_SEQUENCE"])
           s7 == Do("grew", "metrics", [received |-> 3, duplicates |-> 1, outOfOrder |-> 1])
           s8 == Do("insertEvent", "dlq-temp", TemporaryDeadLetter)
           s9 == Do("dlqSize", "metrics", 1)
           s10 == Do("deleteEvent", "dlq-temp", {})
           s11 == Do("dlqSize", "metrics", 0)
<1>1. ObservedEvents = <<s1, s2, s3, s4, s5, s6, s7>>
  BY DEF ObservedEvents, Observed1, Observed2, Send1
<1>2. ObservedDlq = <<s8, s9, s10, s11>>
  BY DEF ObservedDlq
<1> HIDE DEF s1, s2, s3, s4, s5, s6, s7, s8, s9, s10, s11
<1>3. ObservabilityScript = <<s1, s2, s3, s4, s5, s6, s7>> \o <<s8, s9, s10, s11>>
  BY <1>1, <1>2 DEF ObservabilityScript
<1>4. /\ Len(ObservabilityScript) = 11
      /\ ObservabilityScript[1] = s1 /\ ObservabilityScript[2] = s2
      /\ ObservabilityScript[3] = s3 /\ ObservabilityScript[4] = s4
      /\ ObservabilityScript[5] = s5 /\ ObservabilityScript[6] = s6
      /\ ObservabilityScript[7] = s7 /\ ObservabilityScript[8] = s8
      /\ ObservabilityScript[9] = s9 /\ ObservabilityScript[10] = s10
      /\ ObservabilityScript[11] = s11
  BY <1>3
<1>5. QED BY <1>4 DEF s1, s2, s3, s4, s5, s6, s7, s8, s9, s10, s11

LEMMA ObservabilityOperations ==
  \A k \in 1 .. 11 :
    /\ ObservabilityScript[k].op \in ObservabilityOps
    /\ ObservabilityScript[k].op = "measure" <=> k = 1
    /\ ObservabilityScript[k].op = "send" <=> k \in {2, 3, 4}
    /\ ObservabilityScript[k].op = "wait" <=> k = 5
    /\ ObservabilityScript[k].op = "event" <=> k = 6
    /\ ObservabilityScript[k].op = "grew" <=> k = 7
    /\ ObservabilityScript[k].op = "insertEvent" <=> k = 8
    /\ ObservabilityScript[k].op = "dlqSize" <=> k \in {9, 11}
    /\ ObservabilityScript[k].op = "deleteEvent" <=> k = 10
<1>1. /\ ObservabilityScript[1].op = "measure" /\ ObservabilityScript[2].op = "send"
      /\ ObservabilityScript[3].op = "send" /\ ObservabilityScript[4].op = "send"
      /\ ObservabilityScript[5].op = "wait" /\ ObservabilityScript[6].op = "event"
      /\ ObservabilityScript[7].op = "grew" /\ ObservabilityScript[8].op = "insertEvent"
      /\ ObservabilityScript[9].op = "dlqSize" /\ ObservabilityScript[10].op = "deleteEvent"
      /\ ObservabilityScript[11].op = "dlqSize"
  BY ObservabilitySteps, DoFields
<1>2. QED BY <1>1 DEF ObservabilityOps

LEMMA ObservedBodies ==
  /\ Observed1 \in Bodies /\ Observed1.event = "evt-001" /\ "evt-001" \in EventIds
  /\ Observed2 \in Bodies /\ Observed2.event = "evt-002" /\ "evt-002" \in EventIds
  /\ Observed2.seq = 0 /\ Observed2.type = "payment.pending"
  /\ TemporaryDeadLetter.body \in Bodies
  /\ TemporaryDeadLetter.body.event = "dlq-temp" /\ "dlq-temp" \in EventIds
<1>1. Observed1 \in Bodies /\ Observed2 \in Bodies
  <2>1. /\ ObservabilityScript[2].of[1] = Observed1 /\ ObservabilityScript[4].of[1] = Observed2
        /\ 1 \in DOMAIN ObservabilityScript[2].of /\ 1 \in DOMAIN ObservabilityScript[4].of
    BY ObservabilitySteps, DoFields
  <2>2. /\ ObservabilityScript[2].op = "send" /\ ObservabilityScript[4].op = "send"
        /\ 2 \in DOMAIN ObservabilityScript /\ 4 \in DOMAIN ObservabilityScript
    BY ObservabilitySteps, ObservabilityOperations
  <2>3. QED BY <2>1, <2>2, SentBodies
<1>2. TemporaryDeadLetter.body \in Bodies
  <2>1. /\ ObservabilityScript[8].op = "insertEvent" /\ 8 \in DOMAIN ObservabilityScript
        /\ ObservabilityScript[8].want = TemporaryDeadLetter
    BY ObservabilitySteps, ObservabilityOperations, DoFields
  <2>2. QED BY <2>1, InsertedBodies
<1>3. /\ Observed1.event = "evt-001" /\ Observed2.event = "evt-002"
      /\ Observed2.seq = 0 /\ Observed2.type = "payment.pending"
  BY DEF Observed1, Observed2, Webhook
<1>4. TemporaryDeadLetter.body.event = "dlq-temp"
  BY DEF TemporaryDeadLetter, PlantedRow, Webhook
<1>5. QED BY <1>1, <1>2, <1>3, <1>4, BodyFacts

LEMMA ObservabilityPass ==
  ASSUME LockInv, ObservabilityKnows, step \in Nat \ {0}, step \notin {1, 2, 3, 4, 8, 10},
         step = 5 => \A e \in {"evt-001", "evt-002"} : events[e].status \notin Waiting,
         failed' => failed \/ (step >= 6 /\ DeadEvent),
         step' = step + 1, done' = {}, base' = base, UNCHANGED vars
  PROVE  ObservabilityKnows'
<1>1. /\ events' = events /\ deliveries' = deliveries /\ replay' = replay
      /\ Stored' = Stored /\ (CountedOK <=> CountedOK') /\ (DeadEvent <=> DeadEvent')
  BY DEF vars, tables, Stored, CountedOK, DeliveriesWith, DeadEvent
<1>2. ObservedRows' = ObservedRows
  BY DEF ObservedRows
<1>3. QED BY <1>1, <1>2 DEF ObservabilityKnows

LEMMA NothingMeasured ==
  ASSUME \A e \in EventIds : events[e] = NoEventRow,
         \A e \in EventIds : \A r \in DeliveryResults : deliveries[e][r] = 0
  PROVE  Measured = [received |-> 0, duplicates |-> 0, outOfOrder |-> 0, dlq |-> 0]
<1>1. \A e \in EventIds : events[e].reason = Null /\ events[e].status = "ABSENT"
  BY DEF NoEventRow
<1>2. ASSUME NEW results \in SUBSET DeliveryResults
      PROVE  Cardinality(DeliveriesWith(results)) = 0
  <2>1. \A x : x \notin DeliveriesWith(results)
    BY DeliveryRow
  <2>2. QED BY <2>1, FS_EmptySet
<1>3. EventsReceived = 0 /\ DuplicateEvents = 0
  BY <1>2 DEF EventsReceived, DuplicateEvents, DeliveryResults
<1>4. OutOfOrderEvents = 0
  <2>1. {e \in EventIds : events[e].reason = "STALE_SEQUENCE"} = {}
    BY <1>1, TablesAssumption
  <2>2. QED BY <2>1, FS_EmptySet DEF OutOfOrderEvents
<1>5. DlqSize = 0
  <2>1. {e \in EventIds : events[e].status = "DLQ"} = {}
    BY <1>1
  <2>2. QED BY <2>1, FS_EmptySet DEF DlqSize
<1>6. QED BY <1>3, <1>4, <1>5 DEF Measured

LEMMA ObservabilityMeasures ==
  ASSUME LockInv, ObservabilityKnows, step = 1, Measure
  PROVE  ObservabilityKnows'
<1>1. Stored = {}
  BY DEF ObservabilityKnows, ObservedRows
<1>2. Measured = [received |-> 0, duplicates |-> 0, outOfOrder |-> 0, dlq |-> 0]
  BY <1>1, NothingMeasured DEF ObservabilityKnows
<1>3. /\ events' = events /\ deliveries' = deliveries /\ replay' = replay
      /\ Stored' = Stored /\ (CountedOK <=> CountedOK')
      /\ step' = 2 /\ done' = {} /\ failed' = failed /\ base' = base
  BY <1>2
     DEF Measure, Advance, vars, tables, Stored, CountedOK, DeliveriesWith,
         ObservabilityKnows
<1>4. ObservedRows' = ObservedRows
  BY <1>3 DEF ObservedRows
<1>5. QED BY <1>3, <1>4 DEF ObservabilityKnows

LEMMA ObservabilitySends ==
  ASSUME LockInv, ObservabilityKnows, Steps = ObservabilityScript, step \in {2, 3, 4},
         NEW i \in DOMAIN Current.of, NEW stale \in BOOLEAN, Send(i, stale)
  PROVE  LockInv' /\ ObservabilityKnows'
<1> DEFINE b == Current.of[i]
           e == IF step = 4 THEN "evt-002" ELSE "evt-001"
           result == DeliveryResult(Upsert(b, stale), b, stale)
<1>1. /\ Current = ObservabilityScript[step] /\ Current.op = "send"
      /\ Current.of = IF step = 4 THEN <<Observed2>> ELSE <<Observed1>>
      /\ Current.want = IF step = 2 THEN {"CREATED"}
                        ELSE IF step = 3 THEN {"DUPLICATE"} ELSE Accepted
  BY ObservabilitySteps, DoFields DEF Current
<1>2. stale = FALSE
  BY <1>1 DEF Send, Doing
<1>3. /\ Ingest(b, stale) /\ Answered(i, DOMAIN Current.of)
      /\ failed' = (failed \/ result \notin Current.want)
      /\ base' = base /\ replay' = replay
  BY DEF Send, Check, Keep
<1>4. /\ b = IF step = 4 THEN Observed2 ELSE Observed1
      /\ step' = step + 1 /\ done' = {}
  BY <1>1, <1>3, OnlyOne DEF ObservabilityKnows
<1>5. b \in Bodies /\ b.event = e /\ e \in EventIds
  BY <1>4, ObservedBodies
<1> HIDE DEF b, result
<1>6. IngestStep
  BY <1>5, SendIngests DEF b
<1>7. LockInv' /\ CountedOK'
  BY <1>6, CountStep DEF Next, CountInv, ObservabilityKnows
<1>8. /\ events'[e] = Upsert(b, stale)
      /\ \A f \in EventIds \ {e} : events'[f] = events[f] /\ deliveries'[f] = deliveries[f]
      /\ deliveries'[e] = [deliveries[e] EXCEPT ![result] = @ + 1]
  BY <1>3, <1>5, SentRow DEF result
<1>9. \A r \in DeliveryResults :
        /\ deliveries[e][r] \in Nat
        /\ deliveries'[e][r] = IF r = result THEN deliveries[e][r] + 1 ELSE deliveries[e][r]
  BY <1>5, <1>8 DEF LockInv, TypeInv, TypeOK
<1>10. {"CREATED", "DUPLICATE"} \subseteq DeliveryResults
  BY DEF DeliveryResults
<1>11. ~failed
  BY DEF ObservabilityKnows
<1>12. Stored = (IF step > 2 THEN {"evt-001"} ELSE {})
  BY DEF ObservabilityKnows, ObservedRows
<1> HIDE DEF e
<1>13. /\ step' \in 3 .. 5 /\ step' = step + 1 /\ done' = {} /\ base' = base /\ replay' = replay
       /\ ~failed /\ LockInv' /\ CountedOK'
  BY <1>3, <1>4, <1>7, <1>11
<1>14. ASSUME ~failed', Stored' = ObservedRows',
              \A f \in EventIds \ Stored' : events'[f] = NoEventRow,
              events'["evt-001"].body = Observed1, events'["evt-001"].count >= 1,
              deliveries'["evt-001"]["CREATED"] >= 1,
              step >= 3 => deliveries'["evt-001"]["DUPLICATE"] >= 1,
              step = 4 => /\ events'["evt-002"].body = Observed2
                          /\ deliveries'["evt-002"]["CREATED"] >= 1,
              events'["evt-002"].status \in {"ABSENT", "PENDING"}
       PROVE  LockInv' /\ ObservabilityKnows'
  BY <1>13, <1>14 DEF ObservabilityKnows
<1>15. CASE step = 2
  <2>1. e = "evt-001" /\ Current.want = {"CREATED"}
    BY <1>1, <1>15 DEF e
  <2>2. events[e].status = "ABSENT" /\ events["evt-002"].status = "ABSENT"
    BY <1>12, <1>15, <2>1, ObservedBodies DEF Stored
  <2>3. /\ events'[e].status = "PENDING" /\ events'[e].body = b
        /\ events'[e].count = 1 /\ result = "CREATED"
    BY <1>2, <1>5, <1>8, <2>2, FirstRow DEF result
  <2>4. ~failed'
    BY <1>3, <1>11, <2>1, <2>3
  <2>5. Stored' = {"evt-001"}
    <3>1. Stored' = Stored \union {e}
      BY <1>5, <1>8, <2>3 DEF Stored
    <3>2. QED BY <1>12, <1>15, <2>1, <3>1
  <2>6. Stored' = ObservedRows'
    BY <1>13, <1>15, <2>5 DEF ObservedRows
  <2>7. \A f \in EventIds \ Stored' : events'[f] = NoEventRow
    BY <1>8, <1>12, <1>15, <2>1, <2>5 DEF ObservabilityKnows
  <2>8. deliveries'[e]["CREATED"] >= 1
    BY <1>9, <1>10, <2>3
  <2>9. events'["evt-002"] = events["evt-002"]
    BY <1>8, <2>1, ObservedBodies
  <2>10. QED
    BY <1>4, <1>14, <1>15, <2>1, <2>2, <2>3, <2>4, <2>6, <2>7, <2>8, <2>9
<1>16. CASE step = 3
  <2>1. e = "evt-001" /\ b = Observed1 /\ Current.want = {"DUPLICATE"}
    BY <1>1, <1>4, <1>16 DEF e
  <2>2. /\ events[e].status # "ABSENT" /\ events[e].body = b /\ events[e].count >= 1
        /\ deliveries[e]["CREATED"] >= 1 /\ events["evt-002"].status = "ABSENT"
    BY <1>12, <1>16, <2>1, ObservedBodies DEF Stored, ObservabilityKnows
  <2>3. /\ events'[e].status = events[e].status /\ events'[e].body = b
        /\ events'[e].count >= 1 /\ result = "DUPLICATE"
    BY <1>5, <1>8, <2>2, NextRow DEF result
  <2>4. ~failed'
    BY <1>3, <1>11, <2>1, <2>3
  <2>5. Stored' = Stored
    BY <1>5, <1>8, <2>2, <2>3 DEF Stored
  <2>6. Stored' = ObservedRows'
    BY <1>12, <1>13, <1>16, <2>5 DEF ObservedRows
  <2>7. \A f \in EventIds \ Stored' : events'[f] = NoEventRow
    BY <1>5, <1>8, <2>2, <2>5 DEF ObservabilityKnows, Stored
  <2>8. deliveries'[e]["CREATED"] >= 1 /\ deliveries'[e]["DUPLICATE"] >= 1
    <3>1. deliveries'[e]["DUPLICATE"] = deliveries[e]["DUPLICATE"] + 1 /\ deliveries[e]["DUPLICATE"] \in Nat
      BY <1>9, <1>10, <2>3
    <3>2. deliveries'[e]["CREATED"] = deliveries[e]["CREATED"]
      BY <1>9, <1>10, <2>3
    <3>3. QED BY <2>2, <3>1, <3>2
  <2>9. events'["evt-002"] = events["evt-002"]
    BY <1>8, <2>1, ObservedBodies
  <2>10. QED
    BY <1>14, <1>16, <2>1, <2>2, <2>3, <2>4, <2>6, <2>7, <2>8, <2>9
<1>17. CASE step = 4
  <2>1. e = "evt-002" /\ b = Observed2 /\ Current.want = Accepted
    BY <1>1, <1>4, <1>17 DEF e
  <2>2. events[e].status = "ABSENT"
    BY <1>5, <1>12, <1>17, <2>1 DEF Stored
  <2>3. /\ events'[e].status = "PENDING" /\ events'[e].body = b /\ result = "CREATED"
    BY <1>2, <1>5, <1>8, <2>2, FirstRow DEF result
  <2>4. ~failed'
    <3>1. result \in Current.want
      BY <1>10, <2>1, <2>3 DEF Accepted
    <3>2. QED BY <1>3, <1>11, <3>1
  <2>5. Stored' = {"evt-001", "evt-002"}
    <3>1. Stored' = Stored \union {e}
      BY <1>5, <1>8, <2>3 DEF Stored
    <3>2. QED BY <1>12, <1>17, <2>1, <3>1
  <2>6. Stored' = ObservedRows'
    BY <1>13, <1>17, <2>5 DEF ObservedRows
  <2>7. \A f \in EventIds \ Stored' : events'[f] = NoEventRow
    BY <1>8, <1>12, <1>17, <2>1, <2>5 DEF ObservabilityKnows
  <2>8. deliveries'[e]["CREATED"] >= 1
    BY <1>9, <1>10, <2>3
  <2>9. /\ events'["evt-001"] = events["evt-001"]
        /\ deliveries'["evt-001"] = deliveries["evt-001"]
    BY <1>8, <2>1, ObservedBodies
  <2>10. /\ events["evt-001"].body = Observed1 /\ events["evt-001"].count >= 1
         /\ deliveries["evt-001"]["CREATED"] >= 1 /\ deliveries["evt-001"]["DUPLICATE"] >= 1
    BY <1>17 DEF ObservabilityKnows
  <2>11. QED
    BY <1>14, <1>17, <2>1, <2>3, <2>4, <2>6, <2>7, <2>8, <2>9, <2>10
<1>18. QED BY <1>15, <1>16, <1>17

LEMMA ObservabilityInserts ==
  ASSUME LockInv, ObservabilityKnows, Steps = ObservabilityScript, step = 8, InsertEvent
  PROVE  LockInv' /\ ObservabilityKnows'
<1> DEFINE e == "dlq-temp"
           row == [TemporaryDeadLetter EXCEPT !.id = nextId]
<1>1. Current.of = e /\ Current.want = TemporaryDeadLetter
  BY ObservabilitySteps, DoFields DEF Current
<1>2. nextId \in Nat /\ MaxAttempts \in Nat
  BY RetryAssumption DEF LockInv, TypeInv, TypeOK
<1>3. e \in EventIds /\ TemporaryDeadLetter.body \in Bodies /\ TemporaryDeadLetter.body.event = e
  BY ObservedBodies
<1>4. /\ row \in EventRow /\ row.status = "DLQ" /\ row.next = Null
      /\ row.body = TemporaryDeadLetter.body /\ row.reason = "MAX_ATTEMPTS_EXHAUSTED"
  BY <1>2, <1>3 DEF TemporaryDeadLetter, PlantedRow, EventRow, ProcessingStatuses,
                    OutcomeReasons
<1> HIDE DEF row
<1>5. events' = [events EXCEPT ![e] = row] /\ nextId' = nextId + 1
  BY <1>1 DEF InsertEvent, row
<1>6. /\ UNCHANGED <<deliveries, orders, history, rowLocks, worker, replay, reconVars>>
      /\ failed' = failed /\ step' = step + 1 /\ done' = {} /\ base' = base
  BY DEF InsertEvent, Advance, Keep
<1>7. Stored = {"evt-001", "evt-002"}
  BY DEF ObservabilityKnows, ObservedRows
<1>8. events[e].status = "ABSENT"
  BY <1>3, <1>7 DEF Stored
<1>9. LockInv' /\ Stored' = Stored \union {e}
  BY <1>3, <1>4, <1>5, <1>6, <1>8, InsertedEvent
<1>10. /\ events'[e] = row
       /\ \A f \in EventIds \ {e} : events'[f] = events[f]
  BY <1>3, <1>5 DEF LockInv, TypeInv, TypeOK
<1>11. Stored' = ObservedRows'
  BY <1>6, <1>7, <1>9 DEF ObservedRows
<1>12. CountedOK'
  <2>1. IsFiniteSet(Stored')
    BY <1>9, FS_AddElement DEF ObservabilityKnows, CountedOK
  <2>2. IsFiniteSet(DeliveriesWith(DeliveryResults)')
    BY <1>6 DEF ObservabilityKnows, CountedOK, DeliveriesWith
  <2>3. QED BY <1>4, <1>10, <2>1, <2>2 DEF ObservabilityKnows, CountedOK
<1>13. DeadEvent => DeadEvent'
  BY <1>8, <1>9, <1>10 DEF DeadEvent, Stored
<1>14. \A f \in EventIds \ Stored' : events'[f] = NoEventRow
  BY <1>9, <1>10 DEF ObservabilityKnows
<1>15. /\ events'["evt-001"] = events["evt-001"] /\ events'["evt-002"] = events["evt-002"]
       /\ deliveries' = deliveries /\ replay' = replay
  BY <1>6, <1>10, ObservedBodies
<1>16. QED
  BY <1>4, <1>6, <1>9, <1>10, <1>11, <1>12, <1>13, <1>14, <1>15 DEF ObservabilityKnows

LEMMA ObservabilityDeletes ==
  ASSUME LockInv, ObservabilityKnows, Steps = ObservabilityScript, step = 10, DeleteEvent
  PROVE  LockInv' /\ ObservabilityKnows'
<1> DEFINE e == "dlq-temp"
<1>1. Current.of = e
  BY ObservabilitySteps, DoFields DEF Current
<1>2. e \in EventIds /\ events[e].status \notin Waiting
  BY ObservedBodies DEF ObservabilityKnows, Waiting
<1>3. events' = [events EXCEPT ![e] = NoEventRow]
  BY <1>1 DEF DeleteEvent
<1>4. /\ UNCHANGED <<nextId, deliveries, orders, history, rowLocks, worker, replay, reconVars>>
      /\ failed' = failed /\ step' = step + 1 /\ done' = {} /\ base' = base
  BY DEF DeleteEvent, Advance, Keep
<1>5. LockInv' /\ Stored' = Stored \ {e}
  BY <1>2, <1>3, <1>4, DeletedEvent DEF ObservabilityKnows
<1>6. /\ events'[e] = NoEventRow
      /\ \A f \in EventIds \ {e} : events'[f] = events[f]
  BY <1>2, <1>3 DEF LockInv, TypeInv, TypeOK
<1>7. Stored' = ObservedRows'
  BY <1>4, <1>5 DEF ObservedRows, ObservabilityKnows
<1>8. CountedOK'
  <2>1. IsFiniteSet(Stored')
    BY <1>5, FS_Subset DEF ObservabilityKnows, CountedOK
  <2>2. IsFiniteSet(DeliveriesWith(DeliveryResults)')
    BY <1>4 DEF ObservabilityKnows, CountedOK, DeliveriesWith
  <2>3. NoEventRow.reason # "STALE_SEQUENCE"
    BY TablesAssumption DEF NoEventRow
  <2>4. QED BY <1>6, <2>1, <2>2, <2>3 DEF ObservabilityKnows, CountedOK
<1>9. DeadEvent => DeadEvent'
  <2>1. e \in Planted
    BY ScriptsAssumption
  <2>2. QED BY <1>5, <1>6, <2>1 DEF DeadEvent, Stored
<1>10. \A f \in EventIds \ Stored' : events'[f] = NoEventRow
  BY <1>5, <1>6 DEF ObservabilityKnows
<1>11. /\ events'["evt-001"] = events["evt-001"] /\ events'["evt-002"] = events["evt-002"]
       /\ deliveries' = deliveries /\ replay' = replay
  BY <1>4, <1>6, ObservedBodies
<1>12. QED
  BY <1>4, <1>5, <1>7, <1>8, <1>9, <1>10, <1>11 DEF ObservabilityKnows

(* What the workers leave as it is.                                        *)
LEMMA WorkersKeep ==
  ASSUME LockInv, WorkersStep
  PROVE  /\ Stored' = Stored
         /\ \A e \in EventIds : LET old == events[e]
                                    new == events'[e]
                                IN  /\ new.body = old.body /\ new.count = old.count
                                    /\ new.replays = old.replays
                                    /\ old = NoEventRow => new = old
                                    /\ old.status \notin Waiting =>
                                         new.status = old.status /\ new.reason = old.reason
<1>1. ASSUME NEW e \in EventIds
      PROVE  LET old == events[e]
                 new == events'[e]
             IN  /\ new.body = old.body /\ new.count = old.count
                 /\ new.replays = old.replays
                 /\ old = NoEventRow => new = old
                 /\ old.status = "ABSENT" <=> new.status = "ABSENT"
                 /\ old.status \notin Waiting =>
                      new.status = old.status /\ new.reason = old.reason
  <2>1. events[e] \in EventRow
    BY DEF LockInv, TypeInv, TypeOK
  <2>2. /\ Proceeds(events[e], events'[e])
        /\ events[e].status \notin Waiting => events'[e].status = events[e].status
    BY WorkersProceed
  <2> DEFINE old == events[e]
             new == events'[e]
  <2> HIDE DEF old, new
  <2>3. CASE new = old
    BY <2>3 DEF old, new
  <2>4. CASE ComesCloser(old, new)
    <3>1. old # NoEventRow
      BY <2>4, TablesAssumption DEF ComesCloser, NoEventRow
    <3>2. /\ new.body = old.body /\ new.count = old.count /\ new.replays = old.replays
          /\ new.status = old.status /\ new.reason = old.reason
      BY <2>1, <2>4 DEF ComesCloser, EventRow, old
    <3>3. QED BY <3>1, <3>2 DEF old, new
  <2>5. CASE Settled(old, new) \/ Rescheduled(old, new) \/ GivenUp(old, new)
    <3>1. /\ new.body = old.body /\ new.count = old.count
          /\ new.replays = old.replays /\ new.status # "ABSENT" /\ old.status \in Waiting
      BY <2>5 DEF Settled, Rescheduled, GivenUp, SameEvent
    <3>2. QED BY <3>1 DEF Waiting, NoEventRow, old, new
  <2>6. CASE old.status = "DLQ" /\ new = Revived(old)
    <3>1. new.status = "PENDING"
      BY <2>1, <2>6 DEF Revived, EventRow, old
    <3>2. QED BY <2>2, <2>6, <3>1 DEF Waiting, old, new
  <2>7. QED BY <2>2, <2>3, <2>4, <2>5, <2>6 DEF Proceeds, old, new
<1>2. Stored' = Stored
  BY <1>1 DEF Stored
<1>3. QED BY <1>1, <1>2 DEF Stored

(* An event is decided by its body and the row of its order.               *)
LEMMA WorkersDecide ==
  ASSUME LockInv, WorkersStep, NEW e \in EventIds, events[e].status \in Waiting,
         events'[e].status \in {"APPLIED", "IGNORED"}
  PROVE  /\ events[e].body \in Bodies
         /\ \E row \in OrderRow :
              /\ events'[e].status = Process(events[e].body, row).outcome
              /\ events'[e].reason = Process(events[e].body, row).reason
<1>1. events \in [EventIds -> EventRow]
  BY DEF LockInv, TypeInv, TypeOK
<1>2. ~ClockStep
  <2>1. ClockStep => events'[e].status = events[e].status
    BY <1>1 DEF ClockStep, Tick
  <2>2. QED BY <2>1 DEF Waiting
<1>3. PICK w \in Workers : WorkerStep(w)
  BY <1>2 DEF WorkersStep
<1>4. CommitResult(w)
  <2>1. events' # events
    BY DEF Waiting
  <2>2. CASE ScheduleRetry(w)
    <3>1. PICK delay \in Delays(worker[w].event.attempts) :
            events' = [events EXCEPT ![ClaimedEvent(w)] =
              [@ EXCEPT !.status   = "RETRY_SCHEDULED",
                        !.attempts = NewAttemptCount(worker[w].event.attempts),
                        !.next     = delay,
                        !.reason   = "TRANSIENT_ERROR"]]
      BY <2>2 DEF ScheduleRetry
    <3>2. QED BY <1>1, <3>1 DEF Waiting, EventRow
  <2>3. CASE SendToDlq(w)
    BY <1>1, <2>3 DEF SendToDlq, Waiting, EventRow
  <2>4. QED
    BY <1>3, <2>1, <2>2, <2>3
       DEF WorkerStep, WorkerNext, Claim, LockOrder, BusinessError, AbortTransaction,
           Crash, Restart, tables
<1> DEFINE row == InsertOrderIfMissing(orders[ClaimedOrder(w)])
<1>5. /\ ClaimedOrder(w) \in Orders /\ events[ClaimedEvent(w)].body \in Bodies
      /\ \A f \in EventIds \ {ClaimedEvent(w)} : events'[f] = events[f]
      /\ events'[ClaimedEvent(w)].status = Process(events[ClaimedEvent(w)].body, row).outcome
      /\ events'[ClaimedEvent(w)].reason = Process(events[ClaimedEvent(w)].body, row).reason
  BY <1>4, CommitFacts
<1>6. row \in OrderRow
  BY <1>5, InsertTypes DEF LockInv, TypeInv, TypeOK
<1> HIDE DEF row
<1>7. e = ClaimedEvent(w)
  BY <1>5 DEF Waiting
<1>8. QED BY <1>5, <1>6, <1>7

LEMMA ObservabilityQueue ==
  ASSUME LockInv, ObservabilityKnows, step \in Nat \ {0}, WorkersStep,
         script = "observability"
  PROVE  LockInv' /\ ObservabilityKnows'
<1>1. LockInv' /\ [Next]_vars
  BY ServiceGoesOn
<1>2. CountedOK'
  BY <1>1, CountStep DEF CountInv, ObservabilityKnows
<1>3. /\ replay' = replay /\ deliveries' = deliveries
      /\ step' = step /\ failed' = failed /\ done' = done /\ base' = base
  BY ObservedBodies, WorkersProceed DEF runVars
<1>4. Stored' = Stored /\ ObservedRows' = ObservedRows
  BY <1>3, WorkersKeep DEF ObservedRows
<1>5. \A e \in EventIds \ Stored' : events'[e] = NoEventRow
  BY <1>4, WorkersKeep DEF ObservabilityKnows
<1>6. DeadEvent => DeadEvent'
  <2>1. \A e \in Stored : events[e].status = "DLQ" => events'[e].status = "DLQ"
    BY WorkersProceed DEF Stored, Waiting
  <2>2. QED BY <1>4, <2>1 DEF DeadEvent
<1>7. ASSUME NEW e \in {"evt-001", "evt-002"}
      PROVE  /\ events'[e].body = events[e].body /\ events'[e].count = events[e].count
             /\ events[e].status \notin Waiting => events'[e].status \notin Waiting
  BY ObservedBodies, WorkersKeep
<1>8. /\ events'["evt-002"].status # "APPLIED"
      /\ events'["evt-002"].status = "IGNORED" => events'["evt-002"].reason = "STALE_SEQUENCE"
  <2> DEFINE old == events["evt-002"]
             new == events'["evt-002"]
  <2>1. /\ old.status # "APPLIED"
        /\ old.status = "IGNORED" => old.reason = "STALE_SEQUENCE"
    BY DEF ObservabilityKnows
  <2>2. CASE old.status \notin Waiting
    BY <2>1, <2>2, ObservedBodies, WorkersKeep
  <2>3. CASE old.status \in Waiting /\ new.status \in {"APPLIED", "IGNORED"}
    <3>1. PICK row \in OrderRow : /\ new.status = Process(old.body, row).outcome
                                  /\ new.reason = Process(old.body, row).reason
      BY <2>3, ObservedBodies, WorkersDecide
    <3>2. old.body = Observed2
      BY <2>3, ObservedBodies DEF ObservabilityKnows, ObservedRows, Stored, Waiting
    <3>3. row.seq \in Nat
      BY DEF OrderRow
    <3>4. Observed2.type \in DOMAIN EventTypeToStatus /\ ~IsNewer(Observed2, row)
      BY <3>3, ObservedBodies DEF EventTypeToStatus, IsNewer
    <3>5. Process(old.body, row) = Ignored("STALE_SEQUENCE", row)
      BY <3>2, <3>4 DEF Process
    <3>6. QED BY <3>1, <3>5 DEF Ignored
  <2>4. QED BY <2>2, <2>3
<1>9. events["dlq-temp"].status = "DLQ" => events'["dlq-temp"].status = "DLQ"
  BY ObservedBodies, WorkersProceed DEF Waiting
<1>10. QED
  BY <1>1, <1>2, <1>3, <1>4, <1>5, <1>6, <1>7, <1>8, <1>9 DEF ObservabilityKnows

(* Unless it was given up, the event with the lower sequence was found to  *)
(* be out of order.                                                        *)
LEMMA ObservedOutOfOrder ==
  ASSUME LockInv, ObservabilityKnows, step > 5, step \in Nat, ~DeadEvent
  PROVE  events["evt-002"].reason = "STALE_SEQUENCE"
<1>1. "evt-002" \in Stored /\ "evt-002" \notin Planted
  BY ScriptsAssumption DEF ObservabilityKnows, ObservedRows
<1>2. events["evt-002"].status \in ProcessingStatuses \ ({"ABSENT", "DLQ"} \union Waiting)
  <2>1. events["evt-002"].status \in ProcessingStatuses
    BY ObservedBodies DEF LockInv, TypeInv, TypeOK, EventRow
  <2>2. QED BY <1>1, <2>1 DEF ObservabilityKnows, DeadEvent, Stored
<1>3. QED BY <1>2 DEF ObservabilityKnows, ProcessingStatuses, Waiting

LEMMA ObservedGrowth ==
  ASSUME LockInv, ObservabilityKnows, step = 7, ~DeadEvent
  PROVE  EventsReceived \in Nat /\ DuplicateEvents \in Nat /\ OutOfOrderEvents \in Nat
         /\ EventsReceived >= 3 /\ DuplicateEvents >= 1 /\ OutOfOrderEvents >= 1
<1> DEFINE first == <<<<"evt-001", "CREATED">>, 1>>
           again == <<<<"evt-001", "DUPLICATE">>, 1>>
           second == <<<<"evt-002", "CREATED">>, 1>>
           all == DeliveriesWith(DeliveryResults)
           late == {e \in EventIds : events[e].reason = "STALE_SEQUENCE"}
<1>1. IsFiniteSet(all) /\ IsFiniteSet(Stored)
  BY DEF ObservabilityKnows, CountedOK
<1>2. {"CREATED", "DUPLICATE"} \subseteq DeliveryResults
  BY DEF DeliveryResults
<1>3. ASSUME NEW e \in EventIds, NEW result \in DeliveryResults, deliveries[e][result] >= 1,
             NEW results, result \in results
      PROVE  <<<<e, result>>, 1>> \in DeliveriesWith(results)
  <2>1. deliveries[e][result] \in Nat
    BY DEF LockInv, TypeInv, TypeOK
  <2>2. <<e, result>> \in EventIds \X results /\ 1 \in 1 .. deliveries[e][result]
    BY <1>3, <2>1
  <2>3. \E p \in EventIds \X results : \E k \in 1 .. deliveries[p[1]][p[2]] :
          <<<<e, result>>, 1>> = <<p, k>>
    BY <2>2
  <2>4. QED BY <2>3, DeliveryRow
<1>4. /\ deliveries["evt-001"]["CREATED"] >= 1 /\ deliveries["evt-001"]["DUPLICATE"] >= 1
      /\ deliveries["evt-002"]["CREATED"] >= 1
  BY DEF ObservabilityKnows
<1>5. /\ first \in all /\ again \in all /\ second \in all
      /\ again \in DeliveriesWith({"DUPLICATE"})
  BY <1>2, <1>3, <1>4, ObservedBodies
<1>6. first # again /\ first # second /\ again # second
  OBVIOUS
<1>7. late \subseteq Stored /\ "evt-002" \in late
  <2>1. "evt-002" \in late
    BY ObservedBodies, ObservedOutOfOrder
  <2>2. QED BY <2>1 DEF ObservabilityKnows, CountedOK, Stored
<1>8. DeliveriesWith({"DUPLICATE"}) \subseteq all
  <2>1. \A x \in DeliveriesWith({"DUPLICATE"}) : x \in all
    BY <1>2, DeliveryRow
  <2>2. QED BY <2>1
<1> HIDE DEF first, again, second, all, late
<1>9. /\ IsFiniteSet({first, again, second}) /\ Cardinality({first, again, second}) = 3
  <2>1. IsFiniteSet({first}) /\ Cardinality({first}) = 1
    BY FS_Singleton
  <2>2. IsFiniteSet({first} \union {again}) /\ Cardinality({first} \union {again}) = 2
    BY <1>6, <2>1, FS_AddElement
  <2>3. PICK two : two = {first} \union {again}
    OBVIOUS
  <2>4. IsFiniteSet(two) /\ Cardinality(two) = 2 /\ second \notin two
    BY <1>6, <2>2, <2>3
  <2>5. IsFiniteSet(two \union {second}) /\ Cardinality(two \union {second}) = 2 + 1
    BY <2>4, FS_AddElement
  <2>6. two \union {second} = {first, again, second}
    BY <2>3
  <2>7. QED BY <2>5, <2>6
<1>10. EventsReceived \in Nat /\ EventsReceived >= 3
  <2>1. {first, again, second} \subseteq all
    BY <1>5
  <2>2. Cardinality(all) \in Nat /\ Cardinality(all) >= 3
    BY <1>1, <1>9, <2>1, MoreIsNotLess
  <2>3. QED BY <2>2 DEF EventsReceived, all
<1>11. DuplicateEvents \in Nat /\ DuplicateEvents >= 1
  <2>1. IsFiniteSet(DeliveriesWith({"DUPLICATE"}))
    BY <1>1, <1>8, FS_Subset
  <2>2. {again} \subseteq DeliveriesWith({"DUPLICATE"}) /\ Cardinality({again}) = 1
    BY <1>5, FS_Singleton
  <2>3. QED BY <2>1, <2>2, MoreIsNotLess DEF DuplicateEvents
<1>12. OutOfOrderEvents \in Nat /\ OutOfOrderEvents >= 1
  <2>1. IsFiniteSet(late)
    BY <1>1, <1>7, FS_Subset
  <2>2. {"evt-002"} \subseteq late /\ Cardinality({"evt-002"}) = 1
    BY <1>7, FS_Singleton
  <2>3. Cardinality(late) \in Nat /\ Cardinality(late) >= 1
    BY <2>1, <2>2, MoreIsNotLess
  <2>4. QED BY <2>3 DEF OutOfOrderEvents, late
<1>13. QED BY <1>10, <1>11, <1>12

LEMMA ObservabilityHolds ==
  ASSUME LockInv, ObservabilityKnows, Steps = ObservabilityScript, step \in Nat \ {0}, Query
  PROVE  step \in {6, 7, 9, 11} /\ (Holds \/ DeadEvent)
<1>1. step \in 1 .. 11 /\ Current = ObservabilityScript[step] /\ Current.op \in Queries
  BY ObservabilitySteps DEF Query, Doing, Current
<1>2. step \in {6, 7, 9, 11}
  <2>1. Current.op \in {"event", "grew", "dlqSize"}
    BY <1>1, ObservabilityOperations DEF Queries, ObservabilityOps
  <2>2. QED BY <1>1, <2>1, ObservabilityOperations
<1>3. CASE step = 6
  <2>1. Current = Do("event", "evt-002", [reason |-> "STALE_SEQUENCE"])
    BY <1>1, <1>3, ObservabilitySteps
  <2>2. Holds <=> events["evt-002"].reason = "STALE_SEQUENCE"
    <3>1. Holds <=> Shows(events["evt-002"], [reason |-> "STALE_SEQUENCE"])
      BY <2>1, DoFields, HoldsIs
    <3>2. QED BY <3>1, ShowsAll
  <2>3. QED BY <1>2, <1>3, <2>2, ObservedOutOfOrder
<1>4. CASE step = 7 /\ ~DeadEvent
  <2> DEFINE want == [received |-> 3, duplicates |-> 1, outOfOrder |-> 1]
  <2>1. Current = Do("grew", "metrics", want)
    BY <1>1, <1>4, ObservabilitySteps
  <2>2. Holds <=> \A m \in DOMAIN want : Measured[m] - base[m] >= want[m]
    BY <2>1, DoFields, HoldsIs
  <2>3. /\ Measured["received"] = EventsReceived /\ Measured["duplicates"] = DuplicateEvents
        /\ Measured["outOfOrder"] = OutOfOrderEvents
    BY DEF Measured
  <2>4. base["received"] = 0 /\ base["duplicates"] = 0 /\ base["outOfOrder"] = 0
    BY DEF ObservabilityKnows
  <2>5. /\ Measured["received"] - base["received"] >= 3
        /\ Measured["duplicates"] - base["duplicates"] >= 1
        /\ Measured["outOfOrder"] - base["outOfOrder"] >= 1
    BY <1>4, <2>3, <2>4, ObservedGrowth
  <2>6. QED BY <1>2, <2>2, <2>5
<1>5. CASE step \in {9, 11} /\ ~DeadEvent
  <2> DEFINE dead == {e \in EventIds : events[e].status = "DLQ"}
  <2>1. Current = Do("dlqSize", "metrics", IF step = 9 THEN 1 ELSE 0)
    BY <1>1, <1>5, ObservabilitySteps
  <2>2. Holds <=> DlqSize = base.dlq + (IF step = 9 THEN 1 ELSE 0)
    BY <2>1, DoFields, HoldsIs
  <2>3. base.dlq = 0
    BY DEF ObservabilityKnows
  <2>4. dead \subseteq Stored \intersect Planted
    BY <1>5 DEF DeadEvent, Stored
  <2>5. CASE step = 9
    <3>1. dead = {"dlq-temp"}
      BY <2>4, <2>5, ScriptsAssumption, ObservedBodies DEF ObservabilityKnows, ObservedRows
    <3>2. Cardinality(dead) = 1
      BY <3>1, FS_Singleton
    <3>3. QED BY <1>2, <2>2, <2>3, <2>5, <3>2 DEF DlqSize
  <2>6. CASE step = 11
    <3>1. dead = {}
      BY <2>4, <2>6, ScriptsAssumption DEF ObservabilityKnows, ObservedRows
    <3>2. Cardinality(dead) = 0
      BY <3>1, FS_EmptySet
    <3>3. QED BY <1>2, <2>2, <2>3, <2>6, <3>2 DEF DlqSize
  <2>7. QED BY <1>5, <2>5, <2>6
<1>6. QED BY <1>2, <1>3, <1>4, <1>5

LEMMA ObservabilityStep ==
  ASSUME script = "observability", exit = "running", LockInv, ObservabilityKnows,
         step \in Nat \ {0}, ScriptNext, causes = {}, causes' = {}
  PROVE  \/ exit' = "running" /\ LockInv' /\ ObservabilityKnows'
         \/ exit' = "passed"
         \/ exit' = "failed" /\ DeadEvent'
<1>1. Steps = ObservabilityScript
  BY ScriptOf
<1>2. CASE Finish
  <2>1. failed => DeadEvent
    BY DEF ObservabilityKnows
  <2>2. exit' = (IF failed THEN "failed" ELSE "passed") /\ events' = events
    BY <1>2 DEF Finish, vars, tables
  <2>3. DeadEvent => DeadEvent'
    BY <2>2 DEF DeadEvent, Stored
  <2>4. QED BY <2>1, <2>2, <2>3
<1>3. CASE WorkersStep
  BY <1>3, ObservabilityQueue DEF WorkersStep, runVars
<1>4. CASE step <= Len(Steps) /\ exit' = exit /\ ByOperation
  <2>1. step \in 1 .. 11 /\ Current = ObservabilityScript[step]
    BY <1>1, <1>4, ObservabilitySteps DEF Current
  <2>2. Current.op \in ObservabilityOps
    BY <2>1, ObservabilityOperations
  <2>3. CASE Current.op = "measure"
    <3>1. Measure /\ step = 1
      BY <1>4, <2>1, <2>3, ObservabilityOperations DEF ByOperation
    <3>2. UNCHANGED vars
      BY <3>1 DEF Measure
    <3>3. QED BY <1>4, <3>1, <3>2, NothingMoves, ObservabilityMeasures
  <2>4. CASE Current.op = "send"
    <3>1. PICK i \in DOMAIN Current.of, stale \in BOOLEAN : Send(i, stale)
      BY <1>4, <2>4 DEF ByOperation
    <3>2. step \in {2, 3, 4}
      BY <2>1, <2>4, ObservabilityOperations
    <3>3. QED BY <1>1, <1>4, <3>1, <3>2, ObservabilitySends
  <2>5. CASE Current.op = "wait"
    <3>1. /\ WaitEnds /\ step = 5
          /\ \A e \in Current.of : events[e].status \notin Waiting
      BY <1>4, <2>1, <2>5, ObservabilityOperations DEF ByOperation
    <3>2. Current.of = {"evt-001", "evt-002"}
      BY <2>1, <3>1, ObservabilitySteps, DoFields
    <3>3. /\ step' = step + 1 /\ done' = {} /\ base' = base /\ failed' = failed
          /\ UNCHANGED vars
      BY <3>1 DEF WaitEnds, Advance
    <3>4. step \notin {1, 2, 3, 4, 8, 10}
      BY <3>1
    <3>5. LockInv'
      BY <3>3, NothingMoves
    <3>6. ObservabilityKnows'
      BY <3>1, <3>2, <3>3, <3>4, ObservabilityPass
    <3>7. QED BY <1>4, <3>5, <3>6
  <2>6. CASE Current.op \in {"event", "grew", "dlqSize"}
    <3>1. Query
      BY <1>4, <2>6 DEF ByOperation, Queries
    <3>2. step \in {6, 7, 9, 11} /\ (Holds \/ DeadEvent)
      BY <1>1, <3>1, ObservabilityHolds
    <3>3. /\ step' = step + 1 /\ done' = {} /\ base' = base
          /\ failed' => failed \/ ~Holds
          /\ UNCHANGED vars
      BY <3>1 DEF Query, Advance, Check, Keep
    <3>4. step \notin {1, 2, 3, 4, 5, 8, 10} /\ step >= 6
      BY <3>2
    <3>5. LockInv'
      BY <3>3, NothingMoves
    <3>6. ObservabilityKnows'
      BY <3>2, <3>3, <3>4, ObservabilityPass
    <3>7. QED BY <1>4, <3>5, <3>6
  <2>7. CASE Current.op = "insertEvent"
    <3>1. InsertEvent /\ step = 8
      BY <1>4, <2>1, <2>7, ObservabilityOperations DEF ByOperation
    <3>2. QED BY <1>1, <1>4, <3>1, ObservabilityInserts
  <2>8. CASE Current.op = "deleteEvent"
    <3>1. DeleteEvent /\ step = 10
      BY <1>4, <2>1, <2>8, ObservabilityOperations DEF ByOperation
    <3>2. QED BY <1>1, <1>4, <3>1, ObservabilityDeletes
  <2>9. QED BY <2>2, <2>3, <2>4, <2>5, <2>6, <2>7, <2>8 DEF ObservabilityOps
<1>5. QED BY <1>2, <1>3, <1>4, Operations

-----------------------------------------------------------------------------
(* Reconciliation                                                          *)

(* The orders that a run over snapshot s gives a verdict.                  *)
Judged(s, verdict) ==
  {o \in Orders : Listed(o, s.list) /\ Verdict(orders[o], s.state[o]) = verdict}

Reconciled(s, o) ==
  IF o \in Judged(s, "REPAIRED") THEN RepairedRow(s.state[o])
  ELSE IF Listed(o, s.list) THEN InsertOrderIfMissing(orders[o])
  ELSE orders[o]

LEMMA CommittedRun ==
  ASSUME LockInv, ProgressOK, NEW r \in Reconcilers, CommitRun(r),
         NEW s, recon[r].snapshot = s
  PROVE  /\ \A o \in Orders :
              /\ orders'[o] = Reconciled(s, o)
              /\ IF o \in Judged(s, "REPAIRED") THEN Len(history'[o]) = Len(history[o]) + 1
                                                 ELSE history'[o] = history[o]
         /\ Len(runs') = Len(runs) + 1 /\ Len(runs) \in Nat
         /\ \A i \in 1 .. Len(runs) : runs'[i] = runs[i]
         /\ runs'[Len(runs) + 1].repaired = Judged(s, "REPAIRED")
         /\ runs'[Len(runs) + 1].ok = Judged(s, "ALREADY_OK")
         /\ runs'[Len(runs) + 1].stale = Judged(s, "STALE_PROVIDER_SNAPSHOT")
         /\ UNCHANGED events
         /\ recon' = [recon EXCEPT ![r] = NoRecon]
<1>1. recon[r].pc = "running" /\ recon[r].todo = << >>
  BY DEF CommitRun
<1>2. \A o \in Orders : ~Listed(o, recon[r].todo)
  BY <1>1 DEF Listed
<1>3. \A o \in Orders : o \in VisitedBy(r) <=> Listed(o, s.list)
  BY <1>1, <1>2 DEF ProgressOK, Progress
<1>4. \A o \in VisitedBy(r) : recon[r].seen[o] = orders[o]
  BY DEF LockInv, ReconReads
<1>5. VisitedBy(r) \subseteq Orders
  BY DEF VisitedBy
<1>6. \A v : WithVerdict(r, v) = Judged(s, v)
  BY <1>3, <1>4, <1>5 DEF WithVerdict, Judged
<1>7. Repairs(r) = Judged(s, "REPAIRED")
  BY <1>6 DEF Repairs
<1>8. /\ history \in [Orders -> Seq(HistoryRow)] /\ runs \in Seq(Run)
  BY DEF LockInv, TypeInv, TypeOK
<1>9. ASSUME NEW o \in Orders
      PROVE  /\ orders'[o] = Reconciled(s, o)
             /\ IF o \in Judged(s, "REPAIRED") THEN Len(history'[o]) = Len(history[o]) + 1
                                                ELSE history'[o] = history[o]
  <2>1. orders'[o] = IF o \in Repairs(r) THEN RepairedRow(s.state[o])
                     ELSE IF o \in VisitedBy(r) THEN InsertOrderIfMissing(orders[o])
                     ELSE orders[o]
    BY DEF CommitRun
  <2>2. orders'[o] = Reconciled(s, o)
    BY <1>3, <1>7, <2>1 DEF Reconciled
  <2>3. PICK row : history'[o] = IF o \in Repairs(r) THEN Append(history[o], row)
                                                     ELSE history[o]
    BY DEF CommitRun
  <2>4. history[o] \in Seq(HistoryRow)
    BY <1>8
  <2>5. Len(Append(history[o], row)) = Len(history[o]) + 1 /\ Len(history[o]) \in Nat
    BY <2>4
  <2>6. CASE o \in Judged(s, "REPAIRED")
    BY <1>7, <2>2, <2>3, <2>5, <2>6
  <2>7. CASE o \notin Judged(s, "REPAIRED")
    BY <1>7, <2>2, <2>3, <2>5, <2>7
  <2>8. QED BY <2>6, <2>7
<1>10. PICK run : /\ runs' = Append(runs, run)
                  /\ run.repaired = Judged(s, "REPAIRED")
                  /\ run.ok = Judged(s, "ALREADY_OK")
                  /\ run.stale = Judged(s, "STALE_PROVIDER_SNAPSHOT")
  BY <1>6 DEF CommitRun
<1>11. /\ Len(runs') = Len(runs) + 1 /\ Len(runs) \in Nat
       /\ \A i \in 1 .. Len(runs) : runs'[i] = runs[i]
       /\ runs'[Len(runs) + 1] = run
  BY <1>8, <1>10
<1>12. UNCHANGED events /\ recon' = [recon EXCEPT ![r] = NoRecon]
  BY DEF CommitRun, EndRun
<1>13. QED BY <1>9, <1>10, <1>11, <1>12

Four == {"missing", "divergent", "identical", "stale"}

(* What the provider's two files say.                                      *)
LEMMA FilesSay ==
  /\ FourOrders \in Snapshots /\ ConcurrentOrder \in Snapshots
  /\ FourOrders # ConcurrentOrder
  /\ Four \subseteq Orders /\ "concurrent" \in Orders
  /\ \A o : Listed(o, FourOrders.list) <=> o \in Four
  /\ \A o : Listed(o, ConcurrentOrder.list) <=> o = "concurrent"
  /\ FourOrders.state["missing"] = Reported("captured", 3, "150.00")
  /\ FourOrders.state["divergent"] = Reported("captured", 3, "100.00")
  /\ FourOrders.state["identical"] = Reported("captured", 3, "200.00")
  /\ FourOrders.state["stale"] = Reported("authorized", 2, "300.00")
  /\ ConcurrentOrder.state["concurrent"] = Reported("captured", 3, "500.00")
  /\ {"50.00", "200.00", "300.00"} \subseteq Amounts
<1>1. FourOrders \in Snapshots /\ ConcurrentOrder \in Snapshots
  BY ScriptsAssumption
<1>2. /\ FourOrders.list = <<"missing", "divergent", "identical", "stale">>
      /\ ConcurrentOrder.list = <<"concurrent">>
  BY DEF FourOrders, ConcurrentOrder, Provider
<1>3. FourOrders.list \in Seq(Orders) /\ ConcurrentOrder.list \in Seq(Orders)
  BY <1>1, ReconciliationAssumption DEF Snapshot
<1>4. Four \subseteq Orders /\ "concurrent" \in Orders
  <2>1. FourOrders.list[1] \in Orders /\ FourOrders.list[2] \in Orders
        /\ FourOrders.list[3] \in Orders /\ FourOrders.list[4] \in Orders
        /\ ConcurrentOrder.list[1] \in Orders
    <3>1. Len(FourOrders.list) = 4 /\ Len(ConcurrentOrder.list) = 1
      BY <1>2
    <3>2. QED BY <1>3, <3>1
  <2>2. QED BY <1>2, <2>1 DEF Four
<1>5. /\ \A o : Listed(o, FourOrders.list) <=> o \in Four
      /\ \A o : Listed(o, ConcurrentOrder.list) <=> o = "concurrent"
  BY <1>2 DEF Listed, Four
<1>6. FourOrders # ConcurrentOrder
  BY <1>5 DEF Four
<1>7. /\ FourOrders.state["missing"] = Reported("captured", 3, "150.00")
      /\ FourOrders.state["divergent"] = Reported("captured", 3, "100.00")
      /\ FourOrders.state["identical"] = Reported("captured", 3, "200.00")
      /\ FourOrders.state["stale"] = Reported("authorized", 2, "300.00")
  BY <1>4 DEF FourOrders, Provider, Four
<1>8. ConcurrentOrder.state["concurrent"] = Reported("captured", 3, "500.00")
  BY <1>4 DEF ConcurrentOrder, Provider
<1>9. FourOrders.state["identical"] \in ProviderRow /\ FourOrders.state["stale"] \in ProviderRow
  BY <1>1, <1>4, SnapshotFacts DEF Four
<1>10. "200.00" \in Amounts /\ "300.00" \in Amounts
  BY <1>7, <1>9 DEF ProviderRow, Reported
<1>11. QED
  BY <1>1, <1>4, <1>5, <1>6, <1>7, <1>8, <1>10, ScriptsAssumption

LEMMA ExistsAlready ==
  ASSUME LockInv, NEW o \in Orders, orders[o].exists = TRUE
  PROVE  InsertOrderIfMissing(orders[o]) = orders[o]
<1>1. orders[o] \in OrderRow
  BY DEF LockInv, TypeInv, TypeOK
<1>2. ASSUME NEW row \in OrderRow, row.exists = TRUE
      PROVE  InsertOrderIfMissing(row) = row
  BY <1>2 DEF InsertOrderIfMissing, OrderRow
<1>3. QED BY <1>1, <1>2

LEMMA VerdictsFirst ==
  ASSUME LockInv, ReconciliationKnows, step = 5
  PROVE  /\ Judged(FourOrders, "REPAIRED") = {"missing", "divergent"}
         /\ Judged(FourOrders, "ALREADY_OK") = {"identical"}
         /\ Judged(FourOrders, "STALE_PROVIDER_SNAPSHOT") = {"stale"}
         /\ Reconciled(FourOrders, "missing") = Repaired(3, "150.00")
         /\ Reconciled(FourOrders, "divergent") = Repaired(3, "100.00")
         /\ Reconciled(FourOrders, "identical") = Identical
         /\ Reconciled(FourOrders, "stale") = Ahead
         /\ Reconciled(FourOrders, "concurrent") = NoOrderRow
<1>1. /\ orders["missing"] = NoOrderRow /\ orders["divergent"] = Divergent
      /\ orders["identical"] = Identical /\ orders["stale"] = Ahead
      /\ orders["concurrent"] = NoOrderRow
  BY DEF ReconciliationKnows
<1>2. Verdict(orders["missing"], FourOrders.state["missing"]) = "REPAIRED"
  BY <1>1, FilesSay DEF Verdict, NoOrderRow, Reported
<1>3. Verdict(orders["divergent"], FourOrders.state["divergent"]) = "REPAIRED"
  BY <1>1, FilesSay DEF Verdict, Divergent, LocalOrder, Reported
<1>4. Verdict(orders["identical"], FourOrders.state["identical"]) = "ALREADY_OK"
  BY <1>1, FilesSay DEF Verdict, Identical, LocalOrder, Reported
<1>5. Verdict(orders["stale"], FourOrders.state["stale"]) = "STALE_PROVIDER_SNAPSHOT"
  BY <1>1, FilesSay DEF Verdict, Ahead, LocalOrder, Reported
<1>6. /\ Judged(FourOrders, "REPAIRED") = {"missing", "divergent"}
      /\ Judged(FourOrders, "ALREADY_OK") = {"identical"}
      /\ Judged(FourOrders, "STALE_PROVIDER_SNAPSHOT") = {"stale"}
  BY <1>2, <1>3, <1>4, <1>5, FilesSay DEF Judged, Four
<1>7. /\ Reconciled(FourOrders, "missing") = RepairedRow(FourOrders.state["missing"])
      /\ Reconciled(FourOrders, "divergent") = RepairedRow(FourOrders.state["divergent"])
      /\ Reconciled(FourOrders, "identical") = InsertOrderIfMissing(orders["identical"])
      /\ Reconciled(FourOrders, "stale") = InsertOrderIfMissing(orders["stale"])
      /\ Reconciled(FourOrders, "concurrent") = NoOrderRow
  BY <1>1, <1>6, FilesSay DEF Reconciled, Four
<1>8. \A o \in {"identical", "stale"} : InsertOrderIfMissing(orders[o]) = orders[o]
  <2>1. orders["identical"].exists = TRUE /\ orders["stale"].exists = TRUE
    BY <1>1 DEF Identical, Ahead, LocalOrder
  <2>2. QED BY <2>1, ExistsAlready, FilesSay DEF Four
<1>9. /\ RepairedRow(FourOrders.state["missing"]) = Repaired(3, "150.00")
      /\ RepairedRow(FourOrders.state["divergent"]) = Repaired(3, "100.00")
  BY FilesSay DEF RepairedRow, Repaired, Reported
<1>10. QED BY <1>1, <1>6, <1>7, <1>8, <1>9

LEMMA VerdictsSecond ==
  ASSUME LockInv, ReconciliationKnows, step = 14
  PROVE  /\ Judged(FourOrders, "REPAIRED") = {}
         /\ Judged(FourOrders, "ALREADY_OK") = {"missing", "divergent", "identical"}
         /\ Judged(FourOrders, "STALE_PROVIDER_SNAPSHOT") = {"stale"}
         /\ Reconciled(FourOrders, "missing") = Repaired(3, "150.00")
         /\ Reconciled(FourOrders, "divergent") = Repaired(3, "100.00")
         /\ Reconciled(FourOrders, "identical") = Identical
         /\ Reconciled(FourOrders, "stale") = Ahead
         /\ Reconciled(FourOrders, "concurrent") = NoOrderRow
<1>1. /\ orders["missing"] = Repaired(3, "150.00")
      /\ orders["divergent"] = Repaired(3, "100.00")
      /\ orders["identical"] = Identical /\ orders["stale"] = Ahead
      /\ orders["concurrent"] = NoOrderRow
  BY DEF ReconciliationKnows
<1>2. Verdict(orders["missing"], FourOrders.state["missing"]) = "ALREADY_OK"
  BY <1>1, FilesSay DEF Verdict, Repaired, Reported
<1>3. Verdict(orders["divergent"], FourOrders.state["divergent"]) = "ALREADY_OK"
  BY <1>1, FilesSay DEF Verdict, Repaired, Reported
<1>4. Verdict(orders["identical"], FourOrders.state["identical"]) = "ALREADY_OK"
  BY <1>1, FilesSay DEF Verdict, Identical, LocalOrder, Reported
<1>5. Verdict(orders["stale"], FourOrders.state["stale"]) = "STALE_PROVIDER_SNAPSHOT"
  BY <1>1, FilesSay DEF Verdict, Ahead, LocalOrder, Reported
<1>6. /\ Judged(FourOrders, "REPAIRED") = {}
      /\ Judged(FourOrders, "ALREADY_OK") = {"missing", "divergent", "identical"}
      /\ Judged(FourOrders, "STALE_PROVIDER_SNAPSHOT") = {"stale"}
  BY <1>2, <1>3, <1>4, <1>5, FilesSay DEF Judged, Four
<1>7. /\ \A o \in Four : Reconciled(FourOrders, o) = InsertOrderIfMissing(orders[o])
      /\ Reconciled(FourOrders, "concurrent") = NoOrderRow
  BY <1>1, <1>6, FilesSay DEF Reconciled, Four
<1>8. \A o \in Four : InsertOrderIfMissing(orders[o]) = orders[o]
  <2>1. \A o \in Four : orders[o].exists = TRUE
    <3>1. orders["missing"].exists = TRUE /\ orders["divergent"].exists = TRUE
      BY <1>1 DEF Repaired
    <3>2. orders["identical"].exists = TRUE /\ orders["stale"].exists = TRUE
      BY <1>1 DEF Identical, Ahead, LocalOrder
    <3>3. QED BY <3>1, <3>2 DEF Four
  <2>2. QED BY <2>1, ExistsAlready, FilesSay
<1>9. QED BY <1>1, <1>6, <1>7, <1>8 DEF Four

LEMMA VerdictsConcurrent ==
  ASSUME LockInv, ReconciliationKnows, step = 23
  PROVE  /\ Judged(ConcurrentOrder, "REPAIRED") = IF OneRepaired THEN {} ELSE {"concurrent"}
         /\ Reconciled(ConcurrentOrder, "concurrent") = Repaired(3, "500.00")
         /\ \A o \in Four : Reconciled(ConcurrentOrder, o) = orders[o]
<1>1. orders["concurrent"] = IF OneRepaired THEN Repaired(3, "500.00") ELSE Inserted23
  BY DEF ReconciliationKnows
<1>2. \A o \in Four : Reconciled(ConcurrentOrder, o) = orders[o]
  BY FilesSay DEF Reconciled, Judged, Four
<1>3. CASE OneRepaired
  <2>1. Verdict(orders["concurrent"], ConcurrentOrder.state["concurrent"]) = "ALREADY_OK"
    BY <1>1, <1>3, FilesSay DEF Verdict, Repaired, Reported
  <2>2. Judged(ConcurrentOrder, "REPAIRED") = {}
    BY <2>1, FilesSay DEF Judged
  <2>3. Reconciled(ConcurrentOrder, "concurrent") = InsertOrderIfMissing(orders["concurrent"])
    BY <2>2, FilesSay DEF Reconciled
  <2>4. InsertOrderIfMissing(orders["concurrent"]) = orders["concurrent"]
    <3>1. orders["concurrent"].exists = TRUE
      BY <1>1, <1>3 DEF Repaired
    <3>2. QED BY <3>1, ExistsAlready, FilesSay
  <2>5. QED BY <1>1, <1>2, <1>3, <2>2, <2>3, <2>4
<1>4. CASE ~OneRepaired
  <2>1. Verdict(orders["concurrent"], ConcurrentOrder.state["concurrent"]) = "REPAIRED"
    BY <1>1, <1>4, FilesSay DEF Verdict, Inserted23, LocalOrder, Reported
  <2>2. Judged(ConcurrentOrder, "REPAIRED") = {"concurrent"}
    BY <2>1, FilesSay DEF Judged
  <2>3. Reconciled(ConcurrentOrder, "concurrent") = RepairedRow(ConcurrentOrder.state["concurrent"])
    BY <2>2, FilesSay DEF Reconciled
  <2>4. RepairedRow(ConcurrentOrder.state["concurrent"]) = Repaired(3, "500.00")
    BY FilesSay DEF RepairedRow, Repaired, Reported
  <2>5. QED BY <1>2, <1>4, <2>2, <2>3, <2>4
<1>5. QED BY <1>3, <1>4

(* The steps of the script.                                                *)
LEMMA TwentyFiveSteps ==
  ASSUME NEW s1, NEW s2, NEW s3, NEW s4, NEW s5, NEW s6, NEW s7, NEW s8, NEW s9,
         NEW r1, NEW r2, NEW r3, NEW r4, NEW s14, NEW s15, NEW s20,
         NEW s21, NEW s22, NEW s23, NEW s24, NEW s25,
         NEW all,
         all = <<s1, s2, s3, s4>> \o (<<s5, s6, s7, s8, s9>> \o <<r1, r2, r3, r4>>)
                  \o (<<s14, s15>> \o <<r1, r2, r3, r4>> \o <<s20>>)
                  \o <<s21, s22, s23, s24, s25>>
  PROVE  /\ Len(all) = 25
         /\ all[1] = s1 /\ all[2] = s2 /\ all[3] = s3 /\ all[4] = s4 /\ all[5] = s5
         /\ all[6] = s6 /\ all[7] = s7 /\ all[8] = s8 /\ all[9] = s9 /\ all[10] = r1
         /\ all[11] = r2 /\ all[12] = r3 /\ all[13] = r4 /\ all[14] = s14 /\ all[15] = s15
         /\ all[16] = r1 /\ all[17] = r2 /\ all[18] = r3 /\ all[19] = r4 /\ all[20] = s20
         /\ all[21] = s21 /\ all[22] = s22 /\ all[23] = s23 /\ all[24] = s24 /\ all[25] = s25
OBVIOUS

LEMMA ReconciliationSteps ==
  /\ Len(ReconciliationScript) = 25
  /\ ReconciliationScript[1] = Do("insertOrder", "divergent", Divergent)
  /\ ReconciliationScript[2] = Do("insertOrder", "identical", Identical)
  /\ ReconciliationScript[3] = Do("insertOrder", "stale", Ahead)
  /\ ReconciliationScript[4] = Do("file", "provider", FourOrders)
  /\ ReconciliationScript[5] = Do("reconcile", {requestA}, 200)
  /\ ReconciliationScript[6] =
       Do("reports", 1, [repaired |-> 2, ok |-> 1, stale |-> 1])
  /\ ReconciliationScript[7] = Do("order", "missing", Repaired(3, "150.00"))
  /\ ReconciliationScript[8] = Do("order", "divergent", Repaired(3, "100.00"))
  /\ ReconciliationScript[9] = Do("order", "stale", [status |-> "refunded", seq |-> 5])
  /\ \A k \in {10, 16} :
       /\ ReconciliationScript[k] = Do("rows", "missing", 1)
       /\ ReconciliationScript[k + 1] = Do("rows", "divergent", 1)
       /\ ReconciliationScript[k + 2] = Do("rows", "identical", 0)
       /\ ReconciliationScript[k + 3] = Do("rows", "stale", 0)
  /\ ReconciliationScript[14] = Do("reconcile", {requestA}, 200)
  /\ ReconciliationScript[15] =
       Do("reports", 1, [repaired |-> 0, ok |-> 3, stale |-> 1])
  /\ ReconciliationScript[20] = Do("order", "missing", [status |-> "captured"])
  /\ ReconciliationScript[21] = Do("insertOrder", "concurrent", Inserted23)
  /\ ReconciliationScript[22] = Do("file", "provider", ConcurrentOrder)
  /\ ReconciliationScript[23] = Do("reconcile", {requestA, requestB}, 200)
  /\ ReconciliationScript[24] = Do("reports", 2, [repaired |-> 1])
  /\ ReconciliationScript[25] = Do("rows", "concurrent", 1)
<1> DEFINE s1 == Do("insertOrder", "divergent", Divergent)
           s2 == Do("insertOrder", "identical", Identical)
           s3 == Do("insertOrder", "stale", Ahead)
           s4 == Do("file", "provider", FourOrders)
           s5 == Do("reconcile", {requestA}, 200)
           s6 == Do("reports", 1, [repaired |-> 2, ok |-> 1, stale |-> 1])
           s7 == Do("order", "missing", Repaired(3, "150.00"))
           s8 == Do("order", "divergent", Repaired(3, "100.00"))
           s9 == Do("order", "stale", [status |-> "refunded", seq |-> 5])
           r1 == Do("rows", "missing", 1)
           r2 == Do("rows", "divergent", 1)
           r3 == Do("rows", "identical", 0)
           r4 == Do("rows", "stale", 0)
           s15 == Do("reports", 1, [repaired |-> 0, ok |-> 3, stale |-> 1])
           s20 == Do("order", "missing", [status |-> "captured"])
           s21 == Do("insertOrder", "concurrent", Inserted23)
           s22 == Do("file", "provider", ConcurrentOrder)
           s23 == Do("reconcile", {requestA, requestB}, 200)
           s24 == Do("reports", 2, [repaired |-> 1])
           s25 == Do("rows", "concurrent", 1)
<1>1. Setup = <<s1, s2, s3, s4>>
  BY DEF Setup, Divergent, Identical, Ahead
<1>2. RepairedRows = <<r1, r2, r3, r4>>
  BY DEF RepairedRows
<1>3. FirstRun = <<s5, s6, s7, s8, s9>> \o RepairedRows
  BY DEF FirstRun
<1>4. SecondRun = <<s5, s15>> \o RepairedRows \o <<s20>>
  BY DEF SecondRun
<1>5. ConcurrentRuns = <<s21, s22, s23, s24, s25>>
  BY DEF ConcurrentRuns, Inserted23
<1> HIDE DEF s1, s2, s3, s4, s5, s6, s7, s8, s9, r1, r2, r3, r4, s15, s20, s21, s22,
             s23, s24, s25
<1> DEFINE all == ReconciliationScript
<1>6. all = <<s1, s2, s3, s4>> \o (<<s5, s6, s7, s8, s9>> \o <<r1, r2, r3, r4>>)
              \o (<<s5, s15>> \o <<r1, r2, r3, r4>> \o <<s20>>)
              \o <<s21, s22, s23, s24, s25>>
  BY <1>1, <1>2, <1>3, <1>4, <1>5 DEF ReconciliationScript
<1> HIDE DEF all
<1>7. /\ Len(all) = 25
      /\ all[1] = s1 /\ all[2] = s2 /\ all[3] = s3 /\ all[4] = s4 /\ all[5] = s5
      /\ all[6] = s6 /\ all[7] = s7 /\ all[8] = s8 /\ all[9] = s9 /\ all[10] = r1
      /\ all[11] = r2 /\ all[12] = r3 /\ all[13] = r4 /\ all[14] = s5 /\ all[15] = s15
      /\ all[16] = r1 /\ all[17] = r2 /\ all[18] = r3 /\ all[19] = r4 /\ all[20] = s20
      /\ all[21] = s21 /\ all[22] = s22 /\ all[23] = s23 /\ all[24] = s24 /\ all[25] = s25
  BY <1>6, TwentyFiveSteps
<1>8. \A k \in {10, 16} : all[k] = r1 /\ all[k + 1] = r2 /\ all[k + 2] = r3 /\ all[k + 3] = r4
  BY <1>7
<1>9. QED
  BY <1>7, <1>8 DEF all, s1, s2, s3, s4, s5, s6, s7, s8, s9, r1, r2, r3, r4, s15, s20,
                    s21, s22, s23, s24, s25

ReconciliationOps == {"insertOrder", "file", "reconcile", "reports", "order", "rows"}

LEMMA ReconciliationOperations ==
  \A k \in 1 .. 25 :
    /\ ReconciliationScript[k].op \in ReconciliationOps
    /\ ReconciliationScript[k].op = "insertOrder" <=> k \in {1, 2, 3, 21}
    /\ ReconciliationScript[k].op = "file" <=> k \in {4, 22}
    /\ ReconciliationScript[k].op = "reconcile" <=> k \in {5, 14, 23}
    /\ ReconciliationScript[k].op = "reports" <=> k \in {6, 15, 24}
    /\ ReconciliationScript[k].op = "order" <=> k \in {7, 8, 9, 20}
    /\ ReconciliationScript[k].op = "rows" <=> k \in (10 .. 13) \union (16 .. 19) \union {25}
<1> DEFINE op(k) == ReconciliationScript[k].op
<1>1. \A k \in {1, 2, 3, 21} : op(k) = "insertOrder"
  BY ReconciliationSteps, DoFields
<1>2. \A k \in {4, 22} : op(k) = "file"
  BY ReconciliationSteps, DoFields
<1>3. \A k \in {5, 14, 23} : op(k) = "reconcile"
  BY ReconciliationSteps, DoFields
<1>4. \A k \in {6, 15, 24} : op(k) = "reports"
  BY ReconciliationSteps, DoFields
<1>5. \A k \in {7, 8, 9, 20} : op(k) = "order"
  BY ReconciliationSteps, DoFields
<1>6. \A k \in (10 .. 13) \union (16 .. 19) \union {25} : op(k) = "rows"
  <2>1. \A k \in {10, 16} : /\ op(k) = "rows" /\ op(k + 1) = "rows"
                            /\ op(k + 2) = "rows" /\ op(k + 3) = "rows"
    BY ReconciliationSteps, DoFields
  <2>2. /\ op(10) = "rows" /\ op(10 + 1) = "rows" /\ op(10 + 2) = "rows" /\ op(10 + 3) = "rows"
        /\ op(16) = "rows" /\ op(16 + 1) = "rows" /\ op(16 + 2) = "rows" /\ op(16 + 3) = "rows"
    BY <2>1
  <2>3. op(25) = "rows"
    BY ReconciliationSteps, DoFields
  <2> HIDE DEF op
  <2>4. QED BY <2>2, <2>3
<1> HIDE DEF op
<1>7. \A k \in 1 .. 25 :
        \/ k \in {1, 2, 3, 21} \/ k \in {4, 22} \/ k \in {5, 14, 23} \/ k \in {6, 15, 24}
        \/ k \in {7, 8, 9, 20} \/ k \in (10 .. 13) \union (16 .. 19) \union {25}
  OBVIOUS
<1>8. QED
  BY <1>1, <1>2, <1>3, <1>4, <1>5, <1>6, <1>7 DEF op, ReconciliationOps

LEMMA ReconciliationPass ==
  ASSUME LockInv, ReconciliationKnows, step \in Nat \ {0},
         step \notin {1, 2, 3, 5, 14, 21, 23},
         step' = step + 1, done' = {}, failed' = FALSE, UNCHANGED vars,
         file' = IF step = 4 THEN FourOrders
                 ELSE IF step = 22 THEN ConcurrentOrder ELSE file
  PROVE  ReconciliationKnows'
<1>1. /\ events' = events /\ orders' = orders /\ history' = history
      /\ recon' = recon /\ runs' = runs
  BY DEF vars, tables, reconVars
<1>2. ProgressOK'
  BY <1>1 DEF ReconciliationKnows, ProgressOK, Progress, VisitedBy
<1>3. \A r \in Reconcilers : recon'[r].pc = "idle"
  BY <1>1 DEF ReconciliationKnows
<1>4. OneRepaired' <=> OneRepaired
  BY DEF OneRepaired, ReconciliationKnows
<1>5. file' = IF step' <= 4 THEN Null ELSE IF step' <= 22 THEN FourOrders ELSE ConcurrentOrder
  BY DEF ReconciliationKnows
<1>6. step' # 23 \/ step = 22
  OBVIOUS
<1>7. orders["concurrent"] = IF step' <= 21 THEN NoOrderRow
                             ELSE IF OneRepaired THEN Repaired(3, "500.00") ELSE Inserted23
  BY DEF ReconciliationKnows
<1>8. /\ orders["missing"] = IF step' <= 5 THEN NoOrderRow ELSE Repaired(3, "150.00")
      /\ orders["divergent"] = IF step' <= 1 THEN NoOrderRow
                               ELSE IF step' <= 5 THEN Divergent ELSE Repaired(3, "100.00")
      /\ orders["identical"] = IF step' <= 2 THEN NoOrderRow ELSE Identical
      /\ orders["stale"] = IF step' <= 3 THEN NoOrderRow ELSE Ahead
  BY DEF ReconciliationKnows
<1>9. /\ Len(history["missing"]) = IF step' <= 5 THEN 0 ELSE 1
      /\ Len(history["divergent"]) = IF step' <= 5 THEN 0 ELSE 1
      /\ Len(runs) = IF step' <= 5 THEN 0 ELSE IF step' <= 14 THEN 1
                     ELSE IF ~OneRepaired THEN 2 ELSE IF step' = 23 THEN 3 ELSE 4
  BY DEF ReconciliationKnows, OneRepaired
<1>10. QED
  BY <1>1, <1>2, <1>3, <1>4, <1>5, <1>7, <1>8, <1>9 DEF ReconciliationKnows

LEMMA ReconciliationInserts ==
  ASSUME LockInv, ReconciliationKnows, Steps = ReconciliationScript,
         step \in {1, 2, 3, 21}, InsertOrder
  PROVE  LockInv' /\ ReconciliationKnows'
<1> DEFINE o == Current.of
           row == Current.want
<1>1. Current = ReconciliationScript[step]
  BY DEF Current
<1>2. /\ step = 1 => o = "divergent" /\ row = Divergent
      /\ step = 2 => o = "identical" /\ row = Identical
      /\ step = 3 => o = "stale" /\ row = Ahead
      /\ step = 21 => o = "concurrent" /\ row = Inserted23
  BY <1>1, ReconciliationSteps, DoFields
<1>3. o \in Orders
  BY <1>2, FilesSay DEF Four
<1>4. row \in OrderRow
  <2>1. Divergent \in OrderRow
    BY FilesSay DEF Divergent, LocalOrder, OrderRow, OrderStatuses, Amount
  <2>2. Identical \in OrderRow
    BY FilesSay DEF Identical, LocalOrder, OrderRow, OrderStatuses, Amount
  <2>3. Ahead \in OrderRow
    BY FilesSay DEF Ahead, LocalOrder, OrderRow, OrderStatuses, Amount
  <2>4. Inserted23 \in OrderRow
    BY DEF Inserted23, LocalOrder, OrderRow, OrderStatuses, Amount
  <2>5. QED BY <1>2, <2>1, <2>2, <2>3, <2>4
<1>5. /\ orders' = [orders EXCEPT ![o] = row]
      /\ UNCHANGED <<events, nextId, deliveries, history, rowLocks, worker, replay,
                     reconVars, failed>>
      /\ step' = step + 1 /\ done' = {} /\ file' = file
  BY DEF InsertOrder, Advance, Keep
<1> HIDE DEF o, row
<1>6. Stored = {} /\ \A r \in Reconcilers : recon[r].pc = "idle"
  BY DEF ReconciliationKnows, Stored, NoEventRow
<1>7. LockInv'
  BY <1>3, <1>4, <1>5, <1>6, InsertedOrder
<1>8. /\ orders'[o] = row /\ \A p \in Orders \ {o} : orders'[p] = orders[p]
  BY <1>3, <1>5 DEF LockInv, TypeInv, TypeOK
<1>9. recon' = recon /\ runs' = runs
  BY <1>5 DEF reconVars
<1>10. ProgressOK'
  BY <1>9 DEF ReconciliationKnows, ProgressOK, Progress, VisitedBy
<1>11. ~OneRepaired /\ ~OneRepaired'
  BY <1>5 DEF OneRepaired
<1>12. /\ \/ orders'["missing"] = NoOrderRow
          \/ step = 21 /\ orders'["missing"] = orders["missing"]
       /\ orders'["divergent"] = (IF step = 21 THEN orders["divergent"] ELSE Divergent)
       /\ orders'["identical"] = (IF step = 1 THEN NoOrderRow ELSE Identical)
       /\ orders'["stale"] = (IF step \in {1, 2} THEN NoOrderRow ELSE Ahead)
       /\ orders'["concurrent"] = (IF step = 21 THEN Inserted23 ELSE NoOrderRow)
  BY <1>2, <1>8, FilesSay DEF ReconciliationKnows, Four
<1>13. /\ ~failed' /\ done' = {} /\ step' # 23
       /\ file' = IF step' <= 4 THEN Null ELSE IF step' <= 22 THEN FourOrders
                  ELSE ConcurrentOrder
       /\ \A e \in EventIds : events'[e] = NoEventRow
       /\ \A r \in Reconcilers : recon'[r].pc = "idle"
  BY <1>5, <1>6, <1>9 DEF ReconciliationKnows
<1>14. /\ orders'["missing"] = IF step' <= 5 THEN NoOrderRow ELSE Repaired(3, "150.00")
       /\ orders'["divergent"] = IF step' <= 1 THEN NoOrderRow
                                 ELSE IF step' <= 5 THEN Divergent ELSE Repaired(3, "100.00")
       /\ orders'["identical"] = IF step' <= 2 THEN NoOrderRow ELSE Identical
       /\ orders'["stale"] = IF step' <= 3 THEN NoOrderRow ELSE Ahead
       /\ orders'["concurrent"] = IF step' <= 21 THEN NoOrderRow
                                  ELSE IF OneRepaired' THEN Repaired(3, "500.00")
                                  ELSE Inserted23
  <2>1. CASE step = 21
    <3>1. /\ orders["missing"] = Repaired(3, "150.00")
          /\ orders["divergent"] = Repaired(3, "100.00")
      BY <2>1 DEF ReconciliationKnows
    <3>2. step' = 22 /\ ~OneRepaired'
      BY <1>5, <1>11, <2>1
    <3>3. /\ orders'["missing"] = orders["missing"]
          /\ orders'["divergent"] = orders["divergent"]
      <4>1. orders'["divergent"] = orders["divergent"]
        BY <1>12, <2>1
      <4>2. orders'["missing"] = orders["missing"]
        BY <1>2, <1>8, <2>1, FilesSay DEF Four
      <4>3. QED BY <4>1, <4>2
    <3>4. /\ orders'["identical"] = Identical /\ orders'["stale"] = Ahead
          /\ orders'["concurrent"] = Inserted23
      BY <1>12, <2>1
    <3>5. QED BY <3>1, <3>2, <3>3, <3>4
  <2>2. CASE step # 21
    <3>1. step \in {1, 2, 3} /\ step' = step + 1
      BY <1>5, <2>2
    <3>2. orders'["missing"] = NoOrderRow /\ orders'["divergent"] = Divergent
      BY <1>12, <2>2
    <3>3. /\ orders'["identical"] = IF step = 1 THEN NoOrderRow ELSE Identical
          /\ orders'["stale"] = IF step \in {1, 2} THEN NoOrderRow ELSE Ahead
          /\ orders'["concurrent"] = NoOrderRow
      BY <1>12, <2>2
    <3>4. QED BY <3>1, <3>2, <3>3
  <2>3. QED BY <2>1, <2>2
<1>15. /\ Len(history'["missing"]) = IF step' <= 5 THEN 0 ELSE 1
       /\ Len(history'["divergent"]) = IF step' <= 5 THEN 0 ELSE 1
       /\ Len(history'["identical"]) = 0 /\ Len(history'["stale"]) = 0
       /\ Len(history'["concurrent"]) = 0
       /\ Len(runs') = IF step' <= 5 THEN 0 ELSE IF step' <= 14 THEN 1 ELSE 2
  BY <1>5, <1>9, <1>11 DEF ReconciliationKnows
<1>16. /\ step' > 5 => /\ runs'[1].repaired = {"missing", "divergent"}
                       /\ runs'[1].ok = {"identical"} /\ runs'[1].stale = {"stale"}
       /\ step' > 14 => /\ runs'[2].repaired = {} /\ runs'[2].stale = {"stale"}
                        /\ runs'[2].ok = {"missing", "divergent", "identical"}
  BY <1>5, <1>9 DEF ReconciliationKnows
<1>17. step' <= 22 /\ step' \in Nat
  BY <1>5
<1>18. ReconciliationKnows'
  BY <1>10, <1>11, <1>13, <1>14, <1>15, <1>16, <1>17 DEF ReconciliationKnows
<1>19. QED BY <1>7, <1>18

LEMMA ReconciliationQueue ==
  ASSUME LockInv, ReconciliationKnows, step \in Nat \ {0}, WorkersStep,
         script = "reconciliation"
  PROVE  LockInv' /\ ReconciliationKnows'
<1>1. LockInv' /\ [Next]_vars
  BY ServiceGoesOn
<1>2. ProgressOK'
  BY <1>1, ProgressStep DEF ReconciliationKnows
<1>3. \A e \in EventIds : events'[e] = NoEventRow
  BY WorkersKeep DEF ReconciliationKnows
<1>4. Stored \subseteq Planted
  BY DEF ReconciliationKnows, Stored, NoEventRow
<1>5. UNCHANGED <<orders, history>>
  BY <1>4, PlantedUndecided
<1>6. UNCHANGED <<reconVars, runVars>>
  BY IngestionEvents, WorkersProceed
<1>7. /\ recon' = recon /\ runs' = runs /\ step' = step /\ done' = done
      /\ failed' = failed /\ file' = file
  BY <1>6 DEF reconVars, runVars
<1>8. (OneRepaired' <=> OneRepaired) /\ Asked' = Asked
  BY <1>7 DEF OneRepaired, Asked
<1>9. QED
  BY <1>1, <1>2, <1>3, <1>5, <1>7, <1>8 DEF ReconciliationKnows

LEMMA ReconciliationRequests ==
  ASSUME LockInv, ReconciliationKnows, Steps = ReconciliationScript,
         step \in {5, 14, 23}, NEW r \in Reconcilers, Reconcile(r)
  PROVE  LockInv' /\ ReconciliationKnows'
<1>1. Current.of = Asked
  BY ReconciliationSteps, DoFields DEF Current, Asked
<1>2. r \in Asked \ done
  BY <1>1 DEF Reconcile
<1>3. file \in Snapshots
  BY FilesSay DEF ReconciliationKnows
<1>4. ReconStep(r)
  BY <1>3 DEF Reconcile, ReconStep, ReconNext
<1>5. LockInv' /\ ProgressOK'
  BY <1>4, LockStep, ProgressStep DEF Next, ReconciliationKnows
<1>6. UNCHANGED tables /\ UNCHANGED runVars /\ runs' = runs
  BY DEF Reconcile, FetchSnapshot, BeginRun, VisitOrder
<1>7. /\ events' = events /\ orders' = orders /\ history' = history
      /\ step' = step /\ done' = done /\ failed' = failed /\ file' = file
  BY <1>6 DEF tables, runVars
<1>8. recon \in [Reconcilers -> ReconState]
  BY DEF LockInv, TypeInv, TypeOK
<1>9. /\ \A q \in Reconcilers \ {r} : recon'[q] = recon[q]
      /\ recon'[r].snapshot = file
  <2>1. CASE FetchSnapshot(r, file)
    BY <1>8, <2>1 DEF FetchSnapshot, ReconState
  <2>2. CASE BeginRun(r) \/ VisitOrder(r)
    <3>1. recon[r].snapshot = file
      BY <2>2 DEF BeginRun, VisitOrder, ReconciliationKnows
    <3>2. recon'[r].snapshot = recon[r].snapshot /\ \A q \in Reconcilers \ {r} : recon'[q] = recon[q]
      BY <1>8, <2>2 DEF BeginRun, VisitOrder, ReconState
    <3>3. QED BY <3>1, <3>2
  <2>3. QED BY <2>1, <2>2 DEF Reconcile
<1>10. (OneRepaired' <=> OneRepaired) /\ Asked' = Asked
  BY <1>7 DEF OneRepaired, Asked
<1>11. \A q \in Reconcilers : recon'[q].pc # "idle" =>
         step' \in {5, 14, 23} /\ q \in Asked' \ done' /\ recon'[q].snapshot = file'
  BY <1>2, <1>7, <1>9, <1>10 DEF ReconciliationKnows
<1>12. QED
  BY <1>5, <1>6, <1>7, <1>10, <1>11 DEF ReconciliationKnows

LEMMA ReconciliationCommits ==
  ASSUME LockInv, ReconciliationKnows, Steps = ReconciliationScript,
         step \in {5, 14, 23}, NEW r \in Reconcilers, ReconcileAnswered(r)
  PROVE  LockInv' /\ ReconciliationKnows'
<1>1. Current.of = Asked
  BY ReconciliationSteps, DoFields DEF Current, Asked
<1>2. CommitRun(r) /\ recon[r].pc = "running"
  BY DEF ReconcileAnswered, CommitRun
<1>3. r \in Asked \ done /\ recon[r].snapshot = file
  BY <1>2 DEF ReconciliationKnows
<1>4. ReconStep(r)
  BY DEF ReconcileAnswered, ReconStep, ReconNext
<1>5. LockInv' /\ ProgressOK'
  BY <1>4, LockStep, ProgressStep DEF Next, ReconciliationKnows
<1>6. /\ failed' = FALSE /\ file' = file /\ Answered(r, Asked)
  BY <1>1 DEF ReconcileAnswered, Keep, ReconciliationKnows
<1>7. /\ \A o \in Orders :
           /\ orders'[o] = Reconciled(file, o)
           /\ IF o \in Judged(file, "REPAIRED") THEN Len(history'[o]) = Len(history[o]) + 1
                                                 ELSE history'[o] = history[o]
      /\ Len(runs') = Len(runs) + 1
      /\ \A i \in 1 .. Len(runs) : runs'[i] = runs[i]
      /\ runs'[Len(runs) + 1].repaired = Judged(file, "REPAIRED")
      /\ runs'[Len(runs) + 1].ok = Judged(file, "ALREADY_OK")
      /\ runs'[Len(runs) + 1].stale = Judged(file, "STALE_PROVIDER_SNAPSHOT")
      /\ events' = events
      /\ recon' = [recon EXCEPT ![r] = NoRecon]
  <2>1. ProgressOK
    BY DEF ReconciliationKnows
  <2>2. QED BY <1>2, <1>3, <2>1, CommittedRun
<1>8. /\ recon'[r].pc = "idle" /\ \A q \in Reconcilers \ {r} : recon'[q] = recon[q]
  BY <1>7 DEF NoRecon, LockInv, TypeInv, TypeOK
<1>9. \A e \in EventIds : events'[e] = NoEventRow
  BY <1>7 DEF ReconciliationKnows
<1>10. CASE step = 5
  <2>1. file = FourOrders /\ Len(runs) = 0 /\ done = {} /\ Asked = {requestA}
    BY <1>10 DEF ReconciliationKnows, Asked
  <2>2. step' = 6 /\ done' = {}
    BY <1>3, <1>6, <1>10, <2>1 DEF Answered, Advance
  <2>3. /\ orders'["missing"] = Repaired(3, "150.00")
        /\ orders'["divergent"] = Repaired(3, "100.00")
        /\ orders'["identical"] = Identical /\ orders'["stale"] = Ahead
        /\ orders'["concurrent"] = NoOrderRow
    BY <1>7, <1>10, <2>1, FilesSay, VerdictsFirst DEF Four
  <2>4. /\ Len(history'["missing"]) = 1 /\ Len(history'["divergent"]) = 1
        /\ Len(history'["identical"]) = 0 /\ Len(history'["stale"]) = 0
        /\ Len(history'["concurrent"]) = 0
    <3>1. \A o \in Four \union {"concurrent"} : o \in Orders /\ Len(history[o]) = 0
      BY <1>10, FilesSay DEF ReconciliationKnows, Four, OneRepaired
    <3>2. Judged(file, "REPAIRED") = {"missing", "divergent"}
      BY <1>10, <2>1, VerdictsFirst
    <3>3. \A o \in Four \union {"concurrent"} :
            Len(history'[o]) = IF o \in {"missing", "divergent"} THEN 1 ELSE 0
      BY <1>7, <3>1, <3>2
    <3>4. QED BY <3>3 DEF Four
  <2>5. /\ Len(runs') = 1 /\ runs'[1].repaired = {"missing", "divergent"}
        /\ runs'[1].ok = {"identical"} /\ runs'[1].stale = {"stale"}
    BY <1>7, <1>10, <2>1, VerdictsFirst
  <2>6. \A q \in Reconcilers : recon'[q].pc = "idle"
    BY <1>3, <1>8, <2>1 DEF ReconciliationKnows
  <2>7. ~OneRepaired'
    BY <2>2 DEF OneRepaired
  <2>8. QED
    BY <1>5, <1>6, <1>9, <2>1, <2>2, <2>3, <2>4, <2>5, <2>6, <2>7 DEF ReconciliationKnows
<1>11. CASE step = 14
  <2>1. file = FourOrders /\ Len(runs) = 1 /\ done = {} /\ Asked = {requestA}
    BY <1>11 DEF ReconciliationKnows, Asked
  <2>2. step' = 15 /\ done' = {}
    BY <1>3, <1>6, <1>11, <2>1 DEF Answered, Advance
  <2>3. /\ orders'["missing"] = Repaired(3, "150.00")
        /\ orders'["divergent"] = Repaired(3, "100.00")
        /\ orders'["identical"] = Identical /\ orders'["stale"] = Ahead
        /\ orders'["concurrent"] = NoOrderRow
    BY <1>7, <1>11, <2>1, FilesSay, VerdictsSecond DEF Four
  <2>4. /\ Len(history'["missing"]) = 1 /\ Len(history'["divergent"]) = 1
        /\ Len(history'["identical"]) = 0 /\ Len(history'["stale"]) = 0
        /\ Len(history'["concurrent"]) = 0
    <3>1. /\ Four \union {"concurrent"} \subseteq Orders
          /\ Len(history["missing"]) = 1 /\ Len(history["divergent"]) = 1
          /\ Len(history["identical"]) = 0 /\ Len(history["stale"]) = 0
          /\ Len(history["concurrent"]) = 0
      BY <1>11, FilesSay DEF ReconciliationKnows, Four, OneRepaired
    <3>2. Judged(file, "REPAIRED") = {}
      BY <1>11, <2>1, VerdictsSecond
    <3>3. \A o \in Four \union {"concurrent"} : history'[o] = history[o]
      BY <1>7, <3>1, <3>2
    <3>4. QED BY <3>1, <3>3 DEF Four
  <2>5. /\ Len(runs') = 2 /\ runs'[1] = runs[1]
        /\ runs'[2].repaired = {} /\ runs'[2].stale = {"stale"}
        /\ runs'[2].ok = {"missing", "divergent", "identical"}
    BY <1>7, <1>11, <2>1, VerdictsSecond
  <2>6. \A q \in Reconcilers : recon'[q].pc = "idle"
    BY <1>3, <1>8, <2>1 DEF ReconciliationKnows
  <2>7. ~OneRepaired'
    BY <2>2 DEF OneRepaired
  <2>8. /\ runs[1].repaired = {"missing", "divergent"}
        /\ runs[1].ok = {"identical"} /\ runs[1].stale = {"stale"}
    BY <1>11 DEF ReconciliationKnows
  <2>9. QED
    BY <1>5, <1>6, <1>9, <2>1, <2>2, <2>3, <2>4, <2>5, <2>6, <2>7, <2>8
       DEF ReconciliationKnows
<1>12. CASE step = 23
  <2>1. /\ file = ConcurrentOrder /\ Asked = {requestA, requestB} /\ requestA # requestB
        /\ done \in {{}, {requestA}, {requestB}}
        /\ Len(runs) = IF OneRepaired THEN 3 ELSE 2
    BY <1>12, ScriptsAssumption DEF ReconciliationKnows, Asked
  <2>2. OneRepaired <=> done # {}
    BY <1>12 DEF OneRepaired
  <2>3. IF done = {} THEN step' = 23 /\ done' = {r} ELSE step' = 24 /\ done' = {}
    <3>1. CASE done = {}
      BY <1>3, <1>6, <1>12, <2>1, <3>1 DEF Answered
    <3>2. CASE done # {}
      BY <1>3, <1>6, <1>12, <2>1, <3>2 DEF Answered, Advance
    <3>3. QED BY <3>1, <3>2
  <2>4. OneRepaired'
    BY <2>3 DEF OneRepaired
  <2>5. /\ \A o \in Four : orders'[o] = orders[o]
        /\ orders'["concurrent"] = Repaired(3, "500.00")
    BY <1>7, <1>12, <2>1, FilesSay, VerdictsConcurrent
  <2>6. Judged(file, "REPAIRED") = IF OneRepaired THEN {} ELSE {"concurrent"}
    BY <1>12, <2>1, VerdictsConcurrent
  <2>7. /\ Len(history["missing"]) = 1 /\ Len(history["divergent"]) = 1
        /\ Len(history["identical"]) = 0 /\ Len(history["stale"]) = 0
        /\ Len(history["concurrent"]) = IF OneRepaired THEN 1 ELSE 0
    BY <1>12 DEF ReconciliationKnows
  <2>8. /\ Len(history'["missing"]) = 1 /\ Len(history'["divergent"]) = 1
        /\ Len(history'["identical"]) = 0 /\ Len(history'["stale"]) = 0
        /\ Len(history'["concurrent"]) = 1
    <3>1. \A o \in Four : o \in Orders /\ o \notin Judged(file, "REPAIRED")
      BY <2>6, FilesSay DEF Four
    <3>2. \A o \in Four : history'[o] = history[o]
      BY <1>7, <3>1
    <3>3. Len(history'["concurrent"]) = 1
      <4>1. CASE OneRepaired
        BY <1>7, <2>6, <2>7, <4>1, FilesSay
      <4>2. CASE ~OneRepaired
        <5>1. "concurrent" \in Judged(file, "REPAIRED") /\ Len(history["concurrent"]) = 0
          BY <2>6, <2>7, <4>2
        <5>2. Len(history'["concurrent"]) = Len(history["concurrent"]) + 1
          BY <1>7, <5>1, FilesSay
        <5>3. QED BY <5>1, <5>2
      <4>3. QED BY <4>1, <4>2
    <3>4. QED BY <2>7, <3>2, <3>3 DEF Four
  <2>9. /\ runs'[1] = runs[1] /\ runs'[2] = runs[2]
        /\ IF OneRepaired THEN /\ Len(runs') = 4 /\ runs'[3] = runs[3]
                               /\ runs'[4].repaired = {}
                          ELSE Len(runs') = 3 /\ runs'[3].repaired = {"concurrent"}
    BY <1>7, <2>1, <2>6
  <2>10. /\ runs[1].repaired = {"missing", "divergent"}
         /\ runs[1].ok = {"identical"} /\ runs[1].stale = {"stale"}
         /\ runs[2].repaired = {} /\ runs[2].stale = {"stale"}
         /\ runs[2].ok = {"missing", "divergent", "identical"}
         /\ OneRepaired => runs[3].repaired = {"concurrent"}
         /\ orders["missing"] = Repaired(3, "150.00")
         /\ orders["divergent"] = Repaired(3, "100.00")
         /\ orders["identical"] = Identical /\ orders["stale"] = Ahead
    BY <1>12 DEF ReconciliationKnows
  <2>11. \A q \in Reconcilers : recon'[q].pc # "idle" =>
           step' = 23 /\ q \in Asked' \ done' /\ recon'[q].snapshot = file'
    <3>1. ASSUME NEW q \in Reconcilers, recon'[q].pc # "idle"
          PROVE  /\ q \in Asked \ done /\ q # r /\ recon'[q].snapshot = file
      BY <1>8, <3>1 DEF ReconciliationKnows
    <3>2. CASE done = {}
      BY <1>6, <1>12, <2>1, <2>3, <3>1, <3>2 DEF Asked
    <3>3. CASE done # {}
      BY <1>3, <2>1, <3>1, <3>3
    <3>4. QED BY <3>2, <3>3
  <2>12. done' \in {{}, {requestA}, {requestB}}
    BY <1>3, <2>1, <2>3
  <2>13. CASE done = {}
    <3>1. /\ step' = 23 /\ Len(runs') = 3 /\ runs'[3].repaired = {"concurrent"}
      BY <2>2, <2>3, <2>9, <2>13
    <3>2. QED
      BY <1>5, <1>6, <1>9, <2>1, <2>4, <2>5, <2>8, <2>9, <2>10, <2>11, <2>12, <3>1
         DEF ReconciliationKnows, Four
  <2>14. CASE done # {}
    <3>1. /\ step' = 24 /\ done' = {} /\ Len(runs') = 4
          /\ runs'[3].repaired = {"concurrent"} /\ runs'[4].repaired = {}
      BY <2>2, <2>3, <2>9, <2>10, <2>14
    <3>2. QED
      BY <1>5, <1>6, <1>9, <2>1, <2>4, <2>5, <2>8, <2>9, <2>10, <2>11, <2>12, <3>1
         DEF ReconciliationKnows, Four
  <2>15. QED BY <2>13, <2>14
<1>13. QED BY <1>10, <1>11, <1>12

(* The details with a verdict are those of the one run that gave it.       *)
LEMMA TotalOfOne ==
  ASSUME NEW i \in Reports, NEW v, NEW S \in SUBSET Orders, IsFiniteSet(S),
         runs[i][v] = S, \A j \in Reports \ {i} : runs[j][v] = {}
  PROVE  Total(v) = Cardinality(S)
<1> DEFINE T == {detail \in Reports \X Orders : detail[2] \in runs[detail[1]][v]}
           f == [o \in S |-> <<i, o>>]
<1>1. \A o \in S : <<i, o>> \in T
  OBVIOUS
<1>2. \A detail \in T : \E o \in S : detail = <<i, o>>
  <2>1. ASSUME NEW j \in Reports, NEW o \in Orders, o \in runs[j][v]
        PROVE  j = i /\ o \in S
    BY <2>1
  <2>2. QED BY <2>1
<1> HIDE DEF T
<1>3. f \in [S -> T] /\ \A x, y \in S : f[x] = f[y] => x = y
  BY <1>1
<1>4. \A detail \in T : \E o \in S : f[o] = detail
  BY <1>2
<1>5. DOMAIN f = S
  OBVIOUS
<1> HIDE DEF f
<1>6. f \in Bijection(S, T)
  <2>1. f \in Injection(S, T)
    BY <1>3, <1>5 DEF Injection, IsInjective
  <2>2. f \in Surjection(S, T)
    BY <1>3, <1>4 DEF Surjection
  <2>3. QED BY <2>1, <2>2 DEF Bijection
<1>7. ExistsBijection(S, T)
  BY <1>6 DEF ExistsBijection
<1>8. Cardinality(T) = Cardinality(S)
  BY <1>7, FS_Bijection
<1>9. QED BY <1>8 DEF T, Total

LEMMA Sizes ==
  /\ IsFiniteSet({}) /\ Cardinality({}) = 0
  /\ \A x : IsFiniteSet({x}) /\ Cardinality({x}) = 1
  /\ \A x, y : x # y => IsFiniteSet({x, y}) /\ Cardinality({x, y}) = 2
<1>1. \A x : IsFiniteSet({x}) /\ Cardinality({x}) = 1
  BY FS_Singleton
<1>2. \A x, y : x # y => IsFiniteSet({x, y}) /\ Cardinality({x, y}) = 2
  <2> SUFFICES ASSUME NEW x, NEW y, x # y
               PROVE  IsFiniteSet({x, y}) /\ Cardinality({x, y}) = 2
    OBVIOUS
  <2>1. {x} \union {y} = {x, y}
    OBVIOUS
  <2>2. IsFiniteSet({x}) /\ Cardinality({x}) = 1 /\ y \notin {x}
    BY <1>1
  <2>3. /\ IsFiniteSet({x} \union {y})
        /\ Cardinality({x} \union {y}) = IF y \in {x} THEN Cardinality({x}) ELSE Cardinality({x}) + 1
    BY <2>2, FS_AddElement
  <2>4. Cardinality({x} \union {y}) = 1 + 1
    BY <2>2, <2>3
  <2>5. QED BY <2>1, <2>3, <2>4
<1>3. IsFiniteSet({}) /\ Cardinality({}) = 0
  BY FS_EmptySet
<1>4. QED BY <1>1, <1>2, <1>3

LEMMA ThreeOrders ==
  /\ IsFiniteSet({"missing", "divergent", "identical"})
  /\ Cardinality({"missing", "divergent", "identical"}) = 3
<1> DEFINE two == {"missing", "divergent"}
           three == {"missing", "divergent", "identical"}
<1>1. IsFiniteSet(two) /\ Cardinality(two) = 2 /\ "identical" \notin two
  BY Sizes
<1>2. two \union {"identical"} = three
  OBVIOUS
<1> HIDE DEF two, three
<1>3. /\ IsFiniteSet(two \union {"identical"})
      /\ Cardinality(two \union {"identical"})
           = IF "identical" \in two THEN Cardinality(two) ELSE Cardinality(two) + 1
  BY <1>1, FS_AddElement
<1>4. Cardinality(two \union {"identical"}) = 2 + 1
  BY <1>1, <1>3
<1>5. IsFiniteSet(three) /\ Cardinality(three) = 3
  BY <1>2, <1>3, <1>4
<1>6. QED BY <1>5 DEF three

LEMMA ReportsHold ==
  ASSUME LockInv, ReconciliationKnows, Steps = ReconciliationScript,
         step \in {6, 15, 24}
  PROVE  Holds
<1>1. Current = ReconciliationScript[step]
  BY DEF Current
<1>2. runs \in Seq(Run)
  BY DEF LockInv, TypeInv, TypeOK
<1>3. Four \subseteq Orders /\ "concurrent" \in Orders
  BY FilesSay
<1>4. CASE step = 6
  <2> DEFINE want == [repaired |-> 2, ok |-> 1, stale |-> 1]
  <2>1. Current = Do("reports", 1, want)
    BY <1>1, <1>4, ReconciliationSteps
  <2>2. /\ Current.of = 1
        /\ Holds <=> \A v \in DOMAIN want : Total(v) = want[v]
    BY <2>1, DoFields, HoldsIs
  <2>3. Len(runs) = 1
    BY <1>4 DEF ReconciliationKnows, OneRepaired
  <2>4. Reports = {1}
    BY <1>2, <2>2, <2>3 DEF Reports
  <2>5. /\ runs[1].repaired = {"missing", "divergent"} /\ runs[1].ok = {"identical"}
        /\ runs[1].stale = {"stale"}
    BY <1>4 DEF ReconciliationKnows
  <2>6. Total("repaired") = 2
    <3> DEFINE S == {"missing", "divergent"}
    <3>1. S \in SUBSET Orders /\ IsFiniteSet(S) /\ Cardinality(S) = 2
      BY <1>3, Sizes DEF Four, S
    <3>2. /\ runs[1]["repaired"] = S
          /\ 1 \in Reports /\ \A j \in Reports \ {1} : runs[j]["repaired"] = {}
      BY <2>4, <2>5
    <3> HIDE DEF S
    <3>3. Total("repaired") = Cardinality(S)
      BY <3>1, <3>2, TotalOfOne
    <3>4. QED BY <3>1, <3>3
  <2>7. Total("ok") = 1
    <3> DEFINE S == {"identical"}
    <3>1. S \in SUBSET Orders /\ IsFiniteSet(S) /\ Cardinality(S) = 1
      BY <1>3, Sizes DEF Four, S
    <3>2. /\ runs[1]["ok"] = S
          /\ 1 \in Reports /\ \A j \in Reports \ {1} : runs[j]["ok"] = {}
      BY <2>4, <2>5
    <3> HIDE DEF S
    <3>3. Total("ok") = Cardinality(S)
      BY <3>1, <3>2, TotalOfOne
    <3>4. QED BY <3>1, <3>3
  <2>8. Total("stale") = 1
    <3> DEFINE S == {"stale"}
    <3>1. S \in SUBSET Orders /\ IsFiniteSet(S) /\ Cardinality(S) = 1
      BY <1>3, Sizes DEF Four, S
    <3>2. /\ runs[1]["stale"] = S
          /\ 1 \in Reports /\ \A j \in Reports \ {1} : runs[j]["stale"] = {}
      BY <2>4, <2>5
    <3> HIDE DEF S
    <3>3. Total("stale") = Cardinality(S)
      BY <3>1, <3>2, TotalOfOne
    <3>4. QED BY <3>1, <3>3
  <2>9. QED BY <2>2, <2>6, <2>7, <2>8
<1>5. CASE step = 15
  <2> DEFINE want == [repaired |-> 0, ok |-> 3, stale |-> 1]
  <2>1. Current = Do("reports", 1, want)
    BY <1>1, <1>5, ReconciliationSteps
  <2>2. /\ Current.of = 1
        /\ Holds <=> \A v \in DOMAIN want : Total(v) = want[v]
    BY <2>1, DoFields, HoldsIs
  <2>3. Len(runs) = 2
    BY <1>5 DEF ReconciliationKnows, OneRepaired
  <2>4. Reports = {2}
    BY <1>2, <2>2, <2>3 DEF Reports
  <2>5. /\ runs[2].repaired = {} /\ runs[2].ok = {"missing", "divergent", "identical"}
        /\ runs[2].stale = {"stale"}
    BY <1>5 DEF ReconciliationKnows
  <2>6. Total("repaired") = 0
    <3> DEFINE S == {}
    <3>1. S \in SUBSET Orders /\ IsFiniteSet(S) /\ Cardinality(S) = 0
      BY <1>3, Sizes DEF Four, S
    <3>2. /\ runs[2]["repaired"] = S
          /\ 2 \in Reports /\ \A j \in Reports \ {2} : runs[j]["repaired"] = {}
      BY <2>4, <2>5
    <3> HIDE DEF S
    <3>3. Total("repaired") = Cardinality(S)
      BY <3>1, <3>2, TotalOfOne
    <3>4. QED BY <3>1, <3>3
  <2>7. Total("ok") = 3
    <3> DEFINE S == {"missing", "divergent", "identical"}
    <3>1. S \in SUBSET Orders /\ IsFiniteSet(S) /\ Cardinality(S) = 3
      <4>1. S \in SUBSET Orders
        BY <1>3 DEF Four, S
      <4>2. IsFiniteSet(S) /\ Cardinality(S) = 3
        BY ThreeOrders DEF S
      <4>3. QED BY <4>1, <4>2
    <3>2. /\ runs[2]["ok"] = S
          /\ 2 \in Reports /\ \A j \in Reports \ {2} : runs[j]["ok"] = {}
      BY <2>4, <2>5
    <3> HIDE DEF S
    <3>3. Total("ok") = Cardinality(S)
      BY <3>1, <3>2, TotalOfOne
    <3>4. QED BY <3>1, <3>3
  <2>8. Total("stale") = 1
    <3> DEFINE S == {"stale"}
    <3>1. S \in SUBSET Orders /\ IsFiniteSet(S) /\ Cardinality(S) = 1
      BY <1>3, Sizes DEF Four, S
    <3>2. /\ runs[2]["stale"] = S
          /\ 2 \in Reports /\ \A j \in Reports \ {2} : runs[j]["stale"] = {}
      BY <2>4, <2>5
    <3> HIDE DEF S
    <3>3. Total("stale") = Cardinality(S)
      BY <3>1, <3>2, TotalOfOne
    <3>4. QED BY <3>1, <3>3
  <2>9. QED BY <2>2, <2>6, <2>7, <2>8
<1>6. CASE step = 24
  <2> DEFINE want == [repaired |-> 1]
  <2>1. Current = Do("reports", 2, want)
    BY <1>1, <1>6, ReconciliationSteps
  <2>2. /\ Current.of = 2
        /\ Holds <=> \A v \in DOMAIN want : Total(v) = want[v]
    BY <2>1, DoFields, HoldsIs
  <2>3. Len(runs) = 4 /\ OneRepaired
    BY <1>6 DEF ReconciliationKnows, OneRepaired
  <2>4. Reports = {3, 4}
    BY <1>2, <2>2, <2>3 DEF Reports
  <2>5. runs[3].repaired = {"concurrent"} /\ runs[4].repaired = {}
    BY <1>6, <2>3 DEF ReconciliationKnows
  <2>6. Total("repaired") = 1
    <3> DEFINE S == {"concurrent"}
    <3>1. S \in SUBSET Orders /\ IsFiniteSet(S) /\ Cardinality(S) = 1
      BY <1>3, Sizes DEF S
    <3>2. /\ runs[3]["repaired"] = S
          /\ 3 \in Reports /\ \A j \in Reports \ {3} : runs[j]["repaired"] = {}
      BY <2>4, <2>5
    <3> HIDE DEF S
    <3>3. Total("repaired") = Cardinality(S)
      BY <3>1, <3>2, TotalOfOne
    <3>4. QED BY <3>1, <3>3
  <2>7. QED BY <2>2, <2>6
<1>7. QED BY <1>4, <1>5, <1>6

LEMMA ReconciliationHolds ==
  ASSUME LockInv, ReconciliationKnows, Steps = ReconciliationScript, step \in Nat \ {0},
         Query
  PROVE  Holds /\ step \in 6 .. 25 /\ step \notin {14, 21, 22, 23}
<1>1. step \in 1 .. 25 /\ Current = ReconciliationScript[step] /\ Current.op \in Queries
  BY ReconciliationSteps DEF Query, Doing, Current
<1>2. step \in {6, 15, 24} \union {7, 8, 9, 20} \union (10 .. 13) \union (16 .. 19) \union {25}
  <2>1. Current.op \in {"reports", "order", "rows"}
    BY <1>1, ReconciliationOperations DEF Queries, ReconciliationOps
  <2>2. QED BY <1>1, <2>1, ReconciliationOperations
<1>3. CASE step \in {6, 15, 24}
  BY <1>3, ReportsHold
<1>4. CASE step \in {7, 8, 9, 20}
  <2>1. /\ orders["missing"] = Repaired(3, "150.00")
        /\ orders["divergent"] = Repaired(3, "100.00") /\ orders["stale"] = Ahead
    BY <1>4 DEF ReconciliationKnows
  <2>2. Current.op = "order"
    BY <1>1, <1>4, ReconciliationOperations
  <2>3. Holds <=> Shows(orders[Current.of], Current.want)
    BY <2>2, HoldsIs
  <2>4. CASE step \in {7, 8}
    <3>1. orders[Current.of] = Current.want
      BY <1>1, <2>1, <2>4, ReconciliationSteps, DoFields
    <3>2. QED BY <1>2, <1>4, <2>3, <3>1 DEF Shows
  <2>5. CASE step = 9
    <3>1. Current.of = "stale" /\ Current.want = [status |-> "refunded", seq |-> 5]
      BY <1>1, <2>5, ReconciliationSteps, DoFields
    <3>2. Ahead.status = "refunded" /\ Ahead.seq = 5
      BY DEF Ahead, LocalOrder
    <3>3. QED BY <2>1, <2>3, <2>5, <3>1, <3>2, ShowsAll
  <2>6. CASE step = 20
    <3>1. Current.of = "missing" /\ Current.want = [status |-> "captured"]
      BY <1>1, <2>6, ReconciliationSteps, DoFields
    <3>2. Repaired(3, "150.00").status = "captured"
      BY DEF Repaired
    <3>3. QED BY <2>1, <2>3, <2>6, <3>1, <3>2, ShowsAll
  <2>7. QED BY <1>4, <2>4, <2>5, <2>6
<1>5. CASE step \in (10 .. 13) \union (16 .. 19) \union {25}
  <2>1. Current.op = "rows"
    BY <1>1, <1>5, ReconciliationOperations
  <2>2. Holds <=> Len(history[Current.of]) = Current.want
    BY <2>1, HoldsIs
  <2>3. /\ Len(history["missing"]) = 1 /\ Len(history["divergent"]) = 1
        /\ Len(history["identical"]) = 0 /\ Len(history["stale"]) = 0
        /\ step = 25 => Len(history["concurrent"]) = 1
    BY <1>5 DEF ReconciliationKnows, OneRepaired
  <2>4. \/ Current = Do("rows", "missing", 1) \/ Current = Do("rows", "divergent", 1)
        \/ Current = Do("rows", "identical", 0) \/ Current = Do("rows", "stale", 0)
        \/ step = 25 /\ Current = Do("rows", "concurrent", 1)
    <3>1. \A k \in {10, 16} : step \in k .. k + 3 =>
            \/ step = k \/ step = k + 1 \/ step = k + 2 \/ step = k + 3
      OBVIOUS
    <3>2. QED BY <1>1, <1>5, <3>1, ReconciliationSteps
  <2>5. Len(history[Current.of]) = Current.want
    <3>1. CASE Current = Do("rows", "missing", 1)
      <4>1. Current.of = "missing" /\ Current.want = 1
        BY <3>1, DoFields
      <4>2. QED BY <2>3, <4>1
    <3>2. CASE Current = Do("rows", "divergent", 1)
      <4>1. Current.of = "divergent" /\ Current.want = 1
        BY <3>2, DoFields
      <4>2. QED BY <2>3, <4>1
    <3>3. CASE Current = Do("rows", "identical", 0)
      <4>1. Current.of = "identical" /\ Current.want = 0
        BY <3>3, DoFields
      <4>2. QED BY <2>3, <4>1
    <3>4. CASE Current = Do("rows", "stale", 0)
      <4>1. Current.of = "stale" /\ Current.want = 0
        BY <3>4, DoFields
      <4>2. QED BY <2>3, <4>1
    <3>5. CASE step = 25 /\ Current = Do("rows", "concurrent", 1)
      <4>1. Current.of = "concurrent" /\ Current.want = 1
        BY <3>5, DoFields
      <4>2. QED BY <2>3, <3>5, <4>1
    <3>6. QED BY <2>4, <3>1, <3>2, <3>3, <3>4, <3>5
  <2>6. QED BY <1>5, <2>2, <2>5
<1>6. QED BY <1>2, <1>3, <1>4, <1>5

LEMMA ReconciliationStep ==
  ASSUME script = "reconciliation", exit = "running", LockInv, ReconciliationKnows,
         step \in Nat \ {0}, ScriptNext, causes = {}, causes' = {}
  PROVE  \/ exit' = "running" /\ LockInv' /\ ReconciliationKnows'
         \/ exit' = "passed"
<1>1. Steps = ReconciliationScript
  BY ScriptOf
<1>2. CASE Finish
  BY <1>2 DEF Finish, ReconciliationKnows
<1>3. CASE WorkersStep
  BY <1>3, ReconciliationQueue DEF WorkersStep, runVars
<1>4. CASE step <= Len(Steps) /\ exit' = exit /\ ByOperation
  <2>1. step \in 1 .. 25 /\ Current = ReconciliationScript[step]
    BY <1>1, <1>4, ReconciliationSteps DEF Current
  <2>2. Current.op \in ReconciliationOps
    BY <2>1, ReconciliationOperations
  <2>3. CASE Current.op = "insertOrder"
    <3>1. InsertOrder /\ step \in {1, 2, 3, 21}
      BY <1>4, <2>1, <2>3, ReconciliationOperations DEF ByOperation
    <3>2. QED BY <1>1, <1>4, <3>1, ReconciliationInserts
  <2>4. CASE Current.op = "file"
    <3>1. WriteFile /\ step \in {4, 22}
      BY <1>4, <2>1, <2>4, ReconciliationOperations DEF ByOperation
    <3>2. Current.want = IF step = 4 THEN FourOrders ELSE ConcurrentOrder
      BY <2>1, <3>1, ReconciliationSteps, DoFields
    <3>3. /\ step' = step + 1 /\ done' = {} /\ failed' = FALSE /\ UNCHANGED vars
          /\ file' = IF step = 4 THEN FourOrders
                     ELSE IF step = 22 THEN ConcurrentOrder ELSE file
      BY <3>1, <3>2 DEF WriteFile, Advance, ReconciliationKnows
    <3>4. step \notin {1, 2, 3, 5, 14, 21, 23}
      BY <3>1
    <3>5. QED BY <1>4, <3>3, <3>4, NothingMoves, ReconciliationPass
  <2>5. CASE Current.op = "reconcile"
    <3>1. PICK r \in Reconcilers : Reconcile(r) \/ ReconcileAnswered(r)
      BY <1>4, <2>5 DEF ByOperation
    <3>2. step \in {5, 14, 23}
      BY <2>1, <2>5, ReconciliationOperations
    <3>3. QED
      BY <1>1, <1>4, <3>1, <3>2, ReconciliationRequests, ReconciliationCommits
  <2>6. CASE Current.op \in {"reports", "order", "rows"}
    <3>1. Query
      BY <1>4, <2>6 DEF ByOperation, Queries
    <3>2. Holds /\ step \in 6 .. 25 /\ step \notin {14, 21, 22, 23}
      BY <1>1, <3>1, ReconciliationHolds
    <3>3. step \notin {1, 2, 3, 5, 14, 21, 23} /\ step # 4 /\ step # 22
      BY <3>2
    <3>4. /\ step' = step + 1 /\ done' = {} /\ failed' = FALSE /\ UNCHANGED vars
          /\ file' = file
      BY <3>1, <3>2 DEF Query, Advance, Check, Keep, ReconciliationKnows
    <3>5. QED BY <1>4, <3>3, <3>4, NothingMoves, ReconciliationPass
  <2>7. QED BY <2>2, <2>3, <2>4, <2>5, <2>6 DEF ReconciliationOps
<1>5. QED BY <1>2, <1>3, <1>4, Operations

-----------------------------------------------------------------------------
(* Worker                                                                  *)

List(s, T, n) == s \in Seq(T) /\ Len(s) = n
Joins(u, s, t) == u = s \o t

LEMMA JoinedHead ==
  ASSUME NEW T, NEW s, NEW t, NEW m \in Nat, NEW n \in Nat,
         List(s, T, m), List(t, T, n), NEW u, Joins(u, s, t)
  PROVE  \A k \in 1 .. m : u[k] = s[k]
<1>1. s \in Seq(T) /\ t \in Seq(T) /\ m = Len(s) /\ u = s \o t
  BY DEF List, Joins
<1>2. QED BY <1>1

LEMMA Joined ==
  ASSUME NEW T, NEW s, NEW t, NEW m \in Nat, NEW n \in Nat,
         List(s, T, m), List(t, T, n), NEW u, Joins(u, s, t)
  PROVE  /\ List(u, T, m + n)
         /\ \A k \in 1 .. m : u[k] = s[k]
         /\ \A k \in 1 .. n : u[m + k] = t[k]
<1>1. s \in Seq(T) /\ t \in Seq(T) /\ m = Len(s) /\ n = Len(t) /\ u = s \o t
  BY DEF List, Joins
<1>2. /\ s \o t \in Seq(T) /\ Len(s \o t) = Len(s) + Len(t)
      /\ \A k \in 1 .. Len(t) : (s \o t)[Len(s) + k] = t[k]
  BY <1>1
<1>3. QED BY <1>1, <1>2, JoinedHead DEF List

(* Five tests, the fourth of them in three rounds and one step.            *)
LEMMA FiveTests ==
  ASSUME NEW T, NEW a, NEW b, NEW c, NEW s, NEW p, NEW r, NEW o, NEW e, NEW n \in Nat,
         List(a, T, 8), List(b, T, 5), List(c, T, 6), List(s, T, n), List(p, T, n),
         List(r, T, n), List(o, T, 1), List(e, T, 3),
         NEW ab, NEW abc, NEW sp, NEW spr, NEW d, NEW abcd, NEW all,
         Joins(ab, a, b), Joins(abc, ab, c), Joins(sp, s, p), Joins(spr, sp, r),
         Joins(d, spr, o), Joins(abcd, abc, d), Joins(all, abcd, e)
  PROVE  /\ List(all, T, 23 + n + n + n)
         /\ \A k \in 1 .. 8 : all[k] = a[k]
         /\ \A k \in 1 .. 5 : all[8 + k] = b[k]
         /\ \A k \in 1 .. 6 : all[13 + k] = c[k]
         /\ \A i \in 1 .. n : /\ all[19 + i] = s[i] /\ all[19 + n + i] = p[i]
                              /\ all[19 + n + n + i] = r[i]
         /\ all[20 + n + n + n] = o[1]
         /\ \A k \in 1 .. 3 : all[20 + n + n + n + k] = e[k]
<1>1. /\ List(ab, T, 13)
      /\ \A k \in 1 .. 8 : ab[k] = a[k]
      /\ \A k \in 1 .. 5 : ab[8 + k] = b[k]
  <2>1. 8 \in Nat /\ 5 \in Nat /\ 8 + 5 = 13
    OBVIOUS
  <2>2. List(ab, T, 8 + 5)
    BY <2>1, Joined
  <2>3. QED BY <2>1, <2>2, Joined
<1>2. /\ List(sp, T, n + n)
      /\ \A i \in 1 .. n : sp[i] = s[i]
      /\ \A i \in 1 .. n : sp[n + i] = p[i]
  <2>1. List(sp, T, n + n)
    BY Joined
  <2>2. \A i \in 1 .. n : sp[i] = s[i]
    BY JoinedHead
  <2>3. \A i \in 1 .. n : sp[n + i] = p[i]
    BY Joined
  <2>4. QED BY <2>1, <2>2, <2>3
<1>3. /\ List(abc, T, 19)
      /\ \A k \in 1 .. 13 : abc[k] = ab[k]
      /\ \A k \in 1 .. 6 : abc[13 + k] = c[k]
  <2>1. 13 \in Nat /\ 6 \in Nat /\ 13 + 6 = 19
    OBVIOUS
  <2>2. List(abc, T, 13 + 6)
    BY <1>1, <2>1, Joined
  <2>3. QED BY <1>1, <2>1, <2>2, Joined
<1>4. /\ List(spr, T, n + n + n)
      /\ \A i \in 1 .. n + n : spr[i] = sp[i]
      /\ \A i \in 1 .. n : spr[n + n + i] = r[i]
  <2>1. PICK m \in Nat : m = n + n
    OBVIOUS
  <2>2. /\ List(spr, T, m + n)
        /\ \A i \in 1 .. m : spr[i] = sp[i]
        /\ \A i \in 1 .. n : spr[m + i] = r[i]
    <3>1. List(sp, T, m)
      BY <1>2, <2>1
    <3>2. List(spr, T, m + n)
      BY <3>1, Joined
    <3>3. \A i \in 1 .. m : spr[i] = sp[i]
      BY <3>1, JoinedHead
    <3>4. \A i \in 1 .. n : spr[m + i] = r[i]
      BY <3>1, Joined
    <3>5. QED BY <3>2, <3>3, <3>4
  <2>3. QED BY <2>1, <2>2
<1>5. /\ List(d, T, n + n + n + 1)
      /\ \A i \in 1 .. n + n + n : d[i] = spr[i]
      /\ d[n + n + n + 1] = o[1]
  <2>1. n + n + n \in Nat /\ 1 \in Nat /\ 1 \in 1 .. 1
    OBVIOUS
  <2>2. QED BY <1>4, <2>1, Joined
<1>6. /\ List(abcd, T, 19 + (n + n + n + 1))
      /\ \A k \in 1 .. 19 : abcd[k] = abc[k]
      /\ \A k \in 1 .. n + n + n + 1 : abcd[19 + k] = d[k]
  <2>1. n + n + n + 1 \in Nat /\ 19 \in Nat
    OBVIOUS
  <2>2. QED BY <1>3, <1>5, <2>1, Joined
<1>7. /\ List(all, T, 23 + n + n + n)
      /\ \A k \in 1 .. 20 + n + n + n : all[k] = abcd[k]
      /\ \A k \in 1 .. 3 : all[20 + n + n + n + k] = e[k]
  <2>1. /\ 19 + (n + n + n + 1) \in Nat /\ 3 \in Nat
        /\ 19 + (n + n + n + 1) = 20 + n + n + n
        /\ 19 + (n + n + n + 1) + 3 = 23 + n + n + n
    OBVIOUS
  <2>2. /\ List(all, T, 19 + (n + n + n + 1) + 3)
        /\ \A k \in 1 .. 19 + (n + n + n + 1) : all[k] = abcd[k]
        /\ \A k \in 1 .. 3 : all[19 + (n + n + n + 1) + k] = e[k]
    BY <1>6, <2>1, Joined
  <2>3. QED BY <2>1, <2>2
<1>8. \A k \in 1 .. 19 : all[k] = abc[k]
  BY <1>6, <1>7
<1>9. \A k \in 1 .. 13 : all[k] = ab[k]
  BY <1>3, <1>8
<1>10. \A k \in 1 .. 8 : all[k] = a[k]
  BY <1>1, <1>9
<1>11. \A k \in 1 .. 5 : all[8 + k] = b[k]
  BY <1>1, <1>9
<1>12. \A k \in 1 .. 6 : all[13 + k] = c[k]
  BY <1>3, <1>8
<1>13. \A k \in 1 .. n + n + n + 1 : all[19 + k] = d[k]
  BY <1>6, <1>7
<1>14. \A k \in 1 .. n + n + n : all[19 + k] = spr[k]
  BY <1>5, <1>13
<1>15. \A k \in 1 .. n + n : all[19 + k] = sp[k]
  BY <1>4, <1>14
<1>16. \A i \in 1 .. n : all[19 + i] = s[i]
  BY <1>2, <1>15
<1>17. \A i \in 1 .. n : all[19 + n + i] = p[i]
  <2>1. \A i \in 1 .. n : n + i \in 1 .. n + n /\ 19 + (n + i) = 19 + n + i
    OBVIOUS
  <2>2. QED BY <1>2, <1>15, <2>1
<1>18. \A i \in 1 .. n : all[19 + n + n + i] = r[i]
  <2>1. \A i \in 1 .. n : n + n + i \in 1 .. n + n + n /\ 19 + (n + n + i) = 19 + n + n + i
    OBVIOUS
  <2>2. QED BY <1>4, <1>14, <2>1
<1>19. all[20 + n + n + n] = o[1]
  <2>1. n + n + n + 1 \in 1 .. n + n + n + 1 /\ 19 + (n + n + n + 1) = 20 + n + n + n
    OBVIOUS
  <2>2. QED BY <1>5, <1>13, <2>1
<1>20. QED BY <1>7, <1>10, <1>11, <1>12, <1>16, <1>17, <1>18, <1>19

WorkerScriptSteps(n) ==
  /\ n \in Nat
  /\ Len(WorkerScript) = 23 + n + n + n
  /\ DOMAIN WorkerScript = 1 .. Len(WorkerScript)
  /\ WorkerScript[1] = Do("send", <<ARefund>>, Accepted)
  /\ WorkerScript[2] = Do("poll", "a-refund", {"APPLIED"})
  /\ WorkerScript[3] = Do("order", "order-a", [status |-> "refunded", seq |-> 3])
  /\ WorkerScript[4] = Do("send", <<ACapture>>, Accepted)
  /\ WorkerScript[5] = Do("poll", "a-capture", {"IGNORED"})
  /\ WorkerScript[6] = Do("event", "a-capture", [reason |-> "STALE_SEQUENCE"])
  /\ WorkerScript[7] = Do("order", "order-a", [status |-> "refunded", seq |-> 3])
  /\ WorkerScript[8] = Do("rows", "order-a", 2)
  /\ WorkerScript[9] = Do("send", <<BAuth>>, Unchecked)
  /\ WorkerScript[10] = Do("poll", "b-auth", {"APPLIED"})
  /\ WorkerScript[11] = Do("send", <<BCapture>>, Unchecked)
  /\ WorkerScript[12] = Do("poll", "b-capture", {"APPLIED"})
  /\ WorkerScript[13] = Do("order", "order-b", [status |-> "captured", seq |-> 2])
  /\ WorkerScript[14] = Do("send", <<CAuth>>, Unchecked)
  /\ WorkerScript[15] = Do("poll", "c", {"APPLIED"})
  /\ WorkerScript[16] = Do("send", <<CAuth>>, {"DUPLICATE"})
  /\ WorkerScript[17] = Do("event", "c", [count |-> 2])
  /\ WorkerScript[18] = Do("rowsOf", "c", 1)
  /\ WorkerScript[19] = Do("order", "order-c", [status |-> "authorized"])
  /\ \A i \in 1 .. n :
       /\ WorkerScript[19 + i] = Do("send", <<DAuth(i)>>, Unchecked)
       /\ WorkerScript[19 + n + i] = Do("poll", EventD[i], {"APPLIED", "IGNORED"})
       /\ WorkerScript[19 + n + n + i] = Do("rowsOf", EventD[i], 1)
  /\ WorkerScript[20 + n + n + n] = Do("notPending", {EventD[i] : i \in 1 .. n}, TRUE)
  /\ WorkerScript[20 + n + n + n + 1] =
       Do("order", "order-a", [status |-> "refunded", seq |-> 3])
  /\ WorkerScript[20 + n + n + n + 2] = Do("listed", "order-a", 2)
  /\ WorkerScript[20 + n + n + n + 3] = Do("orders", {"order-none"}, FALSE)

LEMMA WorkerSteps == WorkerScriptSteps(DisjointOrders)
<1> DEFINE n == DisjointOrders
           a1 == Do("send", <<ARefund>>, Accepted)
           a2 == Do("poll", "a-refund", {"APPLIED"})
           a3 == Do("order", "order-a", [status |-> "refunded", seq |-> 3])
           a4 == Do("send", <<ACapture>>, Accepted)
           a5 == Do("poll", "a-capture", {"IGNORED"})
           a6 == Do("event", "a-capture", [reason |-> "STALE_SEQUENCE"])
           a8 == Do("rows", "order-a", 2)
           b1 == Do("send", <<BAuth>>, Unchecked)
           b2 == Do("poll", "b-auth", {"APPLIED"})
           b3 == Do("send", <<BCapture>>, Unchecked)
           b4 == Do("poll", "b-capture", {"APPLIED"})
           b5 == Do("order", "order-b", [status |-> "captured", seq |-> 2])
           c1 == Do("send", <<CAuth>>, Unchecked)
           c2 == Do("poll", "c", {"APPLIED"})
           c3 == Do("send", <<CAuth>>, {"DUPLICATE"})
           c4 == Do("event", "c", [count |-> 2])
           c5 == Do("rowsOf", "c", 1)
           c6 == Do("order", "order-c", [status |-> "authorized"])
           ds(i) == Do("send", <<DAuth(i)>>, Unchecked)
           dp(i) == Do("poll", EventD[i], {"APPLIED", "IGNORED"})
           dr(i) == Do("rowsOf", EventD[i], 1)
           o1 == Do("notPending", {EventD[i] : i \in 1 .. n}, TRUE)
           e2 == Do("listed", "order-a", 2)
           e3 == Do("orders", {"order-none"}, FALSE)
           s == [i \in 1 .. n |-> ds(i)]
           p == [i \in 1 .. n |-> dp(i)]
           r == [i \in 1 .. n |-> dr(i)]
<1>1. TestA = <<a1, a2, a3, a4, a5, a6, a3, a8>>
  BY DEF TestA, Send1, ARefund, ACapture
<1>2. TestB = <<b1, b2, b3, b4, b5>>
  BY DEF TestB, Send1, BAuth, BCapture
<1>3. TestC = <<c1, c2, c3, c4, c5, c6>>
  BY DEF TestC, Send1, CAuth
<1>4. TestD = s \o p \o r \o <<o1>>
  BY DEF TestD, Send1, ForEach, DAuth
<1>5. TestE = <<a3, e2, e3>>
  BY DEF TestE
<1>6. n \in Nat
  BY ScriptsAssumption DEF OrderD
<1> DEFINE T == {a1, a2, a3, a4, a5, a6, a8, b1, b2, b3, b4, b5, c1, c2, c3, c4, c5, c6, o1, e2, e3}
                \union {ds(i) : i \in 1 .. n} \union {dp(i) : i \in 1 .. n}
                \union {dr(i) : i \in 1 .. n}
<1> HIDE DEF a1, a2, a3, a4, a5, a6, a8, b1, b2, b3, b4, b5, c1, c2, c3, c4, c5, c6,
             o1, e2, e3, ds, dp, dr, n
<1>7. List(TestA, T, 8) /\ List(TestB, T, 5) /\ List(TestC, T, 6) /\ List(TestE, T, 3)
      /\ List(<<o1>>, T, 1)
  <2>1. a1 \in T /\ a2 \in T /\ a3 \in T /\ a4 \in T /\ a5 \in T /\ a6 \in T /\ a8 \in T
    OBVIOUS
  <2>2. b1 \in T /\ b2 \in T /\ b3 \in T /\ b4 \in T /\ b5 \in T
    OBVIOUS
  <2>3. c1 \in T /\ c2 \in T /\ c3 \in T /\ c4 \in T /\ c5 \in T /\ c6 \in T
    OBVIOUS
  <2>4. e2 \in T /\ e3 \in T /\ o1 \in T
    OBVIOUS
  <2> HIDE DEF T
  <2>5. List(TestA, T, 8)
    BY <1>1, <2>1 DEF List
  <2>6. List(TestB, T, 5)
    BY <1>2, <2>2 DEF List
  <2>7. List(TestC, T, 6)
    BY <1>3, <2>3 DEF List
  <2>8. List(TestE, T, 3) /\ List(<<o1>>, T, 1)
    BY <1>5, <2>1, <2>4 DEF List
  <2>9. QED BY <2>5, <2>6, <2>7, <2>8
<1>8. List(s, T, n) /\ List(p, T, n) /\ List(r, T, n)
  <2>1. \A i \in 1 .. n : ds(i) \in T /\ dp(i) \in T /\ dr(i) \in T
    OBVIOUS
  <2> HIDE DEF T
  <2>2. QED BY <1>6, <2>1 DEF List
<1>9. \A i \in 1 .. n : s[i] = ds(i) /\ p[i] = dp(i) /\ r[i] = dr(i)
  OBVIOUS
<1> HIDE DEF T, s, p, r
<1> DEFINE o == <<o1>>
           ab == TestA \o TestB
           abc == ab \o TestC
           sp == s \o p
           spr == sp \o r
           d == spr \o o
           abcd == abc \o d
           all == abcd \o TestE
<1>10. /\ Joins(ab, TestA, TestB) /\ Joins(abc, ab, TestC) /\ Joins(sp, s, p)
       /\ Joins(spr, sp, r) /\ Joins(d, spr, o) /\ Joins(abcd, abc, d)
       /\ Joins(all, abcd, TestE)
  BY DEF Joins
<1>11. WorkerScript = all
  BY <1>4 DEF WorkerScript
<1>12. o[1] = o1 /\ List(o, T, 1)
  BY <1>7
<1> HIDE DEF o, ab, abc, sp, spr, d, abcd, all
<1>13. /\ List(all, T, 23 + n + n + n)
       /\ \A k \in 1 .. 8 : all[k] = TestA[k]
       /\ \A k \in 1 .. 5 : all[8 + k] = TestB[k]
       /\ \A k \in 1 .. 6 : all[13 + k] = TestC[k]
       /\ \A i \in 1 .. n : /\ all[19 + i] = s[i] /\ all[19 + n + i] = p[i]
                            /\ all[19 + n + n + i] = r[i]
       /\ all[20 + n + n + n] = o[1]
       /\ \A k \in 1 .. 3 : all[20 + n + n + n + k] = TestE[k]
  BY <1>6, <1>7, <1>8, <1>10, <1>12, FiveTests
<1>14. Len(all) = 23 + n + n + n /\ DOMAIN all = 1 .. Len(all)
  BY <1>13 DEF List
<1>15. /\ all[1] = a1 /\ all[2] = a2 /\ all[3] = a3 /\ all[4] = a4 /\ all[5] = a5
       /\ all[6] = a6 /\ all[7] = a3 /\ all[8] = a8
  BY <1>1, <1>13
<1>16. all[9] = b1 /\ all[10] = b2 /\ all[11] = b3 /\ all[12] = b4 /\ all[13] = b5
  <2>1. /\ all[8 + 1] = TestB[1] /\ all[8 + 2] = TestB[2] /\ all[8 + 3] = TestB[3]
        /\ all[8 + 4] = TestB[4] /\ all[8 + 5] = TestB[5]
    BY <1>13
  <2>2. QED BY <1>2, <2>1
<1>17. /\ all[14] = c1 /\ all[15] = c2 /\ all[16] = c3 /\ all[17] = c4 /\ all[18] = c5
       /\ all[19] = c6
  <2>1. /\ all[13 + 1] = TestC[1] /\ all[13 + 2] = TestC[2] /\ all[13 + 3] = TestC[3]
        /\ all[13 + 4] = TestC[4] /\ all[13 + 5] = TestC[5] /\ all[13 + 6] = TestC[6]
    BY <1>13
  <2>2. QED BY <1>3, <2>1
<1>18. /\ all[20 + n + n + n] = o1 /\ all[20 + n + n + n + 1] = a3
       /\ all[20 + n + n + n + 2] = e2 /\ all[20 + n + n + n + 3] = e3
  BY <1>5, <1>12, <1>13
<1>19. \A i \in 1 .. n : /\ all[19 + i] = ds(i) /\ all[19 + n + i] = dp(i)
                         /\ all[19 + n + n + i] = dr(i)
  BY <1>9, <1>13
<1>20. QED
  BY <1>6, <1>11, <1>14, <1>15, <1>16, <1>17, <1>18, <1>19
     DEF WorkerScriptSteps, a1, a2, a3, a4, a5, a6, a8, b1, b2, b3, b4, b5,
         c1, c2, c3, c4, c5, c6, o1, e2, e3, ds, dp, dr, n

(* Where each body is sent.                                                *)
LEMMA WorkerSendsAll ==
  /\ WorkerBodies \subseteq Bodies
  /\ {"a-refund", "a-capture", "b-auth", "b-capture", "c"} \subseteq EventIds
  /\ \A i \in 1 .. DisjointOrders : EventD[i] \in EventIds
  /\ {"order-a", "order-b", "order-c"} \subseteq Orders
<1> DEFINE n == DisjointOrders
<1>1. ASSUME NEW k \in 1 .. Len(WorkerScript), NEW b, NEW want,
             WorkerScript[k] = Do("send", <<b>>, want)
      PROVE  b \in Bodies
  <2>1. k \in DOMAIN WorkerScript
    BY WorkerSteps DEF WorkerScriptSteps
  <2>2. WorkerScript[k].op = "send" /\ WorkerScript[k].of = <<b>>
    BY <1>1, DoFields
  <2>3. 1 \in DOMAIN WorkerScript[k].of /\ WorkerScript[k].of[1] = b
    BY <2>2
  <2>4. QED BY <2>1, <2>2, <2>3, SentBodies
<1>2. n \in Nat /\ Len(WorkerScript) = 23 + n + n + n
  BY WorkerSteps DEF WorkerScriptSteps
<1>3. {1, 4, 9, 11, 14} \subseteq 1 .. Len(WorkerScript)
  BY <1>2
<1>4. ARefund \in Bodies /\ ACapture \in Bodies /\ BAuth \in Bodies
  BY <1>1, <1>3, WorkerSteps DEF WorkerScriptSteps
<1>5. BCapture \in Bodies /\ CAuth \in Bodies
  BY <1>1, <1>3, WorkerSteps DEF WorkerScriptSteps
<1>6. ASSUME NEW i \in 1 .. n PROVE DAuth(i) \in Bodies
  <2>1. 19 + i \in 1 .. Len(WorkerScript)
    BY <1>2
  <2>2. WorkerScript[19 + i] = Do("send", <<DAuth(i)>>, Unchecked)
    BY WorkerSteps DEF WorkerScriptSteps
  <2>3. QED BY <1>1, <2>1, <2>2
<1>7. WorkerBodies \subseteq Bodies
  BY <1>4, <1>5, <1>6 DEF WorkerBodies
<1>8. /\ ARefund.event = "a-refund" /\ ACapture.event = "a-capture"
      /\ BAuth.event = "b-auth" /\ BCapture.event = "b-capture" /\ CAuth.event = "c"
      /\ ARefund.order = "order-a" /\ BAuth.order = "order-b" /\ CAuth.order = "order-c"
      /\ \A i : DAuth(i).event = EventD[i]
  BY DEF ARefund, ACapture, BAuth, BCapture, CAuth, DAuth, Webhook
<1>9. QED BY <1>4, <1>5, <1>6, <1>7, <1>8, BodyFacts

(* What the bodies of an order, and those of an event, are.                *)
LEMMA WorkerBodyIs ==
  ASSUME NEW b \in WorkerBodies
  PROVE  /\ b.order = "order-a" => b \in {ARefund, ACapture}
         /\ b.order = "order-b" => b \in {BAuth, BCapture}
         /\ b.order = "order-c" => b = CAuth
         /\ b.order # "order-none"
         /\ b.event = "a-refund" => b = ARefund
         /\ b.event = "a-capture" => b = ACapture
         /\ b.event = "b-capture" => b = BCapture
         /\ b.event = "c" => b = CAuth
<1>1. CASE b \in {ARefund, ACapture, BAuth, BCapture, CAuth}
  BY <1>1 DEF ARefund, ACapture, BAuth, BCapture, CAuth, Webhook
<1>2. CASE b \in {DAuth(i) : i \in 1 .. DisjointOrders}
  <2>1. PICK i \in 1 .. DisjointOrders : b = DAuth(i)
    BY <1>2
  <2>2. i \in 1 .. 5
    BY ScriptsAssumption DEF OrderD
  <2>3. b.event = EventD[i] /\ b.order = OrderD[i]
    BY <2>1 DEF DAuth, Webhook
  <2>4. QED BY <2>2, <2>3 DEF EventD, OrderD
<1>3. QED BY <1>1, <1>2 DEF WorkerBodies

LEMMA WorkerBodyFields ==
  /\ ARefund.event = "a-refund" /\ ARefund.order = "order-a" /\ ARefund.seq = 3
  /\ ACapture.event = "a-capture" /\ ACapture.order = "order-a" /\ ACapture.seq = 2
  /\ BAuth.seq = 1
  /\ BCapture.event = "b-capture" /\ BCapture.order = "order-b" /\ BCapture.seq = 2
  /\ CAuth.event = "c" /\ CAuth.order = "order-c" /\ CAuth.seq = 1
  /\ EventTypeToStatus[ARefund.type] = "refunded"
  /\ EventTypeToStatus[BCapture.type] = "captured"
  /\ EventTypeToStatus[CAuth.type] = "authorized"
<1>1. /\ ARefund.type = "payment.refunded" /\ BCapture.type = "payment.captured"
      /\ CAuth.type = "payment.authorized"
  BY DEF ARefund, BCapture, CAuth, Webhook
<1>2. /\ EventTypeToStatus["payment.refunded"] = "refunded"
      /\ EventTypeToStatus["payment.captured"] = "captured"
      /\ EventTypeToStatus["payment.authorized"] = "authorized"
  BY DEF EventTypeToStatus
<1>3. QED BY <1>1, <1>2 DEF ARefund, ACapture, BAuth, BCapture, CAuth, Webhook

(* What a step of the script is.                                           *)
IsSend(d, k) ==
  /\ d.op = "send"
  /\ \E b \in WorkerBodies :
       /\ d.of = <<b>>
       /\ b = CAuth <=> k \in {14, 16}
       /\ IF k = 16 THEN d.want = {"DUPLICATE"} ELSE DeliveryResults \subseteq d.want

IsPoll(d) == d.op = "poll" /\ d.of \in EventIds /\ d.want \subseteq {"APPLIED", "IGNORED"}

LEMMA WorkerPlan ==
  ASSUME NEW k \in 1 .. Len(WorkerScript)
  PROVE  \/ IsSend(WorkerScript[k], k)
         \/ IsPoll(WorkerScript[k])
         \/ WorkerScript[k].op \in Queries
<1> DEFINE n == DisjointOrders
           d == WorkerScript[k]
<1>1. n \in Nat /\ Len(WorkerScript) = 23 + n + n + n
  BY WorkerSteps DEF WorkerScriptSteps
<1>2. ASSUME NEW b \in WorkerBodies, NEW want, d = Do("send", <<b>>, want),
             b = CAuth <=> k \in {14, 16},
             IF k = 16 THEN want = {"DUPLICATE"} ELSE DeliveryResults \subseteq want
      PROVE  IsSend(d, k)
  BY <1>2, DoFields DEF IsSend
<1>3. ASSUME NEW e \in EventIds, NEW want \in SUBSET {"APPLIED", "IGNORED"},
             d = Do("poll", e, want)
      PROVE  IsPoll(d)
  <2>1. d.op = "poll" /\ d.of = e /\ d.want = want
    BY <1>3, DoFields
  <2>2. QED BY <2>1 DEF IsPoll
<1>4. ASSUME NEW op \in Queries, NEW of, NEW want, d = Do(op, of, want)
      PROVE  d.op \in Queries
  BY <1>4, DoFields
<1>5. DeliveryResults \subseteq Accepted /\ DeliveryResults \subseteq Unchecked
  BY DEF Accepted, Unchecked
<1>6. {ARefund, ACapture, BAuth, BCapture, CAuth} \subseteq WorkerBodies
  BY DEF WorkerBodies
<1>7. /\ ARefund # CAuth /\ ACapture # CAuth /\ BAuth # CAuth /\ BCapture # CAuth
      /\ \A i \in 1 .. n : DAuth(i) # CAuth
  <2>1. \A i \in 1 .. n : DAuth(i).event # "c"
    <3>1. \A i \in 1 .. n : i \in 1 .. 5
      BY ScriptsAssumption DEF OrderD
    <3>2. QED BY <3>1 DEF DAuth, Webhook, EventD
  <2>2. QED BY <2>1 DEF ARefund, ACapture, BAuth, BCapture, CAuth, Webhook
<1>8. {"order", "event", "rows", "rowsOf", "listed", "notPending", "orders"} \subseteq Queries
  BY DEF Queries
<1>9. ASSUME k \in {1, 4, 9, 11, 14, 16} PROVE IsSend(d, k)
  <2>1. /\ k = 1 => d = Do("send", <<ARefund>>, Accepted)
        /\ k = 4 => d = Do("send", <<ACapture>>, Accepted)
        /\ k = 9 => d = Do("send", <<BAuth>>, Unchecked)
        /\ k = 11 => d = Do("send", <<BCapture>>, Unchecked)
        /\ k = 14 => d = Do("send", <<CAuth>>, Unchecked)
        /\ k = 16 => d = Do("send", <<CAuth>>, {"DUPLICATE"})
    BY WorkerSteps DEF WorkerScriptSteps
  <2> HIDE DEF d
  <2>2. CASE k \in {1, 4, 9, 11}
    BY <1>2, <1>5, <1>6, <1>7, <2>1, <2>2
  <2>3. CASE k \in {14, 16}
    BY <1>2, <1>5, <1>6, <2>1, <2>3
  <2>4. QED BY <1>9, <2>2, <2>3
<1>10. ASSUME k \in {2, 5, 10, 12, 15} PROVE IsPoll(d)
  <2>1. \E e \in {"a-refund", "a-capture", "b-auth", "b-capture", "c"} :
          d = Do("poll", e, {"APPLIED"}) \/ d = Do("poll", e, {"IGNORED"})
    BY <1>10, WorkerSteps DEF WorkerScriptSteps
  <2> HIDE DEF d
  <2>2. QED BY <1>3, <2>1, WorkerSendsAll
<1>11. ASSUME k \in {3, 6, 7, 8, 13, 17, 18, 19} PROVE d.op \in Queries
  <2>1. \E op \in {"order", "event", "rows", "rowsOf"} :
          \E of, want : d = Do(op, of, want)
    <3>1. PICK refunded, stale : /\ refunded = [status |-> "refunded", seq |-> 3]
                                 /\ stale = [reason |-> "STALE_SEQUENCE"]
      OBVIOUS
    <3>2. PICK captured, twice, authorized :
            /\ captured = [status |-> "captured", seq |-> 2]
            /\ twice = [count |-> 2] /\ authorized = [status |-> "authorized"]
      OBVIOUS
    <3>3. /\ k = 3 => d = Do("order", "order-a", refunded)
          /\ k = 6 => d = Do("event", "a-capture", stale)
          /\ k = 7 => d = Do("order", "order-a", refunded)
          /\ k = 8 => d = Do("rows", "order-a", 2)
          /\ k = 13 => d = Do("order", "order-b", captured)
          /\ k = 17 => d = Do("event", "c", twice)
          /\ k = 18 => d = Do("rowsOf", "c", 1)
          /\ k = 19 => d = Do("order", "order-c", authorized)
      BY <3>1, <3>2, WorkerSteps DEF WorkerScriptSteps
    <3>4. QED
      <4> HIDE DEF d
      <4>1. CASE k \in {3, 6, 7, 8}
        BY <3>3, <4>1
      <4>2. CASE k \in {13, 17, 18, 19}
        BY <3>3, <4>2
      <4>3. QED BY <1>11, <4>1, <4>2
  <2> HIDE DEF d
  <2>2. QED BY <1>4, <1>8, <2>1
<1>12. ASSUME NEW i \in 1 .. n, k = 19 + i PROVE IsSend(d, k)
  <2>1. d = Do("send", <<DAuth(i)>>, Unchecked)
    BY <1>12, WorkerSteps DEF WorkerScriptSteps
  <2>2. DAuth(i) \in WorkerBodies
    BY DEF WorkerBodies
  <2>3. k \notin {14, 16}
    BY <1>1, <1>12
  <2>4. QED BY <1>2, <1>5, <1>7, <2>1, <2>2, <2>3
<1>13. ASSUME NEW i \in 1 .. n, k = 19 + n + i PROVE IsPoll(d)
  <2>1. d = Do("poll", EventD[i], {"APPLIED", "IGNORED"})
    BY <1>13, WorkerSteps DEF WorkerScriptSteps
  <2>2. QED BY <1>3, <2>1, WorkerSendsAll
<1>14. ASSUME NEW i \in 1 .. n, k = 19 + n + n + i PROVE d.op \in Queries
  <2>1. d = Do("rowsOf", EventD[i], 1)
    BY <1>14, WorkerSteps DEF WorkerScriptSteps
  <2>2. QED BY <1>4, <1>8, <2>1
<1>15. ASSUME k \in 20 + n + n + n .. 23 + n + n + n PROVE d.op \in Queries
  <2>1. k \in {20 + n + n + n, 20 + n + n + n + 1, 20 + n + n + n + 2, 20 + n + n + n + 3}
    BY <1>1, <1>15
  <2>2. \/ d = Do("notPending", {EventD[i] : i \in 1 .. n}, TRUE)
        \/ d = Do("order", "order-a", [status |-> "refunded", seq |-> 3])
        \/ d = Do("listed", "order-a", 2)
        \/ d = Do("orders", {"order-none"}, FALSE)
    BY <2>1, WorkerSteps DEF WorkerScriptSteps
  <2> HIDE DEF d
  <2>3. QED BY <1>4, <1>8, <2>2
<1>16. \/ k \in 1 .. 19
       \/ \E i \in 1 .. n : k \in {19 + i, 19 + n + i, 19 + n + n + i}
       \/ k \in 20 + n + n + n .. 23 + n + n + n
  <2> HIDE DEF n
  <2>1. CASE k <= 19
    BY <1>1, <2>1
  <2>2. CASE k > 19 /\ k <= 19 + n
    <3>1. k - 19 \in 1 .. n /\ k = 19 + (k - 19)
      BY <1>1, <2>2
    <3>2. QED BY <3>1
  <2>3. CASE k > 19 + n /\ k <= 19 + n + n
    <3>1. k - 19 - n \in 1 .. n /\ k = 19 + n + (k - 19 - n)
      BY <1>1, <2>3
    <3>2. QED BY <3>1
  <2>4. CASE k > 19 + n + n /\ k <= 19 + n + n + n
    <3>1. k - 19 - n - n \in 1 .. n /\ k = 19 + n + n + (k - 19 - n - n)
      BY <1>1, <2>4
    <3>2. QED BY <3>1
  <2>5. CASE k > 19 + n + n + n
    BY <1>1, <2>5
  <2>6. QED BY <1>1, <2>1, <2>2, <2>3, <2>4, <2>5
<1>17. k \in 1 .. 19 => k \in {1, 4, 9, 11, 14, 16} \/ k \in {2, 5, 10, 12, 15}
                         \/ k \in {3, 6, 7, 8, 13, 17, 18, 19}
  OBVIOUS
<1> HIDE DEF d
<1>18. IsSend(d, k) \/ IsPoll(d) \/ d.op \in Queries
  BY <1>9, <1>10, <1>11, <1>12, <1>13, <1>14, <1>15, <1>16, <1>17
<1>19. QED BY <1>18 DEF d

(* An event that is settled was decided, and has one row.                  *)
LEMMA WorkerSettled ==
  ASSUME WorkerKnows, NEW e \in EventIds, events[e].status \in {"APPLIED", "IGNORED"}
  PROVE  /\ Decided(e) /\ e \in Stored
         /\ events[e].body \in WorkerBodies /\ events[e].body.event = e
<1>1. e \in Stored
  BY DEF Stored
<1>2. Decided(e)
  BY DEF Decided, WorkerKnows
<1>3. events[e].body \in WorkerBodies
  BY <1>1 DEF WorkerKnows
<1>4. events[e].body.event = e
  BY <1>1 DEF WorkerKnows, EffectInv, LockInv, TypeInv, ControlOK, BodiesOK
<1>5. QED BY <1>1, <1>2, <1>3, <1>4

LEMMA WorkerRow ==
  ASSUME WorkerKnows, NEW e \in EventIds, Decided(e)
  PROVE  \E o \in Orders : \E i \in DOMAIN history[o] :
           /\ RowsOf(e) = {<<o, i>>} /\ o = events[e].body.order
           /\ history[o][i].event = e /\ history[o][i].outcome = events[e].status
<1>1. PICK x \in RowsOf(e) : /\ RowsOf(e) = {x}
                             /\ x[1] = events[e].body.order
                             /\ history[x[1]][x[2]].outcome = events[e].status
  BY DEF WorkerKnows, EffectInv, ExactlyOnce
<1>2. \E o \in Orders : \E i \in DOMAIN history[o] : history[o][i].event = e /\ x = <<o, i>>
  BY RowsMember
<1>3. QED BY <1>1, <1>2

LEMMA WorkerRowOf ==
  ASSUME WorkerKnows, NEW o \in Orders, NEW i \in DOMAIN history[o]
  PROVE  LET e == history[o][i].event
         IN  /\ e \in EventIds /\ events[e].status \in {"APPLIED", "IGNORED"}
             /\ events[e].body \in WorkerBodies /\ events[e].body.event = e
             /\ events[e].body.order = o /\ RowsOf(e) = {<<o, i>>}
<1> DEFINE e == history[o][i].event
<1>1. e \in EventIds
  BY DEF WorkerKnows, HistoryNames
<1>2. <<o, i>> \in RowsOf(e)
  BY RowsMember
<1> HIDE DEF e
<1>3. Decided(e)
  BY <1>1, <1>2 DEF WorkerKnows, EffectInv, ExactlyOnce
<1>4. events[e].status \in {"APPLIED", "IGNORED"}
  BY <1>3 DEF Decided
<1>5. PICK p \in Orders : \E j \in DOMAIN history[p] :
                              RowsOf(e) = {<<p, j>>} /\ p = events[e].body.order
  BY <1>1, <1>3, WorkerRow
<1>6. PICK j \in DOMAIN history[p] : RowsOf(e) = {<<p, j>>}
  BY <1>5
<1>7. p = o /\ j = i
  BY <1>2, <1>6
<1>8. QED BY <1>1, <1>4, <1>5, <1>6, <1>7, WorkerSettled DEF e

(* An order is as one of the bodies left it, not older than any decided.   *)
LEMMA WorkerOrder ==
  ASSUME WorkerKnows, NEW e \in EventIds, events[e].status \in {"APPLIED", "IGNORED"},
         NEW a \in WorkerBodies, a = events[e].body, a.seq > 0
  PROVE  \E b \in WorkerBodies :
           /\ b.order = a.order /\ b.seq >= a.seq
           /\ orders[a.order].seq = b.seq
           /\ orders[a.order].status = EventTypeToStatus[b.type]
<1>1. Decided(e)
  BY WorkerSettled
<1>2. a \in Bodies /\ a.order \in Orders /\ a.seq \in Nat
  BY WorkerSendsAll, BodyFacts
<1>3. PICK o \in Orders : o = a.order
  BY <1>2
<1>4. orders[o].seq >= a.seq /\ orders[o].seq \in Nat
  BY <1>1, <1>3 DEF WorkerKnows, EffectInv, NothingNewerLost, LockInv, TypeInv, TypeOK, OrderRow
<1>5. orders[o].seq > 0
  BY <1>2, <1>4
<1>6. PICK f \in DecidedFor(o) : Sets(f, orders[o])
  BY <1>5 DEF WorkerKnows, OrdersFollow, Follows
<1>7. /\ f \in EventIds /\ events[f].status \in {"APPLIED", "IGNORED"}
      /\ events[f].body.order = o
  BY <1>6 DEF DecidedFor, Decided
<1>8. events[f].body \in WorkerBodies
  BY <1>7, WorkerSettled
<1>9. QED BY <1>3, <1>4, <1>6, <1>7, <1>8 DEF Sets

LEMMA WorkerOrders ==
  ASSUME WorkerKnows
  PROVE  /\ events["a-refund"].status \in {"APPLIED", "IGNORED"} =>
              orders["order-a"].status = "refunded" /\ orders["order-a"].seq = 3
         /\ events["b-capture"].status \in {"APPLIED", "IGNORED"} =>
              orders["order-b"].status = "captured" /\ orders["order-b"].seq = 2
         /\ events["c"].status \in {"APPLIED", "IGNORED"} =>
              orders["order-c"].status = "authorized"
<1>1. ASSUME events["a-refund"].status \in {"APPLIED", "IGNORED"}
      PROVE  orders["order-a"].status = "refunded" /\ orders["order-a"].seq = 3
  <2>1. "a-refund" \in EventIds
    BY WorkerSendsAll
  <2>2. events["a-refund"].body = ARefund /\ ARefund \in WorkerBodies
    BY <1>1, <2>1, WorkerSettled, WorkerBodyIs
  <2>3. PICK b \in WorkerBodies : /\ b.order = "order-a" /\ b.seq >= 3
                                  /\ orders["order-a"].seq = b.seq
                                  /\ orders["order-a"].status = EventTypeToStatus[b.type]
    <3>1. ARefund.seq > 0
      BY WorkerBodyFields
    <3>2. QED BY <1>1, <2>1, <2>2, <3>1, WorkerOrder, WorkerBodyFields
  <2>4. b = ARefund
    BY <2>3, WorkerBodyIs, WorkerBodyFields
  <2>5. QED BY <2>3, <2>4, WorkerBodyFields
<1>2. ASSUME events["b-capture"].status \in {"APPLIED", "IGNORED"}
      PROVE  orders["order-b"].status = "captured" /\ orders["order-b"].seq = 2
  <2>1. "b-capture" \in EventIds
    BY WorkerSendsAll
  <2>2. events["b-capture"].body = BCapture /\ BCapture \in WorkerBodies
    BY <1>2, <2>1, WorkerSettled, WorkerBodyIs
  <2>3. PICK b \in WorkerBodies : /\ b.order = "order-b" /\ b.seq >= 2
                                  /\ orders["order-b"].seq = b.seq
                                  /\ orders["order-b"].status = EventTypeToStatus[b.type]
    <3>1. BCapture.seq > 0
      BY WorkerBodyFields
    <3>2. QED BY <1>2, <2>1, <2>2, <3>1, WorkerOrder, WorkerBodyFields
  <2>4. b = BCapture
    BY <2>3, WorkerBodyIs, WorkerBodyFields
  <2>5. QED BY <2>3, <2>4, WorkerBodyFields
<1>3. ASSUME events["c"].status \in {"APPLIED", "IGNORED"}
      PROVE  orders["order-c"].status = "authorized"
  <2>1. "c" \in EventIds
    BY WorkerSendsAll
  <2>2. events["c"].body = CAuth /\ CAuth \in WorkerBodies
    BY <1>3, <2>1, WorkerSettled, WorkerBodyIs
  <2>3. PICK b \in WorkerBodies : /\ b.order = "order-c"
                                  /\ orders["order-c"].status = EventTypeToStatus[b.type]
    <3>1. CAuth.seq > 0
      BY WorkerBodyFields
    <3>2. QED BY <1>3, <2>1, <2>2, <3>1, WorkerOrder, WorkerBodyFields
  <2>4. b = CAuth
    BY <2>3, WorkerBodyIs, WorkerBodyFields
  <2>5. QED BY <2>3, <2>4, WorkerBodyFields
<1>4. QED BY <1>1, <1>2, <1>3

LEMMA WorkerCounts ==
  ASSUME WorkerKnows, NEW e \in EventIds, events[e].status \in {"APPLIED", "IGNORED"}
  PROVE  Cardinality(RowsOf(e)) = 1
<1>1. \E x : RowsOf(e) = {x}
  BY WorkerSettled, WorkerRow
<1>2. QED BY <1>1, FS_Singleton

(* Two events of the order: two rows, one of them of an ignored event.     *)
LEMMA WorkerListing ==
  ASSUME WorkerKnows, events["a-refund"].status = "APPLIED",
         events["a-capture"].status = "IGNORED"
  PROVE  /\ Len(history["order-a"]) = 2
         /\ Cardinality(EventsFor("order-a")) = 2
         /\ \E i \in DOMAIN history["order-a"] : history["order-a"][i].outcome = "IGNORED"
<1>1. /\ "a-refund" \in EventIds /\ "a-capture" \in EventIds /\ "order-a" \in Orders
      /\ "a-refund" # "a-capture"
  BY WorkerSendsAll
<1>2. /\ events["a-refund"].body = ARefund /\ events["a-capture"].body = ACapture
      /\ Decided("a-refund") /\ Decided("a-capture")
      /\ "a-refund" \in Stored /\ "a-capture" \in Stored
  BY <1>1, WorkerSettled, WorkerBodyIs
<1>3. PICK i \in DOMAIN history["order-a"] :
        RowsOf("a-refund") = {<<"order-a", i>>} /\ history["order-a"][i].event = "a-refund"
  BY <1>1, <1>2, WorkerRow, WorkerBodyFields
<1>4. PICK j \in DOMAIN history["order-a"] :
        /\ RowsOf("a-capture") = {<<"order-a", j>>}
        /\ history["order-a"][j].event = "a-capture"
        /\ history["order-a"][j].outcome = "IGNORED"
  BY <1>1, <1>2, WorkerRow, WorkerBodyFields
<1>5. ASSUME NEW k \in DOMAIN history["order-a"] PROVE k \in {i, j}
  <2>1. PICK e \in EventIds : /\ events[e].body \in WorkerBodies /\ events[e].body.event = e
                              /\ events[e].body.order = "order-a"
                              /\ RowsOf(e) = {<<"order-a", k>>}
    BY <1>1, WorkerRowOf
  <2>2. e \in {"a-refund", "a-capture"}
    BY <2>1, WorkerBodyIs, WorkerBodyFields
  <2>3. CASE e = "a-refund"
    <3>1. <<"order-a", k>> = <<"order-a", i>>
      BY <1>3, <2>1, <2>3
    <3>2. QED BY <3>1
  <2>4. CASE e = "a-capture"
    <3>1. <<"order-a", k>> = <<"order-a", j>>
      BY <1>4, <2>1, <2>4
    <3>2. QED BY <3>1
  <2>5. QED BY <2>2, <2>3, <2>4
<1>6. i # j
  BY <1>1, <1>3, <1>4
<1>7. /\ Len(history["order-a"]) \in Nat
      /\ DOMAIN history["order-a"] = 1 .. Len(history["order-a"])
  BY <1>1 DEF WorkerKnows, EffectInv, LockInv, TypeInv, TypeOK
<1>8. 1 .. Len(history["order-a"]) = {i, j}
  BY <1>3, <1>4, <1>5, <1>7
<1>9. Len(history["order-a"]) = 2
  <2>1. Cardinality({i, j}) = 2
    BY <1>6, Sizes
  <2> DEFINE n == Len(history["order-a"])
  <2>2. n \in Nat /\ 1 .. n = {i, j}
    BY <1>7, <1>8
  <2> HIDE DEF n
  <2>3. Cardinality(1 .. n) = IF 1 > n THEN 0 ELSE n - 1 + 1
    BY <2>2, FS_Interval
  <2>4. Cardinality(1 .. n) = 2
    BY <2>1, <2>2
  <2>5. n = 2
    BY <2>2, <2>3, <2>4
  <2>6. QED BY <2>5 DEF n
<1>10. EventsFor("order-a") = {"a-refund", "a-capture"}
  <2>1. ASSUME NEW e \in EventsFor("order-a") PROVE e \in {"a-refund", "a-capture"}
    <3>1. e \in Stored /\ events[e].body.order = "order-a"
      BY DEF EventsFor
    <3>2. events[e].body \in WorkerBodies /\ events[e].body.event = e
      BY <3>1 DEF WorkerKnows, EffectInv, LockInv, TypeInv, ControlOK, BodiesOK
    <3>3. QED BY <3>1, <3>2, WorkerBodyIs, WorkerBodyFields
  <2>2. {"a-refund", "a-capture"} \subseteq EventsFor("order-a")
    BY <1>2, WorkerBodyFields DEF EventsFor
  <2>3. QED BY <2>1, <2>2
<1>11. Cardinality(EventsFor("order-a")) = 2
  <2>1. PICK x, y : x = "a-refund" /\ y = "a-capture" /\ x # y
    BY <1>1
  <2>2. EventsFor("order-a") = {x, y}
    BY <1>10, <2>1
  <2>3. Cardinality({x, y}) = 2
    BY <2>1, Sizes
  <2>4. QED BY <2>2, <2>3
<1>12. QED BY <1>4, <1>9, <1>11

(* The order that no event is of.                                          *)
LEMMA WorkerOrderless ==
  ASSUME WorkerKnows
  PROVE  orders["order-none"].exists = FALSE
<1>1. "order-none" \in Orders
  BY ScriptsAssumption DEF UnsentOrders
<1>2. history["order-none"] = << >>
  <2>1. ASSUME NEW i \in DOMAIN history["order-none"] PROVE FALSE
    <3>1. \E b \in WorkerBodies : b.order = "order-none"
      BY <1>1, WorkerRowOf
    <3>2. QED BY <3>1, WorkerBodyIs
  <2>2. history["order-none"] \in Seq(HistoryRow)
    BY <1>1 DEF WorkerKnows, EffectInv, LockInv, TypeInv, TypeOK
  <2>3. PICK rows \in Seq(HistoryRow) : rows = history["order-none"]
    BY <2>2
  <2>4. Len(rows) = 0
    <3>1. 1 \notin DOMAIN rows
      BY <2>1, <2>3
    <3>2. QED BY <3>1
  <2>5. rows = << >>
    BY <2>4
  <2>6. QED BY <2>3, <2>5
<1>3. orders["order-none"].exists \in BOOLEAN
  BY <1>1 DEF WorkerKnows, EffectInv, LockInv, TypeInv, TypeOK, OrderRow
<1>4. ~orders["order-none"].exists
  BY <1>1, <1>2 DEF WorkerKnows, HistoryInv, Explains
<1>5. QED BY <1>3, <1>4

(* What the steps that are past tell.                                      *)
LEMMA WorkerPast ==
  ASSUME WorkerKnows, step \in Nat
  PROVE  /\ step > 2 => events["a-refund"].status = "APPLIED"
         /\ step > 5 => events["a-capture"].status = "IGNORED"
         /\ step > 12 => events["b-capture"].status = "APPLIED"
         /\ step > 14 => events["c"].status # "ABSENT"
         /\ step > 15 => events["c"].status = "APPLIED"
         /\ \A i \in 1 .. DisjointOrders : step > 19 + DisjointOrders + i =>
              events[EventD[i]].status \in {"APPLIED", "IGNORED"}
<1> DEFINE n == DisjointOrders
<1>1. n \in Nat /\ Len(WorkerScript) = 23 + n + n + n
  BY WorkerSteps DEF WorkerScriptSteps
<1>2. ASSUME NEW k \in 1 .. Len(WorkerScript), k < step, NEW e, NEW want,
             WorkerScript[k] = Do("poll", e, want)
      PROVE  events[e].status \in want
  <2>1. Past(WorkerScript[k])
    BY <1>2 DEF WorkerKnows
  <2>2. WorkerScript[k].op = "poll" /\ WorkerScript[k].of = e /\ WorkerScript[k].want = want
    BY <1>2, DoFields
  <2>3. QED BY <2>1, <2>2 DEF Past
<1>3. {2, 5, 12, 14, 15} \subseteq 1 .. Len(WorkerScript)
  BY <1>1
<1>4. step > 2 => events["a-refund"].status \in {"APPLIED"}
  BY <1>2, <1>3, WorkerSteps DEF WorkerScriptSteps
<1>5. step > 5 => events["a-capture"].status \in {"IGNORED"}
  BY <1>2, <1>3, WorkerSteps DEF WorkerScriptSteps
<1>6. step > 12 => events["b-capture"].status \in {"APPLIED"}
  BY <1>2, <1>3, WorkerSteps DEF WorkerScriptSteps
<1>7. step > 15 => events["c"].status \in {"APPLIED"}
  BY <1>2, <1>3, WorkerSteps DEF WorkerScriptSteps
<1>8. step > 14 => events["c"].status # "ABSENT"
  <2>1. WorkerScript[14] = Do("send", <<CAuth>>, Unchecked)
    BY WorkerSteps DEF WorkerScriptSteps
  <2>2. WorkerScript[14].op = "send" /\ WorkerScript[14].of = <<CAuth>>
    BY <2>1, DoFields
  <2>3. step > 14 => Past(WorkerScript[14])
    BY <1>3 DEF WorkerKnows
  <2>4. WorkerScript[14].of[1].event = "c"
    BY <2>2, WorkerBodyFields
  <2>5. QED BY <2>2, <2>3, <2>4 DEF Past
<1>9. ASSUME NEW i \in 1 .. n, step > 19 + n + i
      PROVE  events[EventD[i]].status \in {"APPLIED", "IGNORED"}
  <2>1. 19 + n + i \in 1 .. Len(WorkerScript)
    BY <1>1
  <2>2. WorkerScript[19 + n + i] = Do("poll", EventD[i], {"APPLIED", "IGNORED"})
    BY WorkerSteps DEF WorkerScriptSteps
  <2>3. QED BY <1>2, <1>9, <2>1, <2>2
<1>10. QED BY <1>4, <1>5, <1>6, <1>7, <1>8, <1>9

(* Steps that ask for something are at these places.                       *)
Asks(k, d, n) ==
  \/ k > 2 /\ d = Do("order", "order-a", [status |-> "refunded", seq |-> 3])
  \/ k = 6 /\ d = Do("event", "a-capture", [reason |-> "STALE_SEQUENCE"])
  \/ k = 8 /\ d = Do("rows", "order-a", 2)
  \/ k = 13 /\ d = Do("order", "order-b", [status |-> "captured", seq |-> 2])
  \/ k = 17 /\ d = Do("event", "c", [count |-> 2])
  \/ k = 18 /\ d = Do("rowsOf", "c", 1)
  \/ k = 19 /\ d = Do("order", "order-c", [status |-> "authorized"])
  \/ \E i \in 1 .. n : k > 19 + n + i /\ d = Do("rowsOf", EventD[i], 1)
  \/ k = 20 + n + n + n /\ d = Do("notPending", {EventD[i] : i \in 1 .. n}, TRUE)
  \/ k > 5 /\ d = Do("listed", "order-a", 2)
  \/ d = Do("orders", {"order-none"}, FALSE)

LEMMA WorkerAsks ==
  ASSUME NEW k \in 1 .. Len(WorkerScript), WorkerScript[k].op \in Queries
  PROVE  Asks(k, WorkerScript[k], DisjointOrders)
<1> DEFINE n == DisjointOrders
           d == WorkerScript[k]
<1>1. n \in Nat /\ Len(WorkerScript) = 23 + n + n + n
  BY WorkerSteps DEF WorkerScriptSteps
<1>2. "send" \notin Queries /\ "poll" \notin Queries
  BY DEF Queries
<1>3. k \notin {1, 4, 9, 11, 14, 16}
  <2>1. d.op \in Queries
    OBVIOUS
  <2>2. /\ k = 1 => d = Do("send", <<ARefund>>, Accepted)
        /\ k = 4 => d = Do("send", <<ACapture>>, Accepted)
        /\ k = 9 => d = Do("send", <<BAuth>>, Unchecked)
    BY WorkerSteps DEF WorkerScriptSteps
  <2>3. /\ k = 11 => d = Do("send", <<BCapture>>, Unchecked)
        /\ k = 14 => d = Do("send", <<CAuth>>, Unchecked)
        /\ k = 16 => d = Do("send", <<CAuth>>, {"DUPLICATE"})
    BY WorkerSteps DEF WorkerScriptSteps
  <2> HIDE DEF d
  <2>4. k \in {1, 4, 9} => d.op = "send"
    BY <2>2, DoFields
  <2>5. k \in {11, 14, 16} => d.op = "send"
    BY <2>3, DoFields
  <2>6. QED BY <1>2, <2>1, <2>4, <2>5
<1>4. k \notin {2, 5, 10, 12, 15}
  <2>1. d.op \in Queries
    OBVIOUS
  <2>2. /\ k = 2 => d = Do("poll", "a-refund", {"APPLIED"})
        /\ k = 5 => d = Do("poll", "a-capture", {"IGNORED"})
        /\ k = 10 => d = Do("poll", "b-auth", {"APPLIED"})
    BY WorkerSteps DEF WorkerScriptSteps
  <2>3. /\ k = 12 => d = Do("poll", "b-capture", {"APPLIED"})
        /\ k = 15 => d = Do("poll", "c", {"APPLIED"})
    BY WorkerSteps DEF WorkerScriptSteps
  <2> HIDE DEF d
  <2>4. k \in {2, 5, 10} => d.op = "poll"
    BY <2>2, DoFields
  <2>5. k \in {12, 15} => d.op = "poll"
    BY <2>3, DoFields
  <2>6. QED BY <1>2, <2>1, <2>4, <2>5
<1>5. ASSUME NEW i \in 1 .. n PROVE k # 19 + i /\ k # 19 + n + i
  <2>1. /\ WorkerScript[19 + i] = Do("send", <<DAuth(i)>>, Unchecked)
        /\ WorkerScript[19 + n + i] = Do("poll", EventD[i], {"APPLIED", "IGNORED"})
    BY WorkerSteps DEF WorkerScriptSteps
  <2>2. WorkerScript[19 + i].op = "send" /\ WorkerScript[19 + n + i].op = "poll"
    BY <2>1, DoFields
  <2>3. QED BY <1>2, <2>2
<1>6. \/ k \in {3, 6, 7, 8, 13, 17, 18, 19}
      \/ \E i \in 1 .. n : k = 19 + n + n + i
      \/ k \in {20 + n + n + n, 20 + n + n + n + 1, 20 + n + n + n + 2, 20 + n + n + n + 3}
  <2> HIDE DEF n
  <2>1. CASE k <= 19
    BY <1>1, <1>3, <1>4, <2>1
  <2>2. CASE k > 19 /\ k <= 19 + n
    <3>1. k - 19 \in 1 .. n /\ k = 19 + (k - 19)
      BY <1>1, <2>2
    <3>2. QED BY <1>5, <3>1
  <2>3. CASE k > 19 + n /\ k <= 19 + n + n
    <3>1. k - 19 - n \in 1 .. n /\ k = 19 + n + (k - 19 - n)
      BY <1>1, <2>3
    <3>2. QED BY <1>5, <3>1
  <2>4. CASE k > 19 + n + n /\ k <= 19 + n + n + n
    <3>1. k - 19 - n - n \in 1 .. n /\ k = 19 + n + n + (k - 19 - n - n)
      BY <1>1, <2>4
    <3>2. QED BY <3>1
  <2>5. CASE k > 19 + n + n + n
    BY <1>1, <2>5
  <2>6. QED BY <1>1, <2>1, <2>2, <2>3, <2>4, <2>5
<1>7. CASE k \in {3, 6, 7, 8, 13, 17, 18, 19}
  <2>1. /\ k \in {3, 7} => d = Do("order", "order-a", [status |-> "refunded", seq |-> 3])
        /\ k = 6 => d = Do("event", "a-capture", [reason |-> "STALE_SEQUENCE"])
        /\ k = 8 => d = Do("rows", "order-a", 2)
        /\ k = 13 => d = Do("order", "order-b", [status |-> "captured", seq |-> 2])
        /\ k = 17 => d = Do("event", "c", [count |-> 2])
        /\ k = 18 => d = Do("rowsOf", "c", 1)
        /\ k = 19 => d = Do("order", "order-c", [status |-> "authorized"])
    BY WorkerSteps DEF WorkerScriptSteps
  <2>2. Asks(k, d, n)
    <3> HIDE DEF d, n
    <3>1. k \in {3, 7} => Asks(k, d, n)
      <4>1. k \in {3, 7} => k > 2
        OBVIOUS
      <4>2. QED BY <2>1, <4>1 DEF Asks
    <3>2. k \in {6, 8, 13} => Asks(k, d, n)
      BY <2>1 DEF Asks
    <3>3. k \in {17, 18, 19} => Asks(k, d, n)
      BY <2>1 DEF Asks
    <3>4. QED BY <1>7, <3>1, <3>2, <3>3
  <2>3. QED BY <2>2
<1>8. ASSUME NEW i \in 1 .. n, k = 19 + n + n + i PROVE Asks(k, d, n)
  <2>1. d = Do("rowsOf", EventD[i], 1)
    BY <1>8, WorkerSteps DEF WorkerScriptSteps
  <2>2. k > 19 + n + i
    BY <1>1, <1>8
  <2> HIDE DEF d, n
  <2>3. QED BY <2>1, <2>2 DEF Asks
<1>9. CASE k \in {20 + n + n + n, 20 + n + n + n + 1, 20 + n + n + n + 2, 20 + n + n + n + 3}
  <2>1. /\ k = 20 + n + n + n => d = Do("notPending", {EventD[i] : i \in 1 .. n}, TRUE)
        /\ k = 20 + n + n + n + 1 =>
             d = Do("order", "order-a", [status |-> "refunded", seq |-> 3])
        /\ k = 20 + n + n + n + 2 => d = Do("listed", "order-a", 2)
        /\ k = 20 + n + n + n + 3 => d = Do("orders", {"order-none"}, FALSE)
    BY WorkerSteps DEF WorkerScriptSteps
  <2>2. k > 5 /\ k > 2
    BY <1>1, <1>9
  <2>3. Asks(k, d, n)
    <3> HIDE DEF d, n
    <3>1. k = 20 + n + n + n => Asks(k, d, n)
      BY <2>1 DEF Asks
    <3>2. k = 20 + n + n + n + 1 => Asks(k, d, n)
      BY <2>1, <2>2 DEF Asks
    <3>3. k = 20 + n + n + n + 2 => Asks(k, d, n)
      BY <2>1, <2>2 DEF Asks
    <3>4. k = 20 + n + n + n + 3 => Asks(k, d, n)
      BY <2>1 DEF Asks
    <3>5. QED BY <1>9, <3>1, <3>2, <3>3, <3>4
  <2>4. QED BY <2>3
<1>10. QED BY <1>6, <1>7, <1>8, <1>9

LEMMA WorkerHolds ==
  ASSUME WorkerKnows, Steps = WorkerScript, step \in Nat \ {0}, step <= Len(Steps), Query
  PROVE  Holds
<1> DEFINE n == DisjointOrders
<1>1. step \in 1 .. Len(WorkerScript) /\ Current = WorkerScript[step]
      /\ Current.op \in Queries
  <2>1. Len(WorkerScript) \in Nat
    BY WorkerSteps DEF WorkerScriptSteps
  <2>2. QED BY <2>1 DEF Query, Doing, Current
<1>2. ASSUME NEW op, NEW of, NEW want, Current = Do(op, of, want)
      PROVE  Current.op = op /\ Current.of = of /\ Current.want = want
  BY <1>2, DoFields
<1>3. step \in Nat /\ n \in Nat
  BY WorkerSteps DEF WorkerScriptSteps
<1>4. CASE Current = Do("order", "order-a", [status |-> "refunded", seq |-> 3]) /\ step > 2
  <2>1. orders["order-a"].status = "refunded" /\ orders["order-a"].seq = 3
    BY <1>3, <1>4, WorkerPast, WorkerOrders
  <2>2. QED BY <1>2, <1>4, <2>1, HoldsIs, ShowsAll
<1>5. CASE step = 6 /\ Current = Do("event", "a-capture", [reason |-> "STALE_SEQUENCE"])
  <2>1. events["a-capture"].reason = "STALE_SEQUENCE"
    BY <1>3, <1>5, WorkerPast, WorkerSendsAll DEF WorkerKnows
  <2>2. QED BY <1>2, <1>5, <2>1, HoldsIs, ShowsAll
<1>6. CASE step = 8 /\ Current = Do("rows", "order-a", 2)
  <2>1. Len(history["order-a"]) = 2
    BY <1>3, <1>6, WorkerPast, WorkerListing
  <2>2. Current.op = "rows" /\ Current.of = "order-a" /\ Current.want = 2
    BY <1>2, <1>6
  <2>3. Len(history[Current.of]) = Current.want
    BY <2>1, <2>2
  <2>4. QED BY <2>2, <2>3, HoldsIs
<1>7. CASE step = 13 /\ Current = Do("order", "order-b", [status |-> "captured", seq |-> 2])
  <2>1. orders["order-b"].status = "captured" /\ orders["order-b"].seq = 2
    BY <1>3, <1>7, WorkerPast, WorkerOrders
  <2>2. QED BY <1>2, <1>7, <2>1, HoldsIs, ShowsAll
<1>8. CASE step = 17 /\ Current = Do("event", "c", [count |-> 2])
  <2>1. events["c"].count = 2
    BY <1>8 DEF WorkerKnows
  <2>2. QED BY <1>2, <1>8, <2>1, HoldsIs, ShowsAll
<1>9. CASE step = 18 /\ Current = Do("rowsOf", "c", 1)
  <2>1. Cardinality(RowsOf("c")) = 1
    BY <1>3, <1>9, WorkerPast, WorkerSendsAll, WorkerCounts
  <2>2. QED BY <1>2, <1>9, <2>1, HoldsIs
<1>10. CASE step = 19 /\ Current = Do("order", "order-c", [status |-> "authorized"])
  <2>1. orders["order-c"].status = "authorized"
    BY <1>3, <1>10, WorkerPast, WorkerOrders
  <2>2. QED BY <1>2, <1>10, <2>1, HoldsIs, ShowsAll
<1>11. ASSUME NEW i \in 1 .. n, step > 19 + n + i, Current = Do("rowsOf", EventD[i], 1)
       PROVE  Holds
  <2>1. PICK e \in EventIds : e = EventD[i]
    BY WorkerSendsAll
  <2>2. events[e].status \in {"APPLIED", "IGNORED"}
    BY <1>3, <1>11, <2>1, WorkerPast
  <2>3. Cardinality(RowsOf(e)) = 1
    BY <2>2, WorkerCounts
  <2>4. QED BY <1>2, <1>11, <2>1, <2>3, HoldsIs
<1>12. CASE /\ step = 20 + n + n + n
            /\ Current = Do("notPending", {EventD[i] : i \in 1 .. n}, TRUE)
  <2>1. ASSUME NEW i \in 1 .. n PROVE events[EventD[i]].status # "PENDING"
    <3>1. step > 19 + n + i
      BY <1>3, <1>12
    <3>2. events[EventD[i]].status \in {"APPLIED", "IGNORED"}
      BY <1>3, <3>1, WorkerPast
    <3>3. QED BY <3>2
  <2> DEFINE all == {EventD[i] : i \in 1 .. n}
  <2>2. \A e \in all : events[e].status # "PENDING"
    BY <2>1
  <2> HIDE DEF all
  <2>3. Current = Do("notPending", all, TRUE)
    BY <1>12 DEF all
  <2>4. Current.op = "notPending" /\ Current.of = all
    BY <2>3 DEF Do
  <2>5. Holds <=> \A e \in all : events[e].status # "PENDING"
    BY <2>4, HoldsIs
  <2>6. QED BY <2>2, <2>5
<1>13. CASE step > 5 /\ Current = Do("listed", "order-a", 2)
  <2>1. /\ Len(history["order-a"]) = 2
        /\ Cardinality(EventsFor("order-a")) = 2
        /\ \E i \in DOMAIN history["order-a"] : history["order-a"][i].outcome = "IGNORED"
    BY <1>3, <1>13, WorkerPast, WorkerListing
  <2>2. Current.op = "listed" /\ Current.of = "order-a" /\ Current.want = 2
    BY <1>2, <1>13
  <2>3. 2 >= 2
    OBVIOUS
  <2>4. QED BY <2>1, <2>2, <2>3, HoldsIs
<1>14. CASE Current = Do("orders", {"order-none"}, FALSE)
  <2>1. Current.op = "orders" /\ Current.of = {"order-none"}
    BY <1>14 DEF Do
  <2>2. Current.want = FALSE
    BY <1>14 DEF Do
  <2> DEFINE asked == \A o \in Current.of : orders[o].exists = Current.want
  <2>3. asked
    BY <2>1, <2>2, WorkerOrderless
  <2>4. Holds <=> asked
    BY <2>1, HoldsIs
  <2> HIDE DEF asked
  <2>5. QED BY <2>3, <2>4
<1>15. Asks(step, Current, n)
  BY <1>1, WorkerAsks
<1>16. QED
  <2> HIDE DEF n
  <2>1. CASE \/ step > 2 /\ Current = Do("order", "order-a", [status |-> "refunded", seq |-> 3])
             \/ step = 6 /\ Current = Do("event", "a-capture", [reason |-> "STALE_SEQUENCE"])
             \/ step = 8 /\ Current = Do("rows", "order-a", 2)
             \/ step = 13 /\ Current = Do("order", "order-b", [status |-> "captured", seq |-> 2])
    BY <2>1, <1>4, <1>5, <1>6, <1>7
  <2>2. CASE \/ step = 17 /\ Current = Do("event", "c", [count |-> 2])
             \/ step = 18 /\ Current = Do("rowsOf", "c", 1)
             \/ step = 19 /\ Current = Do("order", "order-c", [status |-> "authorized"])
    BY <2>2, <1>8, <1>9, <1>10
  <2>3. CASE \E i \in 1 .. n : step > 19 + n + i /\ Current = Do("rowsOf", EventD[i], 1)
    BY <2>3, <1>11
  <2>4. CASE \/ /\ step = 20 + n + n + n
                /\ Current = Do("notPending", {EventD[i] : i \in 1 .. n}, TRUE)
             \/ step > 5 /\ Current = Do("listed", "order-a", 2)
             \/ Current = Do("orders", {"order-none"}, FALSE)
    BY <2>4, <1>12, <1>13, <1>14
  <2>5. QED BY <1>15, <2>1, <2>2, <2>3, <2>4 DEF Asks

LEMMA PastStays ==
  ASSUME NEW k \in 1 .. Len(WorkerScript), Past(WorkerScript[k]),
         \A e \in EventIds :
           events[e].status # "ABSENT" =>
             /\ events'[e].status # "ABSENT"
             /\ events[e].status \notin Waiting => events'[e].status = events[e].status
  PROVE  Past(WorkerScript[k])'
<1> PICK d : d = WorkerScript[k]
  OBVIOUS
<1>1. d.op \notin {"send", "poll"} \/ IsSend(d, k) \/ IsPoll(d)
  BY WorkerPlan DEF Queries
<1>2. CASE IsSend(d, k)
  <2>1. PICK b \in WorkerBodies : d.of = <<b>>
    BY <1>2 DEF IsSend
  <2>2. d.of[1].event \in EventIds
    BY <2>1, WorkerSendsAll, BodyFacts
  <2>3. d.op = "send"
    BY <1>2 DEF IsSend
  <2>4. Past(d)'
    BY <2>2, <2>3 DEF Past
  <2>5. QED BY <2>4
<1>3. CASE IsPoll(d)
  <2>1. d.op = "poll" /\ d.of \in EventIds /\ d.want \subseteq {"APPLIED", "IGNORED"}
    BY <1>3 DEF IsPoll
  <2>2. Past(d)'
    BY <2>1 DEF Past, Waiting
  <2>3. QED BY <2>2
<1>4. CASE d.op \notin {"send", "poll"}
  <2>1. Past(d)'
    BY <1>4 DEF Past
  <2>2. QED BY <2>1
<1>5. QED BY <1>1, <1>2, <1>3, <1>4

LEMMA NoRunCommits ==
  ASSUME LockInv, UNCHANGED runs
  PROVE  \A r \in Reconcilers : ~CommitRun(r)
<1> SUFFICES ASSUME NEW r \in Reconcilers, CommitRun(r) PROVE FALSE
  OBVIOUS
<1>1. runs \in Seq(Run)
  BY DEF LockInv, TypeInv, TypeOK
<1>2. PICK run : runs' = Append(runs, run)
  BY DEF CommitRun
<1>3. Len(Append(runs, run)) = Len(runs) + 1 /\ Len(runs) \in Nat
  BY <1>1
<1>4. QED BY <1>2, <1>3

LEMMA WorkerInvariants ==
  ASSUME WorkerKnows, [Next]_vars, UNCHANGED runs
  PROVE  EffectInv' /\ HistoryInv' /\ OrdersFollow'
<1>1. LockInv /\ KnownTypes /\ EffectInv /\ HistoryInv /\ OrdersFollow
  BY DEF WorkerKnows, EffectInv
<1>2. \A r \in Reconcilers : ~CommitRun(r)
  BY <1>1, NoRunCommits
<1>3. QED BY <1>1, <1>2, EffectStep, HistoryStep, FollowStep

LEMMA WorkerPasses ==
  ASSUME WorkerKnows, step \in Nat \ {0}, step <= Len(WorkerScript), step \notin {14, 16},
         IsPoll(WorkerScript[step]) => Past(WorkerScript[step]),
         WorkerScript[step].op # "send",
         step' = step + 1, done' = {}, failed' = FALSE, UNCHANGED vars
  PROVE  WorkerKnows'
<1>1. events' = events /\ history' = history /\ runs' = runs /\ Stored' = Stored
  BY DEF vars, tables, reconVars, Stored
<1>2. EffectInv' /\ HistoryInv' /\ OrdersFollow'
  BY <1>1, WorkerInvariants
<1>3. HistoryNames'
  BY <1>1 DEF WorkerKnows, HistoryNames
<1>4. Len(WorkerScript) \in Nat
  BY WorkerSteps DEF WorkerScriptSteps
<1>5. ASSUME NEW k \in 1 .. Len(WorkerScript), k < step' PROVE Past(WorkerScript[k])'
  <2>1. Past(WorkerScript[k])
    <3>1. CASE k < step
      BY <3>1 DEF WorkerKnows
    <3>2. CASE k = step
      <4>1. IsPoll(WorkerScript[k]) \/ WorkerScript[k].op \in Queries
        BY <3>2, WorkerPlan DEF IsSend
      <4>2. CASE WorkerScript[k].op \in Queries
        BY <4>2 DEF Queries, Past
      <4>3. QED BY <3>2, <4>1, <4>2
    <3>3. k < step \/ k = step
      BY <1>4, <1>5
    <3>4. QED BY <3>1, <3>2, <3>3
  <2>2. QED BY <1>1, <2>1, PastStays
<1>6. QED BY <1>1, <1>2, <1>3, <1>5 DEF WorkerKnows

LEMMA WorkerSends ==
  ASSUME WorkerKnows, Steps = WorkerScript, step \in Nat \ {0},
         NEW i \in DOMAIN Current.of, NEW stale \in BOOLEAN, Send(i, stale)
  PROVE  WorkerKnows'
<1>1. /\ step \in 1 .. Len(WorkerScript) /\ Current = WorkerScript[step]
      /\ Current.op = IF stale THEN "sendStale" ELSE "send"
  <2>1. Len(WorkerScript) \in Nat
    BY WorkerSteps DEF WorkerScriptSteps
  <2>2. QED BY <2>1 DEF Send, Doing, Current
<1>2. IsSend(WorkerScript[step], step) /\ stale = FALSE
  BY <1>1, WorkerPlan DEF Queries, IsPoll, IsSend
<1>3. PICK b \in WorkerBodies :
        /\ Current.of = <<b>>
        /\ b = CAuth <=> step \in {14, 16}
        /\ IF step = 16 THEN Current.want = {"DUPLICATE"}
                        ELSE DeliveryResults \subseteq Current.want
  BY <1>1, <1>2 DEF IsSend
<1>4. Ingest(Current.of[i], FALSE) /\ Answered(i, DOMAIN Current.of) /\ i \in DOMAIN Current.of
  BY <1>2 DEF Send
<1>5. failed' = (failed \/ DeliveryResult(Upsert(Current.of[i], FALSE), Current.of[i], FALSE)
                           \notin Current.want)
  BY <1>2 DEF Send, Check
<1>6. UNCHANGED <<worker, replay, reconVars>> /\ runs' = runs
  BY DEF Send, reconVars
<1>7. step' = step + 1 /\ done' = {} /\ Current.of[i] = b
  <2>1. done = {}
    BY DEF WorkerKnows
  <2>2. Answered(i, DOMAIN <<b>>) /\ i \in DOMAIN <<b>>
    BY <1>3, <1>4
  <2>3. step' = step + 1 /\ done' = {} /\ i = 1
    BY <2>1, <2>2, OnlyOne
  <2>4. QED BY <1>3, <2>3
<1> DEFINE result == DeliveryResult(Upsert(b, FALSE), b, FALSE)
<1>8. /\ Ingest(b, FALSE) /\ failed' = (failed \/ result \notin Current.want)
      /\ b \in Bodies /\ LockInv
  BY <1>4, <1>5, <1>7, WorkerSendsAll DEF WorkerKnows, EffectInv
<1>9. /\ b.event \in EventIds /\ events'[b.event] = Upsert(b, FALSE)
      /\ \A e \in EventIds \ {b.event} : events'[e] = events[e]
      /\ history' = history
  BY <1>8, SentRow
<1>10. [Next]_vars
  <2>1. IngestStep
    BY <1>7, <1>8, SendIngests
  <2>2. QED BY <2>1 DEF Next
<1>11. EffectInv' /\ HistoryInv' /\ OrdersFollow'
  BY <1>6, <1>10, WorkerInvariants
<1>12. HistoryNames'
  BY <1>9 DEF WorkerKnows, HistoryNames
<1>13. b = CAuth <=> b.event = "c"
  BY WorkerBodyIs, WorkerBodyFields
<1>14. result \in DeliveryResults
  BY SendResult
<1> HIDE DEF result
<1>15. events[b.event].status = "ABSENT" =>
         /\ events'[b.event].status = "PENDING" /\ events'[b.event].body = b
         /\ events'[b.event].count = 1
  <2>1. ASSUME events[b.event].status = "ABSENT"
        PROVE  /\ Upsert(b, FALSE).status = "PENDING" /\ Upsert(b, FALSE).body = b
               /\ Upsert(b, FALSE).count = 1
    BY <2>1, FirstRow
  <2>2. QED BY <1>9, <2>1
<1>16. events[b.event].status # "ABSENT" =>
         /\ events'[b.event].status = events[b.event].status
         /\ events'[b.event].body = events[b.event].body
         /\ events'[b.event].reason = events[b.event].reason
         /\ events'[b.event].count = events[b.event].count + 1
         /\ events[b.event].count >= 1 =>
              result = IF events[b.event].body = b THEN "DUPLICATE" ELSE "REJECTED"
  <2>1. PICK old, new : old = events[b.event] /\ new = Upsert(b, FALSE)
    OBVIOUS
  <2>2. old.status # "ABSENT" =>
          /\ new.status = old.status /\ new.body = old.body
          /\ new.reason = old.reason /\ new.count = old.count + 1
          /\ old.count >= 1 => DeliveryResult(new, b, FALSE) =
                                 IF old.body = b THEN "DUPLICATE" ELSE "REJECTED"
    BY <1>8, <2>1, NextRow
  <2>3. events'[b.event] = new
    BY <1>9, <2>1
  <2>4. result = DeliveryResult(new, b, FALSE)
    BY <2>1 DEF result
  <2>5. QED BY <2>1, <2>2, <2>3, <2>4
<1>17. \A e \in EventIds :
         /\ events[e].status = "ABSENT" => events'[e].status \in {"ABSENT", "PENDING"}
         /\ events[e].status # "ABSENT" => /\ events'[e].status = events[e].status
                                           /\ events'[e].body = events[e].body
                                           /\ events'[e].reason = events[e].reason
  BY <1>9, <1>15, <1>16
<1>18. \A e \in EventIds : events'[e].status = "IGNORED" => events'[e].reason = "STALE_SEQUENCE"
  BY <1>17 DEF WorkerKnows
<1>19. \A e \in Stored' : events'[e].body \in WorkerBodies
  <2>1. ASSUME NEW e \in EventIds, events'[e].status # "ABSENT"
        PROVE  events'[e].body \in WorkerBodies
    <3>1. CASE events[e].status # "ABSENT"
      BY <1>17, <3>1 DEF WorkerKnows, Stored
    <3>2. CASE events[e].status = "ABSENT"
      BY <1>9, <1>15, <2>1, <3>2
    <3>3. QED BY <3>1, <3>2
  <2>2. QED BY <2>1 DEF Stored
<1>20. Len(WorkerScript) \in Nat /\ "c" \in EventIds
  BY WorkerSteps, WorkerSendsAll DEF WorkerScriptSteps
<1>21. ASSUME NEW k \in 1 .. Len(WorkerScript), k < step' PROVE Past(WorkerScript[k])'
  <2>1. CASE k < step
    <3>1. Past(WorkerScript[k])
      BY <2>1 DEF WorkerKnows
    <3>2. QED BY <1>17, <3>1, PastStays
  <2>2. CASE k = step
    <3>1. PICK d : d = WorkerScript[k]
      OBVIOUS
    <3>2. d.op = "send" /\ d.of = <<b>>
      BY <1>1, <1>2, <1>3, <2>2, <3>1
    <3>3. events'[b.event].status # "ABSENT"
      BY <1>15, <1>16
    <3>4. Past(d)'
      BY <3>2, <3>3 DEF Past
    <3>5. QED BY <3>1, <3>4
  <2>3. k < step \/ k = step
    BY <1>7, <1>20, <1>21
  <2>4. QED BY <2>1, <2>2, <2>3
<1>22. CASE step = 16
  <2>1. b = CAuth /\ b.event = "c" /\ events["c"].count = 1 /\ events["c"].status # "ABSENT"
    BY <1>3, <1>13, <1>22, WorkerPast DEF WorkerKnows
  <2>2. events["c"].body = CAuth
    <3>1. "c" \in Stored
      BY <1>20, <2>1 DEF Stored
    <3>2. events["c"].body \in WorkerBodies /\ events["c"].body.event = "c"
      BY <3>1 DEF WorkerKnows, EffectInv, LockInv, TypeInv, ControlOK, BodiesOK
    <3>3. QED BY <3>2, WorkerBodyIs
  <2>3. result = "DUPLICATE" /\ events'["c"].count = 2
    BY <1>16, <2>1, <2>2
  <2>4. failed' = FALSE
    BY <1>3, <1>8, <1>22, <2>3 DEF WorkerKnows
  <2>5. step' = 17
    BY <1>7, <1>22
  <2>6. QED
    BY <1>7, <1>11, <1>12, <1>18, <1>19, <1>21, <2>3, <2>4, <2>5 DEF WorkerKnows
<1>23. CASE step = 14
  <2>1. b = CAuth /\ b.event = "c" /\ events["c"].status = "ABSENT"
    BY <1>3, <1>13, <1>23 DEF WorkerKnows
  <2>2. events'["c"].count = 1
    BY <1>15, <2>1
  <2>3. failed' = FALSE
    <3>1. DeliveryResults \subseteq Current.want
      BY <1>3, <1>23
    <3>2. QED BY <1>8, <1>14, <3>1 DEF WorkerKnows
  <2>4. step' = 15
    BY <1>7, <1>23
  <2>5. QED
    BY <1>7, <1>11, <1>12, <1>18, <1>19, <1>21, <2>2, <2>3, <2>4 DEF WorkerKnows
<1>24. CASE step \notin {14, 16}
  <2>1. b.event # "c"
    BY <1>3, <1>13, <1>24
  <2>2. events'["c"] = events["c"]
    BY <1>9, <1>20, <2>1
  <2>3. failed' = FALSE
    BY <1>3, <1>8, <1>14, <1>24 DEF WorkerKnows
  <2>4. /\ step' <= 14 => step <= 14
        /\ step' \in 15 .. 16 => step \in 15 .. 16
        /\ step' > 16 => step > 16
    BY <1>7, <1>24
  <2>5. QED
    BY <1>7, <1>11, <1>12, <1>18, <1>19, <1>21, <2>2, <2>3, <2>4 DEF WorkerKnows
<1>25. QED BY <1>22, <1>23, <1>24

(* While the workers go on.                                                *)
LEMMA WorkerNames ==
  ASSUME LockInv, HistoryNames, WorkersStep
  PROVE  HistoryNames'
<1>1. ASSUME NEW w \in Workers, CommitResult(w) PROVE HistoryNames'
  <2>1. PICK c \in EventIds, o \in Orders, row \in HistoryRow :
          /\ row.event = c
          /\ history' = [history EXCEPT ![o] = Append(history[o], row)]
    BY <1>1, CommitFacts
  <2>2. history \in [Orders -> Seq(HistoryRow)]
    BY DEF LockInv, TypeInv, TypeOK
  <2>3. ASSUME NEW p \in Orders, NEW i \in DOMAIN history'[p]
        PROVE  history'[p][i].event \in EventIds
    <3>1. CASE p # o
      <4>1. history'[p] = history[p]
        BY <2>1, <2>2, <3>1
      <4>2. QED BY <2>3, <4>1 DEF HistoryNames
    <3>2. CASE p = o
      <4>1. PICK rows \in Seq(HistoryRow) : rows = history[o]
        BY <2>2
      <4>2. history'[p] = Append(rows, row)
        BY <2>1, <2>2, <3>2, <4>1
      <4>3. \/ i \in DOMAIN rows /\ history'[p][i] = rows[i]
            \/ history'[p][i] = row
        BY <2>3, <4>2
      <4>4. i \in DOMAIN rows => rows[i].event \in EventIds
        BY <4>1 DEF HistoryNames
      <4>5. QED BY <2>1, <4>3, <4>4
    <3>3. QED BY <3>1, <3>2
  <2>4. QED BY <2>3 DEF HistoryNames
<1>2. CASE \A w \in Workers : ~CommitResult(w)
  <2>1. ClockStep => UNCHANGED history
    BY DEF ClockStep, Tick
  <2>2. ASSUME NEW w \in Workers, WorkerStep(w) PROVE UNCHANGED history
    BY <1>2, <2>2 DEF WorkerStep, WorkerNext, Claim, LockOrder, BusinessError,
                  ScheduleRetry, SendToDlq, AbortTransaction, Crash, Restart, tables
  <2>3. UNCHANGED history
    BY <2>1, <2>2 DEF WorkersStep
  <2>4. QED BY <2>3 DEF HistoryNames
<1>3. QED BY <1>1, <1>2

LEMMA WorkerQueue ==
  ASSUME WorkerKnows, step \in Nat \ {0}, WorkersStep
  PROVE  WorkerKnows'
<1>1. LockInv /\ KnownTypes
  BY DEF WorkerKnows, EffectInv
<1>2. [Next]_vars
  BY <1>1, ServiceGoesOn
<1>3. /\ Stored' = Stored
      /\ \A e \in EventIds : /\ events'[e].body = events[e].body
                             /\ events'[e].count = events[e].count
                             /\ events[e].status \notin Waiting =>
                                  /\ events'[e].status = events[e].status
                                  /\ events'[e].reason = events[e].reason
  BY <1>1, WorkersKeep
<1>4. step' = step /\ done' = done /\ failed' = failed
  BY DEF WorkersStep, runVars
<1>5. UNCHANGED runs
  <2>1. ClockStep => UNCHANGED runs
    BY DEF ClockStep, reconVars
  <2>2. QED BY <2>1 DEF WorkersStep, WorkerStep, reconVars
<1>6. EffectInv' /\ HistoryInv' /\ OrdersFollow'
  BY <1>2, <1>5, WorkerInvariants
<1>7. HistoryNames'
  BY <1>1, WorkerNames DEF WorkerKnows
<1>8. ASSUME NEW e \in EventIds, events'[e].status = "IGNORED"
      PROVE  events'[e].reason = "STALE_SEQUENCE"
  <2>1. CASE events[e].status \notin Waiting
    BY <1>3, <1>8, <2>1 DEF WorkerKnows
  <2>2. CASE events[e].status \in Waiting
    <3>1. PICK row \in OrderRow :
            /\ events'[e].status = Process(events[e].body, row).outcome
            /\ events'[e].reason = Process(events[e].body, row).reason
      BY <1>1, <1>8, <2>2, WorkersDecide
    <3>2. events[e].body.type \in DOMAIN EventTypeToStatus
      <4>1. events[e].body.type \in AllowedEventTypes
        BY <1>1, <2>2 DEF KnownTypes, Stored, Waiting
      <4>2. QED BY <4>1 DEF AllowedEventTypes, EventTypeToStatus
    <3>3. QED BY <1>8, <3>1, <3>2 DEF Process, Applied, Ignored
  <2>3. QED BY <2>1, <2>2
<1>9. \A e \in Stored' : events'[e].body \in WorkerBodies
  BY <1>3 DEF WorkerKnows, Stored
<1>10. \A e \in EventIds : events[e].status = "ABSENT" <=> events'[e].status = "ABSENT"
  BY <1>3 DEF Stored
<1>11. \A k \in 1 .. Len(WorkerScript) : k < step' => Past(WorkerScript[k])'
  BY <1>3, <1>4, <1>10, PastStays DEF WorkerKnows
<1>12. events'["c"].status = "ABSENT" <=> events["c"].status = "ABSENT"
  BY <1>10, WorkerSendsAll
<1>13. events'["c"].count = events["c"].count
  BY <1>3, WorkerSendsAll
<1>14. QED
  BY <1>4, <1>6, <1>7, <1>8, <1>9, <1>11, <1>12, <1>13 DEF WorkerKnows

LEMMA ConfirmedSends == WorkerScript[14].op = "send" /\ WorkerScript[16].op = "send"
<1>1. /\ WorkerScript[14] = Do("send", <<CAuth>>, Unchecked)
      /\ WorkerScript[16] = Do("send", <<CAuth>>, {"DUPLICATE"})
  BY WorkerSteps DEF WorkerScriptSteps
<1>2. QED BY <1>1, DoFields

LEMMA WorkerScriptStep ==
  ASSUME script = "worker", exit = "running", LockInv, WorkerKnows,
         step \in Nat \ {0}, ScriptNext, causes = {}, causes' = {}
  PROVE  \/ exit' = "running" /\ LockInv' /\ WorkerKnows'
         \/ exit' = "passed"
<1>1. Steps = WorkerScript
  BY ScriptOf
<1>2. WorkerKnows' => LockInv'
  BY DEF WorkerKnows, EffectInv
<1>3. CASE Finish
  BY <1>3 DEF Finish, WorkerKnows
<1>4. CASE WorkersStep
  <2>1. exit' = exit
    BY <1>4 DEF WorkersStep, runVars
  <2>2. QED BY <1>2, <1>4, <2>1, WorkerQueue
<1>5. CASE step <= Len(Steps) /\ exit' = exit /\ ByOperation
  <2>1. step \in 1 .. Len(WorkerScript) /\ Current = WorkerScript[step]
    <3>1. Len(WorkerScript) \in Nat
      BY WorkerSteps DEF WorkerScriptSteps
    <3>2. QED BY <1>1, <1>5, <3>1 DEF Current
  <2>2. CASE IsSend(Current, step)
    <3>1. PICK i \in DOMAIN Current.of, stale \in BOOLEAN : Send(i, stale)
      BY <1>5, <2>2 DEF ByOperation, IsSend
    <3>2. WorkerKnows'
      BY <1>1, <3>1, WorkerSends
    <3>3. QED BY <1>2, <1>5, <3>2
  <2>3. CASE IsPoll(Current)
    <3>1. PollFinds
      BY <1>5, <2>3 DEF ByOperation, IsPoll
    <3>2. Past(Current) /\ Current.op # "send" /\ ~IsSend(Current, step)
      BY <2>3, <3>1 DEF PollFinds, Past, IsPoll, IsSend
    <3>3. step \notin {14, 16}
      BY <2>1, <3>2, ConfirmedSends
    <3>4. step' = step + 1 /\ done' = {} /\ failed' = FALSE /\ UNCHANGED vars
      BY <3>1 DEF PollFinds, Advance, WorkerKnows
    <3>5. WorkerKnows'
      <4>1. /\ step <= Len(WorkerScript) /\ WorkerScript[step].op # "send"
            /\ IsPoll(WorkerScript[step]) => Past(WorkerScript[step])
        BY <1>1, <1>5, <2>1, <3>2
      <4>2. QED BY <3>3, <3>4, <4>1, WorkerPasses
    <3>6. QED BY <1>2, <1>5, <3>5
  <2>4. CASE Current.op \in Queries
    <3>1. Query
      BY <1>5, <2>4 DEF ByOperation
    <3>2. Current.op # "send" /\ ~IsPoll(Current)
      BY <2>4 DEF Queries, IsPoll
    <3>3. step \notin {14, 16}
      BY <2>1, <3>2, ConfirmedSends
    <3>4. Holds
      BY <1>1, <1>5, <3>1, WorkerHolds
    <3>5. step' = step + 1 /\ done' = {} /\ failed' = FALSE /\ UNCHANGED vars
      BY <3>1, <3>4 DEF Query, Advance, Check, WorkerKnows
    <3>6. WorkerKnows'
      <4>1. /\ step <= Len(WorkerScript) /\ WorkerScript[step].op # "send"
            /\ ~IsPoll(WorkerScript[step])
        BY <1>1, <1>5, <2>1, <3>2
      <4>2. QED BY <3>3, <3>5, <4>1, WorkerPasses
    <3>7. QED BY <1>2, <1>5, <3>6
  <2>5. QED BY <2>1, <2>2, <2>3, <2>4, WorkerPlan
<1>6. QED BY <1>3, <1>4, <1>5, Operations

-----------------------------------------------------------------------------
(* The five together                                                       *)

LEMMA NothingThere ==
  ASSUME Init
  PROVE  /\ \A e \in EventIds : events[e] = NoEventRow
         /\ \A e \in EventIds : \A r \in DeliveryResults : deliveries[e][r] = 0
         /\ \A o \in Orders : orders[o] = NoOrderRow /\ history[o] = << >>
         /\ \A r \in Replayers : replay[r].pc = "idle"
         /\ \A r \in Reconcilers : recon[r].pc = "idle"
         /\ runs = << >> /\ Stored = {}
<1>1. /\ \A e \in EventIds : events[e] = NoEventRow
      /\ \A e \in EventIds : \A r \in DeliveryResults : deliveries[e][r] = 0
      /\ \A o \in Orders : orders[o] = NoOrderRow /\ history[o] = << >>
  BY DEF Init, TablesInit
<1>2. /\ \A r \in Replayers : replay[r].pc = "idle"
      /\ \A r \in Reconcilers : recon[r].pc = "idle"
      /\ runs = << >>
  BY DEF Init, ReplayInit, ReconInit, NoReplay, NoRecon
<1>3. Stored = {}
  BY <1>1 DEF Stored, NoEventRow
<1>4. QED BY <1>1, <1>2, <1>3

LEMMA IngestionStarts == ASSUME ScriptInit PROVE IngestionKnows
<1>1. Init /\ step = 1 /\ done = {} /\ failed = FALSE
  BY DEF ScriptInit
<1>2. \A e \in EventIds : events[e].status = "ABSENT" /\ events[e].count = 0
  BY <1>1, NothingThere DEF NoEventRow
<1>3. \A o \in Orders : orders[o] = NoOrderRow
  BY <1>1, NothingThere
<1>4. AllAccounted
  BY <1>1, AccountedInit
<1>5. done # 1 .. HotKeyRequests /\ Cardinality(done) = 0
  BY <1>1, ScriptsAssumption, FS_EmptySet
<1>6. /\ \A e \in UnsentEvents : events[e].status = "ABSENT"
      /\ events["hotkey"].count = 0 /\ events["stale"].status = "ABSENT"
      /\ events["rejected"].status = "ABSENT"
  BY <1>2, IngestionEvents
<1>7. QED BY <1>1, <1>3, <1>4, <1>5, <1>6 DEF IngestionKnows

LEMMA RetriesStart == ASSUME ScriptInit PROVE RetriesKnow
<1>1. Init /\ step = 1 /\ failed = FALSE
  BY DEF ScriptInit
<1>2. events["dlq"] = NoEventRow
  BY <1>1, NothingThere, RetriesBodies
<1>3. /\ Stored = {}
      /\ \A o \in Orders : orders[o] = NoOrderRow /\ history[o] = << >>
      /\ \A r \in Replayers : replay[r].pc = "idle"
  BY <1>1, NothingThere
<1>4. PlantedRows = {}
  BY <1>1 DEF PlantedRows
<1>5. Limited(events["dlq"]) /\ events["dlq"].replays = 0
  BY <1>2 DEF Limited, NoEventRow, Waiting
<1>6. QED BY <1>1, <1>3, <1>4, <1>5 DEF RetriesKnow

LEMMA ObservabilityStarts == ASSUME ScriptInit PROVE ObservabilityKnows
<1>1. Init /\ step = 1 /\ failed = FALSE /\ done = {} /\ base = Measured
  BY DEF ScriptInit
<1>2. /\ \A e \in EventIds : events[e] = NoEventRow
      /\ \A e \in EventIds : \A r \in DeliveryResults : deliveries[e][r] = 0
      /\ \A r \in Replayers : replay[r].pc = "idle"
      /\ Stored = {}
  BY <1>1, NothingThere
<1>3. base = [received |-> 0, duplicates |-> 0, outOfOrder |-> 0, dlq |-> 0]
  BY <1>1, <1>2, NothingMeasured
<1>4. ObservedRows = {}
  BY <1>1 DEF ObservedRows
<1>5. CountedOK
  BY <1>1, CountInit DEF CountInv
<1>6. events["evt-002"].status = "ABSENT"
  BY <1>2, ObservedBodies DEF NoEventRow
<1>7. QED BY <1>1, <1>2, <1>3, <1>4, <1>5, <1>6 DEF ObservabilityKnows

LEMMA ReconciliationStarts == ASSUME ScriptInit PROVE ReconciliationKnows
<1>1. Init /\ step = 1 /\ failed = FALSE /\ done = {} /\ file = Null
  BY DEF ScriptInit
<1>2. /\ \A e \in EventIds : events[e] = NoEventRow
      /\ \A o \in Orders : orders[o] = NoOrderRow /\ history[o] = << >>
      /\ \A r \in Reconcilers : recon[r].pc = "idle"
      /\ runs = << >>
  BY <1>1, NothingThere
<1>3. \A o \in Orders : orders[o] = NoOrderRow /\ Len(history[o]) = 0
  BY <1>2
<1>4. /\ \A o \in Four : orders[o] = NoOrderRow /\ Len(history[o]) = 0
      /\ orders["concurrent"] = NoOrderRow /\ Len(history["concurrent"]) = 0
  BY <1>3, FilesSay
<1>5. Len(runs) = 0 /\ ~OneRepaired
  BY <1>1, <1>2 DEF OneRepaired
<1>6. ProgressOK
  BY <1>1, ProgressInit
<1>7. QED BY <1>1, <1>2, <1>4, <1>5, <1>6 DEF ReconciliationKnows, Four

LEMMA WorkerStarts == ASSUME ScriptInit PROVE WorkerKnows
<1>1. Init /\ step = 1 /\ failed = FALSE /\ done = {}
  BY DEF ScriptInit
<1>2. /\ \A e \in EventIds : events[e] = NoEventRow
      /\ \A o \in Orders : orders[o] = NoOrderRow /\ history[o] = << >>
      /\ Stored = {}
  BY <1>1, NothingThere
<1>3. EffectInv /\ HistoryInv
  BY <1>1, EffectInit, HistoryInit
<1>4. OrdersFollow
  BY <1>1 DEF Init, TablesInit, NoOrderRow, OrdersFollow, Follows
<1>5. HistoryNames
  BY <1>2 DEF HistoryNames
<1>6. \A e \in EventIds : events[e].status = "ABSENT"
  BY <1>2 DEF NoEventRow
<1>7. events["c"].status = "ABSENT"
  BY <1>6, WorkerSendsAll
<1>8. \A k \in 1 .. Len(WorkerScript) : k < step => Past(WorkerScript[k])
  <2>1. Len(WorkerScript) \in Nat
    BY WorkerSteps DEF WorkerScriptSteps
  <2>2. \A k \in 1 .. Len(WorkerScript) : ~(k < step)
    BY <1>1, <2>1
  <2>3. QED BY <2>2
<1>9. QED BY <1>1, <1>2, <1>3, <1>4, <1>5, <1>6, <1>7, <1>8 DEF WorkerKnows

LEMMA ScriptStarts == ScriptInit => ScriptInv
<1> SUFFICES ASSUME ScriptInit PROVE ScriptInv
  OBVIOUS
<1>1. /\ script \in DOMAIN Scripts /\ step = 1 /\ exit = "running" /\ Init
  BY DEF ScriptInit
<1>2. script \in {"worker", "ingestion", "retries", "reconciliation", "observability"}
  BY <1>1, ScriptsAssumption DEF AllScripts
<1>3. Knows
  BY <1>2, IngestionStarts, RetriesStart, ObservabilityStarts, ReconciliationStarts,
     WorkerStarts DEF Knows
<1>4. QED BY <1>1, <1>3, LockInit DEF ScriptInv, FailureHasCause

(* Nothing that a script knows depends on anything but the variables.      *)
LEMMA NothingForgotten ==
  ASSUME LockInv, UNCHANGED scriptVars, step \in Nat \ {0}
  PROVE  /\ IngestionKnows => IngestionKnows'
         /\ RetriesKnow => RetriesKnow'
         /\ ObservabilityKnows => ObservabilityKnows'
         /\ ReconciliationKnows => ReconciliationKnows'
         /\ WorkerKnows => WorkerKnows'
<1>1. /\ UNCHANGED vars
      /\ UNCHANGED <<script, step, done, failed, base, file, causes, exit>>
  BY DEF scriptVars, runVars
<1>2. /\ UNCHANGED <<events, deliveries, orders, history, replay, recon, runs>>
      /\ Stored' = Stored
  BY <1>1 DEF vars, tables, reconVars, Stored
<1>3. ASSUME IngestionKnows PROVE IngestionKnows'
  <2>1. AllAccounted'
    BY <1>1, <1>3, AccountedStep DEF IngestionKnows
  <2>2. QED BY <1>1, <1>2, <1>3, <2>1 DEF IngestionKnows
<1>4. ASSUME RetriesKnow PROVE RetriesKnow'
  <2>1. PlantedRows' = PlantedRows
    BY <1>1 DEF PlantedRows
  <2>2. Limited(events["dlq"])' /\ (step' > 11 => Limited(events["retry"])')
    BY <1>1, <1>2, <1>4 DEF RetriesKnow, Limited
  <2>3. QED BY <1>1, <1>2, <1>4, <2>1, <2>2 DEF RetriesKnow
<1>5. ASSUME ObservabilityKnows PROVE ObservabilityKnows'
  <2>1. CountedOK'
    BY <1>1, <1>5, CountStep DEF ObservabilityKnows, CountInv
  <2>2. ObservedRows' = ObservedRows
    BY <1>1 DEF ObservedRows
  <2>3. DeadEvent => DeadEvent'
    BY <1>2 DEF DeadEvent
  <2>4. QED BY <1>1, <1>2, <1>5, <2>1, <2>2, <2>3 DEF ObservabilityKnows
<1>6. ASSUME ReconciliationKnows PROVE ReconciliationKnows'
  <2>1. ProgressOK'
    BY <1>1, <1>6, ProgressStep DEF ReconciliationKnows
  <2>2. (OneRepaired <=> OneRepaired') /\ Asked' = Asked
    BY <1>1 DEF OneRepaired, Asked
  <2>3. QED BY <1>1, <1>2, <1>6, <2>1, <2>2 DEF ReconciliationKnows
<1>7. ASSUME WorkerKnows PROVE WorkerKnows'
  <2>1. EffectInv' /\ HistoryInv' /\ OrdersFollow'
    BY <1>1, <1>2, <1>7, WorkerInvariants
  <2>2. HistoryNames'
    BY <1>2, <1>7 DEF WorkerKnows, HistoryNames
  <2>3. ASSUME NEW k \in 1 .. Len(WorkerScript), k < step' PROVE Past(WorkerScript[k])'
    <3>1. Past(WorkerScript[k])
      BY <1>1, <1>7, <2>3 DEF WorkerKnows
    <3>2. QED BY <1>2, <3>1, PastStays
  <2>4. QED BY <1>1, <1>2, <1>7, <2>1, <2>2, <2>3 DEF WorkerKnows
<1>8. QED BY <1>3, <1>4, <1>5, <1>6, <1>7

LEMMA ScriptGoesOn == ScriptInv /\ [ScriptNext]_scriptVars => ScriptInv'
<1> SUFFICES ASSUME ScriptInv, [ScriptNext]_scriptVars PROVE ScriptInv'
  OBVIOUS
<1>0. /\ script \in {"worker", "ingestion", "retries", "reconciliation", "observability"}
      /\ script \in DOMAIN Scripts /\ step \in Nat \ {0}
      /\ exit \in {"running", "passed", "failed"}
      /\ exit = "running" /\ causes = {} => LockInv /\ Knows
      /\ FailureHasCause
  BY ScriptsAssumption DEF AllScripts, ScriptInv
<1>1. CASE ScriptNext
  <2>1. /\ exit = "running" /\ script' = script
        /\ step' \in Nat \ {0}
        /\ exit' \in {"running", "passed", "failed"}
        /\ causes \subseteq causes'
    BY <1>0, <1>1, Running
  <2>2. CASE causes' # {}
    BY <1>0, <2>1, <2>2 DEF ScriptInv, FailureHasCause
  <2>3. CASE causes' = {}
    <3>1. causes = {} /\ LockInv /\ Knows
      BY <1>0, <2>1, <2>3
    <3>2. \/ exit' = "running" /\ LockInv' /\ Knows'
          \/ exit' = "passed"
          \/ exit' = "failed" /\ DeadEvent'
      <4>1. CASE script = "ingestion"
        BY <1>0, <1>1, <2>1, <2>3, <3>1, <4>1, IngestionStep DEF Knows
      <4>2. CASE script = "retries"
        BY <1>0, <1>1, <2>1, <2>3, <3>1, <4>2, RetriesStep DEF Knows
      <4>3. CASE script = "observability"
        BY <1>0, <1>1, <2>1, <2>3, <3>1, <4>3, ObservabilityStep DEF Knows
      <4>4. CASE script = "reconciliation"
        BY <1>0, <1>1, <2>1, <2>3, <3>1, <4>4, ReconciliationStep DEF Knows
      <4>5. CASE script = "worker"
        BY <1>0, <1>1, <2>1, <2>3, <3>1, <4>5, WorkerScriptStep DEF Knows
      <4>6. QED BY <1>0, <4>1, <4>2, <4>3, <4>4, <4>5
    <3>3. FailureHasCause'
      BY <3>2 DEF FailureHasCause, DeadEvent
    <3>4. QED BY <1>0, <2>1, <3>2, <3>3 DEF ScriptInv
  <2>4. QED BY <2>2, <2>3
<1>2. CASE UNCHANGED scriptVars
  <2>1. /\ UNCHANGED vars
        /\ UNCHANGED <<script, step, done, failed, base, file, causes, exit>>
    BY <1>2 DEF scriptVars, runVars
  <2>2. exit' = "running" /\ causes' = {} => LockInv' /\ Knows'
    <3>1. SUFFICES ASSUME exit = "running", causes = {} PROVE LockInv' /\ Knows'
      BY <2>1
    <3>2. LockInv /\ Knows
      BY <1>0, <3>1
    <3>3. LockInv'
      BY <2>1, <3>2, NothingMoves
    <3>4. Knows'
      BY <1>0, <1>2, <2>1, <3>2, NothingForgotten DEF Knows
    <3>5. QED BY <3>3, <3>4
  <2>3. FailureHasCause'
    <3>1. events' = events
      BY <2>1 DEF vars, tables
    <3>2. QED BY <1>0, <2>1, <3>1 DEF FailureHasCause, Stored
  <2>4. QED BY <1>0, <2>1, <2>2, <2>3 DEF ScriptInv
<1>3. QED BY <1>1, <1>2

(* A script that fails has met something outside the logic of the service: *)
(* in whatever order workers take its events, however often they crash,    *)
(* fail and try again, whatever the number of its requests, none of its    *)
(* assertions is violated as long as every request is answered, every wait *)
(* ends in time and no event of its own is given up.                       *)
THEOREM ScriptsFailForACause == ScriptSpec => []FailureHasCause
<1>1. ScriptInv => FailureHasCause
  BY DEF ScriptInv
<1>2. QED BY <1>1, ScriptStarts, ScriptGoesOn, PTL DEF ScriptSpec
==============================================================================
