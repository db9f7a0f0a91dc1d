----------------------------- MODULE ApiProcess -----------------------------
(***************************************************************************)
(* The API process: webhook, replay and reconcile requests, their HTTP     *)
(* answers and the pool of database connections they share                 *)
(* (src/src/webhooks, src/src/admin, src/src/database/database.module.ts). *)
(* Where PaymentService lets every request happen at any time, here a      *)
(* request is admitted, waits for a client of the pool, works, gives the   *)
(* client back and is answered; and the process may be killed at any       *)
(* moment.  Workers are processes of their own with their own pools.       *)
(***************************************************************************)
EXTENDS PaymentService, ProviderClient

CONSTANTS
  Deliverers,    \* concurrent POST /webhooks/payments
  PoolMax        \* database.max: DB_POOL_MAX of the API

ASSUME ApiAssumption ==
  /\ PoolMax \in Nat \ {0}
  /\ Deliverers \intersect Processes = {}

VARIABLES
  up,            \* the process runs
  delivery,      \* per webhook request: how far it is, and its body
  target,        \* per replay request: the event it asks for, or Null
  waiting,       \* requests waiting for a client, in turn
  clients,       \* requests that have one
  acked          \* per event: how often a delivery was answered 202

apiVars == <<up, delivery, target, waiting, clients, acked>>
allVars == <<vars, exchange, apiVars>>

NoDelivery == [pc |-> "none", body |-> Null]

ApiInit ==
  /\ Init
  /\ ProviderInit
  /\ up = TRUE
  /\ delivery = [d \in Deliverers |-> NoDelivery]
  /\ target = [r \in Replayers |-> Null]
  /\ waiting = << >>
  /\ clients = {}
  /\ acked = [e \in EventIds |-> 0]

-----------------------------------------------------------------------------
(* The pool                                                                *)

Waiters == {waiting[i] : i \in DOMAIN waiting}

(* A live request has the client or waits for one.                         *)
Served(r) == r \in clients \union Waiters

Leaked(r) == clients

(* client.release(), on every path.                                        *)
ClientsWithout(r) == clients \ {r}

Release(r) ==
  /\ r \in clients
  /\ clients' = ClientsWithout(r)
  /\ UNCHANGED waiting

Keep(r) ==
  /\ r \in clients
  /\ UNCHANGED <<clients, waiting>>

(* pool.connect and pool.query take turns when no client is free.          *)
Connect ==
  /\ waiting # << >>
  /\ Cardinality(clients) < PoolMax
  /\ clients' = clients \union {Head(waiting)}
  /\ waiting' = Tail(waiting)
  /\ UNCHANGED <<vars, exchange, up, delivery, target, acked>>

-----------------------------------------------------------------------------
(* POST /webhooks/payments                                                 *)

(* What X-Signature may hold, and what the guard accepts; else 401.        *)
Signatures == {"absent", "malformed", "foreign", "own", "sha256=own"}
Verify(signature) == signature \in {"own", "sha256=own"}

(* PaymentWebhookDto; else 400.  There is no upper bound on sequence.      *)
Admitted(body) == body.type \in AllowedEventTypes /\ body.seq >= 0

Pending(e) == {d \in Deliverers : delivery[d].pc # "none" /\ delivery[d].body.event = e}

ReceivePayment(d, body, signature) ==
  /\ up
  /\ delivery[d].pc = "none"
  /\ Verify(signature)
  /\ Admitted(body)
  /\ events[body.event].count + Cardinality(Pending(body.event)) < MaxDeliveries
  /\ delivery' = [delivery EXCEPT ![d] = [pc |-> "sent", body |-> body]]
  /\ waiting' = Append(waiting, d)
  /\ UNCHANGED <<vars, exchange, up, target, clients, acked>>

FitsColumn(body) == body.seq <= MaxInteger

(* The statement takes effect.  The server completes it even if the        *)
(* process that sent it has been killed.                                   *)
Store(d) ==
  /\ \/ delivery[d].pc = "sent" /\ d \in clients
     \/ delivery[d].pc = "orphan"
  /\ FitsColumn(delivery[d].body)
  /\ \E isStale \in BOOLEAN : Ingest(delivery[d].body, isStale)
  /\ delivery' = [delivery EXCEPT ![d] =
       IF @.pc = "orphan" THEN NoDelivery ELSE [@ EXCEPT !.pc = "stored"]]
  /\ UNCHANGED <<worker, replay, reconVars, exchange, up, target, waiting, clients, acked>>

SentOrReturned(d) == delivery[d].pc \in {"sent", "stored"}

Returned(d) == delivery[d].pc = "stored"

(* The result arrives: 202.                                                *)
Acknowledge(d) ==
  /\ Returned(d)
  /\ Release(d)
  /\ delivery' = [delivery EXCEPT ![d] = NoDelivery]
  /\ acked' = [acked EXCEPT ![delivery[d].body.event] = @ + 1]
  /\ UNCHANGED <<vars, exchange, up, target>>

(* The sequence does not fit its column: the statement fails, 503.         *)
Overflow(d) ==
  /\ delivery[d].pc = "sent"
  /\ ~FitsColumn(delivery[d].body)
  /\ Release(d)
  /\ delivery' = [delivery EXCEPT ![d] = NoDelivery]
  /\ UNCHANGED <<vars, exchange, up, target, acked>>

(* The statement fails for another reason, or its result does not arrive   *)
(* although it took effect: 503, and the provider may send again.          *)
StoreFails(d) ==
  /\ delivery[d].pc \in {"sent", "stored"}
  /\ FitsColumn(delivery[d].body)
  /\ Release(d)
  /\ delivery' = [delivery EXCEPT ![d] = NoDelivery]
  /\ UNCHANGED <<vars, exchange, up, target, acked>>

-----------------------------------------------------------------------------
(* POST /admin/dlq/:id/replay                                              *)

AskReplay(r, e) ==
  /\ up
  /\ target[r] = Null /\ replay[r].pc = "idle"
  /\ events[e].replays < MaxReplays
  /\ target' = [target EXCEPT ![r] = e]
  /\ waiting' = Append(waiting, r)
  /\ UNCHANGED <<vars, exchange, up, delivery, clients, acked>>

SelectForReplay(r) ==
  /\ replay[r].pc = "idle" /\ target[r] # Null
  /\ ReplaySelect(r, target[r])
  /\ Keep(r)
  /\ UNCHANGED <<worker, reconVars, exchange, up, delivery, target, acked>>

(* 202, 200 or 500.                                                        *)
AnswerReplay(r) ==
  /\ ReplayCommit(r) \/ ReplayRefuse(r) \/ ReplayAbort(r)
  /\ Release(r)
  /\ target' = [target EXCEPT ![r] = Null]
  /\ UNCHANGED <<worker, reconVars, exchange, up, delivery, acked>>

EndReplayEarly(r) ==
  /\ target[r] # Null /\ replay[r].pc = "idle"
  /\ Release(r)
  /\ target' = [target EXCEPT ![r] = Null]
  /\ UNCHANGED <<vars, exchange, up, delivery, acked>>

(* 404.                                                                    *)
ReplayMissing(r) == target[r] \in EventIds \ Stored /\ EndReplayEarly(r)

(* A statement fails before the row is locked: 500.                        *)
ReplayFails(r) == EndReplayEarly(r)

-----------------------------------------------------------------------------
(* POST /admin/reconcile                                                   *)

InProgress == {r \in Reconcilers : exchange[r].pc # "none" \/ recon[r].pc # "idle"}

AskReconcile(r) ==
  /\ up
  /\ Len(runs) + Cardinality(InProgress) < MaxRuns
  /\ Ask(r)
  /\ UNCHANGED <<worker, replay, apiVars>>

(* The exchange with the provider goes on or fails: 502.                   *)
ExchangeStep(r) ==
  /\ \/ \E file \in Files : HeadersArrive(r, file)
     \/ TimerFires(r)
     \/ FetchFails(r)
     \/ BodyFails(r)
  /\ UNCHANGED <<worker, replay, apiVars>>

(* Only now a client is asked for.                                         *)
TakeSnapshot(r) ==
  /\ BodyArrives(r)
  /\ waiting' = Append(waiting, r)
  /\ UNCHANGED <<worker, replay, up, delivery, target, clients, acked>>

ReconcileStep(r) ==
  /\ BeginRun(r) \/ VisitOrder(r)
  /\ Keep(r)
  /\ UNCHANGED <<worker, replay, exchange, up, delivery, target, acked>>

EndReconcile(r) ==
  /\ Release(r)
  /\ UNCHANGED <<worker, replay, exchange, up, delivery, target, acked>>

(* 200.                                                                    *)
AnswerReconcile(r) == CommitRun(r) /\ EndReconcile(r)

(* 503.                                                                    *)
ReconcileFails(r) == AbortRun(r) /\ EndReconcile(r)

-----------------------------------------------------------------------------
(* Failure of the process                                                  *)

(* A request in line is told that no connection can be made: 503 or 500.   *)
ConnectFails ==
  /\ waiting # << >>
  /\ LET r == Head(waiting)
     IN  \/ /\ r \in Deliverers
            /\ delivery' = [delivery EXCEPT ![r] = NoDelivery]
            /\ UNCHANGED <<vars, target>>
         \/ /\ r \in Replayers
            /\ target' = [target EXCEPT ![r] = Null]
            /\ UNCHANGED <<vars, delivery>>
         \/ /\ r \in Reconcilers
            /\ AbortRun(r)
            /\ UNCHANGED <<worker, replay, delivery, target>>
  /\ waiting' = Tail(waiting)
  /\ UNCHANGED <<exchange, up, clients, acked>>

(* The process is killed: no request is answered.  A webhook statement     *)
(* that has been sent may still take effect.                               *)
ApiCrash ==
  /\ up
  /\ up' = FALSE
  /\ delivery' = [d \in Deliverers |->
       IF delivery[d].pc = "sent" /\ d \in clients
         THEN [delivery[d] EXCEPT !.pc = "orphan"] ELSE
       IF delivery[d].pc = "orphan" THEN delivery[d] ELSE NoDelivery]
  /\ target' = [r \in Replayers |-> Null]
  /\ exchange' = [r \in Reconcilers |-> NoExchange]
  /\ waiting' = << >>
  /\ clients' = {}
  /\ UNCHANGED <<vars, acked>>

ApiStart ==
  /\ ~up
  /\ up' = TRUE
  /\ UNCHANGED <<vars, exchange, delivery, target, waiting, clients, acked>>

(* PostgreSQL ends the session of a dead process: its transaction is       *)
(* rolled back, its statement is done with.                                *)
SessionEnds(p) ==
  /\ \/ /\ p \in Replayers
        /\ ~Served(p)
        /\ ReplayAbort(p)
        /\ UNCHANGED <<worker, reconVars, delivery>>
     \/ /\ p \in Reconcilers
        /\ ~Served(p)
        /\ AbortRun(p)
        /\ UNCHANGED <<worker, replay, delivery>>
     \/ /\ p \in Deliverers
        /\ delivery[p].pc = "orphan"
        /\ delivery' = [delivery EXCEPT ![p] = NoDelivery]
        /\ UNCHANGED vars
  /\ UNCHANGED <<exchange, up, target, waiting, clients, acked>>

Others ==
  /\ ClockStep \/ \E w \in Workers : WorkerStep(w)
  /\ UNCHANGED <<exchange, apiVars>>

ApiNext ==
  \/ Connect
  \/ \E d \in Deliverers :
       \/ \E b \in Bodies, s \in Signatures : ReceivePayment(d, b, s)
       \/ Store(d) \/ Acknowledge(d) \/ Overflow(d) \/ StoreFails(d)
  \/ \E r \in Replayers :
       \/ \E e \in EventIds : AskReplay(r, e)
       \/ SelectForReplay(r) \/ AnswerReplay(r)
       \/ ReplayMissing(r) \/ ReplayFails(r)
  \/ \E r \in Reconcilers :
       \/ AskReconcile(r) \/ ExchangeStep(r) \/ TakeSnapshot(r)
       \/ ReconcileStep(r) \/ AnswerReconcile(r) \/ ReconcileFails(r)
  \/ ConnectFails \/ ApiCrash \/ ApiStart
  \/ \E p \in Deliverers \union Replayers \union Reconcilers : SessionEnds(p)
  \/ Others

ApiSpec == ApiInit /\ [][ApiNext]_allVars

-----------------------------------------------------------------------------
(* Fairness.  The process and PostgreSQL go on with what is possible; row  *)
(* locks and the advisory lock are granted in turn, so a waiting statement *)
(* is strongly fair; the abort timer fires.  Nothing fails, or crashes, by *)
(* necessity, and nothing is assumed of the provider's answers: its        *)
(* headers and its body may stay away for ever.                            *)
WorkersGoOn ==
  \A w \in Workers :
    /\ SF_allVars(LockOrder(w) /\ UNCHANGED <<replay, reconVars, exchange, apiVars>>)
    /\ WF_allVars((CommitResult(w) \/ ScheduleRetry(w) \/ SendToDlq(w))
                  /\ UNCHANGED <<replay, reconVars, exchange, apiVars>>)

ApiFairness ==
  /\ WF_allVars(Connect)
  /\ \A d \in Deliverers :
       SF_allVars(Store(d)) /\ WF_allVars(Acknowledge(d) \/ Overflow(d))
  /\ \A r \in Replayers :
       SF_allVars(SelectForReplay(r)) /\ WF_allVars(AnswerReplay(r) \/ ReplayMissing(r))
  /\ \A r \in Reconcilers :
       /\ WF_allVars(TimerFires(r) /\ UNCHANGED <<worker, replay, apiVars>>)
       /\ SF_allVars(ReconcileStep(r))
       /\ WF_allVars(AnswerReconcile(r))
  /\ \A p \in Deliverers \union Replayers \union Reconcilers : WF_allVars(SessionEnds(p))
  /\ WorkersGoOn

FairApiSpec == ApiSpec /\ ApiFairness

(* The provider of DECISIONS.md 70-73: it sends again what was not         *)
(* accepted, and the failures of the database and of the process end.      *)
RetryingSpec ==
  /\ FairApiSpec
  /\ WF_allVars(ApiStart)
  /\ \A b \in Bodies : WF_allVars(\E d \in Deliverers : ReceivePayment(d, b, "own"))
  /\ <>[][~ApiCrash /\ ~ConnectFails /\ \A d \in Deliverers : ~StoreFails(d)]_allVars

-----------------------------------------------------------------------------
(* What the API promises                                                   *)

(* The service as PaymentService describes it is what the API process      *)
(* does: pool, queue, exchange with the provider, kill and restart add no  *)
(* effect on the database that it does not have, and only a snapshot that  *)
(* keeps its assumptions reaches a reconciliation.                         *)
ImplementsService == Spec

(* 202 is answered only for what the inbox has, and it stays there though  *)
(* the process is killed at any moment (README.md 30-31, DECISIONS.md      *)
(* 62-63: no window in which 202 was answered without the event).          *)
AcknowledgedIsStored ==
  \A e \in EventIds :
    acked[e] + Cardinality({d \in Pending(e) : delivery[d].pc = "stored"})
      <= events[e].count

(* Every webhook and every replay request is answered: requests that hold  *)
(* a client never wait for one that needs a client, however small the pool *)
(* is, and a provider that does not answer keeps nobody waiting            *)
(* (DECISIONS.md 318-320, dlq.repository.ts 166-169).                      *)
RequestsAnswered ==
  /\ \A d \in Deliverers : delivery[d].pc # "none" ~> delivery[d].pc = "none"
  /\ \A r \in Replayers : target[r] # Null ~> target[r] = Null

(* A reconciliation never waits for the provider's headers for ever, and   *)
(* once it has the snapshot it always ends (provider-client.ts 82-94,      *)
(* reconciliation.repository.ts 72-260).                                   *)
ReconcileAnswered ==
  \A r \in Reconcilers :
    /\ exchange[r].pc = "asked" ~> exchange[r].pc # "asked"
    /\ recon[r].pc = "fetched" ~> recon[r].pc = "idle"

(* A genuine and admitted delivery that the provider repeats until it is   *)
(* accepted is stored in the end: "Se responde 503 para que el proveedor   *)
(* reintente" (DECISIONS.md 70-73).                                        *)
RetriedIsStored ==
  \A b \in Bodies :
    (\E d \in Deliverers : delivery[d].body = b) ~> events[b.event].status # "ABSENT"
=============================================================================
