------------------------------- MODULE Worker -------------------------------
(***************************************************************************)
(* The event workers: WorkerRepository.processOne of                       *)
(* src/src/worker/worker.repository.ts, run in a loop by every worker      *)
(* process.  One database transaction claims an event, locks its order,    *)
(* decides and commits; a failure of the business block is rolled back to  *)
(* a savepoint and turned into a retry or a dead letter by the same        *)
(* transaction; a failure of the transaction itself leaves no trace.       *)
(*                                                                         *)
(*   idle --Claim--> claimed --LockOrder--> locked --CommitResult--> idle  *)
(*                      |                     |                            *)
(*                      +----BusinessError----+--> failed --ScheduleRetry, *)
(*                                                   SendToDlq--> idle     *)
(***************************************************************************)
EXTENDS Tables, RetryPolicy

CONSTANT Workers

ASSUME WorkersAssumption == Null \notin Workers

VARIABLE worker   \* per worker: program counter and what its transaction read

WorkerState ==
  [pc    : {"idle", "claimed", "locked", "failed", "down"},
   event : EventRow \union {Null},    \* the row the claim returned
   order : OrderRow \union {Null}]    \* the row read under the order's lock

Idle == [pc |-> "idle", event |-> Null, order |-> Null]

WorkerInit == worker = [w \in Workers |-> Idle]

ClaimedEvent(w) == worker[w].event.body.event

ClaimedOrder(w) == worker[w].event.body.order

-----------------------------------------------------------------------------
(* Helpers                                                                 *)

(* WHERE processing_status = 'PENDING' OR (RETRY_SCHEDULED and due)        *)
ClaimablePending(e) == events[e].status = "PENDING"

Claimable(e) ==
  \/ events[e].status = "PENDING"
  \/ events[e].status = "RETRY_SCHEDULED" /\ events[e].next = 0

(* FOR UPDATE SKIP LOCKED                                                  *)
NotEvenLocked(e) == TRUE

Unlocked(e) == EventFree(e)

(* The partial unique index on order_status_history(event_id) of migration *)
(* 002: the INSERT fails if the event has a history row already.           *)
NoHistoryYet(e) ==
  \A o \in Orders : \A i \in DOMAIN history[o] : history[o][i].event # e

(* COMMIT: end of the transaction, the worker polls again.                 *)
KeepsItsState(w) == ReleaseLocks(w) /\ UNCHANGED worker

EndTransaction(w) ==
  /\ worker' = [worker EXCEPT ![w] = Idle]
  /\ ReleaseLocks(w)

InTransaction(w) == worker[w].pc \in {"claimed", "locked", "failed"}

-----------------------------------------------------------------------------
(* Actions                                                                 *)

(* BEGIN and the claiming SELECT: ORDER BY id LIMIT 1.  A poll that finds  *)
(* nothing commits at once and changes nothing.                            *)
Claim(w) ==
  /\ worker[w].pc = "idle"
  /\ \E e \in EventIds :
       /\ Claimable(e) /\ Unlocked(e)
       /\ \A f \in EventIds :
            Claimable(f) /\ Unlocked(f) => events[e].id <= events[f].id
       /\ worker' = [worker EXCEPT ![w] =
            [@ EXCEPT !.pc = "claimed", !.event = events[e]]]
       /\ eventLock' = [eventLock EXCEPT ![e] = w]
  /\ UNCHANGED <<tables, orderLock>>

(* Inside the savepoint: insert the order if it is missing, then SELECT .. *)
(* FOR UPDATE.  Both statements wait for a transaction that has the order. *)
LockOrder(w) ==
  LET o == ClaimedOrder(w)
  IN  /\ worker[w].pc = "claimed"
      /\ OrderFree(o)
      /\ worker' = [worker EXCEPT ![w] =
           [@ EXCEPT !.pc = "locked",
                     !.order = InsertOrderIfMissing(orders[o])]]
      /\ orderLock' = [orderLock EXCEPT ![o] = w]
      /\ UNCHANGED <<tables, eventLock>>

(* The business block succeeds and the transaction commits: order, history *)
(* and event change together.                                              *)
CommitResult(w) ==
  LET e      == ClaimedEvent(w)
      o      == ClaimedOrder(w)
      body   == worker[w].event.body
      result == Process(body, worker[w].order)
  IN  /\ worker[w].pc = "locked"
      /\ NoHistoryYet(e)
      /\ orders' = [orders EXCEPT ![o] = result.order]
      /\ history' = [history EXCEPT ![o] =
           Append(@, WebhookHistory(body, worker[w].order, result))]
      /\ events' = [events EXCEPT ![e] =
           [@ EXCEPT !.status = result.outcome,
                     !.reason = result.reason,
                     !.next   = Null]]
      /\ EndTransaction(w)
      /\ UNCHANGED <<nextId, deliveries>>

(* A statement of the business block fails.  ROLLBACK TO SAVEPOINT undoes  *)
(* the block and gives up the order lock; the event stays locked.          *)
BusinessError(w) ==
  /\ worker[w].pc \in {"claimed", "locked"}
  /\ worker' = [worker EXCEPT ![w] = [@ EXCEPT !.pc = "failed", !.order = Null]]
  /\ orderLock' = OrderLocksWithout(w)
  /\ UNCHANGED <<tables, eventLock>>

(* The retry policy allows another attempt after a jittered delay.         *)
ScheduleRetry(w) ==
  LET e == ClaimedEvent(w)
  IN  /\ worker[w].pc = "failed"
      /\ ~IsDlq(worker[w].event.attempts)
      /\ \E delay \in Delays(worker[w].event.attempts) :
           events' = [events EXCEPT ![e] =
             [@ EXCEPT !.status   = "RETRY_SCHEDULED",
                       !.attempts = NewAttemptCount(worker[w].event.attempts),
                       !.next     = delay,
                       !.reason   = "TRANSIENT_ERROR"]]
      /\ EndTransaction(w)
      /\ UNCHANGED <<nextId, deliveries, orders, history>>

(* The attempts are exhausted: dead letter.                                *)
SendToDlq(w) ==
  LET e == ClaimedEvent(w)
  IN  /\ worker[w].pc = "failed"
      /\ IsDlq(worker[w].event.attempts)
      /\ events' = [events EXCEPT ![e] =
           [@ EXCEPT !.status   = "DLQ",
                     !.attempts = NewAttemptCount(worker[w].event.attempts),
                     !.next     = Null,
                     !.reason   = "MAX_ATTEMPTS_EXHAUSTED"]]
      /\ EndTransaction(w)
      /\ UNCHANGED <<nextId, deliveries, orders, history>>

(* The transaction fails outside the business block (savepoint, retry      *)
(* update, COMMIT, connection): ROLLBACK, and the loop polls again later.  *)
AbortTransaction(w) ==
  /\ InTransaction(w)
  /\ EndTransaction(w)
  /\ UNCHANGED tables

(* The process is killed: PostgreSQL rolls its open transaction back.      *)
Crash(w) ==
  /\ worker[w].pc # "down"
  /\ worker' = [worker EXCEPT ![w] = [Idle EXCEPT !.pc = "down"]]
  /\ ReleaseLocks(w)
  /\ UNCHANGED tables

Restart(w) ==
  /\ worker[w].pc = "down"
  /\ worker' = [worker EXCEPT ![w] = Idle]
  /\ UNCHANGED <<tables, rowLocks>>

WorkerNext(w) ==
  \/ Claim(w)
  \/ LockOrder(w)
  \/ CommitResult(w)
  \/ BusinessError(w)
  \/ ScheduleRetry(w)
  \/ SendToDlq(w)
  \/ AbortTransaction(w)
  \/ Crash(w)
  \/ Restart(w)
=============================================================================
