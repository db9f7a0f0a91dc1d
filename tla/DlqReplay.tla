----------------------------- MODULE DlqReplay -----------------------------
(***************************************************************************)
(* Replay of a dead letter: DlqRepository.replay of                        *)
(* src/src/admin/dlq.repository.ts, one transaction per request.  The row  *)
(* is read FOR UPDATE, so the request waits for a worker that has claimed  *)
(* the event, and decides on the status that worker committed.             *)
(***************************************************************************)
EXTENDS Tables

CONSTANTS
  Replayers,     \* concurrent replay requests
  MaxReplays     \* bound: replays modelled per event_id

ASSUME ReplayAssumption == MaxReplays \in Nat /\ Null \notin Replayers

VARIABLE replay  \* per request: program counter and the row it read

ReplayState ==
  [pc : {"idle", "selected"}, event : EventRow \union {Null}]

NoReplay == [pc |-> "idle", event |-> Null]

ReplayInit == replay = [r \in Replayers |-> NoReplay]

EndReplay(r) ==
  /\ replay' = [replay EXCEPT ![r] = NoReplay]
  /\ ReleaseLocks(r)

(* FOR UPDATE waits for the transaction that has the row.                  *)
SelectWithoutLock(e) == events[e].status # "ABSENT"

Selectable(e) == events[e].status # "ABSENT" /\ EventFree(e)

(* Only a dead letter may be replayed.                                     *)
ReplayableIfUndone(row) == row.status \in {"DLQ", "IGNORED"}
ReplayableAny(row) == TRUE

Replayable(row) == row.status = "DLQ"

(* The row after a replay: back in the queue with a clean record.          *)
RevivedWithAttempts(row) ==
  [row EXCEPT !.status = "PENDING", !.next = Null, !.reason = Null,
              !.replays = @ + 1]

Revived(row) ==
  [row EXCEPT !.status   = "PENDING",
              !.attempts = 0,
              !.next     = Null,
              !.reason   = Null,
              !.replays  = @ + 1]

(* BEGIN; SELECT .. WHERE id = $1 FOR UPDATE.  A missing row is answered   *)
(* 404 and changes nothing.                                                *)
ReplaySelect(r, e) ==
  /\ replay[r].pc = "idle"
  /\ Selectable(e)
  /\ events[e].replays < MaxReplays
  /\ replay' = [replay EXCEPT ![r] = [pc |-> "selected", event |-> events[e]]]
  /\ eventLock' = [eventLock EXCEPT ![e] = r]
  /\ UNCHANGED <<tables, orderLock>>

(* UPDATE, COMMIT: answered REPLAYED.                                      *)
ReplayCommit(r) ==
  LET e == replay[r].event.body.event
  IN  /\ replay[r].pc = "selected"
      /\ Replayable(replay[r].event)
      /\ events' = [events EXCEPT ![e] = Revived(@)]
      /\ EndReplay(r)
      /\ UNCHANGED <<nextId, deliveries, orders, history>>

(* NOT_IN_DLQ: COMMIT without a change.                                    *)
ReplayRefuse(r) ==
  /\ replay[r].pc = "selected"
  /\ ~Replayable(replay[r].event)
  /\ EndReplay(r)
  /\ UNCHANGED tables

(* A statement fails or the connection is lost: ROLLBACK.                  *)
ReplayAbort(r) ==
  /\ replay[r].pc = "selected"
  /\ EndReplay(r)
  /\ UNCHANGED tables

ReplayNext(r) ==
  \/ \E e \in EventIds : ReplaySelect(r, e)
  \/ ReplayCommit(r)
  \/ ReplayRefuse(r)
  \/ ReplayAbort(r)
=============================================================================
