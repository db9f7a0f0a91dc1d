---------------------------- MODULE ScriptRunner ----------------------------
(***************************************************************************)
(* A verification script of src/scripts against the running service.  A    *)
(* script is a sequence of steps, each a record of what to do (op), to     *)
(* what (of), and what the script asserts of the outcome (want).  Between  *)
(* any two steps, and while a step waits, workers claim, fail, crash and   *)
(* commit.  A failed assertion is counted and the script goes on; an       *)
(* exception ends it.                                                      *)
(***************************************************************************)
EXTENDS Invariants, Metrics

CONSTANTS
  Scripts,       \* the steps of each script, by its name; one of them is run
  WithWorkers,   \* the scripts that run beside the workers; the others ask
                 \* for them to be stopped
  Planted,       \* events that a script inserts itself, by SQL
  Concurrency    \* requests that a script has in flight at a time

VARIABLES
  script,        \* the name of the script that is run
  step,          \* its current step
  done,          \* the requests of that step that were answered
  failed,        \* an assertion has failed
  base,          \* the metrics as they were first read
  file,          \* the provider's orders, as the script has written them
  causes,        \* what went wrong outside the service's logic
  exit           \* running, passed or failed

runVars == <<script, step, done, failed, base, file, causes, exit>>
scriptVars == <<vars, runVars>>

Measured ==
  [received |-> EventsReceived, duplicates |-> DuplicateEvents,
   outOfOrder |-> OutOfOrderEvents, dlq |-> DlqSize]

ScriptInit ==
  /\ Init
  /\ script \in DOMAIN Scripts
  /\ step = 1 /\ done = {} /\ failed = FALSE
  /\ base = Measured /\ file = Null
  /\ causes = {} /\ exit = "running"

-----------------------------------------------------------------------------
(* Steps and assertions                                                    *)

Steps == Scripts[script]

Current == Steps[step]

Doing(op) == exit = "running" /\ step <= Len(Steps) /\ Current.op = op

(* assert(condition, message)                                              *)
Check(condition) == failed' = (failed \/ ~condition)

Advance == step' = step + 1 /\ done' = {}

(* One of the step's parallel requests has been answered.                  *)
Answered(x, all) ==
  IF done \union {x} = all THEN Advance
                           ELSE done' = done \union {x} /\ UNCHANGED step

Keep == UNCHANGED <<script, base, file, causes, exit>>

(* An exception, caught by main: exit code 1, and the file is restored.    *)
Throw(cause) ==
  /\ exit' = "failed"
  /\ causes' = causes \union {cause}
  /\ file' = Null
  /\ UNCHANGED <<script, step, done, failed, base>>

(* The row has the wanted fields.                                          *)
Shows(row, want) == \A f \in DOMAIN want : row[f] = want[f]

-----------------------------------------------------------------------------
(* Webhooks                                                                *)

(* Up to Concurrency requests are in flight; they are served in any order. *)
InFlight(i) ==
  /\ i \in DOMAIN Current.of
  /\ i \notin done
  /\ Cardinality({j \in 1 .. i - 1 : j \notin done}) < Concurrency

(* Answered 202 with the result.                                           *)
Send(i, stale) ==
  LET body == Current.of[i]
  IN  /\ Doing(IF stale THEN "sendStale" ELSE "send")
      /\ InFlight(i)
      /\ Ingest(body, stale)
      /\ Check(DeliveryResult(Upsert(body, stale), body, stale) \in Current.want)
      /\ Answered(i, DOMAIN Current.of)
      /\ Keep
      /\ UNCHANGED <<worker, replay, reconVars>>

(* Answered 503: the script goes on.                                       *)
SendFails(i) ==
  /\ Doing("send") \/ Doing("sendStale")
  /\ InFlight(i)
  /\ Check("REFUSED" \in Current.want)
  /\ Answered(i, DOMAIN Current.of)
  /\ causes' = causes \union {"refused"}
  /\ UNCHANGED <<vars, script, base, file, exit>>

(* A signature that is absent or another's: 401, and nothing is stored.    *)
SendForged ==
  /\ Doing("forge")
  /\ Advance
  /\ Keep
  /\ UNCHANGED <<vars, failed>>

-----------------------------------------------------------------------------
(* Waiting for the workers                                                 *)

(* pollUntil: the event is in one of the wanted states.                    *)
PollFinds ==
  /\ Doing("poll")
  /\ events[Current.of].status \in Current.want
  /\ Advance
  /\ Keep
  /\ UNCHANGED <<vars, failed>>

PollTimesOut ==
  /\ Doing("poll")
  /\ events[Current.of].status \notin Current.want
  /\ Throw("late")
  /\ UNCHANGED vars

(* Scenario D: a retry is scheduled, or was and is over.                   *)
RetryEvidence(row) == row.status = "RETRY_SCHEDULED" \/ row.attempts >= 2

RetrySeen ==
  /\ Doing("retry")
  /\ RetryEvidence(events[Current.of])
  /\ Advance
  /\ Keep
  /\ UNCHANGED <<vars, failed>>

(* Not in twenty seconds.  The workers were late only if the event still   *)
(* waits for them.                                                         *)
RetryNotSeen ==
  /\ Doing("retry")
  /\ ~RetryEvidence(events[Current.of])
  /\ Check(FALSE)
  /\ Advance
  /\ causes' = IF events[Current.of].status \in Waiting
                 THEN causes \union {"late"} ELSE causes
  /\ UNCHANGED <<vars, script, base, file, exit>>

(* The events are no longer waiting, or thirty seconds have passed: this   *)
(* wait ends without an exception.                                         *)
WaitEnds ==
  /\ Doing("wait")
  /\ Advance
  /\ causes' = IF \E e \in Current.of : events[e].status \in Waiting
                 THEN causes \union {"late"} ELSE causes
  /\ UNCHANGED <<vars, script, failed, base, file, exit>>

-----------------------------------------------------------------------------
(* Queries                                                                 *)

Reports == {i \in DOMAIN runs : i > Len(runs) - Current.of}

(* Their details with the verdict.                                         *)
Total(verdict) ==
  Cardinality({detail \in Reports \X Orders : detail[2] \in runs[detail[1]][verdict]})

EventsFor(o) == {e \in Stored : events[e].body.order = o}

(* Each query is one statement, and what it returns is asserted.           *)
Holds ==
  CASE Current.op = "order"   -> Shows(orders[Current.of], Current.want)
    [] Current.op = "event"   -> Shows(events[Current.of], Current.want)
    [] Current.op = "rows"    -> Len(history[Current.of]) = Current.want
    [] Current.op = "rowsOf"  -> Cardinality(RowsOf(Current.of)) = Current.want
    [] Current.op = "listed"  -> /\ Cardinality(EventsFor(Current.of)) >= Current.want
                                 /\ Len(history[Current.of]) >= Current.want
                                 /\ \E i \in DOMAIN history[Current.of] :
                                      history[Current.of][i].outcome = "IGNORED"
    [] Current.op = "recorded" -> DeliveryRows(Current.of) = Current.want
    [] Current.op = "notPending" -> \A e \in Current.of : events[e].status # "PENDING"
    [] Current.op = "orders"  -> \A o \in Current.of : orders[o].exists = Current.want
    [] Current.op = "grew"    -> \A m \in DOMAIN Current.want :
                                   Measured[m] - base[m] >= Current.want[m]
    [] Current.op = "dlqSize" -> DlqSize = base.dlq + Current.want
    [] Current.op = "reports" -> \A v \in DOMAIN Current.want : Total(v) = Current.want[v]

Queries ==
  {"order", "event", "rows", "rowsOf", "listed", "recorded", "notPending", "orders",
   "grew", "dlqSize", "reports"}

Query ==
  /\ \E op \in Queries : Doing(op)
  /\ Check(Holds)
  /\ Advance
  /\ Keep
  /\ UNCHANGED vars

(* The first reading of the metrics.                                       *)
Measure ==
  /\ Doing("measure")
  /\ base' = Measured
  /\ Advance
  /\ UNCHANGED <<vars, script, failed, file, causes, exit>>

-----------------------------------------------------------------------------
(* Rows that the script writes itself                                      *)

InsertEvent ==
  /\ Doing("insertEvent")
  /\ events' = [events EXCEPT ![Current.of] = [Current.want EXCEPT !.id = nextId]]
  /\ nextId' = nextId + 1
  /\ Advance
  /\ Keep
  /\ UNCHANGED <<deliveries, orders, history, rowLocks, worker, replay, reconVars, failed>>

DeleteEvent ==
  /\ Doing("deleteEvent")
  /\ events' = [events EXCEPT ![Current.of] = NoEventRow]
  /\ Advance
  /\ Keep
  /\ UNCHANGED <<nextId, deliveries, orders, history, rowLocks, worker, replay,
                 reconVars, failed>>

InsertOrder ==
  /\ Doing("insertOrder")
  /\ orders' = [orders EXCEPT ![Current.of] = Current.want]
  /\ Advance
  /\ Keep
  /\ UNCHANGED <<events, nextId, deliveries, history, rowLocks, worker, replay,
                 reconVars, failed>>

WriteFile ==
  /\ Doing("file")
  /\ file' = Current.want
  /\ Advance
  /\ UNCHANGED <<vars, script, failed, base, causes, exit>>

-----------------------------------------------------------------------------
(* Replays and reconciliations                                             *)

AskReplay(r) ==
  /\ Doing("replay")
  /\ ReplaySelect(r, Current.of)
  /\ UNCHANGED <<worker, reconVars, runVars>>

(* A second replay that finds the event dead once more was asked for too   *)
(* late: the script takes it to be waiting still.                          *)
ReplayAnswered(r) ==
  LET row == replay[r].event
  IN  /\ Doing("replay")
      /\ ReplayCommit(r) \/ ReplayRefuse(r)
      /\ Check(IF Replayable(row) THEN Current.want = "REPLAYED" /\ row.replays = 0
                                   ELSE Current.want = "NOT_IN_DLQ")
      /\ Advance
      /\ causes' = IF Replayable(row) /\ row.replays > 0
                     THEN causes \union {"died again"} ELSE causes
      /\ UNCHANGED <<worker, reconVars, script, base, file, exit>>

(* 503.                                                                    *)
ReplayFails(r) ==
  /\ Doing("replay")
  /\ ReplayAbort(r)
  /\ Check(FALSE)
  /\ Advance
  /\ causes' = causes \union {"refused"}
  /\ UNCHANGED <<worker, reconVars, script, base, file, exit>>

(* The step's requests, side by side, read the file and run.               *)
Reconcile(r) ==
  /\ Doing("reconcile")
  /\ r \in Current.of \ done
  /\ FetchSnapshot(r, file) \/ BeginRun(r) \/ VisitOrder(r)
  /\ UNCHANGED <<worker, replay, runVars>>

(* 200.                                                                    *)
ReconcileAnswered(r) ==
  /\ Doing("reconcile")
  /\ CommitRun(r)
  /\ Answered(r, Current.of)
  /\ Keep
  /\ UNCHANGED <<worker, replay, failed>>

(* 503.                                                                    *)
ReconcileFails(r) ==
  /\ Doing("reconcile")
  /\ AbortRun(r)
  /\ Check(FALSE)
  /\ Answered(r, Current.of)
  /\ causes' = causes \union {"refused"}
  /\ UNCHANGED <<worker, replay, script, base, file, exit>>

-----------------------------------------------------------------------------
(* The rows that the script has inserted and not deleted again.            *)
Temporary ==
  {e \in Stored : \E i \in step .. Len(Steps) :
                    Steps[i].op = "deleteEvent" /\ Steps[i].of = e}

(* A request or a query throws: the API or the database is not reached.    *)
(* A temporary row is deleted if the database is there for that.           *)
Unreachable ==
  /\ exit = "running"
  /\ \A r \in Replayers : replay[r].pc = "idle"
  /\ \A r \in Reconcilers : recon[r].pc = "idle"
  /\ Throw("unreachable")
  /\ \E gone \in {{}, Temporary} :
       events' = [e \in EventIds |-> IF e \in gone THEN NoEventRow ELSE events[e]]
  /\ UNCHANGED <<nextId, deliveries, orders, history, rowLocks, worker, replay, reconVars>>

Finish ==
  /\ exit = "running" /\ step > Len(Steps)
  /\ exit' = IF failed THEN "failed" ELSE "passed"
  /\ file' = Null
  /\ UNCHANGED <<vars, script, step, done, failed, base, causes>>

(* PostgreSQL refuses the amount of a planted event, so its business block *)
(* never succeeds.                                                         *)
WorkersStep ==
  /\ exit = "running"
  /\ script \in WithWorkers
  /\ ClockStep \/ \E w \in Workers : WorkerStep(w)
  /\ \A e \in Planted : events'[e].status \notin {"APPLIED", "IGNORED"}
  /\ UNCHANGED runVars

ScriptNext ==
  \/ \E i \in DOMAIN (IF step <= Len(Steps) /\ Current.op \in {"send", "sendStale"}
                        THEN Current.of ELSE << >>) :
       Send(i, TRUE) \/ Send(i, FALSE) \/ SendFails(i)
  \/ SendForged
  \/ PollFinds \/ PollTimesOut \/ RetrySeen \/ RetryNotSeen \/ WaitEnds
  \/ Query \/ Measure
  \/ InsertEvent \/ DeleteEvent \/ InsertOrder \/ WriteFile
  \/ \E r \in Replayers : AskReplay(r) \/ ReplayAnswered(r) \/ ReplayFails(r)
  \/ \E r \in Reconcilers : Reconcile(r) \/ ReconcileAnswered(r) \/ ReconcileFails(r)
  \/ Unreachable \/ Finish
  \/ WorkersStep

ScriptSpec == ScriptInit /\ [][ScriptNext]_scriptVars

-----------------------------------------------------------------------------
(* A script that fails has met something outside the logic of the service: *)
(* a request was refused, a deadline passed, an event of its own was given *)
(* up after its attempts.  In whatever order workers take its events and   *)
(* however they crash, no assertion of it fails by chance                  *)
(* (scripts/verify-worker.ts 305-315 and the other four).                  *)
FailureHasCause ==
  exit = "failed" =>
    \/ causes # {}
    \/ \E e \in Stored \ Planted : events[e].status = "DLQ"
=============================================================================
