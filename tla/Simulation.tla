----------------------------- MODULE Simulation -----------------------------
(***************************************************************************)
(* A run of the simulator, provider-simulator/simulator.js, against the    *)
(* ingestion and the workers: a pool of senders posts the generated        *)
(* deliveries, the chaos coordinator kills the workers on the way, orders  *)
(* are polled until they converge, and the report decides on the exit      *)
(* code.  The run is the acceptance test of the service: what does a PASS  *)
(* prove, and what does a FAIL?                                            *)
(***************************************************************************)
EXTENDS Convergence, Ingestion, ChaosCoordinator

CONSTANTS
  Options,       \* the command lines: --events, what the rates of duplicates,
                 \* invalids and stales come to, and --shuffle
  Concurrency    \* --concurrency

Option ==
  [events : Nat \ {0}, duplicates : Nat, invalid : Nat, stale : Nat, shuffle : BOOLEAN]

Deliveries(opt) == opt.events + opt.duplicates + opt.invalid + opt.stale

Sources(n, opt) == [1..n -> 1..opt.events]

Plans(opt) ==
  {AllEvents(BaseEvents(chains, opt.events, amount), dups, invalids, stales) :
     chains \in [1..opt.events -> Chains], amount \in Amounts,
     dups \in Sources(opt.duplicates, opt), invalids \in Sources(opt.invalid, opt),
     stales \in Sources(opt.stale, opt)}

SendOrders(opt) ==
  LET places == 1..Deliveries(opt)
  IN  IF opt.shuffle THEN Bijection(places, places) ELSE {[i \in places |-> i]}

(* The constants have room for whatever the generator makes, and an answer *)
(* is not taken for none.                                                  *)
ASSUME SimulationAssumption ==
  /\ Concurrency \in Nat \ {0}
  /\ Null \notin DeliveryResults \union {"UNAUTHORIZED", "ERROR", "BROKEN"}
  /\ \A opt \in Options :
       /\ opt \in Option
       /\ \A all \in Plans(opt) : \A i \in DOMAIN all : all[i].body \in Bodies

VARIABLES
  options,     \* those of this run
  plan,        \* eventsToSend
  sent,        \* idx: how many deliveries a sender has taken
  reply,       \* per delivery: what the service answered, or will answer
  answer,      \* per delivery: how the simulator classified it; BROKEN if the
               \* response broke off and its promise never settles
  sentCount,   \* deliveries with a response
  verdict,     \* per order: checkOrderConvergence of its final response
  phase,       \* sending, polling, final, passed, failed, and stuck if a poll
               \* never settles
  late         \* the deadline ended the polling

simVars == <<options, plan, sent, reply, answer, sentCount, verdict, phase, late>>

simulationVars == <<tables, rowLocks, worker, chaos, simVars>>

Total == Deliveries(options)

SimulationInit ==
  /\ TablesInit
  /\ WorkerInit
  /\ ChaosInit
  /\ options \in Options
  /\ \E all \in Plans(options), order \in SendOrders(options) :
       plan = [i \in 1..Total |-> all[order[i]]]
  /\ sent = 0
  /\ reply = [i \in 1..Total |-> Null]
  /\ answer = [i \in 1..Total |-> Null]
  /\ sentCount = 0
  /\ verdict = [o \in Orders |-> Null]
  /\ phase = "sending"
  /\ late = FALSE

-----------------------------------------------------------------------------
(* Sending                                                                 *)

InFlight == {i \in 1..sent : answer[i] = Null}

(* These keep their senders for ever.                                      *)
BrokenOff == {i \in 1..sent : answer[i] = "BROKEN"}

(* A free sender of the pool takes the next delivery: i = idx++.           *)
TakeNext ==
  /\ phase = "sending"
  /\ sent < Total
  /\ Cardinality(InFlight \union BrokenOff) < Concurrency
  /\ sent' = sent + 1
  /\ UNCHANGED <<tables, rowLocks, worker, chaos, options, plan, reply, answer, sentCount,
                 verdict, phase, late>>

Reply(i, result) == reply' = [reply EXCEPT ![i] = result]

(* The service works on a request that has reached it, perhaps after the   *)
(* sender has given up.  It compares the time it received the request with *)
(* occurred_at, which the generator fixed before the burst: an old         *)
(* delivery is always stale, and any other is if it is served so late.     *)
Serve(i) ==
  LET body == plan[i].body
  IN  /\ i <= sent /\ reply[i] = Null
      /\ \/ /\ plan[i].kind = "invalid"
            /\ Reply(i, "UNAUTHORIZED")
            /\ UNCHANGED <<tables, rowLocks>>
         \/ /\ plan[i].kind # "invalid"
            /\ \E stale \in BOOLEAN :
                 /\ plan[i].kind = "stale" => stale
                 /\ Ingest(body, stale)
                 /\ Reply(i, DeliveryResult(Upsert(body, stale), body, stale))
      /\ UNCHANGED <<worker, chaos, options, plan, sent, answer, sentCount, verdict,
                     phase, late>>

(* 503                                                                     *)
ServeFails(i) ==
  /\ i \in InFlight /\ reply[i] = Null
  /\ Reply(i, "ERROR")
  /\ UNCHANGED <<tables, rowLocks, worker, chaos, options, plan, sent, answer, sentCount,
                 verdict, phase, late>>

(* A response arrives: it is counted, the coordinator is told, then it is  *)
(* classified, all in one turn.                                            *)
Receive(i) ==
  /\ i \in InFlight /\ reply[i] # Null
  /\ answer' = [answer EXCEPT ![i] = reply[i]]
  /\ sentCount' = sentCount + 1
  /\ chaos' = AfterDelivery(sentCount + 1)
  /\ UNCHANGED <<tables, rowLocks, worker, options, plan, sent, reply, verdict, phase, late>>

NoResponseTo(i, result) ==
  /\ i \in InFlight
  /\ answer' = [answer EXCEPT ![i] = result]
  /\ UNCHANGED <<tables, rowLocks, worker, chaos, options, plan, sent, reply, sentCount,
                 verdict, phase, late>>

(* The request times out or its connection breaks before the headers.      *)
RequestFails(i) == NoResponseTo(i, "ERROR")

(* The connection breaks after the headers: the response raises neither    *)
(* 'end' nor an 'error' anybody listens to.                                *)
ResponseBreaks(i) == reply[i] # Null /\ NoResponseTo(i, "BROKEN")

(* All deliveries are answered; then waitForCompletion.                    *)
Impatient == sent = Total /\ InFlight \union BrokenOff = {}

BurstOver == sent = Total /\ InFlight \union BrokenOff = {} /\ CycleOver

StartPolling ==
  /\ phase = "sending" /\ BurstOver
  /\ phase' = "polling"
  /\ UNCHANGED <<tables, rowLocks, worker, chaos, options, plan, sent, reply, answer,
                 sentCount, verdict, late>>

-----------------------------------------------------------------------------
(* Polling and the report                                                  *)

Expected == ExpectedOrders(plan)

Undecided == {o \in Expected : verdict[o] = Null}

Check(o) == CheckOrder(OrderDetail(o), ExpectedState(plan, o), ExpectedEvents(plan, o))

NoResponse(o) ==
  [converged |-> FALSE, terminalFail |-> FALSE, pending |-> 0, dlq |-> 0,
   lost |-> Cardinality(ExpectedEvents(plan, o))]

Decide(o, v) ==
  /\ verdict' = [verdict EXCEPT ![o] = v]
  /\ UNCHANGED <<tables, rowLocks, worker, chaos, options, plan, sent, reply, answer,
                 sentCount, phase, late>>

(* An order is polled until it has converged or never will.                *)
Poll(o) ==
  /\ phase = "polling"
  /\ orders[o].exists
  /\ Check(o).converged \/ Check(o).terminalFail
  /\ Decide(o, Check(o))

EndPolling ==
  /\ phase = "polling"
  /\ phase' = "final"
  /\ late' = (Undecided # {})
  /\ UNCHANGED <<tables, rowLocks, worker, chaos, options, plan, sent, reply, answer,
                 sentCount, verdict>>

(* One more request for each order that timed out.                         *)
FinalFetch(o) ==
  /\ phase = "final"
  /\ \/ orders[o].exists /\ Decide(o, Check(o))
     \/ Decide(o, NoResponse(o))

(* So with the response to a poll: the round never ends.                   *)
PollBreaks ==
  /\ phase \in {"polling", "final"}
  /\ Undecided # {}
  /\ phase' = "stuck"
  /\ UNCHANGED <<tables, rowLocks, worker, chaos, options, plan, sent, reply, answer,
                 sentCount, verdict, late>>

Count(result) == Cardinality({i \in 1..Total : answer[i] = result})

(* The exit criteria, but for the latency.  A converged order has no       *)
(* pending, dead or lost event.                                            *)
Passed ==
  /\ \A o \in Expected : verdict[o].converged
  /\ Count("REJECTED") = 0
  /\ Count("ERROR") = 0
  /\ Count("CREATED") = options.events
  /\ Count("DUPLICATE") = options.duplicates
  /\ Count("IGNORED") = options.stale
  /\ Count("UNAUTHORIZED") = options.invalid
  /\ KillAt # 0 => chaos.pc = "done"

Report ==
  /\ phase = "final" /\ Undecided = {}
  /\ phase' = IF Passed THEN "passed" ELSE "failed"
  /\ UNCHANGED <<tables, rowLocks, worker, chaos, options, plan, sent, reply, answer,
                 sentCount, verdict, late>>

SimulatorStep ==
  \/ TakeNext
  \/ \E i \in 1..Total : Receive(i) \/ RequestFails(i) \/ ResponseBreaks(i)
  \/ StartPolling
  \/ \E o \in Undecided : Poll(o) \/ FinalFetch(o)
  \/ EndPolling
  \/ PollBreaks
  \/ Report

ServiceStep ==
  \/ \E i \in 1..Total : Serve(i) \/ ServeFails(i)
  \/ /\ \/ \E w \in Workers :
             \/ Claim(w) \/ LockOrder(w) \/ CommitResult(w) \/ BusinessError(w)
             \/ ScheduleRetry(w) \/ SendToDlq(w) \/ AbortTransaction(w)
        \/ Tick /\ UNCHANGED worker
     /\ UNCHANGED <<chaos, simVars>>

SimulationNext ==
  \/ SimulatorStep
  \/ ServiceStep
  \/ ChaosNext /\ UNCHANGED simVars

SimulationSpec == SimulationInit /\ [][SimulationNext]_simulationVars

Numbers == UNION {1..Deliveries(opt) : opt \in Options}

(* The simulator's own steps: requests time out, deadlines pass.           *)
FairSimulationSpec ==
  /\ SimulationSpec
  /\ WF_simulationVars(TakeNext \/ StartPolling \/ EndPolling \/ Report)
  /\ \A i \in Numbers : WF_simulationVars(Receive(i) \/ RequestFails(i))
  /\ \A o \in Orders : WF_simulationVars(o \in Undecided /\ FinalFetch(o))
  /\ WF_simulationVars(Proceeds /\ CoordinatorStep /\ UNCHANGED simVars)

-----------------------------------------------------------------------------
(* Properties                                                              *)

(* A PASS proves what the README says it proves: every order is in its     *)
(* expected state, every event that was to be stored is settled, and the   *)
(* workers were killed and run again, although orders were polled one      *)
(* after the other while workers went on (simulator.js 305-506).           *)
PassMeansConverged ==
  phase = "passed" =>
    /\ \A o \in Expected :
         /\ SameState(orders[o], ExpectedState(plan, o))
         /\ \A e \in ExpectedEvents(plan, o) : events[e].status \in {"APPLIED", "IGNORED"}
    /\ KillAt # 0 => chaos.killedAt = KillAt /\ Alive = Workers

(* Stored as too old to be worked on.                                      *)
ServedTooLate(e) == events[e].status = "IGNORED" /\ events[e].reason = "STALE_TIMESTAMP"

(* A FAIL has a reason outside the logic of service and simulator: a       *)
(* request or a docker command that failed, a delivery count that was      *)
(* never reached, the deadline, a dead letter, or an event of the run that *)
(* was served more than five minutes after it was generated.  No order of  *)
(* deliveries, redelivery or kill makes the counts or the states disagree  *)
(* (simulator.js 305-506, webhook-ingestion.repository.ts 45-69,           *)
(* webhook-ingestion.service.ts 30-62).                                    *)
FailureHasReason ==
  phase = "failed" =>
    \/ late
    \/ Count("ERROR") > 0
    \/ KillAt # 0 /\ chaos.pc \in {"armed", "broken"}
    \/ \E e \in EventIds : events[e].status = "DLQ"
    \/ \E i \in 1..Total : plan[i].kind = "base" /\ ServedTooLate(plan[i].body.event)

(* The run ends, whatever the service does and whichever docker commands   *)
(* fail, as long as each of them returns; only a response that broke off   *)
(* after its headers is waited for without limit (simulator.js 84-148,     *)
(* 295-303 and 333-363, docker-chaos.js 102-112).                          *)
SimulationEnds == <>(phase \in {"passed", "failed", "stuck"} \/ BrokenOff # {})
=============================================================================
