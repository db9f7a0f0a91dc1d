----------------------------- MODULE WorkerLoop -----------------------------
(***************************************************************************)
(* The worker process around the transactions of Worker: the polling loop  *)
(* of src/src/worker/worker-loop.service.ts and the shutdown of the        *)
(* process, in which the loop's hook and the connection pool's hook        *)
(* (src/src/database/database.module.ts) run one after the other while the *)
(* loop goes on.  The framework decides which of the two comes first.      *)
(*                                                                         *)
(*   ticking --transaction--> found | empty | broken --Settle--> ticking,  *)
(*   timer or stopped;    timer --PollTimerFires--> ticking or stopped         *)
(*                                                                         *)
(* A process is one JavaScript thread: what a callback does up to its next *)
(* await is one step.                                                      *)
(***************************************************************************)
EXTENDS PaymentService

(* Of each worker process:                                                 *)
(*   run                 ticking: processOne has a client of the pool;     *)
(*                       found, empty, broken: the tick is settled and its *)
(*                       callback is due; timer: setTimeout(runLoop);      *)
(*                       stopped: nobody will call runLoop again           *)
(*   shutdownRequested   the flag of that name                             *)
(*   ending              pool.end() has been called                        *)
(*   hook, awaited       the shutdown hook in progress, and whether the    *)
(*                       promise that it awaits is not settled             *)
(*   done                the hooks that have returned                      *)
VARIABLE loop

NoHooks == {}

(* The shutdown hooks of the process, enabled by main.ts.                  *)
Hooks == {"loop", "pool"}

ASSUME HooksAssumption == Null \notin Hooks

(* onApplicationBootstrap calls runLoop before any signal is handled.      *)
Started ==
  [run |-> "ticking", shutdownRequested |-> FALSE, ending |-> FALSE,
   hook |-> Null, awaited |-> FALSE, done |-> {}]

loopVars == <<vars, loop>>

LoopInit == Init /\ loop = [w \in Workers |-> Started]

Up(w) == worker[w].pc # "down"

SetRun(w, run) == loop' = [loop EXCEPT ![w].run = run]

-----------------------------------------------------------------------------
(* tick: one call of processOne                                            *)

(* The claim, and every later step but the last, leaves the tick running.  *)
Work(w) ==
  /\ loop[w].run = "ticking"
  /\ Claim(w) \/ LockOrder(w) \/ BusinessError(w)
  /\ UNCHANGED loop

(* The transaction commits: { found: true }.                               *)
TickFinds(w) ==
  /\ loop[w].run = "ticking"
  /\ CommitResult(w) \/ ScheduleRetry(w) \/ SendToDlq(w)
  /\ SetRun(w, "found")

(* The claiming SELECT returns no row: { found: false }.                   *)
TickFindsNothing(w) ==
  /\ loop[w].run = "ticking"
  /\ worker[w].pc = "idle"
  /\ \A e \in EventIds : ~(Claimable(e) /\ Unlocked(e))
  /\ SetRun(w, "empty")
  /\ UNCHANGED <<tables, rowLocks, worker>>

TickWithoutRollback(w) ==
  /\ loop[w].run = "ticking"
  /\ InTransaction(w)
  /\ worker' = [worker EXCEPT ![w] = Idle]
  /\ SetRun(w, "broken")
  /\ UNCHANGED <<tables, rowLocks>>

(* processOne throws: before it has a transaction, in one that PostgreSQL  *)
(* rolls back, or when the reply to a COMMIT that took effect is lost.     *)
TickThrows(w) ==
  /\ loop[w].run = "ticking"
  /\ \/ worker[w].pc = "idle" /\ UNCHANGED <<tables, rowLocks, worker>>
     \/ AbortTransaction(w)
     \/ CommitResult(w) \/ ScheduleRetry(w) \/ SendToDlq(w)
  /\ SetRun(w, "broken")

-----------------------------------------------------------------------------
(* runLoop and its callbacks                                               *)

(* What runLoop starts.  A pool that is being closed refuses to connect.   *)
RunLoop(w) ==
  IF loop[w].shutdownRequested THEN "stopped"
  ELSE IF loop[w].ending THEN "broken" ELSE "ticking"

GiveUpOnError(w) ==
  CASE loop[w].run = "found"                             -> RunLoop(w)
    [] loop[w].run = "broken" \/ loop[w].shutdownRequested -> "stopped"
    [] OTHER                                             -> "timer"

AfterTick(w) ==
  CASE loop[w].run = "found"     -> RunLoop(w)
    [] loop[w].shutdownRequested -> "stopped"
    [] OTHER                     -> "timer"

(* The then or catch callback, after which the promise itself is settled.  *)
Settle(w) ==
  /\ Up(w)
  /\ loop[w].run \in {"found", "empty", "broken"}
  /\ loop' = [loop EXCEPT ![w].run = AfterTick(w), ![w].awaited = FALSE]
  /\ UNCHANGED <<tables, rowLocks, worker>>

PollTimerFires(w) ==
  /\ Up(w)
  /\ loop[w].run = "timer"
  /\ SetRun(w, RunLoop(w))
  /\ UNCHANGED <<tables, rowLocks, worker>>

-----------------------------------------------------------------------------
(* Shutdown                                                                *)

AwaitNothing(w) == FALSE

(* if (this.activePromise) await this.activePromise                        *)
ActivePromise(w) == loop[w].run \in {"ticking", "found", "empty", "broken"}

(* SIGTERM, and each following hook: the flag is set, then awaited.        *)
LoopHook(w) ==
  /\ Up(w) /\ loop[w].hook = Null /\ "loop" \notin loop[w].done
  /\ loop' = [loop EXCEPT ![w].hook = "loop", ![w].shutdownRequested = TRUE,
                          ![w].awaited = ActivePromise(w)]
  /\ UNCHANGED <<tables, rowLocks, worker>>

PoolHook(w) ==
  /\ Up(w) /\ loop[w].hook = Null /\ "pool" \notin loop[w].done
  /\ loop' = [loop EXCEPT ![w].hook = "pool", ![w].ending = TRUE]
  /\ UNCHANGED <<tables, rowLocks, worker>>

(* pool.end() waits for the clients that are out.                          *)
ClosesAtOnce(w) == TRUE

ClientsReturned(w) == loop[w].run # "ticking"

HookReturns(w) ==
  /\ Up(w)
  /\ \/ loop[w].hook = "loop" /\ ~loop[w].awaited
     \/ loop[w].hook = "pool" /\ ClientsReturned(w)
  /\ loop' = [loop EXCEPT ![w].hook = Null,
                          ![w].done = @ \union {loop[w].hook}]
  /\ UNCHANGED <<tables, rowLocks, worker>>

(* The memory of a process goes with it; a new one begins like the first.  *)
ForgetLoop(w) == loop' = [loop EXCEPT ![w] = Started]

(* All hooks have returned: the process ends, whatever it still has open.  *)
Exit(w) ==
  /\ Up(w) /\ loop[w].done = Hooks
  /\ Crash(w)
  /\ ForgetLoop(w)

(* SIGKILL, and a new process.                                             *)
Kill(w) == Crash(w) /\ ForgetLoop(w)

StartProcess(w) == Restart(w) /\ UNCHANGED loop

LoopNext(w) ==
  \/ Work(w)
  \/ TickFinds(w)
  \/ TickFindsNothing(w)
  \/ TickThrows(w)
  \/ Settle(w)
  \/ PollTimerFires(w)
  \/ LoopHook(w)
  \/ PoolHook(w)
  \/ HookReturns(w)
  \/ Exit(w)
  \/ Kill(w)
  \/ StartProcess(w)

(* The API goes on beside the worker processes, and so does time.          *)
ProcessesNext ==
  \/ \E w \in Workers : LoopNext(w) /\ UNCHANGED <<replay, reconVars>>
  \/ /\ \/ IngestStep \/ ClockStep
        \/ \E r \in Replayers : ReplayStep(r)
        \/ \E r \in Reconcilers : ReconStep(r)
     /\ UNCHANGED loop

ProcessesSpec == LoopInit /\ [][ProcessesNext]_loopVars

-----------------------------------------------------------------------------
(* The event loop of a process goes on, its transactions end, row locks    *)
(* are granted in turn, and requests in progress end.  Nothing is assumed  *)
(* of signals, kills, failures, deliveries or restarts.                    *)
Alone(A) == A /\ UNCHANGED <<replay, reconVars>>

FairProcessesSpec ==
  /\ ProcessesSpec
  /\ \A w \in Workers :
       /\ WF_loopVars(Alone(Settle(w) \/ PollTimerFires(w)))
       /\ WF_loopVars(Alone(TickFinds(w)))
       /\ WF_loopVars(Alone((Claim(w) /\ Work(w)) \/ TickFindsNothing(w)))
       /\ SF_loopVars(Alone(LockOrder(w) /\ Work(w)))
       /\ WF_loopVars(Alone(HookReturns(w) \/ Exit(w)))
       /\ WF_loopVars(Alone(loop[w].done # {} /\ (LoopHook(w) \/ PoolHook(w))))
  /\ RequestFairness

-----------------------------------------------------------------------------
(* Properties                                                              *)

(* Processes that begin, poll, shut down, are killed and start again do to *)
(* the database what PaymentService says of its workers, and nothing else  *)
(* (worker-loop.service.ts 27-84, database.module.ts 46-50).               *)
LoopsAreTheWorkers == Spec

(* Once the loop's hook has returned ("Worker stopped"), the process has   *)
(* no open transaction and begins no other, whichever callbacks, timers    *)
(* and hooks were still to come (worker-loop.service.ts 34-41).            *)
StoppedIsQuiet ==
  \A w \in Workers :
    Up(w) /\ "loop" \in loop[w].done => loop[w].run \in {"timer", "stopped"}

(* The pool is closed under nobody's hands: its hook returns only between  *)
(* transactions and none begins afterwards (database.module.ts 46-50).     *)
ClosedPoolIsIdle ==
  \A w \in Workers :
    Up(w) /\ "pool" \in loop[w].done =>
      worker[w].pc = "idle" /\ loop[w].run # "ticking"

(* A process that shuts down gracefully holds no row when it ends, so no   *)
(* attempt is thrown away and no other worker has to wait for PostgreSQL   *)
(* to notice (worker-loop.service.ts 34-41 and database.module.ts 46-50).  *)
GracefulExit ==
  [][\A w \in Workers : Exit(w) =>
       /\ worker[w].pc = "idle"
       /\ \A e \in EventIds : eventLock[e] # w
       /\ \A o \in Orders : orderLock[o] # w]_loopVars

(* No error and no empty poll ends the loop: a process that is up and not  *)
(* told to stop polls again and again (worker-loop.service.ts 43-67).      *)
LoopLives ==
  \A w \in Workers :
    []<>(loop[w].run = "ticking" \/ loop[w].hook # Null \/ loop[w].done # {}
         \/ ~Up(w))

(* A shutdown ends, though it waits for a transaction that may wait for    *)
(* the order of another worker (worker-loop.service.ts 37-39).             *)
ShutdownEnds == \A w \in Workers : loop[w].hook # Null ~> ~Up(w)
=============================================================================
