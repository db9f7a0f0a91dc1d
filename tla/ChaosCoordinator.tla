-------------------------- MODULE ChaosCoordinator --------------------------
(***************************************************************************)
(* The coordinator of the sudden death test,                               *)
(* provider-simulator/docker-chaos.js: at one delivery it kills all worker *)
(* containers, makes sure that they are dead, waits, starts as many again  *)
(* and waits until they run, while the burst of deliveries goes on.  Every *)
(* docker command may fail.                                                *)
(***************************************************************************)
EXTENDS Worker

CONSTANT KillAt    \* --kill-at; 0 if the run is without sudden death

ASSUME ChaosAssumption == KillAt \in Nat

VARIABLE chaos

ChaosState ==
  [pc : {"armed",                                  \* not triggered
         "kill", "count", "delay", "up", "upAgain", "wait",
         "done",                                   \* the result is set
         "broken"},                                \* executeKill has thrown
   killedAt : Nat]

ChaosInit == chaos = [pc |-> "armed", killedAt |-> 0]

Goto(from, to) == chaos.pc = from /\ chaos' = [chaos EXCEPT !.pc = to]

Alive == {w \in Workers : worker[w].pc # "down"}

(* onDeliveryComplete, in the turn that counted delivery number n.         *)
AfterDelivery(n) ==
  IF chaos.pc = "armed" /\ n = KillAt THEN [pc |-> "kill", killedAt |-> n] ELSE chaos

-----------------------------------------------------------------------------
(* The containers                                                          *)

ContainerDies(w) ==
  /\ chaos.pc = "kill"
  /\ Crash(w)
  /\ UNCHANGED chaos

ContainerStarts(w) ==
  /\ chaos.pc \in {"up", "upAgain", "wait"}
  /\ Restart(w)
  /\ UNCHANGED chaos

-----------------------------------------------------------------------------
(* executeKill                                                             *)

KillReturns == Goto("kill", "count")

(* docker compose ps after the kill.                                       *)
CountAfterKill ==
  \/ Alive = {} /\ Goto("count", "delay")
  \/ Alive # {} /\ Goto("count", "broken")

DelayPasses == Goto("delay", "up")

UpReturns == Goto("up", "wait") \/ Goto("upAgain", "wait")

(* The first failure of docker compose up is tried again.                  *)
UpFails == Goto("up", "upAgain") \/ Goto("upAgain", "broken")

NeverGivesUp == Alive = Workers /\ Goto("wait", "done")

(* Polling docker compose ps for 30 seconds.                               *)
WaitEnds ==
  \/ Alive = Workers /\ Goto("wait", "done")
  \/ Alive # Workers /\ Goto("wait", "broken")

(* docker compose kill or ps throws.                                       *)
CommandFails == Goto("kill", "broken") \/ Goto("count", "broken") \/ Goto("wait", "broken")

(* Every command returns or fails; the wait ends with its deadline.        *)
Proceeds ==
  \/ KillReturns
  \/ CountAfterKill
  \/ DelayPasses
  \/ UpReturns
  \/ UpFails
  \/ WaitEnds

CoordinatorStep ==
  /\ Proceeds \/ CommandFails
  /\ UNCHANGED <<tables, rowLocks, worker>>

ChaosNext ==
  \/ \E w \in Workers : ContainerDies(w) \/ ContainerStarts(w)
  \/ CoordinatorStep

(* waitForCompletion has nothing (more) to wait for.                       *)
CycleOver == chaos.pc \in {"armed", "done", "broken"}
=============================================================================
