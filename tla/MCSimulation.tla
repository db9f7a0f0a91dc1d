---------------------------- MODULE MCSimulation ----------------------------
(***************************************************************************)
(* Runs of the simulator with two senders and one worker, which is killed: *)
(* one base event and two copies in the order of the plan, two base events *)
(* in any order, and one base event with a duplicate, a wrong signature or *)
(* an old timestamp beside it.                                             *)
(***************************************************************************)
EXTENDS Simulation

CONSTANTS ten, w1

Line(base, duplicates, invalid, stale, shuffle) ==
  [events |-> base, duplicates |-> duplicates, invalid |-> invalid,
   stale |-> stale, shuffle |-> shuffle]

MCOptions ==
  {Line(1, 2, 0, 0, FALSE), Line(2, 0, 0, 0, TRUE), Line(1, 1, 1, 0, FALSE),
   Line(1, 0, 1, 1, FALSE)}

MCBodies ==
  [event : EventIds, order : Orders, type : AllowedEventTypes,
   seq : {1, 2}, amount : Amounts]
=============================================================================
