------------------------------- MODULE MCLoop -------------------------------
(* Two worker processes and two events of one order, with shutdowns, kills *)
(* and restarts.                                                           *)
EXTENDS WorkerLoop, TLC

CONSTANTS e1, e2, o1, ten, w1, w2

MCBodies ==
  {[event |-> e1, order |-> o1, type |-> "payment.authorized", seq |-> 1, amount |-> ten],
   [event |-> e2, order |-> o1, type |-> "payment.captured", seq |-> 2, amount |-> ten]}
=============================================================================
