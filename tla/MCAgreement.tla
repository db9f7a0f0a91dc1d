---------------------------- MODULE MCAgreement ----------------------------
(***************************************************************************)
(* Two events of one order, of which only the older carries an amount, and *)
(* two workers.                                                            *)
(***************************************************************************)
EXTENDS Invariants, TLC

CONSTANTS e1, e2, o1, ten, w1, w2

MCBodies ==
  {[event |-> e1, order |-> o1, type |-> "payment.authorized", seq |-> 1, amount |-> ten],
   [event |-> e2, order |-> o1, type |-> "payment.captured",   seq |-> 2, amount |-> Null]}
=============================================================================
