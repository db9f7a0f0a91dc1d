----------------------------- MODULE MCWorkers -----------------------------
(***************************************************************************)
(* Ingestion and two workers: redelivery, conflicting bodies, disorder,    *)
(* retries, dead letters, crashes.  No replay, no reconciliation.          *)
(***************************************************************************)
EXTENDS Invariants, TLC

CONSTANTS e1, e2, e3, o1, o2, ten, w1, w2

MCBodies ==
  {[event |-> e1, order |-> o1, type |-> "payment.authorized", seq |-> 1, amount |-> ten],
   [event |-> e1, order |-> o2, type |-> "payment.failed",     seq |-> 2, amount |-> Null],
   [event |-> e2, order |-> o1, type |-> "payment.captured",   seq |-> 2, amount |-> Null],
   [event |-> e2, order |-> o1, type |-> "payment.disputed",   seq |-> 3, amount |-> Null],
   [event |-> e3, order |-> o1, type |-> "payment.pending",    seq |-> 0, amount |-> ten]}

MCSymmetry == Permutations({w1, w2})
=============================================================================
