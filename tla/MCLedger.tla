------------------------------ MODULE MCLedger ------------------------------
(***************************************************************************)
(* All components at once against the abstract ledger, and their progress  *)
(* if one of two workers is started again after every crash.               *)
(***************************************************************************)
EXTENDS LedgerRefinement, TLC

CONSTANTS e1, e2, o1, o2, ten, six, w1, w2, r1, c1

MCBodies ==
  {[event |-> e1, order |-> o1, type |-> "payment.captured",   seq |-> 2, amount |-> Null],
   [event |-> e2, order |-> o1, type |-> "payment.authorized", seq |-> 1, amount |-> ten],
   [event |-> e2, order |-> o1, type |-> "payment.failed",     seq |-> 2, amount |-> ten]}

MCSnapshots ==
  {[list  |-> <<o2, o1>>,
    state |-> [o \in {o1, o2} |->
                 [status |-> "authorized", seq |-> 1, amount |-> six]]]}
=============================================================================
