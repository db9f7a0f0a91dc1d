---------------------------- MODULE MCReconcile ----------------------------
(***************************************************************************)
(* Two reconciliations, whose snapshots list the orders in opposite        *)
(* directions and disagree, run while a worker applies an event to either  *)
(* order and a client queries one of them.                                 *)
(* MCChronology.cfg: one reconciliation and two workers on one order.      *)
(***************************************************************************)
EXTENDS Invariants, OrderQueries

CONSTANTS e1, e2, o1, o2, ten, six, w1, w2, c1, c2, q1

MCBodies ==
  {[event |-> e1, order |-> o1, type |-> "payment.captured",   seq |-> 2, amount |-> ten],
   [event |-> e1, order |-> o2, type |-> "payment.authorized", seq |-> 1, amount |-> Null]}

MCOneOrderBodies ==
  {[event |-> e1, order |-> o1, type |-> "payment.authorized", seq |-> 1, amount |-> ten],
   [event |-> e2, order |-> o1, type |-> "payment.captured",   seq |-> 3, amount |-> ten]}

Reported(status, seq, amount) == [status |-> status, seq |-> seq, amount |-> amount]

(* The first: the provider has not seen e1 yet.  The second: it has, has   *)
(* corrected the amount of o2 at the same sequence, and lists the orders   *)
(* the other way.                                                          *)
MCSnapshots ==
  {[list  |-> <<o1, o2>>,
    state |-> [o \in {o1, o2} |-> IF o = o1 THEN Reported("authorized", 1, six)
                                            ELSE Reported("authorized", 1, six)]],
   [list  |-> <<o2, o1>>,
    state |-> [o \in {o1, o2} |-> IF o = o1 THEN Reported("captured", 2, ten)
                                            ELSE Reported("authorized", 1, ten)]]}

MCOneOrderSnapshots ==
  {[list |-> <<o1>>, state |-> [o \in {o1, o2} |-> Reported("failed", 2, ten)]]}

MCSymmetry == Permutations({c1, c2})
=============================================================================
