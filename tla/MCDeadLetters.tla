--------------------------- MODULE MCDeadLetters ---------------------------
(***************************************************************************)
(* Dead letters: two replay requests race with each other and with two     *)
(* workers that fail, crash and retry, while a client walks through the    *)
(* list page by page and the metrics are counted.                          *)
(***************************************************************************)
EXTENDS Invariants, Metrics, DlqListing

CONSTANTS e1, e2, o1, ten, w1, w2, r1, r2, q1

MCBodies ==
  {[event |-> e1, order |-> o1, type |-> "payment.captured",   seq |-> 2, amount |-> ten],
   [event |-> e2, order |-> o1, type |-> "payment.authorized", seq |-> 1, amount |-> Null]}

MCLimits == {1, 3}

MCSymmetry == Permutations({w1, w2}) \union Permutations({r1, r2})
=============================================================================
