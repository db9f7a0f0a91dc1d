------------------------------ MODULE MCScripts ------------------------------
(***************************************************************************)
(* The five verification scripts against the running service: four of      *)
(* them with two workers, one with the workers stopped.                    *)
(***************************************************************************)
EXTENDS VerificationScripts

CONSTANTS w1, w2

MCEvents == {b.event : b \in ScriptBodies} \union UnsentEvents

MCOrders ==
  {b.order : b \in ScriptBodies} \union UnsentOrders
  \union {"missing", "divergent", "identical", "stale", "concurrent"}

MCAmounts ==
  {"50.00", "100.00", "150.00", "200.00", "300.00", "500.00", "999.00", "1.00",
   "1000.00", "99999999999999.99"}

MCSnapshots == {FourOrders, ConcurrentOrder}

MCSymmetry == Permutations({w1, w2})
=============================================================================
