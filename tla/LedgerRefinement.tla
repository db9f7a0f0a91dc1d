-------------------------- MODULE LedgerRefinement --------------------------
(***************************************************************************)
(* The service implements the ledger.  The tables orders and history are   *)
(* the ledger's own; of an inbox row the ledger knows the body and whether *)
(* the event still waits, but not attempts, times, deliveries or locks.    *)
(* Every transaction of the service is one step of the ledger, taken when  *)
(* it commits, and every other step leaves the ledger alone.               *)
(***************************************************************************)
EXTENDS Invariants

LedgerState(status) == IF status \in Waiting THEN "WAITING" ELSE status

Inbox ==
  [e \in EventIds |->
     [body |-> events[e].body, state |-> LedgerState(events[e].status)]]

L == INSTANCE Ledger WITH inbox <- Inbox

(* The detailed service is an implementation of the abstract ledger: every *)
(* commit of a worker, a replay, a reconciliation or an ingestion is one   *)
(* atomic step of it, decided on the state at that moment.                 *)
ImplementsLedger == L!Spec
=============================================================================
