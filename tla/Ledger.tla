------------------------------- MODULE Ledger -------------------------------
(***************************************************************************)
(* What the payment webhook service promises, with every transaction taken *)
(* as one step: an accepted event is decided once, against the order as it *)
(* is at that moment; the newest sequence wins; every change of an order   *)
(* leaves one row in its history; a reconciliation repairs a set of orders *)
(* at once and never takes an order back to an older sequence.             *)
(*                                                                         *)
(* There are no locks, claims, retries or clocks here: that the service    *)
(* keeps the promise with them is what module PaymentService is for.       *)
(***************************************************************************)
EXTENDS Integers, Sequences, PaymentEventProcessor

CONSTANTS EventIds, Orders, Bodies, Snapshots

VARIABLES
  inbox,      \* per event_id: the accepted body and what became of it
  orders,     \* the state of each order
  history     \* the audit trail of each order

ledger == <<inbox, orders, history>>

Init ==
  /\ inbox = [e \in EventIds |-> [body |-> Null, state |-> "ABSENT"]]
  /\ orders = [o \in Orders |->
       [exists |-> FALSE, status |-> "pending", seq |-> 0, amount |-> Null]]
  /\ history = [o \in Orders |-> << >>]

Become(e, from, to) ==
  /\ inbox[e].state = from
  /\ inbox' = [inbox EXCEPT ![e] = [body |-> inbox[e].body, state |-> to]]

(* The first body delivered under an event_id is the one that counts; a    *)
(* body that is too old on arrival is recorded but never processed.        *)
Accept(b) ==
  /\ inbox[b.event].state = "ABSENT"
  /\ \E state \in {"WAITING", "IGNORED"} :
       inbox' = [inbox EXCEPT ![b.event] = [body |-> b, state |-> state]]
  /\ UNCHANGED <<orders, history>>

Record(o, row) == history' = [history EXCEPT ![o] = Append(@, row)]

(* A newer sequence is applied: it decides the status, and the amount if   *)
(* it carries one.                                                         *)
Apply(e) ==
  LET b   == inbox[e].body
      old == orders[b.order]
      new == [exists |-> TRUE,
              status |-> EventTypeToStatus[b.type],
              seq    |-> b.seq,
              amount |-> IF b.amount # Null THEN b.amount ELSE old.amount]
  IN  /\ Become(e, "WAITING", "APPLIED")
      /\ b.seq > old.seq
      /\ orders' = [orders EXCEPT ![b.order] = new]
      /\ Record(b.order, [event |-> e, seq |-> b.seq, prev |-> old.status,
                          new |-> new.status, outcome |-> "APPLIED"])

(* Anything else is only recorded.                                         *)
Ignore(e) ==
  LET b   == inbox[e].body
      old == orders[b.order]
  IN  /\ Become(e, "WAITING", "IGNORED")
      /\ b.seq <= old.seq
      /\ orders' = [orders EXCEPT ![b.order].exists = TRUE]
      /\ Record(b.order, [event |-> e, seq |-> b.seq, prev |-> old.status,
                          new |-> old.status, outcome |-> "IGNORED"])

(* The service may give an event up, and an operator may bring it back.    *)
GiveUp(e) == Become(e, "WAITING", "DLQ") /\ UNCHANGED <<orders, history>>
Revive(e) == Become(e, "DLQ", "WAITING") /\ UNCHANGED <<orders, history>>

(* An order is repaired when the provider knows more, or knows otherwise   *)
(* at the same sequence.                                                   *)
Repairable(o, s) ==
  LET p == s.state[o]
  IN  /\ \E i \in DOMAIN s.list : s.list[i] = o
      /\ p.seq >= orders[o].seq
      /\ \/ p.seq # orders[o].seq
         \/ p.status # orders[o].status
         \/ p.amount # orders[o].amount

Reconcile(s) ==
  /\ orders' = [o \in Orders |->
       IF ~Repairable(o, s) THEN orders[o]
       ELSE [exists |-> TRUE, status |-> s.state[o].status,
             seq |-> s.state[o].seq, amount |-> s.state[o].amount]]
  /\ history' = [o \in Orders |->
       IF ~Repairable(o, s) THEN history[o]
       ELSE Append(history[o],
              [event |-> Null, seq |-> s.state[o].seq,
               prev  |-> IF orders[o].exists THEN orders[o].status ELSE Null,
               new   |-> s.state[o].status, outcome |-> "RECONCILED"])]
  /\ UNCHANGED inbox

Next ==
  \/ \E b \in Bodies : Accept(b)
  \/ \E e \in EventIds : Apply(e) \/ Ignore(e) \/ GiveUp(e) \/ Revive(e)
  \/ \E s \in Snapshots : Reconcile(s)

Spec == Init /\ [][Next]_ledger
=============================================================================
