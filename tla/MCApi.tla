------------------------------- MODULE MCApi -------------------------------
(***************************************************************************)
(* Two webhook requests, a replay request and a reconciliation share the   *)
(* one client of a pool, while a worker processes one event and the        *)
(* provider's file is read in all its forms.  The event is also sent with  *)
(* a sequence that does not fit its column.                                *)
(***************************************************************************)
EXTENDS ApiProcess

CONSTANTS e1, o1, ten, w1, r1, c1, d1, d2

Row(o, seq, amount) == [id |-> o, status |-> "captured", seq |-> seq, amount |-> amount]

Sent(seq) ==
  [event |-> e1, order |-> o1, type |-> "payment.captured", seq |-> seq, amount |-> ten]

MCWideBodies == {Sent(3)}

MCBodies == {Sent(1)} \union MCWideBodies

MCGood == {<<Row(o1, 2, ten)>>}

MCFiles ==
  MCGood \union
  {NoFile, CorruptFile, NoArray,
   <<Row(o1, 2, ten), Row(o1, 1, ten)>>,   \* an order twice
   <<Row(o1, 3, ten)>>,                    \* too large a sequence
   <<Row(o1, 2, Null)>>}                   \* no amount

MCSnapshots == {SnapshotOf(rows) : rows \in MCGood \union {<< >>}}
=============================================================================
