----------------------------- MODULE Generator -----------------------------
(***************************************************************************)
(* The event generator of the simulator, provider-simulator/generator.js:  *)
(* base events along chains of order states, duplicates of them, and noise *)
(* with a wrong signature or an old timestamp; and what the orders must    *)
(* look like in the end.  Random choices are inputs.                       *)
(***************************************************************************)
EXTENDS Tables, SequencesExt

Chains ==
  {<<"pending", "authorized", "captured", "refunded">>,
   <<"pending", "failed">>,
   <<"pending", "authorized", "failed">>,
   <<"pending", "authorized", "captured">>,
   <<"pending", "authorized">>,
   <<"pending">>}

StatusToEventType ==
  [pending    |-> "payment.pending",
   authorized |-> "payment.authorized",
   captured   |-> "payment.captured",
   refunded   |-> "payment.refunded",
   failed     |-> "payment.failed"]

(* The first n events along the chains, one order per chain; their         *)
(* event_id is their number.                                               *)
BaseEvents(chains, n, amount) ==
  LET steps == FlattenSeq([o \in 1..Len(chains) |->
                 [i \in 1..Len(chains[o]) |-> <<o, i>>]])
  IN  [k \in 1..n |->
        LET o == steps[k][1]
            i == steps[k][2]
        IN  [event |-> k, order |-> o, type |-> StatusToEventType[chains[o][i]],
             seq |-> i, amount |-> amount]]

Delivery == [body : Body, kind : {"base", "duplicate", "invalid", "stale"}]

(* src \in DOMAIN base picks the event that is copied.                     *)
Duplicate(base, src) == [body |-> base[src], kind |-> "duplicate"]

Noise(base, src, id, kind) ==
  [body |-> [base[src] EXCEPT !.event = id], kind |-> kind]

(* allEvents: dups, invalids and stales list the base events copied.       *)
AllEvents(base, dups, invalids, stales) ==
  [k \in DOMAIN base |-> [body |-> base[k], kind |-> "base"]]
  \o [k \in DOMAIN dups |-> Duplicate(base, dups[k])]
  \o [k \in DOMAIN invalids |->
        Noise(base, invalids[k], Len(base) + k, "invalid")]
  \o [k \in DOMAIN stales |->
        Noise(base, stales[k], Len(base) + Len(invalids) + k, "stale")]

BodiesOfKinds(all, kinds) == {all[i].body : i \in {j \in DOMAIN all : all[j].kind \in kinds}}

ExpectedOrders(all) == {b.order : b \in BodiesOfKinds(all, {"base"})}

(* expectedStates: the base event of the order with the highest sequence.  *)
ExpectedState(all, o) ==
  LET last == CHOOSE b \in BodiesOfKinds(all, {"base"}) :
                /\ b.order = o
                /\ \A c \in BodiesOfKinds(all, {"base"}) : c.order = o => c.seq <= b.seq
  IN  [status |-> EventTypeToStatus[last.type], seq |-> last.seq, amount |-> last.amount]

(* expectedEventsByOrder: noise with a wrong signature is never stored.    *)
ExpectedEvents(all, o) ==
  {b.event : b \in {c \in BodiesOfKinds(all, {"base", "stale"}) : c.order = o}}
=============================================================================
