-------------------------- MODULE SimulationProofs --------------------------
(***************************************************************************)
(* What a run of the simulator proves, for any number of events, senders   *)
(* and workers and any command line: a verdict once given stays true,      *)
(* because nothing that could still change the order is left.              *)
(*                                                                         *)
(* The reason is in the plan: whatever the service stores is a base event, *)
(* a copy of one, or an old event, and all of them are expected.  So the   *)
(* event of a transaction that is still open was not settled when its      *)
(* order was looked at.                                                    *)
(***************************************************************************)
EXTENDS Simulation, PaymentService, FunctionTheorems, FiniteSetTheorems, SequenceTheorems, TLAPS

-----------------------------------------------------------------------------
(* The plan                                                                *)

Kinds == {"base", "duplicate", "invalid", "stale"}

LEMMA BodyFacts ==
  ASSUME NEW b \in Bodies
  PROVE  b.event \in EventIds /\ b.order \in Orders
BY TablesAssumption DEF Body

Joins(S, m, s, n, t, st) ==
  /\ st \in [1 .. m + n -> S]
  /\ \A i \in 1..m : st[i] = s[i]
  /\ \A i \in 1..n : st[m + i] = t[i]

LEMMA TwoParts ==
  ASSUME NEW m \in Nat, NEW n \in Nat,
         NEW S, NEW s \in [1..m -> S], NEW t \in [1..n -> S]
  PROVE  Joins(S, m, s, n, t, s \o t)
<1>1. s \in Seq(S) /\ Len(s) = m /\ t \in Seq(S) /\ Len(t) = n
  OBVIOUS
<1>2. /\ s \o t \in Seq(S)
      /\ Len(s \o t) = m + n
      /\ \A i \in 1 .. m + n : (s \o t)[i] = IF i <= m THEN s[i] ELSE t[i - m]
  <2>1. \A i \in 1 .. Len(s) + Len(t) :
          (s \o t)[i] = IF i <= Len(s) THEN s[i] ELSE t[i - Len(s)]
    BY <1>1, ConcatProperties
  <2>2. s \o t \in Seq(S) /\ Len(s \o t) = Len(s) + Len(t)
    BY <1>1, ConcatProperties
  <2>3. QED BY <1>1, <2>1, <2>2
<1>3. s \o t \in [1 .. m + n -> S]
  <2>1. s \o t \in [1 .. Len(s \o t) -> S]
    BY <1>2, LenProperties
  <2>2. QED BY <1>2, <2>1
<1>4. ASSUME NEW i \in 1..m
      PROVE  (s \o t)[i] = s[i]
  BY <1>2
<1>5. ASSUME NEW i \in 1..n
      PROVE  (s \o t)[m + i] = t[i]
  <2>1. m + i \in 1 .. m + n /\ ~(m + i <= m) /\ m + i - m = i
    OBVIOUS
  <2>2. QED BY <1>2, <2>1
<1>6. QED BY <1>3, <1>4, <1>5 DEF Joins

(* The four parts of a plan, one after the other.                          *)
Parted(all, a, s, b, t, c, u, d, v) ==
  /\ DOMAIN all = 1 .. a + b + c + d
  /\ \A i \in 1..a : all[i] = s[i]
  /\ \A i \in 1..b : all[a + i] = t[i]
  /\ \A i \in 1..c : all[a + b + i] = u[i]
  /\ \A i \in 1..d : all[a + b + c + i] = v[i]

LEMMA FourParts ==
  ASSUME NEW a \in Nat, NEW b \in Nat, NEW c \in Nat, NEW d \in Nat,
         NEW S, NEW s \in [1..a -> S], NEW t \in [1..b -> S],
         NEW u \in [1..c -> S], NEW v \in [1..d -> S],
         NEW all, all = s \o t \o u \o v
  PROVE  Parted(all, a, s, b, t, c, u, d, v)
<1> DEFINE st == s \o t
           stu == st \o u
<1>1. Joins(S, a, s, b, t, st)
  BY TwoParts
<1>2. all = stu \o v
  OBVIOUS
<1> HIDE DEF st
<1>3. Joins(S, a + b, st, c, u, stu)
  <2>1. a + b \in Nat /\ st \in [1 .. a + b -> S]
    BY <1>1 DEF Joins
  <2>2. QED BY <2>1, TwoParts
<1> HIDE DEF stu
<1>4. Joins(S, a + b + c, stu, d, v, all)
  <2>1. a + b + c \in Nat /\ stu \in [1 .. a + b + c -> S]
    BY <1>3 DEF Joins
  <2>2. QED BY <1>2, <2>1, TwoParts
<1>5. \A i \in 1..a : all[i] = s[i]
  <2>1. ASSUME NEW i \in 1..a
        PROVE  i \in 1 .. a + b /\ i \in 1 .. a + b + c
    OBVIOUS
  <2>2. QED BY <1>1, <1>3, <1>4, <2>1 DEF Joins
<1>6. \A i \in 1..b : all[a + i] = t[i]
  <2>1. ASSUME NEW i \in 1..b
        PROVE  a + i \in 1 .. a + b /\ a + i \in 1 .. a + b + c
    OBVIOUS
  <2>2. QED BY <1>1, <1>3, <1>4, <2>1 DEF Joins
<1>7. \A i \in 1..c : all[a + b + i] = u[i]
  <2>1. ASSUME NEW i \in 1..c
        PROVE  a + b + i \in 1 .. a + b + c
    OBVIOUS
  <2>2. QED BY <1>3, <1>4, <2>1 DEF Joins
<1>8. QED BY <1>4, <1>5, <1>6, <1>7 DEF Joins, Parted

(* Copies and noise are made from base events, and only copies have the    *)
(* number of another delivery.                                             *)
WellMade(all, opt) ==
  /\ DOMAIN all = 1..Deliveries(opt)
  /\ \A i \in 1..opt.events : all[i].kind = "base" /\ all[i].body.event = i
  /\ \A i \in 1..opt.duplicates :
       /\ all[opt.events + i].kind = "duplicate"
       /\ \E j \in 1..opt.events : all[opt.events + i].body = all[j].body
  /\ \A i \in 1..opt.invalid : all[opt.events + opt.duplicates + i].kind = "invalid"
  /\ \A i \in 1..opt.stale :
       LET old == all[opt.events + opt.duplicates + opt.invalid + i]
       IN  /\ old.kind = "stale"
           /\ old.body.event = opt.events + opt.invalid + i
           /\ \E j \in 1..opt.events :
                old.body.order = all[j].body.order /\ old.body.seq = all[j].body.seq

LEMMA PlansAreMade ==
  ASSUME NEW opt \in Options, NEW all \in Plans(opt)
  PROVE  WellMade(all, opt)
<1>1. /\ opt.events \in Nat /\ opt.duplicates \in Nat
      /\ opt.invalid \in Nat /\ opt.stale \in Nat
  BY SimulationAssumption DEF Option
<1>2. PICK chains \in [1..opt.events -> Chains], amount \in Amounts,
           dups \in Sources(opt.duplicates, opt), invalids \in Sources(opt.invalid, opt),
           stales \in Sources(opt.stale, opt) :
        all = AllEvents(BaseEvents(chains, opt.events, amount), dups, invalids, stales)
  BY DEF Plans
<1> DEFINE base == BaseEvents(chains, opt.events, amount)
           s == [k \in 1..opt.events |-> [body |-> base[k], kind |-> "base"]]
           t == [k \in 1..opt.duplicates |-> Duplicate(base, dups[k])]
           u == [k \in 1..opt.invalid |-> Noise(base, invalids[k], opt.events + k, "invalid")]
           v == [k \in 1..opt.stale |->
                   Noise(base, stales[k], opt.events + opt.invalid + k, "stale")]
<1>3. /\ DOMAIN base = 1..opt.events
      /\ \A k \in 1..opt.events :
           /\ base[k].event = k
           /\ DOMAIN base[k] = {"event", "order", "type", "seq", "amount"}
  BY DEF BaseEvents
<1> HIDE DEF base
<1>4. /\ DOMAIN dups = 1..opt.duplicates /\ DOMAIN invalids = 1..opt.invalid
      /\ DOMAIN stales = 1..opt.stale
      /\ \A k \in 1..opt.duplicates : dups[k] \in 1..opt.events
      /\ \A k \in 1..opt.stale : stales[k] \in 1..opt.events
  BY DEF Sources
<1>5. all = s \o t \o u \o v
  <2>1. Len(base) = opt.events
    BY <1>1, <1>3
  <2>2. Len(invalids) = opt.invalid
    BY <1>1, <1>4
  <2>3. all = AllEvents(base, dups, invalids, stales)
    BY <1>2 DEF base
  <2>4. QED BY <1>3, <1>4, <2>1, <2>2, <2>3 DEF AllEvents
<1> DEFINE S == {s[k] : k \in 1..opt.events} \union {t[k] : k \in 1..opt.duplicates}
                \union {u[k] : k \in 1..opt.invalid} \union {v[k] : k \in 1..opt.stale}
<1>6. /\ s \in [1..opt.events -> S] /\ t \in [1..opt.duplicates -> S]
      /\ u \in [1..opt.invalid -> S] /\ v \in [1..opt.stale -> S]
  OBVIOUS
<1>7. /\ \A i \in 1..opt.events : s[i] = [body |-> base[i], kind |-> "base"]
      /\ \A i \in 1..opt.duplicates : t[i] = [body |-> base[dups[i]], kind |-> "duplicate"]
      /\ \A i \in 1..opt.invalid : u[i].kind = "invalid"
      /\ \A i \in 1..opt.stale :
           v[i] = [body |-> [base[stales[i]] EXCEPT !.event = opt.events + opt.invalid + i],
                   kind |-> "stale"]
  BY DEF Duplicate, Noise
<1> HIDE DEF s, t, u, v, S
<1> DEFINE a == opt.events
           b == opt.duplicates
           c == opt.invalid
           d == opt.stale
<1>8. Parted(all, a, s, b, t, c, u, d, v)
  BY <1>1, <1>5, <1>6, FourParts
<1>9. ASSUME NEW i \in 1..opt.events
      PROVE  all[i].kind = "base" /\ all[i].body = base[i]
  <2>1. all[i] = s[i]
    BY <1>8 DEF Parted
  <2>2. s[i] = [body |-> base[i], kind |-> "base"]
    BY <1>7
  <2>3. QED BY <2>1, <2>2
<1>10. ASSUME NEW i \in 1..opt.duplicates
       PROVE  /\ all[opt.events + i].kind = "duplicate"
              /\ \E j \in 1..opt.events : all[opt.events + i].body = all[j].body
  <2>1. all[opt.events + i] = t[i]
    BY <1>8 DEF Parted
  <2>2. dups[i] \in 1..opt.events /\ t[i] = [body |-> base[dups[i]], kind |-> "duplicate"]
    BY <1>4, <1>7
  <2>3. QED BY <1>9, <2>1, <2>2
<1>11. ASSUME NEW i \in 1..opt.stale,
              NEW old, old = all[opt.events + opt.duplicates + opt.invalid + i]
       PROVE  /\ old.kind = "stale"
              /\ old.body.event = opt.events + opt.invalid + i
              /\ \E j \in 1..opt.events :
                   old.body.order = all[j].body.order /\ old.body.seq = all[j].body.seq
  <2>1. stales[i] \in 1..opt.events
    BY <1>4
  <2>2. /\ old.kind = "stale"
        /\ old.body = [base[stales[i]] EXCEPT !.event = opt.events + opt.invalid + i]
    <3>1. old = v[i]
      BY <1>8, <1>11 DEF Parted
    <3>2. v[i] = [body |-> [base[stales[i]] EXCEPT !.event = opt.events + opt.invalid + i],
                  kind |-> "stale"]
      BY <1>7
    <3>3. QED BY <3>1, <3>2
  <2>3. /\ old.body.event = opt.events + opt.invalid + i
        /\ old.body.order = base[stales[i]].order /\ old.body.seq = base[stales[i]].seq
    BY <1>3, <2>1, <2>2
  <2>4. QED BY <1>9, <2>1, <2>2, <2>3
<1>12. \A i \in 1..opt.invalid : all[opt.events + opt.duplicates + i].kind = "invalid"
  BY <1>7, <1>8 DEF Parted
<1>13. DOMAIN all = 1..Deliveries(opt)
  BY <1>8 DEF Deliveries, Parted
<1>14. \A i \in 1..opt.events : all[i].kind = "base" /\ all[i].body.event = i
  BY <1>3, <1>9
<1>15. QED BY <1>10, <1>11, <1>12, <1>13, <1>14 DEF WellMade

(* What is true of a plan in whatever order it is sent.                    *)
Sound(p, opt) ==
  LET places == 1..Deliveries(opt)
  IN  /\ DOMAIN p = places
      /\ \A i \in places : p[i].body \in Bodies /\ p[i].kind \in Kinds
      /\ \A i \in places :
           p[i].kind = "base" => p[i].body.event \in 1..opt.events
      /\ \A e \in 1..opt.events : \E i \in places :
           p[i].kind = "base" /\ p[i].body.event = e
      /\ \A i \in places :
           p[i].kind = "duplicate" =>
             \E j \in places : p[j].kind = "base" /\ p[j].body = p[i].body
      /\ \A i \in places :
           p[i].kind = "stale" =>
             \E j \in places : /\ p[j].kind = "base" /\ p[j].body.order = p[i].body.order
                               /\ p[j].body.seq = p[i].body.seq
      /\ \A i, j \in places :
           /\ p[i].kind # "invalid" /\ p[j].kind # "invalid"
           /\ p[i].body.event = p[j].body.event
           => p[i].body = p[j].body /\ (p[i].kind = "stale" => i = j)

(* The places of one kind.                                                 *)
Places(p, opt, kind) == {i \in 1..Deliveries(opt) : p[i].kind = kind}

LEMMA KindsOfPlaces ==
  ASSUME NEW opt \in Options, NEW all, WellMade(all, opt), NEW k \in 1..Deliveries(opt)
  PROVE  \/ k \in 1..opt.events /\ all[k].kind = "base"
         \/ /\ k \in (opt.events + 1) .. (opt.events + opt.duplicates)
            /\ all[k].kind = "duplicate"
         \/ /\ k \in (opt.events + opt.duplicates + 1) ..
                       (opt.events + opt.duplicates + opt.invalid)
            /\ all[k].kind = "invalid"
         \/ /\ k \in (opt.events + opt.duplicates + opt.invalid + 1) .. Deliveries(opt)
            /\ all[k].kind = "stale"
<1>1. /\ opt.events \in Nat /\ opt.duplicates \in Nat
      /\ opt.invalid \in Nat /\ opt.stale \in Nat
  BY SimulationAssumption DEF Option
<1> DEFINE a == opt.events
           b == opt.events + opt.duplicates
           c == opt.events + opt.duplicates + opt.invalid
<1>2. CASE k \in 1 .. a
  BY <1>2 DEF WellMade
<1>3. CASE k \in (a + 1) .. b
  <2>1. k - a \in 1..opt.duplicates /\ a + (k - a) = k
    BY <1>1, <1>3
  <2>2. all[a + (k - a)].kind = "duplicate"
    BY <2>1 DEF WellMade
  <2>3. QED BY <1>3, <2>1, <2>2
<1>4. CASE k \in (b + 1) .. c
  <2>1. k - b \in 1..opt.invalid /\ b + (k - b) = k
    BY <1>1, <1>4
  <2>2. all[b + (k - b)].kind = "invalid"
    BY <2>1 DEF WellMade
  <2>3. QED BY <1>4, <2>1, <2>2
<1>5. CASE k \in (c + 1) .. Deliveries(opt)
  <2>1. k - c \in 1..opt.stale /\ c + (k - c) = k
    BY <1>1, <1>5 DEF Deliveries
  <2>2. all[c + (k - c)].kind = "stale"
    BY <2>1 DEF WellMade
  <2>3. QED BY <1>5, <2>1, <2>2
<1>6. QED BY <1>1, <1>2, <1>3, <1>4, <1>5 DEF Deliveries

LEMMA MadeIsSound ==
  ASSUME NEW opt \in Options, NEW all \in Plans(opt)
  PROVE  Sound(all, opt)
<1>0. WellMade(all, opt)
  BY PlansAreMade
<1>1. /\ opt.events \in Nat \ {0} /\ opt.duplicates \in Nat
      /\ opt.invalid \in Nat /\ opt.stale \in Nat
  BY SimulationAssumption DEF Option
<1>2. DOMAIN all = 1..Deliveries(opt)
  BY <1>0 DEF WellMade
<1> DEFINE Base(k) == k \in 1..opt.events /\ all[k].kind = "base" /\ all[k].body.event = k
<1>3. ASSUME NEW k \in 1..Deliveries(opt), all[k].kind = "base"
      PROVE  Base(k)
  <2>1. k \in 1..opt.events
    BY <1>0, <1>3, KindsOfPlaces
  <2>2. QED BY <1>0, <1>3, <2>1 DEF WellMade
<1>4. ASSUME NEW k \in 1..opt.events
      PROVE  k \in 1..Deliveries(opt) /\ Base(k)
  <2>1. k \in 1..Deliveries(opt)
    BY <1>1 DEF Deliveries
  <2>2. QED BY <1>0, <1>4, <2>1 DEF WellMade
<1> DEFINE Copy(k) == \E j \in 1..opt.events : all[j].body = all[k].body
<1>5. ASSUME NEW k \in 1..Deliveries(opt), all[k].kind = "duplicate"
      PROVE  Copy(k)
  <2>1. k \in (opt.events + 1) .. (opt.events + opt.duplicates)
    BY <1>0, <1>5, KindsOfPlaces
  <2>2. k - opt.events \in 1..opt.duplicates /\ opt.events + (k - opt.events) = k
    BY <1>1, <2>1
  <2>3. \E j \in 1..opt.events : all[opt.events + (k - opt.events)].body = all[j].body
    BY <1>0, <2>2 DEF WellMade
  <2>4. QED BY <2>2, <2>3
<1> DEFINE c == opt.events + opt.duplicates + opt.invalid
           Old(k) == /\ all[k].body.event = opt.events + opt.invalid + (k - c)
                     /\ k - c \in 1..opt.stale
                     /\ \E j \in 1..opt.events :
                          all[j].body.order = all[k].body.order /\ all[j].body.seq = all[k].body.seq
<1>6. ASSUME NEW k \in 1..Deliveries(opt), all[k].kind = "stale"
      PROVE  Old(k)
  <2>1. k \in (c + 1) .. Deliveries(opt)
    BY <1>0, <1>6, KindsOfPlaces
  <2>2. k - c \in 1..opt.stale /\ c + (k - c) = k
    BY <1>1, <2>1 DEF Deliveries
  <2>3. /\ all[c + (k - c)].body.event = opt.events + opt.invalid + (k - c)
        /\ \E j \in 1..opt.events :
             /\ all[c + (k - c)].body.order = all[j].body.order
             /\ all[c + (k - c)].body.seq = all[j].body.seq
    BY <1>0, <2>2 DEF WellMade
  <2>4. QED BY <2>2, <2>3
<1>7. ASSUME NEW k \in 1..Deliveries(opt)
      PROVE  all[k].body \in Bodies /\ all[k].kind \in Kinds
  <2>1. all[k].body \in Bodies
    BY <1>2, SimulationAssumption
  <2>2. all[k].kind \in Kinds
    BY <1>0, KindsOfPlaces DEF Kinds
  <2>3. QED BY <2>1, <2>2
<1>8. ASSUME NEW k \in 1..Deliveries(opt), all[k].kind \in {"base", "duplicate"}
      PROVE  \E j \in 1..opt.events : all[j].body = all[k].body /\ all[k].body.event = j
  <2>1. CASE all[k].kind = "base"
    BY <1>3, <2>1
  <2>2. CASE all[k].kind = "duplicate"
    BY <1>4, <1>5, <2>2
  <2>3. QED BY <1>8, <2>1, <2>2
<1>9. ASSUME NEW k \in 1..Deliveries(opt), NEW l \in 1..Deliveries(opt),
             all[k].kind # "invalid", all[l].kind # "invalid",
             all[k].body.event = all[l].body.event
      PROVE  all[k].body = all[l].body /\ (all[k].kind = "stale" => k = l)
  <2>0. /\ all[k].kind \in {"base", "duplicate"} \/ all[k].kind = "stale"
        /\ all[l].kind \in {"base", "duplicate"} \/ all[l].kind = "stale"
    BY <1>7, <1>9 DEF Kinds
  <2>1. CASE all[k].kind = "stale" /\ all[l].kind = "stale"
    <3>1. k = l
      <4>1. Old(k) /\ Old(l)
        BY <1>6, <2>1
      <4>2. opt.events + opt.invalid + (k - c) = opt.events + opt.invalid + (l - c)
        BY <1>9, <4>1
      <4>3. QED BY <1>1, <4>2
    <3>2. QED BY <3>1
  <2>2. ASSUME NEW x \in {k, l}, NEW y \in {k, l},
               all[x].kind = "stale", all[y].kind \in {"base", "duplicate"}
        PROVE  FALSE
    <3>1. all[x].body.event = opt.events + opt.invalid + (x - c) /\ x - c \in 1..opt.stale
      BY <1>6, <2>2
    <3>2. all[y].body.event \in 1..opt.events
      BY <1>8, <2>2
    <3>3. all[x].body.event = all[y].body.event
      BY <1>9
    <3> DEFINE n == x - c
    <3>4. n \in 1..opt.stale /\ all[x].body.event = opt.events + opt.invalid + n
      BY <3>1
    <3> HIDE DEF n
    <3>5. QED BY <1>1, <3>2, <3>3, <3>4
  <2>3. CASE all[k].kind \in {"base", "duplicate"} /\ all[l].kind \in {"base", "duplicate"}
    BY <1>8, <1>9, <2>3
  <2>4. QED BY <2>0, <2>1, <2>2, <2>3
<1>10. ASSUME NEW k \in 1..Deliveries(opt), all[k].kind = "duplicate"
       PROVE  \E j \in 1..Deliveries(opt) : all[j].kind = "base" /\ all[j].body = all[k].body
  BY <1>4, <1>5, <1>10
<1>11. ASSUME NEW k \in 1..Deliveries(opt), all[k].kind = "stale"
       PROVE  \E j \in 1..Deliveries(opt) :
                /\ all[j].kind = "base" /\ all[j].body.order = all[k].body.order
                /\ all[j].body.seq = all[k].body.seq
  BY <1>4, <1>6, <1>11
<1>12. \A e \in 1..opt.events : \E i \in 1..Deliveries(opt) :
         all[i].kind = "base" /\ all[i].body.event = e
  BY <1>4
<1>13. \A k \in 1..Deliveries(opt) :
         all[k].kind = "base" => all[k].body.event \in 1..opt.events
  BY <1>3
<1>14. QED
  BY <1>2, <1>7, <1>9, <1>10, <1>11, <1>12, <1>13 DEF Sound

LEMMA SendOrdersPermute ==
  ASSUME NEW opt \in Options, NEW order \in SendOrders(opt)
  PROVE  /\ order \in Bijection(1..Deliveries(opt), 1..Deliveries(opt))
         /\ order \in [1..Deliveries(opt) -> 1..Deliveries(opt)]
         /\ \A k \in 1..Deliveries(opt) : \E i \in 1..Deliveries(opt) : order[i] = k
         /\ \A i, j \in 1..Deliveries(opt) : order[i] = order[j] => i = j
<1> DEFINE places == 1..Deliveries(opt)
<1>1. order \in Bijection(places, places)
  <2>1. CASE opt.shuffle
    BY <2>1 DEF SendOrders
  <2>2. CASE ~opt.shuffle
    <3>1. order = [i \in places |-> i]
      BY <2>2 DEF SendOrders
    <3>2. order \in [places -> places]
      BY <3>1
    <3>3. order \in Injection(places, places)
      BY <3>1, <3>2, Fun_IsInj
    <3>4. order \in Surjection(places, places)
      BY <3>1, <3>2, Fun_IsSurj
    <3>5. QED BY <3>3, <3>4 DEF Bijection
  <2>3. QED BY <2>1, <2>2
<1> HIDE DEF places
<1>2. /\ order \in [places -> places]
      /\ order \in Surjection(places, places)
      /\ \A i, j \in places : order[i] = order[j] => i = j
  BY <1>1, Fun_BijectionProperties
<1>3. \A k \in places : \E i \in places : order[i] = k
  BY <1>2, Fun_SurjectionProperties
<1>4. QED BY <1>1, <1>2, <1>3 DEF places

LEMMA ShuffledIsSound ==
  ASSUME NEW opt \in Options, NEW all, Sound(all, opt), NEW order \in SendOrders(opt),
         NEW p, p = [i \in 1..Deliveries(opt) |-> all[order[i]]]
  PROVE  Sound(p, opt)
<1> DEFINE places == 1..Deliveries(opt)
<1>1. /\ order \in [places -> places]
      /\ \A k \in places : \E i \in places : order[i] = k
      /\ \A i, j \in places : order[i] = order[j] => i = j
  BY SendOrdersPermute
<1>2. \A i \in places : p[i] = all[order[i]] /\ order[i] \in places
  BY <1>1
<1>3. \A k \in places : \E i \in places : p[i] = all[k]
  BY <1>1, <1>2
<1>4. DOMAIN p = places
  OBVIOUS
<1> HIDE DEF places
<1>5. \A i \in places : p[i].body \in Bodies /\ p[i].kind \in Kinds
  BY <1>2 DEF Sound, places
<1>6. \A i \in places : p[i].kind = "base" => p[i].body.event \in 1..opt.events
  BY <1>2 DEF Sound, places
<1>7. ASSUME NEW e \in 1..opt.events
      PROVE  \E i \in places : p[i].kind = "base" /\ p[i].body.event = e
  <2>1. PICK k \in places : all[k].kind = "base" /\ all[k].body.event = e
    BY DEF Sound, places
  <2>2. QED BY <1>3, <2>1
<1>8. ASSUME NEW i \in places, p[i].kind = "duplicate"
      PROVE  \E j \in places : p[j].kind = "base" /\ p[j].body = p[i].body
  <2>1. PICK k \in places : all[k].kind = "base" /\ all[k].body = all[order[i]].body
    BY <1>2, <1>8 DEF Sound, places
  <2>2. QED BY <1>2, <1>3, <2>1
<1>9. ASSUME NEW i \in places, p[i].kind = "stale"
      PROVE  \E j \in places : /\ p[j].kind = "base" /\ p[j].body.order = p[i].body.order
                               /\ p[j].body.seq = p[i].body.seq
  <2>1. PICK k \in places : /\ all[k].kind = "base"
                            /\ all[k].body.order = all[order[i]].body.order
                            /\ all[k].body.seq = all[order[i]].body.seq
    BY <1>2, <1>9 DEF Sound, places
  <2>2. QED BY <1>2, <1>3, <2>1
<1>10. ASSUME NEW i \in places, NEW j \in places,
              p[i].kind # "invalid", p[j].kind # "invalid",
              p[i].body.event = p[j].body.event
       PROVE  p[i].body = p[j].body /\ (p[i].kind = "stale" => i = j)
  <2>1. /\ all[order[i]].body = all[order[j]].body
        /\ all[order[i]].kind = "stale" => order[i] = order[j]
    BY <1>2, <1>10 DEF Sound, places
  <2>2. QED BY <1>1, <1>2, <2>1
<1>11. QED
  BY <1>4, <1>5, <1>6, <1>7, <1>8, <1>9, <1>10 DEF Sound, places

(* How many deliveries there are of each kind.                             *)
Counted(p, opt) ==
  /\ Cardinality(Places(p, opt, "base")) = opt.events
  /\ Cardinality(Places(p, opt, "duplicate")) = opt.duplicates
  /\ Cardinality(Places(p, opt, "invalid")) = opt.invalid
  /\ Cardinality(Places(p, opt, "stale")) = opt.stale

LEMMA MadeIsCounted ==
  ASSUME NEW opt \in Options, NEW all, WellMade(all, opt)
  PROVE  Counted(all, opt)
<1>1. /\ opt.events \in Nat /\ opt.duplicates \in Nat
      /\ opt.invalid \in Nat /\ opt.stale \in Nat
      /\ Deliveries(opt) = opt.events + opt.duplicates + opt.invalid + opt.stale
  BY SimulationAssumption DEF Option, Deliveries
<1> DEFINE b == opt.events + opt.duplicates
           c == opt.events + opt.duplicates + opt.invalid
<1>2. /\ 1 .. opt.events \subseteq 1..Deliveries(opt)
      /\ (opt.events + 1) .. b \subseteq 1..Deliveries(opt)
      /\ (b + 1) .. c \subseteq 1..Deliveries(opt)
      /\ (c + 1) .. Deliveries(opt) \subseteq 1..Deliveries(opt)
  BY <1>1
<1>3. /\ \A k \in 1 .. opt.events : k \notin (opt.events + 1) .. b
      /\ \A k \in 1 .. b : k \notin (b + 1) .. c
      /\ \A k \in 1 .. c : k \notin (c + 1) .. Deliveries(opt)
      /\ 1 .. opt.events \subseteq 1 .. b /\ (opt.events + 1) .. b \subseteq 1 .. b
      /\ 1 .. b \subseteq 1 .. c /\ (b + 1) .. c \subseteq 1 .. c
  BY <1>1
<1>4. \A k \in 1..Deliveries(opt) :
        \/ k \in 1..opt.events /\ all[k].kind = "base"
        \/ k \in (opt.events + 1) .. b /\ all[k].kind = "duplicate"
        \/ k \in (b + 1) .. c /\ all[k].kind = "invalid"
        \/ k \in (c + 1) .. Deliveries(opt) /\ all[k].kind = "stale"
  BY KindsOfPlaces
<1> HIDE DEF b, c
<1>5. Places(all, opt, "base") = 1 .. opt.events
  BY <1>2, <1>3, <1>4 DEF Places
<1>6. Places(all, opt, "duplicate") = (opt.events + 1) .. b
  BY <1>2, <1>3, <1>4 DEF Places
<1>7. Places(all, opt, "invalid") = (b + 1) .. c
  BY <1>2, <1>3, <1>4 DEF Places
<1>8. Places(all, opt, "stale") = (c + 1) .. Deliveries(opt)
  BY <1>2, <1>3, <1>4 DEF Places
<1>9. ASSUME NEW m \in Nat, NEW n \in Nat
      PROVE  Cardinality((m + 1) .. (m + n)) = n
  BY FS_Interval
<1>10. Cardinality(1 .. opt.events) = opt.events
  <2>1. Cardinality((0 + 1) .. (0 + opt.events)) = opt.events
    BY <1>1, <1>9
  <2>2. 0 + 1 = 1 /\ 0 + opt.events = opt.events
    BY <1>1
  <2>3. QED BY <2>1, <2>2
<1>11. Cardinality((opt.events + 1) .. b) = opt.duplicates
  BY <1>1, <1>9 DEF b
<1>12. b \in Nat /\ c = b + opt.invalid /\ Deliveries(opt) = c + opt.stale /\ c \in Nat
  BY <1>1 DEF b, c
<1>13. Cardinality((b + 1) .. c) = opt.invalid
  BY <1>1, <1>9, <1>12
<1>14. Cardinality((c + 1) .. Deliveries(opt)) = opt.stale
  <2>1. Cardinality((c + 1) .. (c + opt.stale)) = opt.stale
    BY <1>1, <1>9, <1>12
  <2>2. QED BY <1>12, <2>1
<1>15. QED
  BY <1>5, <1>6, <1>7, <1>8, <1>10, <1>11, <1>13, <1>14 DEF Counted

LEMMA PlacesAreFinite ==
  ASSUME NEW opt \in Options, NEW p, NEW kind
  PROVE  IsFiniteSet(Places(p, opt, kind))
<1>1. Deliveries(opt) \in Nat
  BY SimulationAssumption DEF Option, Deliveries
<1>2. IsFiniteSet(1..Deliveries(opt))
  BY <1>1, FS_Interval
<1>3. QED BY <1>2, FS_Subset DEF Places

(* A permutation moves the places of a kind, and loses none.               *)
LEMMA SamePlaces ==
  ASSUME NEW opt \in Options, NEW all, NEW order \in SendOrders(opt),
         NEW p, p = [i \in 1..Deliveries(opt) |-> all[order[i]]], NEW kind
  PROVE  Cardinality(Places(p, opt, kind)) = Cardinality(Places(all, opt, kind))
<1> DEFINE S == Places(p, opt, kind)
           T == Places(all, opt, kind)
           f == [i \in S |-> order[i]]
<1>1. /\ order \in [1..Deliveries(opt) -> 1..Deliveries(opt)]
      /\ \A k \in 1..Deliveries(opt) : \E i \in 1..Deliveries(opt) : order[i] = k
      /\ \A i, j \in 1..Deliveries(opt) : order[i] = order[j] => i = j
  BY SendOrdersPermute
<1>2. \A i \in 1..Deliveries(opt) : i \in S <=> order[i] \in T
  BY <1>1 DEF Places
<1>3. S \subseteq 1..Deliveries(opt) /\ T \subseteq 1..Deliveries(opt)
  BY DEF Places
<1> HIDE DEF S, T
<1>4. f \in [S -> T]
  BY <1>2, <1>3
<1>5. \A i, j \in S : f[i] = f[j] => i = j
  BY <1>1, <1>3
<1>6. \A k \in T : \E i \in S : f[i] = k
  BY <1>1, <1>2, <1>3
<1> HIDE DEF f
<1>7. f \in Bijection(S, T)
  <2>1. f \in Injection(S, T)
    BY <1>4, <1>5, Fun_IsInj
  <2>2. f \in Surjection(S, T)
    BY <1>4, <1>6, Fun_IsSurj
  <2>3. QED BY <2>1, <2>2 DEF Bijection
<1>8. ExistsBijection(S, T)
  BY <1>7 DEF ExistsBijection
<1>9. IsFiniteSet(S)
  BY PlacesAreFinite DEF S
<1>10. Cardinality(T) = Cardinality(S)
  BY <1>8, <1>9, FS_Bijection
<1>11. QED BY <1>10 DEF S, T

PlanOK ==
  options \in Options /\ Sound(plan, options) /\ Counted(plan, options)

LEMMA PlanInit == SimulationInit => PlanOK
<1> SUFFICES ASSUME SimulationInit PROVE PlanOK
  OBVIOUS
<1>1. options \in Options
  BY DEF SimulationInit
<1>2. PICK all \in Plans(options), order \in SendOrders(options) :
        plan = [i \in 1..Total |-> all[order[i]]]
  BY DEF SimulationInit
<1>3. Sound(all, options) /\ Counted(all, options)
  BY <1>1, MadeIsSound, MadeIsCounted, PlansAreMade
<1>4. Sound(plan, options)
  BY <1>1, <1>2, <1>3, ShuffledIsSound DEF Total
<1>5. \A kind : Cardinality(Places(plan, options, kind)) = Cardinality(Places(all, options, kind))
  BY <1>1, <1>2, SamePlaces DEF Total
<1>6. Counted(plan, options)
  BY <1>3, <1>5 DEF Counted
<1>7. QED BY <1>1, <1>4, <1>6 DEF PlanOK

LEMMA PlanStep ==
  ASSUME [SimulationNext]_simulationVars
  PROVE  plan' = plan /\ options' = options
BY DEF SimulationNext, SimulatorStep, ServiceStep, TakeNext, Receive, RequestFails,
       ResponseBreaks, NoResponseTo, PollBreaks, StartPolling, Poll, FinalFetch, Decide,
       EndPolling, Report, Serve, ServeFails, simVars, simulationVars

-----------------------------------------------------------------------------
(* What is stored, and what the workers hold                               *)

(* Every stored row is the body of a delivery with a right signature.      *)
Planned(e, body) ==
  \E i \in 1..Total : plan[i].kind # "invalid" /\ plan[i].body.event = e /\ plan[i].body = body

RowsOK ==
  /\ DOMAIN events = EventIds
  /\ \A e \in EventIds :
       /\ DOMAIN events[e] = DOMAIN NoEventRow
       /\ events[e].status # "ABSENT" =>
            Planned(e, events[e].body) /\ events[e].count \in Nat \ {0}

Open == {"claimed", "locked", "failed"}

Holds(w, e) ==
  /\ e \in EventIds
  /\ eventLock[e] = w
  /\ worker[w].event.body = events[e].body
  /\ events[e].body.event = e
  /\ events[e].status \in Waiting

(* The event of an open transaction is locked and still waits.             *)
HoldsOK ==
  /\ DOMAIN eventLock = EventIds /\ DOMAIN worker = Workers
  /\ \A w \in Workers :
       /\ DOMAIN worker[w] = DOMAIN Idle
       /\ worker[w].pc \in Open => Holds(w, ClaimedEvent(w))

DataInv == PlanOK /\ RowsOK /\ HoldsOK

LEMMA DataInit == SimulationInit => DataInv
<1> SUFFICES ASSUME SimulationInit PROVE DataInv
  OBVIOUS
<1>1. RowsOK
  BY DEF SimulationInit, TablesInit, NoEventRow, RowsOK
<1>2. HoldsOK
  BY DEF SimulationInit, TablesInit, WorkerInit, Idle, HoldsOK, Open
<1>3. QED BY <1>1, <1>2, PlanInit DEF DataInv

(* The steps that change the tables, the locks or the workers.             *)
Ends(w) ==
  CommitResult(w) \/ ScheduleRetry(w) \/ SendToDlq(w) \/ AbortTransaction(w) \/ Crash(w)

LEMMA StepCases ==
  ASSUME [SimulationNext]_simulationVars
  PROVE  \/ UNCHANGED <<tables, rowLocks, worker>>
         \/ \E i \in 1..Total : Serve(i)
         \/ Tick /\ UNCHANGED <<worker, chaos, simVars>>
         \/ \E w \in Workers : Claim(w) \/ LockOrder(w) \/ BusinessError(w) \/ Ends(w)
                               \/ Restart(w)
BY DEF SimulationNext, SimulatorStep, ServiceStep, TakeNext, Receive, RequestFails,
       ResponseBreaks, NoResponseTo, PollBreaks, StartPolling, Poll, FinalFetch, Decide,
       EndPolling, Report, ServeFails, Ends, ChaosNext, ContainerDies, ContainerStarts,
       CoordinatorStep, simVars, simulationVars

(* What a delivery does to a row.                                          *)
Keeps(old, new) ==
  /\ DOMAIN new = DOMAIN old /\ new.body = old.body /\ new.status = old.status
  /\ new.reason = old.reason
  /\ new.count \in {old.count, old.count + 1}

Arrives(i, old, new) ==
  /\ old.status = "ABSENT" /\ plan[i].kind # "invalid"
  /\ DOMAIN new = DOMAIN NoEventRow /\ new.body = plan[i].body /\ new.count = 1
  /\ new.status \in {"PENDING", "IGNORED"}

(* A signed delivery is stored as stale or not.                            *)
LEMMA SignedServe ==
  ASSUME NEW i \in 1..Total, Serve(i), plan[i].kind # "invalid"
  PROVE  /\ UNCHANGED worker
         /\ \E stale \in BOOLEAN :
              /\ plan[i].kind = "stale" => stale
              /\ Ingest(plan[i].body, stale)
              /\ reply' = [reply EXCEPT ![i] =
                   DeliveryResult(Upsert(plan[i].body, stale), plan[i].body, stale)]
BY DEF Serve, Reply

LEMMA UnsignedServe ==
  ASSUME NEW i \in 1..Total, Serve(i), plan[i].kind = "invalid"
  PROVE  /\ UNCHANGED <<tables, rowLocks, worker>>
         /\ reply' = [reply EXCEPT ![i] = "UNAUTHORIZED"]
BY DEF Serve, Reply

LEMMA ServeStep ==
  ASSUME DataInv, NEW i \in 1..Total, Serve(i), NEW e \in EventIds
  PROVE  /\ UNCHANGED <<worker, rowLocks, orders>>
         /\ \/ Keeps(events[e], events'[e])
            \/ plan[i].body.event = e /\ Arrives(i, events[e], events'[e])
         /\ eventLock[e] # Null => events'[e] = events[e]
<1> DEFINE body == plan[i].body
<1>1. CASE plan[i].kind = "invalid"
  BY <1>1, UnsignedServe DEF tables, rowLocks, Keeps, DataInv, RowsOK
<1>2. CASE plan[i].kind # "invalid"
  <2>0. PICK isStale \in BOOLEAN : Ingest(body, isStale)
    BY <1>2, SignedServe
  <2>1. Ingest(body, isStale) /\ UNCHANGED worker
    BY <1>2, <2>0, SignedServe
  <2>2. body.event \in EventIds
    BY BodyFacts DEF DataInv, PlanOK, Sound, Total
  <2>3. /\ events' = [events EXCEPT ![body.event] = Upsert(body, isStale)]
        /\ eventLock[body.event] = Null
        /\ UNCHANGED <<rowLocks, orders>>
    BY <2>1 DEF Ingest, EventFree, rowLocks
  <2>4. DOMAIN events = EventIds /\ DOMAIN events[e] = DOMAIN NoEventRow
    BY DEF DataInv, RowsOK
  <2>5. CASE e # body.event
    BY <2>1, <2>3, <2>4, <2>5 DEF Keeps
  <2>6. CASE e = body.event
    <3>1. events'[e] = Upsert(body, isStale)
      BY <2>2, <2>3, <2>4, <2>6
    <3> HIDE DEF body
    <3>2. CASE events[e].status = "ABSENT"
      <4>1. events'[e] = FirstDelivery(body, isStale)
        BY <2>6, <3>1, <3>2 DEF Upsert
      <4>2. Arrives(i, events[e], events'[e])
        BY <1>2, <3>2, <4>1 DEF FirstDelivery, NoEventRow, Arrives, body
      <4>3. QED BY <2>1, <2>3, <2>4, <2>6, <4>2 DEF body
    <3>3. CASE events[e].status # "ABSENT"
      <4>1. events'[e] = [events[e] EXCEPT !.count = @ + 1]
        BY <2>6, <3>1, <3>3 DEF Upsert
      <4>2. Keeps(events[e], events'[e])
        BY <2>4, <4>1 DEF Keeps, NoEventRow
      <4>3. QED BY <2>1, <2>3, <2>4, <2>6, <4>2
    <3>4. QED BY <3>2, <3>3
  <2>7. QED BY <2>5, <2>6
<1>3. QED BY <1>1, <1>2

LEMMA TickStep ==
  ASSUME DataInv, Tick, NEW e \in EventIds
  PROVE  Keeps(events[e], events'[e])
BY DEF Tick, Keeps, DataInv, RowsOK, NoEventRow

(* The end of a transaction gives a new status to its own event at most,   *)
(* and keeps every lock but its own.                                       *)
Settles(old, new) ==
  /\ DOMAIN new = DOMAIN old /\ new.body = old.body /\ new.count = old.count
  /\ new.status \in {"APPLIED", "IGNORED", "RETRY_SCHEDULED", "DLQ"}

LEMMA EndFrame ==
  ASSUME DataInv, NEW w \in Workers, Ends(w)
  PROVE  /\ eventLock' = EventLocksWithout(w)
         /\ worker'[w].pc \in {"idle", "down"}
         /\ \E new : worker' = [worker EXCEPT ![w] = new] /\ DOMAIN new = DOMAIN Idle
<1>1. DOMAIN worker = Workers
  BY DEF DataInv, HoldsOK
<1>2. /\ eventLock' = EventLocksWithout(w)
      /\ worker' = [worker EXCEPT ![w] = Idle]
         \/ worker' = [worker EXCEPT ![w] = [Idle EXCEPT !.pc = "down"]]
  BY DEF Ends, CommitResult, ScheduleRetry, SendToDlq, AbortTransaction, Crash,
         EndTransaction, ReleaseLocks
<1>3. QED BY <1>1, <1>2 DEF Idle

LEMMA EndStep ==
  ASSUME DataInv, NEW w \in Workers, Ends(w), NEW e \in EventIds
  PROVE  \/ events'[e] = events[e]
         \/ /\ worker[w].pc \in Open /\ e = ClaimedEvent(w)
            /\ Settles(events[e], events'[e])
<1>1. DOMAIN events = EventIds /\ DOMAIN events[e] = DOMAIN NoEventRow
  BY DEF DataInv, RowsOK
<1>2. CASE CommitResult(w)
  <2> DEFINE result == Process(worker[w].event.body, worker[w].order)
  <2>1. result.outcome \in {"APPLIED", "IGNORED"}
    BY DEF Process, Applied, Ignored
  <2>2. /\ worker[w].pc \in Open
        /\ events' = [events EXCEPT ![ClaimedEvent(w)] =
             [@ EXCEPT !.status = result.outcome, !.reason = result.reason, !.next = Null]]
    BY <1>2 DEF CommitResult, Open
  <2> HIDE DEF result
  <2>3. QED BY <1>1, <2>1, <2>2 DEF NoEventRow, Settles
<1>3. CASE ScheduleRetry(w)
  <2>1. PICK delay \in Delays(worker[w].event.attempts) :
          events' = [events EXCEPT ![ClaimedEvent(w)] =
            [@ EXCEPT !.status   = "RETRY_SCHEDULED",
                      !.attempts = NewAttemptCount(worker[w].event.attempts),
                      !.next     = delay,
                      !.reason   = "TRANSIENT_ERROR"]]
    BY <1>3 DEF ScheduleRetry
  <2>2. worker[w].pc \in Open
    BY <1>3 DEF ScheduleRetry, Open
  <2>3. QED BY <1>1, <2>1, <2>2 DEF NoEventRow, Settles
<1>4. CASE SendToDlq(w)
  <2>1. /\ worker[w].pc \in Open
        /\ events' = [events EXCEPT ![ClaimedEvent(w)] =
             [@ EXCEPT !.status   = "DLQ",
                       !.attempts = NewAttemptCount(worker[w].event.attempts),
                       !.next     = Null,
                       !.reason   = "MAX_ATTEMPTS_EXHAUSTED"]]
    BY <1>4 DEF SendToDlq, Open
  <2>2. QED BY <1>1, <2>1 DEF NoEventRow, Settles
<1>5. CASE AbortTransaction(w) \/ Crash(w)
  <2>1. events' = events
    BY <1>5 DEF AbortTransaction, Crash, tables
  <2>2. QED BY <1>1, <2>1
<1>6. QED BY <1>2, <1>3, <1>4, <1>5 DEF Ends

(* So a row moves in one of four ways.                                     *)
Moves(e) ==
  \/ Keeps(events[e], events'[e])
  \/ \E i \in 1..Total : plan[i].body.event = e /\ Arrives(i, events[e], events'[e])
  \/ events[e].status \in Waiting /\ Settles(events[e], events'[e])

LEMMA RowStep ==
  ASSUME DataInv, [SimulationNext]_simulationVars, NEW e \in EventIds
  PROVE  Moves(e)
<1>1. CASE UNCHANGED events
  BY <1>1 DEF Moves, Keeps
<1>2. ASSUME NEW i \in 1..Total, Serve(i)
      PROVE  Moves(e)
  BY <1>2, ServeStep DEF Moves
<1>3. CASE Tick
  BY <1>3, TickStep DEF Moves
<1>4. ASSUME NEW w \in Workers, Ends(w)
      PROVE  Moves(e)
  BY <1>4, EndStep DEF DataInv, HoldsOK, Holds, Moves, Keeps
<1>5. QED
  BY <1>1, <1>2, <1>3, <1>4, StepCases
     DEF Claim, LockOrder, BusinessError, Restart, tables

LEMMA SameEvents ==
  ASSUME DataInv, [SimulationNext]_simulationVars
  PROVE  DOMAIN events' = EventIds
<1>1. DOMAIN events = EventIds
  BY DEF DataInv, RowsOK
<1>2. ASSUME NEW i \in 1..Total, Serve(i)
      PROVE  DOMAIN events' = EventIds
  BY <1>1, <1>2 DEF Serve, Ingest, tables
<1>3. ASSUME NEW w \in Workers, Ends(w)
      PROVE  DOMAIN events' = EventIds
  BY <1>1, <1>3 DEF Ends, CommitResult, ScheduleRetry, SendToDlq, AbortTransaction,
         Crash, tables
<1>4. QED
  BY <1>1, <1>2, <1>3, StepCases
     DEF Tick, Claim, LockOrder, BusinessError, Restart, tables

LEMMA RowsStep ==
  ASSUME DataInv, [SimulationNext]_simulationVars
  PROVE  RowsOK'
<1>1. plan' = plan /\ options' = options
  BY PlanStep
<1>2. DOMAIN events' = EventIds
  BY SameEvents
<1>3. ASSUME NEW e \in EventIds
      PROVE  /\ DOMAIN events'[e] = DOMAIN NoEventRow
             /\ events'[e].status # "ABSENT" =>
                  Planned(e, events'[e].body) /\ events'[e].count \in Nat \ {0}
  <2>1. /\ DOMAIN events[e] = DOMAIN NoEventRow
        /\ events[e].status # "ABSENT" =>
             Planned(e, events[e].body) /\ events[e].count \in Nat \ {0}
    BY DEF DataInv, RowsOK
  <2>2. CASE Keeps(events[e], events'[e])
    BY <2>1, <2>2 DEF Keeps
  <2>3. ASSUME NEW i \in 1..Total,
               plan[i].body.event = e, Arrives(i, events[e], events'[e])
        PROVE  /\ DOMAIN events'[e] = DOMAIN NoEventRow
               /\ Planned(e, events'[e].body) /\ events'[e].count \in Nat \ {0}
    BY <2>3 DEF Arrives, Planned
  <2>4. CASE events[e].status \in Waiting /\ Settles(events[e], events'[e])
    BY <2>1, <2>4 DEF Settles, Waiting
  <2>5. QED BY <2>2, <2>3, <2>4, RowStep DEF Moves
<1>4. ASSUME NEW e \in EventIds
      PROVE  Planned(e, events'[e].body) <=> Planned(e, events[e].body)'
  BY <1>1 DEF Planned, Total
<1>5. QED BY <1>2, <1>3, <1>4 DEF RowsOK

LEMMA HoldsStep ==
  ASSUME DataInv, [SimulationNext]_simulationVars
  PROVE  HoldsOK'
<1>0. /\ DOMAIN eventLock = EventIds /\ DOMAIN worker = Workers
      /\ \A w \in Workers :
           /\ DOMAIN worker[w] = DOMAIN Idle
           /\ worker[w].pc \in Open => Holds(w, ClaimedEvent(w))
      /\ Null \notin Workers
  BY WorkersAssumption DEF DataInv, HoldsOK
<1> DEFINE Fine(w) == /\ DOMAIN worker'[w] = DOMAIN Idle
                      /\ worker'[w].pc \in Open => Holds(w, ClaimedEvent(w))'
           Frame == DOMAIN eventLock' = EventIds /\ DOMAIN worker' = Workers
(* The process does nothing, and its event is not touched.                 *)
<1>1. ASSUME NEW w \in Workers, worker'[w] = worker[w],
             worker[w].pc \in Open =>
               /\ eventLock'[ClaimedEvent(w)] = eventLock[ClaimedEvent(w)]
               /\ Keeps(events[ClaimedEvent(w)], events'[ClaimedEvent(w)])
      PROVE  Fine(w)
  BY <1>0, <1>1 DEF Holds, ClaimedEvent, Keeps
<1>2. CASE UNCHANGED <<worker, rowLocks>> /\ \A e \in EventIds :
             eventLock[e] # Null => Keeps(events[e], events'[e])
  <2>1. ASSUME NEW w \in Workers
        PROVE  Fine(w)
    <3>1. worker[w].pc \in Open =>
            Keeps(events[ClaimedEvent(w)], events'[ClaimedEvent(w)])
      BY <1>0, <1>2 DEF Holds
    <3>2. QED BY <1>1, <1>2, <3>1 DEF rowLocks
  <2>2. QED BY <1>0, <1>2, <2>1 DEF HoldsOK, rowLocks
<1>3. ASSUME NEW i \in 1..Total, Serve(i)
      PROVE  HoldsOK'
  <2>1. /\ UNCHANGED <<worker, rowLocks>>
        /\ \A e \in EventIds : eventLock[e] # Null => Keeps(events[e], events'[e])
    <3>1. UNCHANGED <<worker, rowLocks>>
      BY <1>3, BodyFacts DEF Serve, Ingest, rowLocks
    <3>2. QED BY <1>3, <3>1, ServeStep DEF Keeps
  <2>2. QED BY <1>2, <2>1
<1>4. CASE Tick /\ UNCHANGED worker
  BY <1>2, <1>4, TickStep DEF Tick, rowLocks
<1>5. CASE UNCHANGED <<tables, rowLocks, worker>>
  BY <1>2, <1>5 DEF Keeps, tables
<1>6. ASSUME NEW v \in Workers, Claim(v)
      PROVE  HoldsOK'
  <2>1. PICK e \in EventIds :
          /\ Claimable(e) /\ Unlocked(e)
          /\ worker' = [worker EXCEPT ![v] = [@ EXCEPT !.pc = "claimed", !.event = events[e]]]
          /\ eventLock' = [eventLock EXCEPT ![e] = v]
    BY <1>6 DEF Claim
  <2>2. events' = events
    BY <1>6 DEF Claim, tables
  <2>3. events[e].status \in Waiting /\ events[e].body.event = e
    <3>1. events[e].status \in Waiting
      BY <2>1 DEF Claimable, Waiting
    <3>2. Planned(e, events[e].body)
      BY <3>1 DEF Waiting, DataInv, RowsOK
    <3>3. QED BY <3>1, <3>2 DEF Planned
  <2>4. Fine(v)
    <3>1. /\ DOMAIN worker'[v] = DOMAIN Idle
          /\ worker'[v].event = events[e] /\ eventLock'[e] = v
      BY <1>0, <2>1 DEF Idle
    <3>2. QED BY <2>2, <2>3, <3>1 DEF Holds, ClaimedEvent
  <2>5. ASSUME NEW w \in Workers, w # v
        PROVE  Fine(w)
    <3>1. worker'[w] = worker[w]
      BY <1>0, <2>1, <2>5
    <3>2. worker[w].pc \in Open => eventLock'[ClaimedEvent(w)] = eventLock[ClaimedEvent(w)]
      BY <1>0, <2>1 DEF Holds, Unlocked, EventFree
    <3>3. QED BY <1>1, <2>2, <3>1, <3>2 DEF Keeps
  <2>6. Frame
    BY <1>0, <2>1
  <2>7. QED BY <2>4, <2>5, <2>6 DEF HoldsOK
<1>7. ASSUME NEW v \in Workers, LockOrder(v) \/ BusinessError(v)
      PROVE  HoldsOK'
  <2>1. /\ worker[v].pc \in Open
        /\ UNCHANGED <<tables, eventLock>>
        /\ \E pc, order : worker' = [worker EXCEPT ![v] = [@ EXCEPT !.pc = pc, !.order = order]]
    BY <1>7 DEF LockOrder, BusinessError, Open
  <2>2. ASSUME NEW w \in Workers
        PROVE  Fine(w)
    <3>1. DOMAIN worker'[w] = DOMAIN Idle /\ worker'[w].event = worker[w].event
      BY <1>0, <2>1 DEF Idle
    <3>2. worker'[w].pc \in Open => worker[w].pc \in Open
      BY <1>0, <2>1
    <3>3. QED BY <1>0, <2>1, <3>1, <3>2 DEF tables, Holds, ClaimedEvent
  <2>3. Frame
    BY <1>0, <2>1
  <2>4. QED BY <2>2, <2>3 DEF HoldsOK
<1>8. ASSUME NEW v \in Workers, Ends(v)
      PROVE  HoldsOK'
  <2>1. /\ eventLock' = EventLocksWithout(v)
        /\ worker'[v].pc \in {"idle", "down"}
        /\ \E new : worker' = [worker EXCEPT ![v] = new] /\ DOMAIN new = DOMAIN Idle
    BY <1>8, EndFrame
  <2>2. Fine(v)
    BY <1>0, <2>1 DEF Open
  <2>3. ASSUME NEW w \in Workers, w # v
        PROVE  Fine(w)
    <3>1. worker'[w] = worker[w]
      BY <1>0, <2>1, <2>3
    <3>2. CASE worker[w].pc \in Open
      <4>1. Holds(w, ClaimedEvent(w))
        BY <1>0, <3>2
      <4>2. eventLock'[ClaimedEvent(w)] = eventLock[ClaimedEvent(w)]
        BY <2>1, <2>3, <4>1 DEF Holds, EventLocksWithout
      <4>3. worker[v].pc \in Open => ClaimedEvent(v) # ClaimedEvent(w)
        BY <1>0, <2>3, <4>1 DEF Holds
      <4>4. events'[ClaimedEvent(w)] = events[ClaimedEvent(w)]
        BY <1>8, <4>1, <4>3, EndStep DEF Holds
      <4>5. QED BY <1>1, <3>1, <4>2, <4>4 DEF Keeps
    <3>3. QED BY <1>1, <3>1, <3>2
  <2>4. Frame
    BY <1>0, <2>1 DEF EventLocksWithout
  <2>5. QED BY <2>2, <2>3, <2>4 DEF HoldsOK
<1>9. ASSUME NEW v \in Workers, Restart(v)
      PROVE  HoldsOK'
  <2>1. /\ UNCHANGED <<tables, rowLocks>> /\ worker' = [worker EXCEPT ![v] = Idle]
    BY <1>9 DEF Restart
  <2>2. Fine(v)
    BY <1>0, <2>1 DEF Idle, Open
  <2>3. ASSUME NEW w \in Workers, w # v
        PROVE  Fine(w)
    BY <1>0, <1>1, <2>1, <2>3 DEF Keeps, tables, rowLocks
  <2>4. Frame
    BY <1>0, <2>1 DEF rowLocks
  <2>5. QED BY <2>2, <2>3, <2>4 DEF HoldsOK
<1>10. QED
  BY <1>3, <1>4, <1>5, <1>6, <1>7, <1>8, <1>9, StepCases

LEMMA DataStep ==
  ASSUME DataInv, [SimulationNext]_simulationVars
  PROVE  DataInv'
BY RowsStep, HoldsStep, PlanStep DEF DataInv, PlanOK

-----------------------------------------------------------------------------
(* A verdict stays true                                                    *)

SettledOrder(o) ==
  /\ SameState(orders[o], ExpectedState(plan, o))
  /\ \A e \in ExpectedEvents(plan, o) : events[e].status \in TerminalStatuses

VerdictsOK ==
  /\ DOMAIN verdict = Orders
  /\ \A o \in Orders : verdict[o] # Null /\ verdict[o].converged => SettledOrder(o)

LEMMA ExpectedIds ==
  ASSUME PlanOK, NEW o
  PROVE  ExpectedEvents(plan, o) \subseteq EventIds
BY BodyFacts DEF ExpectedEvents, BodiesOfKinds, PlanOK, Sound

LEMMA ExpectedAreOrders ==
  ASSUME PlanOK
  PROVE  Expected \subseteq Orders
BY BodyFacts DEF Expected, ExpectedOrders, BodiesOfKinds, PlanOK, Sound

(* Whatever is stored was to be stored.                                    *)
LEMMA StoredIsExpected ==
  ASSUME DataInv, NEW e \in EventIds, events[e].status # "ABSENT"
  PROVE  e \in ExpectedEvents(plan, events[e].body.order)
<1>1. PICK i \in 1..Total : /\ plan[i].kind # "invalid" /\ plan[i].body.event = e
                            /\ plan[i].body = events[e].body
  BY DEF DataInv, RowsOK, Planned
<1>2. \E j \in 1..Total : plan[j].kind \in {"base", "stale"} /\ plan[j].body = events[e].body
  BY <1>1 DEF DataInv, PlanOK, Sound, Kinds, Total
<1>3. events[e].body \in BodiesOfKinds(plan, {"base", "stale"})
  BY <1>2 DEF BodiesOfKinds, DataInv, PlanOK, Sound, Total
<1>4. QED BY <1>1, <1>3 DEF ExpectedEvents

(* Only the commit of an event of the order changes an order.              *)
LEMMA OrderStep ==
  ASSUME DataInv, [SimulationNext]_simulationVars, NEW o \in Orders
  PROVE  \/ orders'[o] = orders[o]
         \/ \E e \in EventIds : /\ events[e].status \in Waiting
                                /\ events[e].body.order = o
<1>1. CASE UNCHANGED orders
  BY <1>1
<1>2. ASSUME NEW w \in Workers, CommitResult(w), orders'[o] # orders[o]
      PROVE  \E e \in EventIds : events[e].status \in Waiting /\ events[e].body.order = o
  <2>1. ClaimedOrder(w) = o
    BY <1>2 DEF CommitResult
  <2>2. Holds(w, ClaimedEvent(w))
    BY <1>2 DEF CommitResult, DataInv, HoldsOK, Open
  <2>3. QED BY <2>1, <2>2 DEF Holds, ClaimedOrder
<1>3. ASSUME NEW i \in 1..Total, Serve(i)
      PROVE  UNCHANGED orders
  BY <1>3 DEF Serve, Ingest, tables
<1>4. ASSUME NEW w \in Workers, Ends(w), ~CommitResult(w)
      PROVE  UNCHANGED orders
  BY <1>4 DEF Ends, ScheduleRetry, SendToDlq, AbortTransaction, Crash, tables
<1>5. QED
  BY <1>1, <1>2, <1>3, <1>4, StepCases
     DEF Tick, Claim, LockOrder, BusinessError, Restart, tables

LEMMA SettledStays ==
  ASSUME DataInv, [SimulationNext]_simulationVars, NEW o \in Orders, SettledOrder(o)
  PROVE  SettledOrder(o)'
<1>1. plan' = plan
  BY PlanStep
<1>2. ASSUME NEW e \in ExpectedEvents(plan, o)
      PROVE  events'[e].status \in TerminalStatuses
  <2>1. e \in EventIds /\ events[e].status \in TerminalStatuses
    BY ExpectedIds DEF SettledOrder, DataInv
  <2>2. events'[e].status = events[e].status
    BY <2>1, RowStep DEF Moves, Keeps, Arrives, Waiting, TerminalStatuses
  <2>3. QED BY <2>1, <2>2
<1>3. orders'[o] = orders[o]
  <2>1. ASSUME NEW e \in EventIds, events[e].status \in Waiting, events[e].body.order = o
        PROVE  FALSE
    <3>1. e \in ExpectedEvents(plan, o)
      BY <2>1, StoredIsExpected DEF Waiting
    <3>2. QED BY <2>1, <3>1 DEF SettledOrder, Waiting, TerminalStatuses
  <2>2. QED BY <2>1, OrderStep
<1>4. QED BY <1>1, <1>2, <1>3 DEF SettledOrder, SameState

(* A verdict was true when it was given.                                   *)
LEMMA CheckSettles ==
  ASSUME NEW o, Check(o).converged
  PROVE  SettledOrder(o)
<1> DEFINE detail == OrderDetail(o)
           expected == ExpectedState(plan, o)
           ids == ExpectedEvents(plan, o)
           known == DOMAIN detail.status
           lost == ids \ known
           dlq == {e \in ids \intersect known : detail.status[e] = "DLQ"}
           pending == {e \in (ids \intersect known) \ dlq :
                         detail.status[e] \notin TerminalStatuses}
<1>1. /\ detail.order = orders[o]
      /\ \A e \in known : detail.status[e] = events[e].status
  BY DEF OrderDetail
<1>2. SameState(orders[o], expected) /\ lost \union dlq \union pending = {}
  <2>1. CASE SameState(detail.order, expected)
    BY <1>1, <2>1 DEF Check, CheckOrder
  <2>2. CASE ~SameState(detail.order, expected)
    BY <2>2 DEF Check, CheckOrder
  <2>3. QED BY <2>1, <2>2
<1> HIDE DEF detail
<1>3. ASSUME NEW e \in ids
      PROVE  events[e].status \in TerminalStatuses
  BY <1>1, <1>2
<1>4. QED BY <1>2, <1>3 DEF SettledOrder

LEMMA VerdictsStep ==
  ASSUME DataInv, VerdictsOK, [SimulationNext]_simulationVars
  PROVE  VerdictsOK'
<1>1. ASSUME NEW o \in Orders, verdict'[o] = verdict[o]
      PROVE  verdict'[o] # Null /\ verdict'[o].converged => SettledOrder(o)'
  BY <1>1, SettledStays DEF VerdictsOK
<1>2. CASE UNCHANGED verdict
  BY <1>1, <1>2 DEF VerdictsOK
<1>3. ASSUME NEW o \in Undecided, NEW v, Decide(o, v), v.converged => SettledOrder(o)
      PROVE  VerdictsOK'
  <2>1. o \in Orders
    BY ExpectedAreOrders DEF Undecided, DataInv
  <2>2. verdict' = [verdict EXCEPT ![o] = v]
    BY <1>3 DEF Decide
  <2>3. v.converged => SettledOrder(o)'
    BY <1>3, <2>1, SettledStays
  <2>4. QED BY <1>1, <2>1, <2>2, <2>3 DEF VerdictsOK
<1>4. ASSUME NEW o \in Undecided, Poll(o) \/ FinalFetch(o)
      PROVE  VerdictsOK'
  <2>1. CASE Decide(o, Check(o))
    BY <1>3, <2>1, CheckSettles
  <2>2. CASE Decide(o, NoResponse(o))
    BY <1>3, <2>2 DEF NoResponse
  <2>3. QED BY <1>4, <2>1, <2>2 DEF Poll, FinalFetch
<1>5. QED
  BY <1>2, <1>4
     DEF SimulationNext, SimulatorStep, ServiceStep, TakeNext, Receive, RequestFails,
         ResponseBreaks, NoResponseTo, PollBreaks, StartPolling, EndPolling, Report,
         Serve, ServeFails, simVars, simulationVars

-----------------------------------------------------------------------------
(* The coordinator and the report                                          *)

(* A cycle was triggered at KillAt and is done when all workers run again, *)
(* and nobody stops a worker afterwards.                                   *)
ChaosOK ==
  /\ DOMAIN chaos = {"pc", "killedAt"}
  /\ chaos.pc # "armed" => chaos.killedAt = KillAt
  /\ chaos.pc = "done" => Alive = Workers

LEMMA ChaosStep ==
  ASSUME DataInv, ChaosOK, [SimulationNext]_simulationVars
  PROVE  ChaosOK'
<1>1. DOMAIN worker = Workers
  BY DEF DataInv, HoldsOK
<1>2. CASE UNCHANGED <<chaos, worker>>
  BY <1>2 DEF ChaosOK, Alive
<1>3. ASSUME NEW i \in 1..Total, Receive(i)
      PROVE  ChaosOK'
  BY <1>3 DEF Receive, AfterDelivery, ChaosOK, Alive
<1>4. CASE CoordinatorStep
  <2>1. CASE KillReturns \/ CountAfterKill \/ DelayPasses \/ UpReturns \/ UpFails \/ CommandFails
    BY <2>1, <1>4
       DEF CoordinatorStep, KillReturns, CountAfterKill, DelayPasses, UpReturns, UpFails,
           CommandFails, Goto, ChaosOK
  <2>2. CASE WaitEnds
    BY <2>2, <1>4 DEF CoordinatorStep, WaitEnds, Goto, ChaosOK, Alive
  <2>3. QED BY <1>4, <2>1, <2>2 DEF CoordinatorStep, Proceeds
<1>5. ASSUME NEW w \in Workers, ContainerDies(w)
      PROVE  ChaosOK'
  BY <1>5 DEF ContainerDies, ChaosOK
<1>6. ASSUME NEW w \in Workers, ContainerStarts(w)
      PROVE  ChaosOK'
  BY <1>6 DEF ContainerStarts, ChaosOK
<1>7. ASSUME NEW w \in Workers,
             \/ Claim(w) \/ LockOrder(w) \/ CommitResult(w) \/ BusinessError(w)
             \/ ScheduleRetry(w) \/ SendToDlq(w) \/ AbortTransaction(w),
             UNCHANGED chaos
      PROVE  ChaosOK'
  <2>1. ASSUME NEW new, worker' = [worker EXCEPT ![w] = new],
               new.pc # "down", worker[w].pc # "down"
        PROVE  Alive' = Alive
    BY <1>1, <2>1 DEF Alive
  <2>2. "pc" \in DOMAIN worker[w] /\ Idle.pc # "down"
    BY DEF DataInv, HoldsOK, Idle
  <2>3. ASSUME Claim(w)
        PROVE  Alive' = Alive
    <3>1. PICK e : worker' = [worker EXCEPT ![w] =
                                [@ EXCEPT !.pc = "claimed", !.event = events[e]]]
      BY <2>3 DEF Claim
    <3> DEFINE new == [worker[w] EXCEPT !.pc = "claimed", !.event = events[e]]
    <3>2. worker' = [worker EXCEPT ![w] = new] /\ new.pc = "claimed"
      BY <2>2, <3>1
    <3> HIDE DEF new
    <3>3. worker[w].pc = "idle"
      BY <2>3 DEF Claim
    <3>4. QED BY <2>1, <3>2, <3>3
  <2>4. ASSUME LockOrder(w)
        PROVE  Alive' = Alive
    <3> DEFINE new == [worker[w] EXCEPT !.pc = "locked",
                         !.order = InsertOrderIfMissing(orders[ClaimedOrder(w)])]
    <3>1. worker' = [worker EXCEPT ![w] = new] /\ new.pc = "locked"
      BY <2>2, <2>4 DEF LockOrder
    <3> HIDE DEF new
    <3>2. worker[w].pc = "claimed"
      BY <2>4 DEF LockOrder
    <3>3. QED BY <2>1, <3>1, <3>2
  <2>5. ASSUME BusinessError(w)
        PROVE  Alive' = Alive
    <3> DEFINE new == [worker[w] EXCEPT !.pc = "failed", !.order = Null]
    <3>1. worker' = [worker EXCEPT ![w] = new] /\ new.pc = "failed"
      BY <2>2, <2>5 DEF BusinessError
    <3> HIDE DEF new
    <3>2. worker[w].pc # "down"
      BY <2>5 DEF BusinessError
    <3>3. QED BY <2>1, <3>1, <3>2
  <2>6. ASSUME worker' = [worker EXCEPT ![w] = Idle], worker[w].pc # "down"
        PROVE  Alive' = Alive
    BY <2>1, <2>2, <2>6
  <2>7. ASSUME EndTransaction(w), worker[w].pc # "down"
        PROVE  Alive' = Alive
    BY <2>6, <2>7 DEF EndTransaction
  <2>8. ASSUME CommitResult(w)
        PROVE  Alive' = Alive
    <3>1. EndTransaction(w) /\ worker[w].pc = "locked"
      BY <2>8 DEF CommitResult
    <3>2. QED BY <2>7, <3>1
  <2>9. ASSUME ScheduleRetry(w) \/ SendToDlq(w)
        PROVE  Alive' = Alive
    <3>1. EndTransaction(w) /\ worker[w].pc = "failed"
      BY <2>9 DEF ScheduleRetry, SendToDlq
    <3>2. QED BY <2>7, <3>1
  <2>10. ASSUME AbortTransaction(w)
         PROVE  Alive' = Alive
    <3>1. EndTransaction(w) /\ worker[w].pc # "down"
      BY <2>10 DEF AbortTransaction, InTransaction
    <3>2. QED BY <2>7, <3>1
  <2>11. Alive' = Alive
    BY <1>7, <2>3, <2>4, <2>5, <2>8, <2>9, <2>10
  <2>12. QED BY <1>7, <2>11 DEF ChaosOK
<1>8. QED
  BY <1>2, <1>3, <1>4, <1>5, <1>6, <1>7
     DEF SimulationNext, SimulatorStep, ServiceStep, TakeNext, RequestFails,
         ResponseBreaks, NoResponseTo, PollBreaks, StartPolling, Poll, FinalFetch,
         Decide, EndPolling, Report, Serve, ServeFails, ChaosNext, simVars,
         simulationVars

(* What the report has found stays so.                                     *)
ReportOK ==
  phase = "passed" =>
    /\ \A o \in Expected : verdict[o] # Null /\ verdict[o].converged
    /\ KillAt # 0 => chaos.pc = "done"

LEMMA ReportStep ==
  ASSUME ReportOK, [SimulationNext]_simulationVars
  PROVE  ReportOK'
<1>1. Expected' = Expected
  BY PlanStep DEF Expected
<1>2. CASE Report
  <2>1. phase' = "passed" => Passed /\ Undecided = {}
    BY <1>2 DEF Report
  <2>2. QED BY <1>1, <1>2, <2>1 DEF Report, ReportOK, Passed, Undecided
<1>3. CASE ~Report
  <2>1. phase' = "passed" => phase = "passed"
    BY <1>3 DEF SimulationNext, SimulatorStep, ServiceStep, TakeNext, Receive,
                RequestFails, ResponseBreaks, NoResponseTo, PollBreaks, StartPolling,
                Poll, FinalFetch, Decide, EndPolling, Serve, ServeFails, simVars,
                simulationVars
  <2>2. phase = "passed" => verdict' = verdict
    BY <1>3 DEF SimulationNext, SimulatorStep, ServiceStep, TakeNext, Receive,
                RequestFails, ResponseBreaks, NoResponseTo, PollBreaks, StartPolling,
                Poll, FinalFetch, Decide, EndPolling, Serve, ServeFails, simVars,
                simulationVars
  <2>3. chaos.pc = "done" => chaos'.pc = "done"
    BY DEF SimulationNext, SimulatorStep, ServiceStep, TakeNext, Receive, RequestFails,
           ResponseBreaks, NoResponseTo, PollBreaks, StartPolling, Poll, FinalFetch,
           Decide, EndPolling, Report, Serve, ServeFails, ChaosNext, ContainerDies,
           ContainerStarts, CoordinatorStep, Proceeds, KillReturns, CountAfterKill,
           DelayPasses, UpReturns, UpFails, WaitEnds, CommandFails, Goto, AfterDelivery,
           simVars, simulationVars
  <2>4. QED BY <1>1, <2>1, <2>2, <2>3 DEF ReportOK
<1>4. QED BY <1>2, <1>3

(* A PASS of the acceptance test proves what the README says it proves:    *)
(* every order is in its expected state, every event that was to be stored *)
(* is settled and the workers have been killed and run again, for any      *)
(* number of events, copies, senders and workers in any order, although    *)
(* the orders were looked at one after the other (simulator.js 305-506).   *)
THEOREM PassesAreEarned == SimulationSpec => []PassMeansConverged
<1> DEFINE SimInv == DataInv /\ VerdictsOK /\ ChaosOK /\ ReportOK
<1>1. SimulationInit => SimInv
  <2> SUFFICES ASSUME SimulationInit PROVE SimInv
    OBVIOUS
  <2>1. VerdictsOK /\ ChaosOK /\ ReportOK
    BY DEF SimulationInit, ChaosInit, VerdictsOK, ChaosOK, ReportOK
  <2>2. QED BY <2>1, DataInit
<1>2. SimInv /\ [SimulationNext]_simulationVars => SimInv'
  BY DataStep, VerdictsStep, ChaosStep, ReportStep
<1>3. SimInv => PassMeansConverged
  <2> SUFFICES ASSUME SimInv, phase = "passed"
               PROVE  /\ \A o \in Expected :
                           /\ SameState(orders[o], ExpectedState(plan, o))
                           /\ \A e \in ExpectedEvents(plan, o) :
                                events[e].status \in {"APPLIED", "IGNORED"}
                      /\ KillAt # 0 => chaos.killedAt = KillAt /\ Alive = Workers
    BY DEF PassMeansConverged
  <2>1. \A o \in Expected : SettledOrder(o)
    BY ExpectedAreOrders DEF ReportOK, VerdictsOK, DataInv
  <2>2. KillAt # 0 => chaos.killedAt = KillAt /\ Alive = Workers
    BY DEF ReportOK, ChaosOK
  <2>3. QED BY <2>1, <2>2 DEF SettledOrder, TerminalStatuses
<1> HIDE DEF SimInv
<1>4. QED BY <1>1, <1>2, <1>3, PTL DEF SimulationSpec

-----------------------------------------------------------------------------
(* The answers                                                             *)

AnswersTo(kind) ==
  CASE kind = "invalid" -> {"UNAUTHORIZED", "ERROR"}
    [] kind = "stale"   -> {"IGNORED", "ERROR"}
    [] OTHER            -> {"CREATED", "DUPLICATE", "IGNORED", "ERROR"}

Creates(i) == reply[i] \in {"CREATED", "IGNORED"}

(* An event is stored by one delivery, which is told so, and every other   *)
(* delivery of it is a duplicate.                                          *)
RepliesOK ==
  /\ DOMAIN reply = 1..Total /\ DOMAIN answer = 1..Total
  /\ \A i \in 1..Total : answer[i] \in {Null, "ERROR", "BROKEN", reply[i]}
  /\ \A i \in 1..Total : reply[i] # Null => reply[i] \in AnswersTo(plan[i].kind)
  /\ \A i \in 1..Total :
       reply[i] \in {"CREATED", "DUPLICATE", "IGNORED"} => plan[i].body.event \in Stored
  /\ \A e \in Stored : \E i \in 1..Total :
       plan[i].kind # "invalid" /\ plan[i].body.event = e /\ Creates(i)
  /\ \A i, j \in 1..Total :
       reply[i] = "CREATED" /\ reply[j] = "CREATED" /\ plan[i].body.event = plan[j].body.event
       => i = j

LEMMA RepliesInit == SimulationInit => RepliesOK
<1> SUFFICES ASSUME SimulationInit PROVE RepliesOK
  OBVIOUS
<1>1. /\ reply = [i \in 1..Total |-> Null] /\ answer = [i \in 1..Total |-> Null]
      /\ Stored = {}
  BY DEF SimulationInit, TablesInit, NoEventRow, Stored
<1>2. Null \notin {"CREATED", "DUPLICATE", "IGNORED"}
  BY SimulationAssumption DEF DeliveryResults
<1>3. QED BY <1>1, <1>2 DEF RepliesOK

LEMMA StoredStays ==
  ASSUME DataInv, [SimulationNext]_simulationVars
  PROVE  Stored \subseteq Stored'
BY RowStep DEF Stored, Moves, Keeps, Settles, Arrives

LEMMA OnlyServeStores ==
  ASSUME DataInv, [SimulationNext]_simulationVars, \A i \in 1..Total : ~Serve(i)
  PROVE  Stored' = Stored
<1>1. CASE UNCHANGED events
  BY <1>1 DEF Stored
<1>2. CASE Tick
  BY <1>2, TickStep DEF Stored, Keeps
<1>3. ASSUME NEW w \in Workers, Ends(w)
      PROVE  Stored' = Stored
  <2>1. ASSUME NEW e \in EventIds
        PROVE  events'[e].status = "ABSENT" <=> events[e].status = "ABSENT"
    BY <1>3, EndStep DEF DataInv, HoldsOK, Holds, Waiting, Settles
  <2>2. QED BY <2>1 DEF Stored
<1>4. QED
  BY <1>1, <1>2, <1>3, StepCases DEF Claim, LockOrder, BusinessError, Restart, tables

(* What a delivery with a right signature is told.                         *)
LEMMA ServeReply ==
  ASSUME DataInv, NEW i \in 1..Total, Serve(i), plan[i].kind # "invalid"
  PROVE  /\ plan[i].body.event \in EventIds
         /\ Stored' = Stored \union {plan[i].body.event}
         /\ \E stale \in BOOLEAN :
              /\ plan[i].kind = "stale" => stale
              /\ stale /\ plan[i].body.event \notin Stored =>
                   ServedTooLate(plan[i].body.event)'
              /\ reply' = [reply EXCEPT ![i] =
                   IF plan[i].body.event \in Stored THEN "DUPLICATE"
                   ELSE IF stale THEN "IGNORED" ELSE "CREATED"]
<1> DEFINE body == plan[i].body
           e == plan[i].body.event
<1>1. PICK isStale \in BOOLEAN :
        /\ plan[i].kind = "stale" => isStale
        /\ Ingest(body, isStale)
        /\ reply' = [reply EXCEPT ![i] = DeliveryResult(Upsert(body, isStale), body, isStale)]
  BY SignedServe
<1>2. e \in EventIds
  BY BodyFacts DEF DataInv, PlanOK, Sound, Total
<1>3. /\ DOMAIN events = EventIds
      /\ DOMAIN events[e] = DOMAIN NoEventRow
      /\ events[e].status # "ABSENT" =>
           Planned(e, events[e].body) /\ events[e].count \in Nat \ {0}
  BY <1>2 DEF DataInv, RowsOK
<1>4. events' = [events EXCEPT ![e] = Upsert(body, isStale)]
  BY <1>1 DEF Ingest
<1>5. plan' = plan
  BY DEF Serve
<1> HIDE DEF body
<1>6. CASE events[e].status = "ABSENT"
  <2>1. Upsert(body, isStale) = FirstDelivery(body, isStale)
    BY <1>6 DEF Upsert, body
  <2>2. DeliveryResult(Upsert(body, isStale), body, isStale) =
          IF isStale THEN "IGNORED" ELSE "CREATED"
    BY <2>1 DEF FirstDelivery, DeliveryResult
  <2>3. events'[e].status # "ABSENT" /\ \A f \in EventIds \ {e} : events'[f] = events[f]
    BY <1>2, <1>3, <1>4, <2>1 DEF FirstDelivery
  <2>4. e \notin Stored /\ Stored' = Stored \union {e}
    BY <1>2, <1>6, <2>3 DEF Stored
  <2>5. isStale => events'[e].status = "IGNORED" /\ events'[e].reason = "STALE_TIMESTAMP"
    BY <1>2, <1>3, <1>4, <2>1 DEF FirstDelivery
  <2>6. isStale => ServedTooLate(e)'
    BY <1>5, <2>5 DEF ServedTooLate
  <2>7. reply' = [reply EXCEPT ![i] = IF e \in Stored THEN "DUPLICATE"
                                      ELSE IF isStale THEN "IGNORED" ELSE "CREATED"]
    BY <1>1, <2>2, <2>4
  <2>8. QED BY <1>1, <1>2, <2>4, <2>6, <2>7
<1>7. CASE events[e].status # "ABSENT"
  <2>1. Upsert(body, isStale) = [events[e] EXCEPT !.count = @ + 1]
    BY <1>7 DEF Upsert, body
  <2>2. events[e].body = body
    <3>1. PICK j \in 1..Total : /\ plan[j].kind # "invalid" /\ plan[j].body.event = e
                                /\ plan[j].body = events[e].body
      BY <1>3, <1>7 DEF Planned
    <3>2. QED BY <3>1 DEF DataInv, PlanOK, Sound, Total, body
  <2>3. /\ Upsert(body, isStale).count # 1
        /\ Upsert(body, isStale).body = body
        /\ Upsert(body, isStale).status = events[e].status
    BY <1>3, <1>7, <2>1, <2>2 DEF NoEventRow
  <2>4. DeliveryResult(Upsert(body, isStale), body, isStale) = "DUPLICATE"
    BY <2>3 DEF DeliveryResult
  <2>5. events'[e].status = events[e].status /\ \A f \in EventIds \ {e} : events'[f] = events[f]
    BY <1>2, <1>3, <1>4, <2>3
  <2>6. e \in Stored /\ Stored' = Stored \union {e}
    BY <1>2, <1>7, <2>5 DEF Stored
  <2>7. reply' = [reply EXCEPT ![i] = IF e \in Stored THEN "DUPLICATE"
                                      ELSE IF isStale THEN "IGNORED" ELSE "CREATED"]
    BY <1>1, <2>4, <2>6
  <2>8. QED BY <1>1, <1>2, <2>6, <2>7
<1>8. QED BY <1>6, <1>7

LEMMA RepliesStep ==
  ASSUME DataInv, RepliesOK, [SimulationNext]_simulationVars
  PROVE  RepliesOK'
<1>1. plan' = plan /\ options' = options /\ Total' = Total
  BY PlanStep DEF Total
<1>2. Stored \subseteq Stored'
  BY StoredStays
<1>3. Null \notin {"CREATED", "DUPLICATE", "IGNORED", "UNAUTHORIZED", "ERROR"}
  BY SimulationAssumption DEF DeliveryResults
<1>4. CASE UNCHANGED <<reply, answer>> /\ \A i \in 1..Total : ~Serve(i)
  <2>1. Stored' = Stored
    BY <1>4, OnlyServeStores
  <2>2. QED BY <1>1, <1>4, <2>1 DEF RepliesOK, Creates
<1>5. ASSUME NEW i \in 1..Total, NEW x \in {reply[i], "ERROR", "BROKEN"},
             UNCHANGED reply, answer' = [answer EXCEPT ![i] = x],
             \A k \in 1..Total : ~Serve(k)
      PROVE  RepliesOK'
  <2>1. Stored' = Stored
    BY <1>5, OnlyServeStores
  <2>2. /\ DOMAIN answer' = 1..Total
        /\ \A k \in 1..Total : answer'[k] \in {Null, "ERROR", "BROKEN", reply[k]}
    BY <1>5 DEF RepliesOK
  <2>3. QED BY <1>1, <1>5, <2>1, <2>2 DEF RepliesOK, Creates
<1>6. ASSUME NEW i \in 1..Total, reply[i] = Null, UNCHANGED answer,
             NEW x \in {"UNAUTHORIZED", "ERROR"}, x \in AnswersTo(plan[i].kind),
             reply' = [reply EXCEPT ![i] = x], Stored' = Stored
      PROVE  RepliesOK'
  <2>1. /\ DOMAIN reply' = 1..Total /\ reply'[i] = x
        /\ \A k \in 1..Total : k # i => reply'[k] = reply[k]
    BY <1>6 DEF RepliesOK
  <2>2. \A k \in 1..Total : answer'[k] \in {Null, "ERROR", "BROKEN", reply'[k]}
    BY <1>6, <2>1 DEF RepliesOK
  <2>3. \A k \in 1..Total : reply[k] # Null => reply'[k] = reply[k]
    BY <1>6, <2>1
  <2>4. \A k \in 1..Total : reply'[k] # Null => reply'[k] \in AnswersTo(plan[k].kind)
    BY <1>6, <2>1 DEF RepliesOK
  <2>5. \A k \in 1..Total :
          reply'[k] \in {"CREATED", "DUPLICATE", "IGNORED"} => reply'[k] = reply[k] /\ k # i
    BY <1>6, <2>1
  <2>6. \A e \in Stored : \E k \in 1..Total :
          plan[k].kind # "invalid" /\ plan[k].body.event = e /\ Creates(k)'
    BY <1>3, <2>3 DEF RepliesOK, Creates
  <2>7. QED BY <1>1, <1>6, <2>1, <2>2, <2>4, <2>5, <2>6 DEF RepliesOK
<1>7. ASSUME NEW i \in 1..Total, Serve(i)
      PROVE  RepliesOK'
  <2>1. reply[i] = Null /\ UNCHANGED answer
    BY <1>7 DEF Serve
  <2>2. CASE plan[i].kind = "invalid"
    <3>1. reply' = [reply EXCEPT ![i] = "UNAUTHORIZED"] /\ Stored' = Stored
      BY <1>7, <2>2, UnsignedServe DEF Stored, tables
    <3>2. QED BY <1>6, <2>1, <2>2, <3>1 DEF AnswersTo
  <2>3. CASE plan[i].kind # "invalid"
    <3> DEFINE e == plan[i].body.event
    <3>0. PICK stale \in BOOLEAN :
            /\ plan[i].kind = "stale" => stale
            /\ reply' = [reply EXCEPT ![i] =
                 IF e \in Stored THEN "DUPLICATE"
                 ELSE IF stale THEN "IGNORED" ELSE "CREATED"]
      BY <1>7, <2>3, ServeReply
    <3> DEFINE told == IF e \in Stored THEN "DUPLICATE"
                       ELSE IF stale THEN "IGNORED" ELSE "CREATED"
    <3>1. /\ e \in EventIds /\ Stored' = Stored \union {e}
          /\ reply' = [reply EXCEPT ![i] = told]
      BY <1>7, <2>3, <3>0, ServeReply
    <3>2. plan[i].kind = "stale" => e \notin Stored
      <4>1. ASSUME NEW k \in 1..Total, plan[k].kind # "invalid", plan[k].body.event = e,
                   plan[i].kind = "stale"
            PROVE  k = i
        BY <4>1, <2>3 DEF DataInv, PlanOK, Sound, Total
      <4>2. QED BY <1>3, <2>1, <4>1 DEF RepliesOK, Creates
    <3>3. told \in AnswersTo(plan[i].kind)
      BY <2>3, <3>0, <3>2 DEF AnswersTo
    <3>4. told \in {"CREATED", "DUPLICATE", "IGNORED"} /\ told # Null
      BY <1>3
    <3>5. told # "DUPLICATE" <=> e \notin Stored
      OBVIOUS
    <3> HIDE DEF told
    <3>6. /\ DOMAIN reply' = 1..Total /\ reply'[i] = told
          /\ \A k \in 1..Total : k # i => reply'[k] = reply[k]
      BY <3>1 DEF RepliesOK
    <3>7. \A k \in 1..Total : answer'[k] \in {Null, "ERROR", "BROKEN", reply'[k]}
      BY <2>1, <3>6 DEF RepliesOK
    <3>8. \A k \in 1..Total : reply'[k] # Null => reply'[k] \in AnswersTo(plan[k].kind)
      BY <3>3, <3>6 DEF RepliesOK
    <3>9. \A k \in 1..Total : reply'[k] \in {"CREATED", "DUPLICATE", "IGNORED"} =>
            plan[k].body.event \in Stored'
      BY <3>1, <3>6 DEF RepliesOK
    <3>10. ASSUME NEW f \in Stored'
           PROVE  \E k \in 1..Total :
                    plan[k].kind # "invalid" /\ plan[k].body.event = f /\ Creates(k)'
      <4>1. CASE f \in Stored
        <5>1. PICK k \in 1..Total :
                plan[k].kind # "invalid" /\ plan[k].body.event = f /\ Creates(k)
          BY <4>1 DEF RepliesOK
        <5>2. k # i
          BY <1>3, <2>1, <5>1 DEF Creates
        <5>3. QED BY <3>6, <5>1, <5>2 DEF Creates
      <4>2. CASE f \notin Stored
        <5>1. f = e /\ told \in {"CREATED", "IGNORED"}
          BY <3>1, <3>4, <3>5, <4>2
        <5>2. QED BY <2>3, <3>6, <5>1 DEF Creates
      <4>3. QED BY <4>1, <4>2
    <3>11. ASSUME NEW k \in 1..Total, NEW l \in 1..Total,
                  reply'[k] = "CREATED", reply'[l] = "CREATED",
                  plan[k].body.event = plan[l].body.event
           PROVE  k = l
      <4>1. told = "CREATED" => \A m \in 1..Total :
              plan[m].body.event = e => reply[m] # "CREATED"
        BY <3>5 DEF RepliesOK
      <4>2. QED BY <3>6, <3>11, <4>1 DEF RepliesOK
    <3>12. QED
      BY <1>1, <2>1, <3>6, <3>7, <3>8, <3>9, <3>10, <3>11 DEF RepliesOK
  <2>4. QED BY <2>2, <2>3
<1>8. ASSUME NEW i \in 1..Total, ServeFails(i)
      PROVE  RepliesOK'
  <2>1. /\ reply[i] = Null /\ UNCHANGED answer /\ reply' = [reply EXCEPT ![i] = "ERROR"]
        /\ Stored' = Stored
    BY <1>8 DEF ServeFails, Reply, Stored, tables
  <2>2. "ERROR" \in AnswersTo(plan[i].kind)
    BY DEF AnswersTo
  <2>3. QED BY <1>6, <2>1, <2>2
<1>9. ASSUME NEW i \in 1..Total, Receive(i) \/ RequestFails(i) \/ ResponseBreaks(i),
             \A k \in 1..Total : ~Serve(k)
      PROVE  RepliesOK'
  BY <1>5, <1>9 DEF Receive, RequestFails, ResponseBreaks, NoResponseTo
<1>10. QED
  BY <1>4, <1>7, <1>8, <1>9
     DEF SimulationNext, SimulatorStep, ServiceStep, TakeNext, StartPolling, Poll,
         FinalFetch, Decide, EndPolling, PollBreaks, Report, simVars, simulationVars

(* Whoever was told that its event is ignored has stored it as too old,    *)
(* and so it stays.                                                        *)
LateOK ==
  \A i \in 1..Total : reply[i] = "IGNORED" => ServedTooLate(plan[i].body.event)

LEMMA LateStays ==
  ASSUME DataInv, [SimulationNext]_simulationVars, NEW e \in EventIds, ServedTooLate(e)
  PROVE  ServedTooLate(e)'
BY RowStep DEF ServedTooLate, Moves, Keeps, Arrives, Waiting

LEMMA LateInit == SimulationInit => LateOK
BY SimulationAssumption DEF SimulationInit, LateOK, DeliveryResults

LEMMA LateStep ==
  ASSUME DataInv, RepliesOK, LateOK, [SimulationNext]_simulationVars
  PROVE  LateOK'
<1>1. plan' = plan /\ Total' = Total
  BY PlanStep DEF Total
<1>2. ASSUME NEW k \in 1..Total, reply'[k] = reply[k], reply'[k] = "IGNORED"
      PROVE  ServedTooLate(plan[k].body.event)'
  <2>1. plan[k].body.event \in EventIds
    BY BodyFacts DEF DataInv, PlanOK, Sound, Total
  <2>2. ServedTooLate(plan[k].body.event)
    BY <1>2 DEF LateOK
  <2> DEFINE e == plan[k].body.event
  <2>3. e \in EventIds /\ ServedTooLate(e) /\ e' = e
    BY <1>1, <2>1, <2>2
  <2> HIDE DEF e
  <2>4. events'[e].status = "IGNORED" /\ events'[e].reason = "STALE_TIMESTAMP"
    BY <2>3, LateStays DEF ServedTooLate
  <2>5. QED BY <1>1, <2>4 DEF ServedTooLate, e
<1>3. CASE UNCHANGED reply
  BY <1>1, <1>2, <1>3 DEF LateOK
<1>4. ASSUME NEW i \in 1..Total, NEW x, reply' = [reply EXCEPT ![i] = x],
             x = "IGNORED" => ServedTooLate(plan[i].body.event)'
      PROVE  LateOK'
  <2>1. reply'[i] = x /\ \A k \in 1..Total : k # i => reply'[k] = reply[k]
    BY <1>4 DEF RepliesOK
  <2>2. QED BY <1>1, <1>2, <1>4, <2>1 DEF LateOK
<1>5. ASSUME NEW i \in 1..Total, Serve(i)
      PROVE  LateOK'
  <2>1. CASE plan[i].kind = "invalid"
    BY <1>4, <1>5, <2>1, UnsignedServe
  <2>2. CASE plan[i].kind # "invalid"
    <3>1. PICK stale \in BOOLEAN :
            /\ stale /\ plan[i].body.event \notin Stored =>
                 ServedTooLate(plan[i].body.event)'
            /\ reply' = [reply EXCEPT ![i] =
                 IF plan[i].body.event \in Stored THEN "DUPLICATE"
                 ELSE IF stale THEN "IGNORED" ELSE "CREATED"]
      BY <1>5, <2>2, ServeReply
    <3> DEFINE told == IF plan[i].body.event \in Stored THEN "DUPLICATE"
                       ELSE IF stale THEN "IGNORED" ELSE "CREATED"
    <3>2. /\ reply' = [reply EXCEPT ![i] = told]
          /\ told = "IGNORED" => ServedTooLate(plan[i].body.event)'
      BY <3>1
    <3> HIDE DEF told
    <3>3. QED BY <1>4, <3>2
  <2>3. QED BY <2>1, <2>2
<1>6. ASSUME NEW i \in 1..Total, ServeFails(i)
      PROVE  LateOK'
  BY <1>4, <1>6 DEF ServeFails, Reply
<1>7. QED
  BY <1>3, <1>5, <1>6
     DEF SimulationNext, SimulatorStep, ServiceStep, TakeNext, Receive, RequestFails,
         ResponseBreaks, NoResponseTo, StartPolling, Poll, FinalFetch, Decide,
         EndPolling, PollBreaks, Report, ChaosNext, simVars, simulationVars

-----------------------------------------------------------------------------
(* No order gets ahead of its last event                                   *)

(* A finite set of places has one whose sequence is not exceeded.          *)
LEMMA LastExists ==
  ASSUME NEW S, IsFiniteSet(S), S # {}, NEW seq \in [S -> Nat]
  PROVE  \E i \in S : \A j \in S : seq[j] <= seq[i]
<1> DEFINE Above(i) == {j \in S : seq[j] > seq[i]}
           T == {Above(i) : i \in S}
<1>1. T \subseteq FiniteSubsetsOf(S) /\ T # {}
  <2>1. ASSUME NEW i \in S
        PROVE  Above(i) \subseteq S /\ IsFiniteSet(Above(i))
    <3>1. Above(i) \in SUBSET S
      OBVIOUS
    <3> HIDE DEF Above
    <3>2. QED BY <3>1, FS_Subset
  <2> HIDE DEF Above
  <2>2. QED BY <2>1 DEF FiniteSubsetsOf
<1>2. IsWellFoundedOn(StrictSubsetOrdering(S), FiniteSubsetsOf(S))
  BY FS_StrictSubsetOrderingWellFounded
<1>3. PICK U \in T : \A V \in T : <<V, U>> \notin StrictSubsetOrdering(S)
  <2> HIDE DEF T
  <2>1. \E U \in T : \A V \in T : ~ (<<V, U>> \in StrictSubsetOrdering(S))
    BY <1>1, <1>2, WFMin
  <2>2. QED BY <2>1
<1>4. PICK i \in S : U = Above(i)
  BY <1>3
<1>5. ASSUME NEW j \in S, seq[j] > seq[i]
      PROVE  FALSE
  <2>1. Above(j) \subseteq Above(i) /\ j \in Above(i) /\ j \notin Above(j)
    BY <1>5
  <2>2. Above(j) \in T /\ Above(j) \in SUBSET S /\ Above(i) \in SUBSET S
    OBVIOUS
  <2>3. <<Above(j), Above(i)>> \in StrictSubsetOrdering(S)
    <3> HIDE DEF Above
    <3>1. QED BY <2>1, <2>2 DEF StrictSubsetOrdering
  <2>4. QED BY <1>3, <1>4, <2>2, <2>3
<1>6. QED BY <1>5

(* No base event of an order is newer than its expected state.             *)
LEMMA ExpectedIsLast ==
  ASSUME PlanOK, NEW o, NEW k \in 1..Total, plan[k].kind = "base", plan[k].body.order = o
  PROVE  /\ plan[k].body.seq \in Nat /\ ExpectedState(plan, o).seq \in Nat
         /\ plan[k].body.seq <= ExpectedState(plan, o).seq
<1> DEFINE S == {i \in 1..Total : plan[i].kind = "base" /\ plan[i].body.order = o}
           seq == [i \in S |-> plan[i].body.seq]
           Base == BodiesOfKinds(plan, {"base"})
<1>1. DOMAIN plan = 1..Total /\ \A i \in 1..Total : plan[i].body \in Bodies
  BY DEF PlanOK, Sound, Total
<1>2. seq \in [S -> Nat]
  <2>1. ASSUME NEW i \in S
        PROVE  plan[i].body.seq \in Nat
    BY <1>1, TablesAssumption DEF Body
  <2>2. QED BY <2>1
<1>3. IsFiniteSet(S) /\ S # {}
  <2>1. Total \in Nat
    BY SimulationAssumption DEF PlanOK, Option, Total, Deliveries
  <2>2. IsFiniteSet(1..Total) /\ S \in SUBSET (1..Total)
    BY <2>1, FS_Interval
  <2> HIDE DEF S
  <2>3. IsFiniteSet(S)
    BY <2>2, FS_Subset
  <2>4. QED BY <2>3 DEF S
<1>4. PICK i \in S : \A j \in S : seq[j] <= seq[i]
  <2> HIDE DEF S, seq
  <2>1. QED BY <1>2, <1>3, LastExists
<1>5. \A c \in Base : c.order = o => \E j \in S : c = plan[j].body
  BY <1>1 DEF BodiesOfKinds
<1>6. \A j \in S : plan[j].body \in Base /\ plan[j].body.order = o
  BY <1>1 DEF BodiesOfKinds
<1>7. \A c \in Base : c.order = o => c.seq <= plan[i].body.seq
  BY <1>4, <1>5
<1> DEFINE Newest(b) == b.order = o /\ \A c \in Base : c.order = o => c.seq <= b.seq
           last == CHOOSE b \in Base : Newest(b)
<1>8. last \in Base /\ Newest(last)
  <2>1. plan[i].body \in Base /\ Newest(plan[i].body)
    BY <1>6, <1>7
  <2> HIDE DEF Newest, Base
  <2>2. QED BY <2>1
<1>9. ExpectedState(plan, o).seq = last.seq
  BY DEF ExpectedState
<1>10. /\ plan[k].body \in Base /\ plan[k].body.order = o
       /\ \A c \in Base : c.seq \in Nat
  BY <1>1, TablesAssumption DEF BodiesOfKinds, Body
<1> HIDE DEF last, Base
<1>11. QED BY <1>8, <1>9, <1>10

(* An order without a row has sequence 0, any other that of a base event:  *)
(* noise has the sequence of what it was made from.                        *)
Reached(o, s) ==
  \/ s = 0
  \/ \E i \in 1..Total :
       plan[i].kind = "base" /\ plan[i].body.order = o /\ plan[i].body.seq = s

SeqOK ==
  /\ DOMAIN orders = Orders
  /\ \A o \in Orders : DOMAIN orders[o] = DOMAIN NoOrderRow /\ Reached(o, orders[o].seq)
  /\ \A w \in Workers :
       worker[w].pc = "locked" =>
         /\ DOMAIN worker[w].order = DOMAIN NoOrderRow
         /\ Reached(ClaimedOrder(w), worker[w].order.seq)

LEMMA SeqInit == SimulationInit => SeqOK
BY DEF SimulationInit, TablesInit, WorkerInit, NoOrderRow, Idle, SeqOK, Reached

LEMMA ReachedStep ==
  ASSUME [SimulationNext]_simulationVars, NEW o, NEW s
  PROVE  Reached(o, s)' <=> Reached(o, s)
BY PlanStep DEF Reached, Total

(* What is stored of an order leads to the sequence of a base event.       *)
LEMMA PlannedIsReached ==
  ASSUME PlanOK, NEW e, NEW body, Planned(e, body)
  PROVE  Reached(body.order, body.seq)
<1>1. PICK i \in 1..Total : plan[i].kind # "invalid" /\ plan[i].body = body
  BY DEF Planned
<1>2. plan[i].kind \in {"base", "duplicate", "stale"}
  BY <1>1 DEF PlanOK, Sound, Kinds, Total
<1>3. \E j \in 1..Total : /\ plan[j].kind = "base" /\ plan[j].body.order = body.order
                          /\ plan[j].body.seq = body.seq
  BY <1>1, <1>2 DEF PlanOK, Sound, Total
<1>4. QED BY <1>3 DEF Reached

LEMMA SeqStep ==
  ASSUME DataInv, SeqOK, [SimulationNext]_simulationVars
  PROVE  SeqOK'
<1>0. /\ DOMAIN orders = Orders /\ DOMAIN worker = Workers
      /\ \A w \in Workers : DOMAIN worker[w] = DOMAIN Idle
  BY DEF SeqOK, DataInv, HoldsOK
<1>1. \A o, s : Reached(o, s)' <=> Reached(o, s)
  BY ReachedStep
<1> DEFINE Locked(w) == worker'[w].pc = "locked" =>
                          /\ DOMAIN worker'[w].order = DOMAIN NoOrderRow
                          /\ Reached(ClaimedOrder(w), worker[w].order.seq)'
<1>2. ASSUME NEW w \in Workers, worker'[w] = worker[w]
      PROVE  Locked(w)
  BY <1>1, <1>2 DEF SeqOK, ClaimedOrder
<1>3. CASE UNCHANGED <<orders, worker>>
  BY <1>1, <1>2, <1>3 DEF SeqOK
<1>4. ASSUME UNCHANGED orders, NEW v \in Workers, worker'[v].pc # "locked",
             \A w \in Workers \ {v} : worker'[w] = worker[w]
      PROVE  SeqOK'
  <2>1. ASSUME NEW w \in Workers
        PROVE  Locked(w)
    BY <1>0, <1>2, <1>4
  <2>2. QED BY <1>1, <1>4, <2>1 DEF SeqOK
<1>5. ASSUME NEW v \in Workers, LockOrder(v)
      PROVE  SeqOK'
  <2> DEFINE o == ClaimedOrder(v)
  <2>1. /\ UNCHANGED orders
        /\ worker' = [worker EXCEPT ![v] =
             [@ EXCEPT !.pc = "locked", !.order = InsertOrderIfMissing(orders[o])]]
    BY <1>5 DEF LockOrder, tables
  <2>2. o \in Orders
    <3>1. Holds(v, ClaimedEvent(v))
      BY <1>5 DEF LockOrder, Open, DataInv, HoldsOK
    <3>2. Planned(ClaimedEvent(v), worker[v].event.body)
      BY <3>1 DEF Holds, Waiting, DataInv, RowsOK
    <3>3. QED BY <3>2, BodyFacts DEF Planned, ClaimedOrder, DataInv, PlanOK, Sound, Total
  <2>3. Locked(v)
    <3>1. /\ worker'[v].order = InsertOrderIfMissing(orders[o])
          /\ worker'[v].event = worker[v].event
      BY <1>0, <2>1 DEF Idle
    <3>2. DOMAIN orders[o] = DOMAIN NoOrderRow /\ Reached(o, orders[o].seq)
      BY <2>2 DEF SeqOK
    <3>3. /\ DOMAIN worker'[v].order = DOMAIN NoOrderRow
          /\ worker'[v].order.seq = orders[o].seq
      BY <3>1, <3>2 DEF InsertOrderIfMissing, NoOrderRow
    <3>4. QED BY <1>1, <3>1, <3>2, <3>3 DEF ClaimedOrder
  <2>4. ASSUME NEW w \in Workers, w # v
        PROVE  Locked(w)
    BY <1>0, <1>2, <2>1, <2>4
  <2>5. QED BY <1>1, <2>1, <2>3, <2>4 DEF SeqOK
<1>6. ASSUME NEW v \in Workers, CommitResult(v)
      PROVE  SeqOK'
  <2> DEFINE o == ClaimedOrder(v)
             body == worker[v].event.body
             old == worker[v].order
             new == Process(body, old).order
  <2>1. /\ worker[v].pc = "locked" /\ orders' = [orders EXCEPT ![o] = new]
        /\ worker' = [worker EXCEPT ![v] = Idle]
    BY <1>6 DEF CommitResult, EndTransaction
  <2>2. DOMAIN old = DOMAIN NoOrderRow /\ Reached(o, old.seq)
    BY <2>1 DEF SeqOK
  <2>3. Reached(o, body.seq)
    <3>1. Holds(v, ClaimedEvent(v))
      BY <2>1 DEF Open, DataInv, HoldsOK
    <3>2. Planned(ClaimedEvent(v), body)
      BY <3>1 DEF Holds, Waiting, DataInv, RowsOK
    <3>3. QED BY <3>2, PlannedIsReached DEF ClaimedOrder, DataInv
  <2>4. DOMAIN new = DOMAIN NoOrderRow /\ new.seq \in {old.seq, body.seq}
    BY <2>2 DEF Process, Ignored, Applied, NoOrderRow
  <2>5. ASSUME NEW p \in Orders
        PROVE  DOMAIN orders'[p] = DOMAIN NoOrderRow /\ Reached(p, orders'[p].seq)
    <3>1. CASE p = o
      <4>1. orders'[p] = new
        BY <1>0, <2>1, <3>1
      <4> HIDE DEF new, o, body, old
      <4>2. QED BY <2>2, <2>3, <2>4, <3>1, <4>1
    <3>2. CASE p # o
      BY <1>0, <2>1, <3>2 DEF SeqOK
    <3>3. QED BY <3>1, <3>2
  <2>6. ASSUME NEW w \in Workers
        PROVE  Locked(w)
    BY <1>0, <1>2, <2>1 DEF Idle
  <2>7. DOMAIN orders' = Orders
    BY <1>0, <2>1
  <2>8. \A p \in Orders : Reached(p, orders[p].seq)'
    BY <1>1, <2>5
  <2>9. QED BY <2>5, <2>6, <2>7, <2>8 DEF SeqOK
<1>7. ASSUME NEW i \in 1..Total, Serve(i)
      PROVE  UNCHANGED <<orders, worker>>
  BY <1>7 DEF Serve, Ingest, tables
<1>8. ASSUME NEW v \in Workers, Claim(v) \/ BusinessError(v) \/ Restart(v)
      PROVE  SeqOK'
  <2>1. UNCHANGED orders
    BY <1>8 DEF Claim, BusinessError, Restart, tables
  <2>2. /\ worker'[v].pc # "locked"
        /\ \A w \in Workers \ {v} : worker'[w] = worker[w]
    <3>1. CASE Claim(v)
      <4>1. PICK e \in EventIds :
              worker' = [worker EXCEPT ![v] =
                [worker[v] EXCEPT !.pc = "claimed", !.event = events[e]]]
        BY <3>1 DEF Claim
      <4>2. QED BY <1>0, <4>1 DEF Idle
    <3>2. CASE BusinessError(v)
      <4>1. worker' = [worker EXCEPT ![v] =
              [worker[v] EXCEPT !.pc = "failed", !.order = Null]]
        BY <3>2 DEF BusinessError
      <4>2. QED BY <1>0, <4>1 DEF Idle
    <3>3. CASE Restart(v)
      BY <1>0, <3>3 DEF Restart, Idle
    <3>4. QED BY <1>8, <3>1, <3>2, <3>3
  <2>3. QED BY <1>4, <2>1, <2>2
<1>9. ASSUME NEW v \in Workers, Ends(v), ~CommitResult(v)
      PROVE  SeqOK'
  <2>1. UNCHANGED orders
    BY <1>9 DEF Ends, ScheduleRetry, SendToDlq, AbortTransaction, Crash, tables
  <2>2. /\ worker'[v].pc # "locked"
        /\ \A w \in Workers \ {v} : worker'[w] = worker[w]
    BY <1>0, <1>9, EndFrame
  <2>3. QED BY <1>4, <2>1, <2>2
<1>10. QED
  BY <1>3, <1>5, <1>6, <1>7, <1>8, <1>9, StepCases DEF Tick, tables

-----------------------------------------------------------------------------
(* What has happened when the burst is over, and why an order failed       *)

SomeDeadLetter == \E e \in EventIds : events[e].status = "DLQ"

(* After the burst the deliveries are answered and the cycle has ended; a  *)
(* verdict is missing after the polling only if the deadline has passed.   *)
BurstOK ==
  /\ phase # "sending" =>
       sent = Total /\ (\A i \in 1..Total : answer[i] \notin {Null, "BROKEN"}) /\ CycleOver
  /\ phase \in {"sending", "polling"} => ~late
  /\ phase \notin {"sending", "polling", "stuck"} => Undecided = {} \/ late
  /\ phase \in {"passed", "failed"} => Undecided = {}

(* What the report goes by does not change any more.                       *)
LEMMA AfterTheBurst ==
  ASSUME BurstOK, [SimulationNext]_simulationVars, phase # "sending"
  PROVE  phase' # "sending" /\ sent' = sent /\ answer' = answer /\ chaos' = chaos
<1>1. InFlight = {} /\ sent = Total
  BY DEF BurstOK, InFlight
<1>2. chaos.pc \in {"armed", "done", "broken"}
  BY DEF BurstOK, CycleOver
<1>3. CASE ChaosNext /\ UNCHANGED simVars
  <2>1. ~CoordinatorStep
    BY <1>2 DEF CoordinatorStep, Proceeds, KillReturns, CountAfterKill, DelayPasses,
         UpReturns, UpFails, WaitEnds, CommandFails, Goto
  <2>2. UNCHANGED chaos
    BY <1>3, <2>1 DEF ChaosNext, ContainerDies, ContainerStarts
  <2>3. QED BY <1>3, <2>2 DEF simVars
<1>4. CASE UNCHANGED simulationVars
  BY <1>4 DEF simulationVars, simVars
<1>5. CASE ServiceStep
  BY <1>5 DEF ServiceStep, Serve, ServeFails, simVars
<1>6. ASSUME NEW i \in 1..Total, Receive(i) \/ RequestFails(i) \/ ResponseBreaks(i)
      PROVE  FALSE
  BY <1>1, <1>6 DEF Receive, RequestFails, ResponseBreaks, NoResponseTo
<1>7. CASE EndPolling \/ PollBreaks \/ Report \/ \E o \in Undecided : Poll(o) \/ FinalFetch(o)
  BY <1>7 DEF EndPolling, PollBreaks, Report, Poll, FinalFetch, Decide
<1>8. QED
  BY <1>3, <1>4, <1>5, <1>6, <1>7
     DEF SimulationNext, SimulatorStep, TakeNext, StartPolling

LEMMA BurstStep ==
  ASSUME RepliesOK, VerdictsOK, PlanOK, BurstOK, [SimulationNext]_simulationVars
  PROVE  BurstOK'
<1>1. Total' = Total /\ Expected' = Expected
  BY PlanStep DEF Total, Expected
<1>2. CASE UNCHANGED <<phase, late, verdict>>
  <2>1. Undecided' = Undecided
    BY <1>1, <1>2 DEF Undecided
  <2>2. phase # "sending" => sent' = sent /\ answer' = answer /\ chaos' = chaos
    BY AfterTheBurst
  <2>3. QED BY <1>1, <1>2, <2>1, <2>2 DEF BurstOK, CycleOver
<1>3. CASE StartPolling
  <2>1. /\ phase' = "polling" /\ UNCHANGED <<sent, answer, chaos, late>> /\ ~late
        /\ sent = Total /\ InFlight \union BrokenOff = {} /\ CycleOver
    BY <1>3 DEF StartPolling, BurstOver, BurstOK
  <2>2. \A i \in 1..Total : answer[i] \notin {Null, "BROKEN"}
    BY <2>1 DEF InFlight, BrokenOff
  <2>3. QED BY <1>1, <2>1, <2>2 DEF BurstOK, CycleOver
<1>4. CASE EndPolling
  <2>1. phase = "polling" /\ phase' = "final" /\ late' = (Undecided # {}) /\ UNCHANGED verdict
    BY <1>4 DEF EndPolling
  <2>2. Undecided' = Undecided
    BY <1>1, <2>1 DEF Undecided
  <2>3. sent' = sent /\ answer' = answer /\ chaos' = chaos
    BY <2>1, AfterTheBurst
  <2>4. QED BY <1>1, <2>1, <2>2, <2>3 DEF BurstOK, CycleOver
<1>5. CASE Report
  <2>1. /\ phase = "final" /\ Undecided = {} /\ phase' \in {"passed", "failed"}
        /\ UNCHANGED <<verdict, late>>
    BY <1>5 DEF Report
  <2>2. Undecided' = Undecided
    BY <1>1, <2>1 DEF Undecided
  <2>3. sent' = sent /\ answer' = answer /\ chaos' = chaos
    BY <2>1, AfterTheBurst
  <2>4. QED BY <1>1, <2>1, <2>2, <2>3 DEF BurstOK, CycleOver
<1>6. CASE PollBreaks
  <2>1. /\ phase \in {"polling", "final"} /\ phase' = "stuck"
        /\ UNCHANGED <<sent, answer, chaos, late, verdict>>
    BY <1>6 DEF PollBreaks
  <2>2. QED BY <1>1, <2>1 DEF BurstOK, CycleOver
<1>7. ASSUME NEW o \in Undecided, Poll(o) \/ FinalFetch(o)
      PROVE  BurstOK'
  <2>1. phase \in {"polling", "final"} /\ UNCHANGED <<phase, late>>
    BY <1>7 DEF Poll, FinalFetch, Decide
  <2>2. phase = "final" => late
    BY <1>7 DEF BurstOK
  <2>3. sent' = sent /\ answer' = answer /\ chaos' = chaos
    BY <2>1, AfterTheBurst
  <2>4. QED BY <1>1, <2>1, <2>2, <2>3 DEF BurstOK, CycleOver
<1>8. QED
  BY <1>2, <1>3, <1>4, <1>5, <1>6, <1>7
     DEF SimulationNext, SimulatorStep, ServiceStep, TakeNext, Receive, RequestFails,
         ResponseBreaks, NoResponseTo, PollBreaks, Serve, ServeFails, simVars,
         simulationVars

(* An order has failed because of a dead letter, or because of the         *)
(* deadline.                                                               *)
FailuresOK ==
  \A o \in Expected :
    verdict[o] # Null /\ ~verdict[o].converged => late \/ SomeDeadLetter

LEMMA DeadLettersStay ==
  ASSUME DataInv, SomeDeadLetter, [SimulationNext]_simulationVars
  PROVE  SomeDeadLetter'
<1>1. PICK e \in EventIds : events[e].status = "DLQ"
  BY DEF SomeDeadLetter
<1>2. events'[e].status = "DLQ"
  BY <1>1, RowStep DEF Moves, Keeps, Arrives, Waiting
<1>3. QED BY <1>2 DEF SomeDeadLetter

LEMMA PolledHasReason ==
  ASSUME DataInv, SeqOK, NEW o \in Expected, Check(o).terminalFail
  PROVE  SomeDeadLetter
<1> DEFINE detail == OrderDetail(o)
           expected == ExpectedState(plan, o)
           ids == ExpectedEvents(plan, o)
           known == DOMAIN detail.status
           dlq == {e \in ids \intersect known : detail.status[e] = "DLQ"}
<1>1. /\ detail.order = orders[o]
      /\ known = {f \in Stored : events[f].body.order = o}
      /\ \A e \in known : detail.status[e] = events[e].status
  BY DEF OrderDetail
<1>2. CASE SameState(detail.order, expected)
  <2>1. dlq # {}
    BY <1>2 DEF Check, CheckOrder
  <2> HIDE DEF detail
  <2>2. QED BY <1>1, <2>1 DEF SomeDeadLetter, Stored
<1>3. CASE ~SameState(detail.order, expected)
  <2>1. orders[o].seq > expected.seq
    BY <1>1, <1>3 DEF Check, CheckOrder
  <2>2. o \in Orders
    BY ExpectedAreOrders DEF DataInv
  <2>3. Reached(o, orders[o].seq)
    BY <2>2 DEF SeqOK
  <2>4. PICK k \in 1..Total : plan[k].kind = "base" /\ plan[k].body.order = o
    BY DEF Expected, ExpectedOrders, BodiesOfKinds, DataInv, PlanOK, Sound, Total
  <2> HIDE DEF expected
  <2>5. /\ expected.seq \in Nat
        /\ \A i \in 1..Total : plan[i].kind = "base" /\ plan[i].body.order = o =>
             plan[i].body.seq \in Nat /\ plan[i].body.seq <= expected.seq
    BY <2>4, ExpectedIsLast DEF DataInv, expected
  <2>6. QED BY <2>1, <2>3, <2>5 DEF Reached
<1>4. QED BY <1>2, <1>3

LEMMA FailuresStep ==
  ASSUME DataInv, SeqOK, VerdictsOK, BurstOK, FailuresOK, [SimulationNext]_simulationVars
  PROVE  FailuresOK'
<1>1. Expected' = Expected /\ Expected \subseteq Orders /\ DOMAIN verdict = Orders
  BY PlanStep, ExpectedAreOrders DEF Expected, DataInv, VerdictsOK
<1>2. SomeDeadLetter => SomeDeadLetter'
  BY DeadLettersStay
<1>3. CASE UNCHANGED <<verdict, late>>
  BY <1>1, <1>2, <1>3 DEF FailuresOK
<1>4. CASE EndPolling
  BY <1>1, <1>2, <1>4 DEF EndPolling, FailuresOK, BurstOK
<1>5. ASSUME NEW o \in Undecided, NEW v, Decide(o, v), ~v.converged => late \/ SomeDeadLetter
      PROVE  FailuresOK'
  <2>1. o \in Orders
    BY <1>1 DEF Undecided
  <2>2. verdict' = [verdict EXCEPT ![o] = v] /\ late' = late
    BY <1>5 DEF Decide
  <2>3. QED BY <1>1, <1>2, <1>5, <2>1, <2>2 DEF FailuresOK
<1>6. ASSUME NEW o \in Undecided, Poll(o)
      PROVE  FailuresOK'
  <2>1. Decide(o, Check(o)) /\ (Check(o).converged \/ Check(o).terminalFail)
    BY <1>6 DEF Poll
  <2>2. Check(o).terminalFail => SomeDeadLetter
    BY PolledHasReason DEF Undecided
  <2>3. QED BY <1>5, <2>1, <2>2
<1>7. ASSUME NEW o \in Undecided, FinalFetch(o)
      PROVE  FailuresOK'
  <2>1. late
    BY <1>7 DEF FinalFetch, BurstOK
  <2>2. QED BY <1>5, <1>7, <2>1 DEF FinalFetch
<1>8. QED
  BY <1>3, <1>4, <1>6, <1>7
     DEF SimulationNext, SimulatorStep, ServiceStep, TakeNext, Receive, RequestFails,
         ResponseBreaks, NoResponseTo, PollBreaks, StartPolling, Report, Serve,
         ServeFails, simVars, simulationVars

-----------------------------------------------------------------------------
(* Without a failed request the answers add up                             *)

Answered(result) == {i \in 1..Total : answer[i] = result}

AllAnswered == \A i \in 1..Total : answer[i] \notin {Null, "ERROR", "BROKEN"}

(* An event of the run was served too late.                                *)
SomeLate == \E i \in 1..Total : plan[i].kind = "base" /\ ServedTooLate(plan[i].body.event)

LEMMA InTime ==
  ASSUME PlanOK, LateOK, ~SomeLate, NEW i \in 1..Total, plan[i].kind \in {"base", "duplicate"}
  PROVE  reply[i] # "IGNORED"
<1>1. \E j \in 1..Total : plan[j].kind = "base" /\ plan[j].body = plan[i].body
  BY DEF PlanOK, Sound, Total
<1>2. QED BY <1>1 DEF SomeLate, LateOK

LEMMA AnsweredByKind ==
  ASSUME PlanOK, RepliesOK, LateOK, ~SomeLate, AllAnswered
  PROVE  /\ Answered("UNAUTHORIZED") = Places(plan, options, "invalid")
         /\ Answered("IGNORED") = Places(plan, options, "stale")
         /\ Answered("CREATED") \union Answered("DUPLICATE") =
              Places(plan, options, "base") \union Places(plan, options, "duplicate")
         /\ Answered("REJECTED") = {}
         /\ \A i \in 1..Total : answer[i] = reply[i]
<1>1. ASSUME NEW i \in 1..Total
      PROVE  /\ answer[i] = reply[i]
             /\ plan[i].kind \in Kinds
             /\ plan[i].kind = "invalid" => answer[i] = "UNAUTHORIZED"
             /\ plan[i].kind = "stale" => answer[i] = "IGNORED"
             /\ plan[i].kind \in {"base", "duplicate"} => answer[i] \in {"CREATED", "DUPLICATE"}
  <2>1. answer[i] = reply[i] /\ reply[i] \in AnswersTo(plan[i].kind) \ {"ERROR"}
    BY DEF AllAnswered, RepliesOK
  <2>2. plan[i].kind \in Kinds
    BY DEF PlanOK, Sound, Total
  <2>3. QED BY <2>1, <2>2, InTime DEF AnswersTo, Kinds
<1>2. QED BY <1>1 DEF Answered, Places, Kinds, Total

(* Every base event is created once, by itself or by a copy that was       *)
(* faster.                                                                 *)
LEMMA EachIsCreatedOnce ==
  ASSUME PlanOK, RepliesOK, LateOK, ~SomeLate, AllAnswered
  PROVE  Cardinality(Answered("CREATED")) = options.events
<1> DEFINE C == Answered("CREATED")
           f == [i \in C |-> plan[i].body.event]
<1>1. /\ Answered("CREATED") \union Answered("DUPLICATE") =
           Places(plan, options, "base") \union Places(plan, options, "duplicate")
      /\ \A i \in 1..Total : answer[i] = reply[i]
  BY AnsweredByKind
<1>2. /\ C \subseteq 1..Total
      /\ \A i \in 1..Total : i \in C <=> reply[i] = "CREATED"
  BY <1>1 DEF Answered
<1>3. ASSUME NEW i \in C
      PROVE  plan[i].body.event \in 1..options.events
  <2>1. i \in 1..Total /\ plan[i].kind \in {"base", "duplicate"}
    BY <1>1, <1>2 DEF Places
  <2>2. \E j \in 1..Total : plan[j].kind = "base" /\ plan[j].body = plan[i].body
    BY <2>1 DEF PlanOK, Sound, Total
  <2>3. QED BY <2>2 DEF PlanOK, Sound, Total
<1>4. ASSUME NEW e \in 1..options.events
      PROVE  \E i \in C : plan[i].body.event = e
  <2>1. PICK i \in 1..Total : plan[i].kind = "base" /\ plan[i].body.event = e
    BY DEF PlanOK, Sound, Total
  <2>2. reply[i] \in {"CREATED", "DUPLICATE"}
    BY <1>1, <2>1 DEF Places, Answered, Total
  <2>3. e \in Stored
    BY <2>1, <2>2 DEF RepliesOK
  <2>4. PICK k \in 1..Total :
          plan[k].kind # "invalid" /\ plan[k].body.event = e /\ Creates(k)
    BY <2>3 DEF RepliesOK
  <2>5. plan[k].kind \in {"base", "duplicate"}
    <3>1. plan[k].kind \in Kinds /\ (plan[k].kind = "stale" => k = i)
      BY <2>1, <2>4 DEF PlanOK, Sound, Total
    <3>2. QED BY <2>1, <2>4, <3>1 DEF Kinds
  <2>6. reply[k] \in {"CREATED", "DUPLICATE"}
    BY <1>1, <2>5 DEF Places, Answered, Total
  <2>7. reply[k] = "CREATED"
    BY <2>4, <2>6 DEF Creates
  <2>8. QED BY <1>2, <2>4, <2>7
<1>5. ASSUME NEW i \in C, NEW j \in C, plan[i].body.event = plan[j].body.event
      PROVE  i = j
  BY <1>2, <1>5 DEF RepliesOK
<1>6. options.events \in Nat /\ Total \in Nat
  BY SimulationAssumption DEF PlanOK, Option, Total, Deliveries
<1>7. IsFiniteSet(C)
  <2>1. IsFiniteSet(1..Total) /\ C \in SUBSET (1..Total)
    BY <1>2, <1>6, FS_Interval
  <2> HIDE DEF C
  <2>2. QED BY <2>1, FS_Subset
<1> HIDE DEF C
<1>8. f \in Bijection(C, 1..options.events)
  <2>1. f \in [C -> 1..options.events]
    BY <1>3
  <2>2. \A i, j \in C : f[i] = f[j] => i = j
    BY <1>5
  <2>3. \A e \in 1..options.events : \E i \in C : f[i] = e
    BY <1>4
  <2> HIDE DEF f
  <2>4. f \in Injection(C, 1..options.events)
    BY <2>1, <2>2, Fun_IsInj
  <2>5. f \in Surjection(C, 1..options.events)
    BY <2>1, <2>3, Fun_IsSurj
  <2>6. QED BY <2>4, <2>5 DEF Bijection
<1>9. Cardinality(1..options.events) = Cardinality(C)
  BY <1>7, <1>8, FS_Bijection DEF ExistsBijection
<1>10. Cardinality(1..options.events) = options.events
  <2>1. Cardinality(1..options.events) =
          IF 1 > options.events THEN 0 ELSE options.events - 1 + 1
    BY <1>6, FS_Interval
  <2>2. QED BY <1>6, <2>1
<1>11. QED BY <1>9, <1>10 DEF C

LEMMA AnswersAddUp ==
  ASSUME PlanOK, RepliesOK, LateOK, ~SomeLate, AllAnswered
  PROVE  /\ Count("REJECTED") = 0
         /\ Count("CREATED") = options.events
         /\ Count("DUPLICATE") = options.duplicates
         /\ Count("IGNORED") = options.stale
         /\ Count("UNAUTHORIZED") = options.invalid
<1> DEFINE B == Places(plan, options, "base")
           D == Places(plan, options, "duplicate")
           C == Answered("CREATED")
           E == Answered("DUPLICATE")
<1>1. \A result : Count(result) = Cardinality(Answered(result))
  BY DEF Count, Answered
<1>2. /\ Answered("UNAUTHORIZED") = Places(plan, options, "invalid")
      /\ Answered("IGNORED") = Places(plan, options, "stale")
      /\ C \union E = B \union D
      /\ Answered("REJECTED") = {}
  BY AnsweredByKind
<1>3. /\ Cardinality(B) = options.events /\ Cardinality(D) = options.duplicates
      /\ Cardinality(Places(plan, options, "invalid")) = options.invalid
      /\ Cardinality(Places(plan, options, "stale")) = options.stale
  BY DEF PlanOK, Counted
<1>4. Cardinality(C) = options.events
  BY EachIsCreatedOnce
<1>5. IsFiniteSet(B) /\ IsFiniteSet(D)
  BY PlacesAreFinite DEF PlanOK
<1>6. B \intersect D = {} /\ C \intersect E = {}
  BY DEF Places, Answered
<1>7. options.events \in Nat /\ options.duplicates \in Nat
  BY SimulationAssumption DEF PlanOK, Option
<1> HIDE DEF B, C, D, E
<1>8. Cardinality({}) = 0
  BY FS_EmptySet
<1>9. /\ IsFiniteSet(B \union D)
      /\ Cardinality(B \union D) = options.events + options.duplicates
  <2>1. /\ IsFiniteSet(B \union D)
        /\ Cardinality(B \union D) =
             Cardinality(B) + Cardinality(D) - Cardinality(B \intersect D)
    BY <1>5, FS_Union
  <2>2. Cardinality(B \intersect D) = 0
    BY <1>6, <1>8
  <2>3. Cardinality(B \union D) = options.events + options.duplicates - 0
    BY <1>3, <2>1, <2>2
  <2>4. QED BY <1>7, <2>1, <2>3
<1>10. IsFiniteSet(C) /\ IsFiniteSet(E)
  <2>1. C \in SUBSET (B \union D) /\ E \in SUBSET (B \union D)
    BY <1>2
  <2>2. QED BY <1>9, <2>1, FS_Subset
<1>11. Cardinality(E) = options.duplicates
  <2>1. Cardinality(C \union E) =
          Cardinality(C) + Cardinality(E) - Cardinality(C \intersect E)
    BY <1>10, FS_Union
  <2>2. Cardinality(E) \in Nat
    BY <1>10, FS_CardinalityType
  <2>3. options.events + options.duplicates = options.events + Cardinality(E) - 0
    BY <1>2, <1>4, <1>6, <1>8, <1>9, <2>1
  <2>4. QED BY <1>7, <2>2, <2>3
<1>12. QED BY <1>1, <1>2, <1>3, <1>4, <1>8, <1>11 DEF C, E

-----------------------------------------------------------------------------
(* A run fails for a reason                                                *)

HasReason ==
  \/ late
  \/ Count("ERROR") > 0
  \/ KillAt # 0 /\ chaos.pc \in {"armed", "broken"}
  \/ SomeDeadLetter
  \/ SomeLate

LEMMA SomeLateStays ==
  ASSUME DataInv, SomeLate, [SimulationNext]_simulationVars
  PROVE  SomeLate'
<1>1. PICK i \in 1..Total : plan[i].kind = "base" /\ ServedTooLate(plan[i].body.event)
  BY DEF SomeLate
<1>2. plan' = plan /\ Total' = Total
  BY PlanStep DEF Total
<1>3. PICK e \in EventIds : e = plan[i].body.event
  BY BodyFacts DEF DataInv, PlanOK, Sound, Total
<1>4. events'[e].status = "IGNORED" /\ events'[e].reason = "STALE_TIMESTAMP"
  BY <1>1, <1>3, LateStays DEF ServedTooLate
<1>5. QED BY <1>1, <1>2, <1>3, <1>4 DEF SomeLate, ServedTooLate

LEMMA OtherwiseItPasses ==
  ASSUME DataInv, RepliesOK, LateOK, BurstOK, FailuresOK,
         phase = "final", Undecided = {}, ~HasReason
  PROVE  Passed
<1>1. ~late /\ ~SomeDeadLetter /\ ~SomeLate /\ ~(Count("ERROR") > 0)
  BY DEF HasReason
<1>2. Answered("ERROR") = {} /\ Count("ERROR") = 0
  <2>1. Total \in Nat
    BY SimulationAssumption DEF DataInv, PlanOK, Option, Total, Deliveries
  <2>2. IsFiniteSet(1..Total) /\ Answered("ERROR") \in SUBSET (1..Total)
    BY <2>1, FS_Interval DEF Answered
  <2>3. IsFiniteSet(Answered("ERROR"))
    BY <2>2, FS_Subset
  <2>4. Cardinality(Answered("ERROR")) \in Nat
    BY <2>3, FS_CardinalityType
  <2>5. Count("ERROR") = Cardinality(Answered("ERROR"))
    BY DEF Count, Answered
  <2>6. Cardinality(Answered("ERROR")) = 0
    BY <1>1, <2>4, <2>5
  <2>7. QED BY <2>3, <2>5, <2>6, FS_EmptySet
<1>3. AllAnswered
  BY <1>2 DEF AllAnswered, Answered, BurstOK
<1>4. \A o \in Expected : verdict[o].converged
  BY <1>1 DEF Undecided, FailuresOK
<1>5. KillAt # 0 => chaos.pc = "done"
  BY DEF HasReason, BurstOK, CycleOver
<1>6. QED BY <1>1, <1>2, <1>3, <1>4, <1>5, AnswersAddUp DEF Passed, DataInv

FailedOK == phase = "failed" => HasReason

LEMMA FailedStep ==
  ASSUME DataInv, RepliesOK, LateOK, BurstOK, FailuresOK, FailedOK, [SimulationNext]_simulationVars
  PROVE  FailedOK'
<1>1. Total' = Total
  BY PlanStep DEF Total
<1>2. ASSUME HasReason, phase # "sending", late' = late
      PROVE  HasReason'
  <2>1. answer' = answer /\ chaos' = chaos
    BY <1>2, AfterTheBurst
  <2>2. Count("ERROR")' = Count("ERROR")
    BY <1>1, <2>1 DEF Count
  <2>3. (SomeDeadLetter => SomeDeadLetter') /\ (SomeLate => SomeLate')
    BY DeadLettersStay, SomeLateStays
  <2>4. QED BY <1>2, <2>1, <2>2, <2>3 DEF HasReason
<1>3. CASE Report
  <2>1. /\ phase = "final" /\ Undecided = {} /\ late' = late
        /\ phase' = "failed" => ~Passed
    BY <1>3 DEF Report
  <2>2. phase' = "failed" => HasReason
    BY <2>1, OtherwiseItPasses
  <2>3. QED BY <1>2, <2>1, <2>2 DEF FailedOK
<1>4. CASE ~Report
  <2>1. phase' = "failed" => phase = "failed" /\ late' = late
    BY <1>4 DEF SimulationNext, SimulatorStep, ServiceStep, TakeNext, Receive,
                RequestFails, ResponseBreaks, NoResponseTo, PollBreaks, StartPolling,
                Poll, FinalFetch, Decide, EndPolling, Serve, ServeFails, simVars,
                simulationVars
  <2>2. QED BY <1>2, <2>1 DEF FailedOK
<1>5. QED BY <1>3, <1>4

(* A FAIL has a reason outside the logic of service and simulator, for any *)
(* number of events, copies, senders and workers: without a failed request *)
(* or command, a deadline, a dead letter or an event that was served five  *)
(* minutes after it was generated the answers add up to the plan, in       *)
(* whatever order copies overtake their originals, and no order is left    *)
(* behind or gets ahead of its last event (simulator.js 305-506,           *)
(* webhook-ingestion.repository.ts 45-69, webhook-ingestion.service.ts     *)
(* 30-62).                                                                 *)
THEOREM FailuresHaveReasons == SimulationSpec => []FailureHasReason
<1> DEFINE SimInv == /\ DataInv /\ VerdictsOK /\ RepliesOK /\ LateOK /\ SeqOK
                     /\ BurstOK /\ FailuresOK /\ FailedOK
<1>1. SimulationInit => SimInv
  <2> SUFFICES ASSUME SimulationInit PROVE SimInv
    OBVIOUS
  <2>1. VerdictsOK /\ FailuresOK
    <3>1. verdict = [o \in Orders |-> Null]
      BY DEF SimulationInit
    <3>2. DataInv
      BY DataInit
    <3>3. Expected \subseteq Orders
      BY <3>2, ExpectedAreOrders DEF DataInv
    <3>4. QED BY <3>1, <3>3 DEF VerdictsOK, FailuresOK
  <2>2. BurstOK /\ FailedOK
    BY DEF SimulationInit, BurstOK, FailedOK
  <2>3. QED BY <2>1, <2>2, DataInit, RepliesInit, LateInit, SeqInit
<1>2. SimInv /\ [SimulationNext]_simulationVars => SimInv'
  <2> SUFFICES ASSUME SimInv, [SimulationNext]_simulationVars PROVE SimInv'
    OBVIOUS
  <2>1. DataInv' /\ VerdictsOK' /\ RepliesOK' /\ LateOK' /\ SeqOK'
    BY DataStep, VerdictsStep, RepliesStep, LateStep, SeqStep
  <2>2. BurstOK' /\ FailuresOK' /\ FailedOK'
    BY BurstStep, FailuresStep, FailedStep DEF DataInv
  <2>3. QED BY <2>1, <2>2
<1>3. SimInv => FailureHasReason
  BY DEF FailedOK, HasReason, SomeDeadLetter, SomeLate, FailureHasReason
<1> HIDE DEF SimInv
<1>4. QED BY <1>1, <1>2, <1>3, PTL DEF SimulationSpec

-----------------------------------------------------------------------------
(* The service behind the simulator                                        *)

(* Nobody asks for a replay or a reconciliation while the simulator runs.  *)
NoRequests == ReplayInit /\ ReconInit /\ [][FALSE]_<<replay, reconVars>>

LEMMA SimulatedStep ==
  ASSUME PlanOK, [SimulationNext]_simulationVars, UNCHANGED <<replay, reconVars>>
  PROVE  [Next]_vars
<1>1. CASE UNCHANGED <<tables, rowLocks, worker>>
  BY <1>1 DEF vars
<1>2. ASSUME NEW i \in 1..Total, Serve(i)
      PROVE  [Next]_vars
  <2>1. CASE plan[i].kind = "invalid"
    BY <1>2, <2>1, UnsignedServe DEF vars
  <2>2. CASE plan[i].kind # "invalid"
    <3> DEFINE b == plan[i].body
    <3>1. PICK isStale \in BOOLEAN : Ingest(b, isStale)
      BY <1>2, <2>2, SignedServe
    <3>2. b \in Bodies /\ UNCHANGED worker
      BY <1>2, <2>2, SignedServe DEF PlanOK, Sound, Total
    <3> HIDE DEF b
    <3>3. QED BY <3>1, <3>2 DEF IngestStep, Next
  <2>3. QED BY <2>1, <2>2
<1>3. CASE Tick /\ UNCHANGED worker
  BY <1>3 DEF ClockStep, Next
<1>4. ASSUME NEW w \in Workers, WorkerNext(w)
      PROVE  [Next]_vars
  BY <1>4 DEF WorkerStep, Next
<1>5. QED
  BY <1>1, <1>2, <1>3, <1>4, StepCases DEF Ends, WorkerNext

(* What the simulator measures is the service of PaymentService, with its  *)
(* workers killed and started again by docker commands: whatever is true   *)
(* of every behaviour of the service is true of the service in a           *)
(* simulator run, and a run can show nothing that the service cannot do    *)
(* (simulator.js 234-294, docker-chaos.js 30-150).                         *)
THEOREM SimulatorRunsTheService == SimulationSpec /\ NoRequests => Spec
<1>1. SimulationInit /\ ReplayInit /\ ReconInit => Init
  BY DEF SimulationInit, Init
<1>2. PlanOK /\ [SimulationNext]_simulationVars => PlanOK'
  <2> SUFFICES ASSUME PlanOK, [SimulationNext]_simulationVars PROVE PlanOK'
    OBVIOUS
  <2>1. plan' = plan /\ options' = options
    BY PlanStep
  <2>2. QED BY <2>1 DEF PlanOK
<1>3. /\ PlanOK /\ [SimulationNext]_simulationVars
      /\ [FALSE]_<<replay, reconVars>>
      => [Next]_vars
  BY SimulatedStep
<1>4. QED BY <1>1, <1>2, <1>3, PlanInit, PTL DEF SimulationSpec, NoRequests, Spec
=============================================================================
