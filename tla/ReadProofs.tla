----------------------------- MODULE ReadProofs -----------------------------
(***************************************************************************)
(* What readers see while everything else goes on: the answer to an order  *)
(* query is true of one moment, and a walk through the list of dead        *)
(* letters misses none, for any number of clients, workers and requests.   *)
(***************************************************************************)
EXTENDS HistoryProofs, OrderQueries, DlqListing

-----------------------------------------------------------------------------
(* Lists with one element more or less                                     *)

LEMMA Joined ==
  ASSUME NEW S, NEW a \in Seq(S), NEW b \in Seq(S)
  PROVE  /\ a \o b \in Seq(S) /\ Len(a \o b) = Len(a) + Len(b)
         /\ \A i \in 1 .. Len(a) + Len(b) :
              (a \o b)[i] = IF i <= Len(a) THEN a[i] ELSE b[i - Len(a)]
OBVIOUS

LEMMA InsertedAt ==
  ASSUME NEW S, NEW s \in Seq(S), NEW k \in 1 .. Len(s) + 1, NEW x \in S
  PROVE  /\ InsertAt(s, k, x) \in Seq(S)
         /\ Len(InsertAt(s, k, x)) = Len(s) + 1
         /\ \A i \in 1 .. k - 1 : InsertAt(s, k, x)[i] = s[i]
         /\ InsertAt(s, k, x)[k] = x
         /\ \A i \in k + 1 .. Len(s) + 1 : InsertAt(s, k, x)[i] = s[i - 1]
<1> DEFINE front == SubSeq(s, 1, k - 1)
           back  == SubSeq(s, k, Len(s))
<1>1. /\ front \in Seq(S) /\ Len(front) = k - 1
      /\ \A i \in 1 .. k - 1 : front[i] = s[i]
  OBVIOUS
<1>2. /\ back \in Seq(S) /\ Len(back) = Len(s) - k + 1
      /\ \A i \in 1 .. Len(s) - k + 1 : back[i] = s[k + i - 1]
  OBVIOUS
<1>3. k \in Nat /\ Len(s) \in Nat /\ k >= 1 /\ k <= Len(s) + 1
  OBVIOUS
<1> HIDE DEF front, back
<1>4. /\ front \o <<x>> \in Seq(S) /\ Len(front \o <<x>>) = k
      /\ \A i \in 1 .. k : (front \o <<x>>)[i] = IF i < k THEN s[i] ELSE x
  BY <1>1, <1>3
<1>5. /\ (front \o <<x>>) \o back \in Seq(S)
      /\ Len((front \o <<x>>) \o back) = Len(s) + 1
      /\ \A i \in 1 .. Len(s) + 1 :
           ((front \o <<x>>) \o back)[i] = IF i <= k THEN (front \o <<x>>)[i] ELSE back[i - k]
  BY <1>2, <1>3, <1>4
<1>6. \A i \in 1 .. Len(s) + 1 : i > k => back[i - k] = s[i - 1]
  BY <1>2, <1>3
<1>7. InsertAt(s, k, x) = (front \o <<x>>) \o back
  BY DEF InsertAt, front, back
<1>8. QED BY <1>3, <1>4, <1>5, <1>6, <1>7

LEMMA RemovedAt ==
  ASSUME NEW S, NEW s \in Seq(S), NEW k \in 1 .. Len(s)
  PROVE  /\ RemoveAt(s, k) \in Seq(S)
         /\ Len(RemoveAt(s, k)) = Len(s) - 1
         /\ \A i \in 1 .. Len(s) - 1 :
              RemoveAt(s, k)[i] = IF i < k THEN s[i] ELSE s[i + 1]
<1> DEFINE front == SubSeq(s, 1, k - 1)
           back  == SubSeq(s, k + 1, Len(s))
<1>1. /\ front \in Seq(S) /\ Len(front) = k - 1
      /\ \A i \in 1 .. k - 1 : front[i] = s[i]
  OBVIOUS
<1>2. /\ back \in Seq(S) /\ Len(back) = Len(s) - k
      /\ \A i \in 1 .. Len(s) - k : back[i] = s[k + i]
  OBVIOUS
<1>3. k \in Nat /\ Len(s) \in Nat /\ k >= 1 /\ k <= Len(s)
  OBVIOUS
<1> HIDE DEF front, back
<1>4. /\ front \o back \in Seq(S)
      /\ Len(front \o back) = Len(front) + Len(back)
      /\ \A i \in 1 .. Len(front) + Len(back) :
           (front \o back)[i] = IF i <= Len(front) THEN front[i] ELSE back[i - Len(front)]
  BY <1>1, <1>2, Joined
<1>5. Len(front) + Len(back) = Len(s) - 1
  BY <1>1, <1>2, <1>3
<1>6. ASSUME NEW i \in 1 .. Len(s) - 1
      PROVE  (front \o back)[i] = IF i < k THEN s[i] ELSE s[i + 1]
  <2>1. CASE i < k
    <3>1. i <= Len(front) /\ i \in 1 .. k - 1
      BY <1>1, <1>3, <2>1
    <3>2. QED BY <1>1, <1>4, <1>5, <2>1, <3>1
  <2>2. CASE ~(i < k)
    <3>1. /\ ~(i <= Len(front)) /\ i - Len(front) \in 1 .. Len(s) - k
          /\ k + (i - Len(front)) = i + 1
      BY <1>1, <1>3, <2>2
    <3>2. back[i - Len(front)] = s[i + 1]
      BY <1>2, <3>1
    <3>3. QED BY <1>4, <1>5, <2>2, <3>1, <3>2
  <2>3. QED BY <2>1, <2>2
<1>7. RemoveAt(s, k) = front \o back
  BY DEF RemoveAt, front, back
<1>8. QED BY <1>4, <1>5, <1>6, <1>7

(* Lists without repetition.                                               *)
Distinct(s) == \A i, j \in DOMAIN s : s[i] = s[j] => i = j

Has(s, x) == \E i \in DOMAIN s : s[i] = x

(* A new element leaves the others where they were or one place further.   *)
LEMMA InsertedOnce ==
  ASSUME NEW S, NEW s \in Seq(S), NEW k \in 1 .. Len(s) + 1, NEW x \in S,
         NEW t, t = InsertAt(s, k, x)
  PROVE  /\ t \in Seq(S)
         /\ Distinct(s) /\ ~Has(s, x) => Distinct(t)
         /\ \A y : Has(t, y) <=> y = x \/ Has(s, y)
         /\ \A i \in DOMAIN t : t[i] # x =>
              \E j \in DOMAIN s : j <= i /\ s[j] = t[i]
<1>1. /\ Len(s) \in Nat /\ DOMAIN s = 1 .. Len(s)
      /\ k \in Nat /\ 1 <= k /\ k <= Len(s) + 1
  OBVIOUS
<1>2. /\ t \in Seq(S) /\ DOMAIN t = 1 .. Len(s) + 1
      /\ \A i \in 1 .. k - 1 : t[i] = s[i]
      /\ t[k] = x
      /\ \A i \in k + 1 .. Len(s) + 1 : t[i] = s[i - 1]
  <2>1. t \in Seq(S) /\ Len(t) = Len(s) + 1 /\ \A i \in 1 .. k - 1 : t[i] = s[i]
    BY InsertedAt
  <2>2. t[k] = x /\ \A i \in k + 1 .. Len(s) + 1 : t[i] = s[i - 1]
    BY InsertedAt
  <2>3. DOMAIN t = 1 .. Len(t)
    BY <2>1
  <2>4. QED BY <2>1, <2>2, <2>3
<1> DEFINE was(i) == IF i < k THEN i ELSE i - 1
<1>3. ASSUME NEW i \in DOMAIN t, i # k
      PROVE  i \in Nat /\ was(i) \in DOMAIN s /\ was(i) <= i /\ t[i] = s[was(i)]
  BY <1>1, <1>2, <1>3
<1>4. k \in DOMAIN t /\ t[k] = x
  BY <1>1, <1>2
<1>5. ASSUME NEW i \in DOMAIN s
      PROVE  \E j \in DOMAIN t : t[j] = s[i]
  <2>1. CASE i < k
    BY <1>1, <1>2, <2>1
  <2>2. CASE ~(i < k)
    <3>1. /\ i + 1 \in DOMAIN t /\ ~(i + 1 < k) /\ i + 1 # k
          /\ (i + 1) - 1 = i
      BY <1>1, <1>2, <2>2
    <3>2. t[i + 1] = s[i]
      BY <1>2, <3>1
    <3>3. QED BY <3>1, <3>2
  <2>3. QED BY <2>1, <2>2
<1>6. ASSUME Distinct(s), ~Has(s, x) PROVE Distinct(t)
  <2>1. ASSUME NEW i \in DOMAIN t, NEW j \in DOMAIN t, t[i] = t[j], i # k, j # k
        PROVE  i = j
    <3>1. was(i) = was(j)
      BY <1>3, <1>6, <2>1 DEF Distinct
    <3>2. i \in Nat /\ j \in Nat
      BY <1>3, <2>1
    <3>3. QED BY <1>1, <2>1, <3>1, <3>2
  <2>2. ASSUME NEW i \in DOMAIN t, t[i] = x PROVE i = k
    <3> HIDE DEF was
    <3>1. QED BY <1>3, <1>6, <2>2 DEF Has
  <2>3. QED BY <1>4, <2>1, <2>2 DEF Distinct
<1> HIDE DEF was
<1>7. ASSUME NEW y PROVE Has(t, y) <=> y = x \/ Has(s, y)
  BY <1>3, <1>4, <1>5 DEF Has
<1>8. QED BY <1>2, <1>3, <1>4, <1>6, <1>7

(* An element less.                                                        *)
LEMMA RemovedOnce ==
  ASSUME NEW S, NEW s \in Seq(S), NEW k \in 1 .. Len(s), Distinct(s),
         NEW t, t = RemoveAt(s, k)
  PROVE  /\ t \in Seq(S) /\ Distinct(t)
         /\ \A y : Has(t, y) <=> Has(s, y) /\ y # s[k]
<1>1. /\ Len(s) \in Nat /\ DOMAIN s = 1 .. Len(s)
      /\ k \in Nat /\ 1 <= k /\ k <= Len(s)
  OBVIOUS
<1>2. /\ t \in Seq(S) /\ DOMAIN t = 1 .. Len(s) - 1
      /\ \A i \in 1 .. Len(s) - 1 : t[i] = IF i < k THEN s[i] ELSE s[i + 1]
  <2>1. /\ t \in Seq(S) /\ Len(t) = Len(s) - 1
        /\ \A i \in 1 .. Len(s) - 1 : t[i] = IF i < k THEN s[i] ELSE s[i + 1]
    BY RemovedAt
  <2>2. DOMAIN t = 1 .. Len(t)
    BY <2>1
  <2>3. QED BY <2>1, <2>2
<1> DEFINE was(i) == IF i < k THEN i ELSE i + 1
<1>3. ASSUME NEW i \in DOMAIN t
      PROVE  i \in Nat /\ was(i) \in DOMAIN s /\ was(i) # k /\ t[i] = s[was(i)]
  BY <1>1, <1>2
<1>4. ASSUME NEW i \in DOMAIN s, i # k
      PROVE  \E j \in DOMAIN t : t[j] = s[i]
  <2>1. CASE i < k
    BY <1>1, <1>2, <2>1
  <2>2. CASE ~(i < k)
    <3>1. /\ i - 1 \in DOMAIN t /\ ~(i - 1 < k) /\ (i - 1) + 1 = i
      BY <1>1, <1>2, <1>4, <2>2
    <3>2. t[i - 1] = s[i]
      BY <1>2, <3>1
    <3>3. QED BY <3>1, <3>2
  <2>3. QED BY <2>1, <2>2
<1>5. ASSUME NEW i \in DOMAIN t, NEW j \in DOMAIN t, t[i] = t[j]
      PROVE  i = j
  <2>1. was(i) = was(j)
    BY <1>3, <1>5 DEF Distinct
  <2>2. i \in Nat /\ j \in Nat
    BY <1>3
  <2>3. QED BY <1>1, <2>1, <2>2
<1> HIDE DEF was
<1>6. ASSUME NEW y PROVE Has(t, y) <=> Has(s, y) /\ y # s[k]
  <2>1. ASSUME NEW i \in DOMAIN t, t[i] = y PROVE Has(s, y) /\ y # s[k]
    BY <1>1, <1>3, <2>1 DEF Has, Distinct
  <2>2. ASSUME NEW i \in DOMAIN s, s[i] = y, y # s[k] PROVE Has(t, y)
    BY <1>4, <2>2 DEF Has
  <2>3. QED BY <2>1, <2>2 DEF Has
<1>7. QED BY <1>2, <1>5, <1>6 DEF Distinct

-----------------------------------------------------------------------------
(* The list of dead letters                                                *)

Dead == DeadIn(events)

ListOK ==
  /\ letters \in Seq(EventIds)
  /\ Distinct(letters)
  /\ \A e \in EventIds : Has(letters, e) <=> e \in Dead

(* One commit makes one dead letter, or revives one.                       *)
LEMMA OneLetterMoves ==
  ASSUME LockInv, [Next]_vars
  PROVE  \E e \in EventIds \union {Null} :
           \A f \in EventIds \ {e} : f \in DeadIn(events') <=> f \in DeadIn(events)
<1>1. CASE UNCHANGED events
  BY <1>1
<1>2. CASE ClockStep
  <2>1. ASSUME NEW e \in EventIds PROVE events'[e].status = events[e].status
    <3>1. events[e] \in EventRow
      BY DEF LockInv, TypeInv, TypeOK
    <3>2. events'[e] = IF events[e].next \in {Null, 0} THEN events[e]
                       ELSE [events[e] EXCEPT !.next = events[e].next - 1]
      BY <1>2 DEF ClockStep, Tick
    <3>3. QED BY <3>1, <3>2 DEF EventRow
  <2>2. QED BY <2>1 DEF DeadIn
<1>3. ASSUME NEW e \in EventIds, \A f \in EventIds \ {e} : events'[f] = events[f]
      PROVE  \E d \in EventIds \union {Null} :
               \A f \in EventIds \ {d} : f \in DeadIn(events') <=> f \in DeadIn(events)
  BY <1>3 DEF DeadIn
<1>4. CASE IngestStep
  <2>1. PICK b \in Bodies, isStale \in BOOLEAN : Ingest(b, isStale)
    BY <1>4 DEF IngestStep
  <2>2. b.event \in EventIds /\ \A f \in EventIds \ {b.event} : events'[f] = events[f]
    BY <2>1, BodyFacts DEF Ingest, LockInv, TypeInv, TypeOK
  <2>3. QED BY <1>3, <2>2
<1>5. ASSUME NEW w \in Workers, CommitResult(w) \/ ScheduleRetry(w) \/ SendToDlq(w)
      PROVE  \E d \in EventIds \union {Null} :
               \A f \in EventIds \ {d} : f \in DeadIn(events') <=> f \in DeadIn(events)
  <2>1. ClaimedEvent(w) \in EventIds
    BY <1>5, ClaimFacts
       DEF CommitResult, ScheduleRetry, SendToDlq, InTransaction, LockInv
  <2>2. \A f \in EventIds \ {ClaimedEvent(w)} : events'[f] = events[f]
    BY <1>5, <2>1 DEF CommitResult, ScheduleRetry, SendToDlq, LockInv, TypeInv, TypeOK
  <2>3. QED BY <1>3, <2>1, <2>2
<1>6. ASSUME NEW r \in Replayers, ReplayCommit(r)
      PROVE  \E d \in EventIds \union {Null} :
               \A f \in EventIds \ {d} : f \in DeadIn(events') <=> f \in DeadIn(events)
  <2> DEFINE e == replay[r].event.body.event
  <2>1. e \in EventIds
    BY <1>6, BodyFacts DEF ReplayCommit, LockInv, TypeInv, TypeOK, ControlOK, ReplaysOK
  <2>2. \A f \in EventIds \ {e} : events'[f] = events[f]
    BY <1>6, <2>1 DEF ReplayCommit, LockInv, TypeInv, TypeOK
  <2>3. QED BY <1>3, <2>1, <2>2
<1>7. QED
  BY <1>1, <1>2, <1>4, <1>5, <1>6
     DEF Next, WorkerStep, WorkerNext, Claim, LockOrder, BusinessError,
         AbortTransaction, Crash, Restart, ReplayStep, ReplayNext, ReplaySelect,
         ReplayRefuse, ReplayAbort, ReconStep, ReconNext, FetchSnapshot, BeginRun,
         VisitOrder, CommitRun, AbortRun, vars, tables

(* The three ways the list can follow a step of the service.               *)
LEMMA ListMoves ==
  ASSUME LockInv, ListOK, [Next]_vars, ListFollows
  PROVE  \/ letters' = letters /\ DeadIn(events') = Dead
         \/ \E e \in EventIds, k \in 1 .. Len(letters) + 1 :
              /\ e \notin Dead /\ DeadIn(events') = Dead \union {e}
              /\ letters' = InsertAt(letters, k, e)
         \/ \E k \in 1 .. Len(letters) :
              /\ letters[k] \in Dead /\ DeadIn(events') = Dead \ {letters[k]}
              /\ letters' = RemoveAt(letters, k)
<1> DEFINE then == DeadIn(events')
<1>1. /\ Dead \subseteq EventIds /\ then \subseteq EventIds
      /\ DOMAIN letters = 1 .. Len(letters)
  BY DEF Dead, DeadIn, ListOK
<1>2. PICK d \in EventIds \union {Null} :
        \A f \in EventIds \ {d} : f \in then <=> f \in Dead
  BY OneLetterMoves DEF Dead
<1>3. CASE then \ Dead = {} /\ Dead \ then = {} /\ letters' = letters
  <2>1. then = Dead
    BY <1>3
  <2>2. QED BY <1>3, <2>1
<1>4. ASSUME NEW e \in then \ Dead, NEW k \in 1 .. Len(letters) + 1,
             letters' = InsertAt(letters, k, e)
      PROVE  \E f \in EventIds, i \in 1 .. Len(letters) + 1 :
              /\ f \notin Dead /\ DeadIn(events') = Dead \union {f}
              /\ letters' = InsertAt(letters, i, f)
  <2>1. e = d /\ then = Dead \union {e}
    BY <1>1, <1>2
  <2>2. QED BY <1>1, <1>4, <2>1
<1>5. ASSUME NEW k \in DOMAIN letters, letters[k] \in Dead \ then,
             letters' = RemoveAt(letters, k)
      PROVE  \E i \in 1 .. Len(letters) :
              /\ letters[i] \in Dead /\ DeadIn(events') = Dead \ {letters[i]}
              /\ letters' = RemoveAt(letters, i)
  <2>1. letters[k] = d /\ then = Dead \ {letters[k]}
    BY <1>1, <1>2, <1>5
  <2>2. QED BY <1>1, <1>5, <2>1
<1> HIDE DEF then
<1>6. QED BY <1>3, <1>4, <1>5 DEF ListFollows, Dead, then

LEMMA ListStays ==
  ASSUME LockInv, ListOK, [Next]_vars, ListFollows
  PROVE  ListOK'
<1>1. CASE letters' = letters /\ DeadIn(events') = Dead
  BY <1>1 DEF ListOK, Dead
<1>2. ASSUME NEW e \in EventIds, NEW k \in 1 .. Len(letters) + 1,
             e \notin Dead, DeadIn(events') = Dead \union {e},
             letters' = InsertAt(letters, k, e)
      PROVE  ListOK'
  <2>1. /\ letters' \in Seq(EventIds) /\ Distinct(letters')
        /\ \A y : Has(letters', y) <=> y = e \/ Has(letters, y)
    BY <1>2, InsertedOnce DEF ListOK
  <2>2. QED BY <1>2, <2>1 DEF ListOK, Dead
<1>3. ASSUME NEW k \in 1 .. Len(letters),
             DeadIn(events') = Dead \ {letters[k]}, letters' = RemoveAt(letters, k)
      PROVE  ListOK'
  <2>1. /\ letters' \in Seq(EventIds) /\ Distinct(letters')
        /\ \A y : Has(letters', y) <=> Has(letters, y) /\ y # letters[k]
    BY <1>3, RemovedOnce DEF ListOK
  <2>2. QED BY <1>3, <2>1 DEF ListOK, Dead
<1>4. QED BY <1>1, <1>2, <1>3, ListMoves

-----------------------------------------------------------------------------
(* The walks                                                               *)

WalkState ==
  [pc : {"idle", "between", "counted", "done"}, limit : Nat, offset : Nat,
   total : {0} \union {Cardinality(rows) : rows \in SUBSET EventIds},
   seen : SUBSET EventIds, steady : SUBSET EventIds, replayed : BOOLEAN]

(* While no letter has left, a client has seen every letter that it has to *)
(* see and that is behind its offset: letters that come only push others   *)
(* down the list.                                                          *)
NothingSkipped(w) ==
  \A i \in DOMAIN letters :
    letters[i] \in w.steady /\ i <= w.offset => letters[i] \in w.seen

WalkOK(q) ==
  /\ Walking(q) => walk[q].limit > 0 /\ walk[q].steady \subseteq Dead
  /\ Walking(q) /\ ~walk[q].replayed => NothingSkipped(walk[q])
  /\ walk[q].pc = "done" /\ ~walk[q].replayed => walk[q].steady \subseteq walk[q].seen

WalksOK ==
  /\ walk \in [Clients -> WalkState]
  /\ \A q \in Clients : WalkOK(q)

LEMMA NoWalkYet == NoWalk \in WalkState /\ NoWalk.offset = 0
BY DEF NoWalk, WalkState

LEMMA ListWalkInit == ListInit => ListOK /\ WalksOK
<1> SUFFICES ASSUME ListInit PROVE ListOK /\ WalksOK
  OBVIOUS
<1>1. ListOK
  BY DEF ListInit, Init, TablesInit, NoEventRow, ListOK, Distinct, Has, Dead, DeadIn
<1>2. QED BY <1>1, NoWalkYet DEF ListInit, WalksOK, WalkOK, Walking, NoWalk

(* The service goes on: the walk keeps to the letters that stay.           *)
LEMMA WalksGoOn ==
  ASSUME LockInv, ListOK, WalksOK, ListedStep
  PROVE  WalksOK'
<1>1. [Next]_vars /\ ListFollows
  BY DEF ListedStep
<1>2. ASSUME NEW q \in Clients
      PROVE  walk'[q] \in WalkState /\ WalkOK(q)'
  <2> DEFINE w == walk[q]
             left == Dead \ DeadIn(events')
  <2>1. w \in WalkState /\ WalkOK(q)
    BY DEF WalksOK
  <2>2. walk'[q] = WalkFollows(q)
    BY DEF ListedStep
  <2>3. CASE ~Walking(q)
    BY <2>1, <2>2, <2>3 DEF WalkFollows, WalkOK, Walking
  <2>4. CASE Walking(q)
    <3> PICK v \in WalkState : v = walk'[q] /\ v.pc = w.pc /\ v.limit = w.limit
                               /\ v.offset = w.offset /\ v.seen = w.seen
                               /\ v.steady = w.steady \ left
                               /\ (v.replayed <=> w.replayed \/ left # {})
      <4>1. walk'[q] = [w EXCEPT !.steady = w.steady \ left,
                                 !.replayed = w.replayed \/ left # {}]
        BY <2>2, <2>4 DEF WalkFollows, Dead
      <4>2. (w.replayed \/ left # {}) \in BOOLEAN /\ w.steady \ left \in SUBSET EventIds
        BY <2>1 DEF WalkState
      <4> HIDE DEF left
      <4>3. QED BY <2>1, <4>1, <4>2 DEF WalkState
    <3>1. v.limit > 0 /\ v.steady \subseteq DeadIn(events')
      BY <2>1, <2>4 DEF WalkOK
    <3>2. ASSUME ~v.replayed
          PROVE  NothingSkipped(v)'
      <4>1. left = {} /\ ~w.replayed /\ v.steady = w.steady /\ NothingSkipped(w)
        BY <2>1, <2>4, <3>2 DEF WalkOK
      <4>2. v.steady \subseteq Dead
        BY <2>1, <2>4, <4>1 DEF WalkOK
      <4>3. CASE letters' = letters
        BY <4>1, <4>3 DEF NothingSkipped
      <4>4. ASSUME NEW e \in EventIds, NEW k \in 1 .. Len(letters) + 1,
                   e \notin Dead, letters' = InsertAt(letters, k, e)
            PROVE  NothingSkipped(v)'
        <5>1. ~Has(letters, e)
          BY <4>4 DEF ListOK
        <5>2. /\ letters' \in Seq(EventIds)
              /\ \A i \in DOMAIN letters' : letters'[i] # e =>
                   \E j \in DOMAIN letters : j <= i /\ letters[j] = letters'[i]
          BY <4>4, <5>1, InsertedOnce DEF ListOK
        <5>3. DOMAIN letters' \subseteq Nat /\ DOMAIN letters \subseteq Nat /\ v.offset \in Nat
          BY <5>2 DEF ListOK, WalkState
        <5>4. ASSUME NEW i \in DOMAIN letters',
                     letters'[i] \in v.steady, i <= v.offset
              PROVE  letters'[i] \in v.seen
          <6>1. PICK j \in DOMAIN letters : j <= i /\ letters[j] = letters'[i]
            BY <4>2, <4>4, <5>2, <5>4
          <6>2. j <= v.offset
            BY <5>3, <5>4, <6>1
          <6>3. QED BY <4>1, <5>4, <6>1, <6>2 DEF NothingSkipped
        <5>5. QED BY <5>4 DEF NothingSkipped
      <4>5. ASSUME NEW k \in 1 .. Len(letters), letters[k] \in Dead,
                   DeadIn(events') = Dead \ {letters[k]}
            PROVE  FALSE
        BY <4>1, <4>5
      <4>6. QED BY <1>1, <4>3, <4>4, <4>5, ListMoves
    <3>3. v.pc \in {"between", "counted"}
      BY <2>4 DEF Walking
    <3>4. walk'[q] = v
      OBVIOUS
    <3>5. WalkOK(q)'
      BY <3>1, <3>2, <3>3, <3>4 DEF WalkOK, Walking, Dead
    <3>6. QED BY <3>4, <3>5
  <2>5. QED BY <2>3, <2>4
<1>3. walk' \in [Clients -> WalkState]
  <2>1. walk' = [q \in Clients |-> WalkFollows(q)]
    BY DEF ListedStep
  <2>2. QED BY <1>2, <2>1
<1>4. QED BY <1>2, <1>3 DEF WalksOK

LEMMA PartOf ==
  ASSUME NEW S, NEW s \in Seq(S), NEW m \in Nat, NEW n \in Nat, n <= Len(s)
  PROVE  /\ SubSeq(s, m + 1, n) \in Seq(S)
         /\ Len(SubSeq(s, m + 1, n)) = IF m < n THEN n - m ELSE 0
         /\ \A j \in 1 .. n - m : SubSeq(s, m + 1, n)[j] = s[m + j]
<1>1. CASE m < n
  <2>1. /\ SubSeq(s, m + 1, n) \in Seq(S)
        /\ Len(SubSeq(s, m + 1, n)) = n - m
    BY <1>1
  <2>2. \A j \in 1 .. n - m : SubSeq(s, m + 1, n)[j] = s[m + j]
    BY <1>1
  <2>3. QED BY <1>1, <2>1, <2>2
<1>2. CASE ~(m < n)
  <2>1. ~(m + 1 <= n)
    BY <1>2
  <2>2. SubSeq(s, m + 1, n) = << >>
    BY <2>1
  <2>3. 1 .. n - m = {}
    BY <1>2
  <2>4. QED BY <1>2, <2>2, <2>3
<1>3. QED BY <1>1, <1>2

LEMMA Lesser ==
  ASSUME NEW a \in Nat, NEW b \in Nat
  PROVE  /\ Min({a, b}) \in Nat /\ Min({a, b}) <= a /\ Min({a, b}) <= b
         /\ Min({a, b}) = a \/ Min({a, b}) = b
BY DEF Min

LEMMA Elements ==
  ASSUME NEW S, NEW s \in Seq(S)
  PROVE  /\ DOMAIN s = 1 .. Len(s) /\ Len(s) \in Nat
         /\ \A i \in DOMAIN s : s[i] \in S
OBVIOUS

LEMMA PageNumbers ==
  ASSUME NEW offset \in Nat, NEW limit \in Nat \ {0}, NEW length \in Nat,
         NEW last \in Nat, last <= length, last <= offset + limit,
         last = length \/ last = offset + limit,
         NEW size \in Nat, size = IF offset < last THEN last - offset ELSE 0
  PROVE  /\ \A i \in 1 .. length : offset < i /\ i <= offset + limit =>
              /\ i - offset \in 1 .. last - offset
              /\ i - offset \in 1 .. size
              /\ offset + (i - offset) = i
         /\ size < limit => length <= offset + limit
<1>1. CASE offset < last
  BY <1>1
<1>2. CASE ~(offset < last)
  BY <1>2
<1>3. QED BY <1>1, <1>2

(* A page shows the letters from the offset on to the next one; a page     *)
(* that is not full reaches the end of the list.                           *)
LEMMA PageReaches ==
  ASSUME NEW S, NEW s \in Seq(S), NEW offset \in Nat, NEW limit \in Nat \ {0},
         NEW last \in Nat, last <= Len(s), last <= offset + limit,
         last = Len(s) \/ last = offset + limit,
         NEW items, items = SubSeq(s, offset + 1, last)
  PROVE  /\ \A i \in DOMAIN items : items[i] \in S
         /\ \A i \in DOMAIN s : offset < i /\ i <= offset + limit =>
              Has(items, s[i])
         /\ Len(items) < limit => Len(s) <= offset + limit
<1>1. Len(s) \in Nat /\ DOMAIN s = 1 .. Len(s)
  OBVIOUS
<1>2. /\ items \in Seq(S)
      /\ Len(items) = IF offset < last THEN last - offset ELSE 0
      /\ \A j \in 1 .. last - offset : items[j] = s[offset + j]
  BY PartOf
<1>3. DOMAIN items = 1 .. Len(items) /\ Len(items) \in Nat
      /\ \A i \in DOMAIN items : items[i] \in S
  BY <1>2, Elements
<1> DEFINE size == Len(items)
           length == Len(s)
<1>4. /\ length \in Nat /\ size \in Nat /\ last <= length
      /\ last = length \/ last = offset + limit
      /\ size = IF offset < last THEN last - offset ELSE 0
  BY <1>1, <1>2, <1>3
<1> HIDE DEF size, length
<1>5. \A i \in 1 .. length : offset < i /\ i <= offset + limit =>
        /\ i - offset \in 1 .. last - offset
        /\ i - offset \in 1 .. size
        /\ offset + (i - offset) = i
  BY <1>4, PageNumbers
<1>6. size < limit => length <= offset + limit
  BY <1>4, PageNumbers
<1>7. ASSUME NEW i \in DOMAIN s, offset < i, i <= offset + limit
      PROVE  Has(items, s[i])
  <2>1. /\ i - offset \in 1 .. last - offset /\ i - offset \in 1 .. size
        /\ offset + (i - offset) = i
    BY <1>1, <1>5, <1>7 DEF length
  <2>2. i - offset \in DOMAIN items
    BY <1>3, <2>1 DEF size
  <2>3. items[i - offset] = s[i]
    BY <1>2, <2>1
  <2>4. QED BY <2>2, <2>3 DEF Has
<1>8. QED BY <1>3, <1>6, <1>7 DEF size, length

LEMMA PageShows ==
  ASSUME ListOK, WalksOK, NEW q \in Clients, Page(q), UNCHANGED <<vars, letters>>
  PROVE  walk'[q] \in WalkState /\ WalkOK(q)'
<1> DEFINE w == walk[q]
           items == Items(w.limit, w.offset)
<1>1. /\ w \in WalkState /\ WalkOK(q)
      /\ Walking(q) /\ w.limit \in Nat \ {0} /\ w.offset \in Nat
  BY DEF WalksOK, WalkOK, WalkState, Page, Walking
<1>2. /\ \A i \in DOMAIN items : items[i] \in EventIds
      /\ \A i \in DOMAIN letters : w.offset < i /\ i <= w.offset + w.limit =>
           Has(items, letters[i])
      /\ Len(items) < w.limit => Len(letters) <= w.offset + w.limit
  <2> DEFINE last == Min({w.offset + w.limit, Len(letters)})
  <2>1. letters \in Seq(EventIds) /\ Len(letters) \in Nat /\ w.offset + w.limit \in Nat
    BY <1>1 DEF ListOK
  <2>2. /\ last \in Nat /\ last <= w.offset + w.limit /\ last <= Len(letters)
        /\ last = w.offset + w.limit \/ last = Len(letters)
    BY <2>1, Lesser
  <2>3. items = SubSeq(letters, w.offset + 1, last)
    BY DEF Items
  <2>4. w.limit \in Nat \ {0} /\ w.offset \in Nat
    BY <1>1
  <2> HIDE DEF w, last, items
  <2>5. \A i \in DOMAIN items : items[i] \in EventIds
    BY <2>1, <2>2, <2>3, <2>4, PageReaches
  <2>6. \A i \in DOMAIN letters : w.offset < i /\ i <= w.offset + w.limit =>
           Has(items, letters[i])
    BY <2>1, <2>2, <2>3, <2>4, PageReaches
  <2>7. Len(items) < w.limit => Len(letters) <= w.offset + w.limit
    BY <2>1, <2>2, <2>3, <2>4, PageReaches
  <2>8. QED BY <2>5, <2>6, <2>7
<1> DEFINE shownNow == {items[i] : i \in DOMAIN items}
<1>3. shownNow \subseteq EventIds
  BY <1>2
<1>4. \A i \in DOMAIN letters : w.offset < i /\ i <= w.offset + w.limit =>
        letters[i] \in shownNow
  BY <1>2 DEF Has
<1> DEFINE full == Len(items) < w.limit
<1>5. walk'[q] = [w EXCEPT !.pc = IF full THEN "done" ELSE "between",
                           !.offset = w.offset + w.limit, !.total = 0,
                           !.seen = w.seen \union shownNow]
  <2>1. walk'[q] = AfterPage(w, items)
    BY DEF Page, WalksOK
  <2>2. QED BY <2>1 DEF AfterPage
<1>6. full => Len(letters) <= w.offset + w.limit
  BY <1>2
<1> HIDE DEF items, shownNow, full
<1>7. PICK v \in WalkState :
        /\ v = walk'[q]
        /\ v.pc = IF full THEN "done" ELSE "between"
        /\ v.limit = w.limit /\ v.offset = w.offset + w.limit
        /\ v.seen = w.seen \union shownNow /\ v.steady = w.steady
        /\ v.replayed = w.replayed
  <2>1. w.seen \union shownNow \in SUBSET EventIds /\ w.offset + w.limit \in Nat
    BY <1>1, <1>3 DEF WalkState
  <2>2. walk'[q] \in WalkState
    BY <1>1, <1>5, <2>1 DEF WalkState
  <2>3. QED BY <1>1, <1>5, <2>2 DEF WalkState
<1>8. ASSUME ~v.replayed PROVE NothingSkipped(v)
  <2>1. NothingSkipped(w)
    BY <1>1, <1>7, <1>8 DEF WalkOK
  <2>2. ASSUME NEW i \in DOMAIN letters, letters[i] \in v.steady, i <= v.offset
        PROVE  letters[i] \in v.seen
    <3>1. i \in Nat
      BY DEF ListOK
    <3>2. CASE i <= w.offset
      BY <1>7, <2>1, <2>2, <3>2 DEF NothingSkipped
    <3>3. CASE w.offset < i
      BY <1>4, <1>7, <2>2, <3>3
    <3>4. QED BY <1>1, <3>1, <3>2, <3>3
  <2>3. QED BY <2>2 DEF NothingSkipped
<1>9. v.steady \subseteq Dead /\ v.steady \subseteq EventIds /\ v.limit > 0
  BY <1>1, <1>7 DEF WalkOK, WalkState
<1>10. ASSUME full, ~v.replayed PROVE v.steady \subseteq v.seen
  <2>1. ASSUME NEW e \in v.steady PROVE e \in v.seen
    <3>1. PICK i \in DOMAIN letters : letters[i] = e
      BY <1>9, <2>1 DEF ListOK, Has
    <3>2. i <= v.offset
      <4>1. i \in Nat /\ i <= Len(letters) /\ Len(letters) \in Nat
        BY DEF ListOK
      <4>2. QED BY <1>1, <1>6, <1>7, <1>10, <4>1
    <3>3. QED BY <1>8, <1>10, <3>1, <3>2 DEF NothingSkipped
  <2>2. QED BY <2>1
<1>11. UNCHANGED <<letters, events>>
  BY DEF vars, tables
<1>12. WalkOK(q)'
  BY <1>7, <1>8, <1>9, <1>10, <1>11 DEF WalkOK, Walking, NothingSkipped, Dead
<1>13. QED BY <1>7, <1>12

(* The other steps of a client.                                            *)
LEMMA WalkStarts ==
  ASSUME ListOK, WalksOK, NEW q \in Clients, NEW limit \in AskedLimits, StartWalk(q, limit),
         UNCHANGED <<vars, letters>>
  PROVE  walk'[q] \in WalkState /\ WalkOK(q)'
<1>1. limit \in Nat \ {0}
  BY ListingAssumption DEF StartWalk, Admissible
<1>2. walk'[q] = [NoWalk EXCEPT !.pc = "between", !.limit = limit, !.steady = Dead]
  BY DEF StartWalk, WalksOK, Dead
<1>3. Dead \in SUBSET EventIds
  BY DEF Dead, DeadIn
<1>4. walk'[q] \in WalkState
  BY <1>1, <1>2, <1>3, NoWalkYet DEF WalkState
<1>5. PICK v \in WalkState :
        /\ v = walk'[q] /\ v.pc = "between" /\ v.limit > 0 /\ v.offset = 0
        /\ v.steady = Dead
  <2> DEFINE v == walk'[q]
  <2>1. v.pc = "between" /\ v.limit = limit /\ v.steady = Dead
    BY <1>2, NoWalkYet DEF WalkState
  <2>2. v.offset = 0
    BY <1>2, NoWalkYet DEF WalkState
  <2>3. QED BY <1>1, <1>4, <2>1, <2>2
<1>6. UNCHANGED <<letters, events>>
  BY DEF vars, tables
<1>7. NothingSkipped(v)'
  <2>1. DOMAIN letters \subseteq Nat \ {0}
    BY DEF ListOK
  <2>2. \A i \in DOMAIN letters : ~(i <= v.offset)
    BY <1>5, <2>1
  <2>3. QED BY <1>6, <2>2 DEF NothingSkipped
<1>8. WalkOK(q)'
  BY <1>5, <1>6, <1>7 DEF WalkOK, Walking, Dead
<1>9. QED BY <1>4, <1>8

LEMMA WalkWaits ==
  ASSUME WalksOK, NEW q \in Clients, Count(q) \/ PageFails(q), UNCHANGED <<vars, letters>>
  PROVE  walk'[q] \in WalkState /\ WalkOK(q)'
<1> DEFINE w == walk[q]
<1>1. w \in WalkState /\ WalkOK(q) /\ Walking(q)
  BY DEF WalksOK, Count, PageFails, Walking
<1>2. PICK v \in WalkState :
        /\ v = walk'[q] /\ v.pc \in {"between", "counted"}
        /\ v.limit = w.limit /\ v.offset = w.offset
        /\ v.seen = w.seen /\ v.steady = w.steady /\ v.replayed = w.replayed
  <2>1. PICK pc \in {"between", "counted"},
             total \in {0} \union {Cardinality(rows) : rows \in SUBSET EventIds} :
          walk'[q] = [w EXCEPT !.pc = pc, !.total = total]
    BY DEF Count, PageFails, WalksOK, DeadIn
  <2>2. walk'[q] \in WalkState
    BY <1>1, <2>1 DEF WalkState
  <2>3. QED BY <1>1, <2>1, <2>2 DEF WalkState
<1>3. UNCHANGED <<letters, events>>
  BY DEF vars, tables
<1>4. WalkOK(q)'
  BY <1>1, <1>2, <1>3 DEF WalkOK, Walking, NothingSkipped, Dead
<1>5. QED BY <1>2, <1>4

LEMMA ClientsGoOn ==
  ASSUME ListOK, WalksOK, NEW q \in Clients, ClientStep(q)
  PROVE  ListOK' /\ WalksOK'
<1>1. UNCHANGED <<vars, letters>> /\ UNCHANGED events
  BY DEF ClientStep, vars, tables
<1>2. walk'[q] \in WalkState /\ WalkOK(q)'
  BY <1>1, WalkStarts, WalkWaits, PageShows DEF ClientStep
<1>3. PICK v : walk' = [walk EXCEPT ![q] = v]
  BY DEF ClientStep, StartWalk, Count, Page, PageFails
<1>4. walk' \in [Clients -> WalkState]
  <2>1. walk \in [Clients -> WalkState]
    BY DEF WalksOK
  <2>2. v \in WalkState
    BY <1>2, <1>3, <2>1
  <2>3. QED BY <1>3, <2>1, <2>2
<1>5. ASSUME NEW p \in Clients PROVE WalkOK(p)'
  <2>1. CASE p = q
    BY <1>2, <2>1
  <2>2. CASE p # q
    <3>1. walk'[p] = walk[p] /\ WalkOK(p)
      BY <1>3, <2>2 DEF WalksOK
    <3>2. QED BY <1>1, <3>1 DEF WalkOK, Walking, NothingSkipped, Dead
  <2>3. QED BY <2>1, <2>2
<1>6. ListOK'
  BY <1>1 DEF ListOK, Dead
<1>7. QED BY <1>4, <1>5, <1>6 DEF WalksOK

ListInv == LockInv /\ ListOK /\ WalksOK

LEMMA ListStep == ListInv /\ [ListNext]_listVars => ListInv'
<1> SUFFICES ASSUME ListInv, [ListNext]_listVars PROVE ListInv'
  OBVIOUS
<1>1. [Next]_vars
  BY DEF ListNext, ListedStep, ClientStep, listVars
<1>2. LockInv'
  BY <1>1, LockStep DEF ListInv
<1>3. ASSUME ListedStep PROVE ListOK' /\ WalksOK'
  BY <1>1, <1>3, ListStays, WalksGoOn DEF ListInv, ListedStep
<1>4. ASSUME NEW q \in Clients, ClientStep(q) PROVE ListOK' /\ WalksOK'
  BY <1>4, ClientsGoOn DEF ListInv
<1>5. ASSUME UNCHANGED listVars PROVE ListOK' /\ WalksOK'
  <2>1. UNCHANGED <<letters, walk, events>>
    BY <1>5 DEF listVars, vars, tables
  <2>2. QED
    BY <2>1 DEF ListInv, ListOK, Dead, WalksOK, WalkOK, Walking, NothingSkipped
<1>6. QED BY <1>2, <1>3, <1>4, <1>5 DEF ListInv, ListNext

(* A walk through the pages of the dead letters shows every letter that    *)
(* was dead all the time, unless a replay took one out meanwhile.          *)
THEOREM WalksShowEveryLetter == ListSpec => []WalksMissNothing
<1>1. ListInit => ListInv
  BY LockInit, ListWalkInit DEF ListInit, ListInv
<1>2. ListInv => WalksMissNothing
  BY DEF ListInv, WalksOK, WalkOK, WalksMissNothing
<1>3. QED BY <1>1, <1>2, ListStep, PTL DEF ListSpec

-----------------------------------------------------------------------------
(* What a query sees                                                       *)

(* The lines shown of an order are the rows of its history, in some order; *)
(* nobody has been overtaken by more rows than there are.                  *)
ShownOK ==
  /\ shown \in [Orders -> Seq(Nat)]
  /\ \A o \in Orders : \A k : Has(shown[o], k) <=> k \in DOMAIN history[o]
  /\ overtaken \in [Processes -> [Orders -> Nat]]
  /\ \A p \in Processes, o \in Orders : overtaken[p][o] <= Len(shown[o])

(* A new row comes from a commit that holds the lock of the order.         *)
LEMMA NewRows ==
  ASSUME LockInv, [Next]_vars, NEW o \in Orders, history'[o] # history[o]
  PROVE  /\ orderLock[o] \in Processes
         /\ Len(history'[o]) = Len(history[o]) + 1
         /\ DOMAIN history'[o] = DOMAIN history[o] \union {Len(history'[o])}
<1>1. history[o] \in Seq(HistoryRow)
  BY DEF LockInv, TypeInv, TypeOK
<1>2. ASSUME NEW w \in Workers, CommitResult(w)
      PROVE  /\ orderLock[o] \in Processes
             /\ \E row \in HistoryRow : history'[o] = Append(history[o], row)
  <2>1. PICK x \in Orders, row \in HistoryRow :
          x = ClaimedOrder(w) /\ history' = [history EXCEPT ![x] = Append(history[x], row)]
    BY <1>2, CommitFacts
  <2>2. o = x
    BY <2>1 DEF LockInv, TypeInv, TypeOK
  <2>3. orderLock[o] = w
    BY <1>2, <2>1, <2>2 DEF LockInv, WorkerReads, CommitResult
  <2>4. history'[o] = Append(history[o], row)
    BY <2>1, <2>2 DEF LockInv, TypeInv, TypeOK
  <2>5. QED BY <2>3, <2>4 DEF Processes
<1>3. ASSUME NEW r \in Reconcilers, CommitRun(r)
      PROVE  /\ orderLock[o] \in Processes
             /\ \E row \in HistoryRow : history'[o] = Append(history[o], row)
  <2>1. o \in Repairs(r)
    BY <1>3 DEF CommitRun
  <2>2. o \in VisitedBy(r)
    BY <2>1 DEF Repairs, WithVerdict
  <2>3. orderLock[o] = r
    BY <2>2 DEF LockInv, ReconReads
  <2>4. RepairHistory(recon[r].seen[o], recon[r].snapshot.state[o]) \in HistoryRow
    BY <2>2, SeenFacts
       DEF RepairHistory, OrderRow, HistoryRow, ProviderRow, LockInv
  <2>5. history'[o] = Append(history[o],
                        RepairHistory(recon[r].seen[o], recon[r].snapshot.state[o]))
    BY <1>3, <2>1 DEF CommitRun
  <2>6. QED BY <2>3, <2>4, <2>5 DEF Processes
<1>4. history' # history
  OBVIOUS
<1>5. /\ orderLock[o] \in Processes
      /\ \E row \in HistoryRow : history'[o] = Append(history[o], row)
  BY <1>2, <1>3, <1>4
     DEF Next, IngestStep, Ingest, WorkerStep, WorkerNext, Claim, LockOrder,
         BusinessError, ScheduleRetry, SendToDlq, AbortTransaction, Crash, Restart,
         ReplayStep, ReplayNext, ReplaySelect, ReplayCommit, ReplayRefuse,
         ReplayAbort, ReconStep, ReconNext, FetchSnapshot, BeginRun, VisitOrder,
         AbortRun, ClockStep, Tick, vars, tables
<1>6. QED BY <1>1, <1>5

LEMMA ShownInit == QueryInit => ShownOK
BY DEF QueryInit, Init, TablesInit, ShownOK, Has, NoRows

LEMMA ShownStep ==
  ASSUME LockInv, ShownOK, TimedStep
  PROVE  ShownOK'
<1>1. [Next]_vars /\ ShownFollows /\ OvertakenFollows
  BY DEF TimedStep
<1>2. ASSUME NEW o \in Orders
      PROVE  /\ shown'[o] \in Seq(Nat)
             /\ \A k : Has(shown'[o], k) <=> k \in DOMAIN history'[o]
             /\ Len(shown[o]) \in Nat /\ Len(shown'[o]) \in Nat
             /\ Len(shown'[o]) = IF HasNewRow(o) THEN Len(shown[o]) + 1 ELSE Len(shown[o])
  <2>1. /\ shown[o] \in Seq(Nat) /\ Len(shown[o]) \in Nat
        /\ \A k : Has(shown[o], k) <=> k \in DOMAIN history[o]
    BY DEF ShownOK
  <2>2. CASE ~HasNewRow(o)
    <3>1. shown'[o] = shown[o] /\ history'[o] = history[o]
      BY <1>1, <2>2 DEF ShownFollows, HasNewRow
    <3>2. QED BY <2>1, <2>2, <3>1
  <2>3. CASE HasNewRow(o)
    <3> DEFINE n == Len(history'[o])
               before == overtaken[orderLock[o]][o]
               k == Len(shown[o]) + 1 - before
    <3>1. /\ orderLock[o] \in Processes /\ n = Len(history[o]) + 1
          /\ DOMAIN history'[o] = DOMAIN history[o] \union {n}
      BY <1>1, <2>3, NewRows DEF HasNewRow
    <3>2. n \in Nat
      BY <3>1 DEF LockInv, TypeInv, TypeOK
    <3>3. before \in Nat /\ before <= Len(shown[o])
      BY <3>1 DEF ShownOK
    <3>4. shown'[o] = InsertAt(shown[o], k, n)
      BY <1>1, <2>3 DEF ShownFollows
    <3> HIDE DEF n, before
    <3>5. k \in 1 .. Len(shown[o]) + 1
      BY <2>1, <3>3
    <3>6. PICK j \in 1 .. Len(shown[o]) + 1, m \in Nat :
            m = n /\ shown'[o] = InsertAt(shown[o], j, m)
      BY <3>2, <3>4, <3>5
    <3>7. shown'[o] \in Seq(Nat) /\ \A y : Has(shown'[o], y) <=> y = m \/ Has(shown[o], y)
      BY <2>1, <3>6, InsertedOnce
    <3>8. Len(shown'[o]) = Len(shown[o]) + 1
      BY <2>1, <3>6, InsertedAt
    <3>9. QED BY <2>1, <2>3, <3>1, <3>6, <3>7, <3>8 DEF n
  <2>4. QED BY <2>2, <2>3
<1>3. shown' \in [Orders -> Seq(Nat)]
  BY <1>1, <1>2 DEF ShownFollows
<1>4. ASSUME NEW p \in Processes
      PROVE  /\ overtaken'[p] \in [Orders -> Nat]
             /\ \A o \in Orders : overtaken'[p][o] <= Len(shown'[o])
  <2>1. overtaken[p] \in [Orders -> Nat] /\ \A o \in Orders : overtaken[p][o] <= Len(shown[o])
    BY DEF ShownOK
  <2>2. CASE overtaken'[p] = NoRows
    BY <1>2, <2>2 DEF NoRows
  <2>3. CASE overtaken'[p] = [o \in Orders |->
                IF HasNewRow(o) /\ BeganBefore(p, orderLock[o])
                  THEN overtaken[p][o] + 1 ELSE overtaken[p][o]]
    BY <1>2, <2>1, <2>3
  <2>4. QED BY <1>1, <2>2, <2>3 DEF OvertakenFollows
<1>5. overtaken' \in [Processes -> [Orders -> Nat]]
  BY <1>1, <1>4 DEF OvertakenFollows
<1>6. QED BY <1>2, <1>3, <1>4, <1>5 DEF ShownOK

Line(o, i) == [id |-> i, row |-> history[o][i]]

LEMMA CommittedLines ==
  ASSUME ShownOK, NEW o \in Orders
  PROVE  {Committed(o).rows[k] : k \in DOMAIN Committed(o).rows}
           = {Line(o, i) : i \in DOMAIN history[o]}
<1>1. /\ DOMAIN Committed(o).rows = DOMAIN shown[o]
      /\ \A k \in DOMAIN shown[o] : Committed(o).rows[k] = Line(o, shown[o][k])
  BY DEF Committed, History, Line
<1>2. \A i : i \in DOMAIN history[o] <=> \E k \in DOMAIN shown[o] : shown[o][k] = i
  BY DEF ShownOK, Has
<1>3. QED BY <1>1, <1>2

(* The rows of the history that belong to events are those of the decided  *)
(* events, with their outcomes.                                            *)
LEMMA RowsOfOrder ==
  ASSUME LockInv, ExactlyOnce, NEW o \in Orders
  PROVE  /\ \A i \in DOMAIN history[o] : history[o][i].event # Null =>
              /\ history[o][i].event \in EventsOf(o)
              /\ Decided(history[o][i].event)
              /\ history[o][i].outcome = events[history[o][i].event].status
         /\ \A e \in EventsOf(o) : Decided(e) =>
              e # Null /\ \E i \in DOMAIN history[o] : history[o][i].event = e
<1>1. ASSUME NEW i \in DOMAIN history[o], NEW e, e = history[o][i].event, e # Null
      PROVE  e \in EventsOf(o) /\ Decided(e) /\ history[o][i].outcome = events[e].status
  <2>1. history[o][i] \in HistoryRow
    BY DEF LockInv, TypeInv, TypeOK
  <2>2. e \in EventIds
    BY <1>1, <2>1 DEF HistoryRow
  <2>3. <<o, i>> \in RowsOf(e)
    BY <1>1, RowsMember
  <2>4. OnceFor(e)
    BY <2>2, OnceForAll
  <2>5. Decided(e) /\ RowsOf(e) = {<<o, i>>}
    BY <2>3, <2>4 DEF OnceFor
  <2>6. o = events[e].body.order /\ history[o][i].outcome = events[e].status
    BY <2>4, <2>5 DEF OnceFor
  <2>7. e \in Stored
    BY <2>2, <2>5 DEF Decided, Stored
  <2>8. QED BY <2>5, <2>6, <2>7 DEF EventsOf
<1>2. ASSUME NEW e \in EventsOf(o), Decided(e)
      PROVE  e # Null /\ \E i \in DOMAIN history[o] : history[o][i].event = e
  <2>1. e \in EventIds /\ events[e].body.order = o
    BY DEF EventsOf, Stored
  <2>2. PICK x \in RowsOf(e) : x[1] = o
    BY <1>2, <2>1, OnceForAll DEF OnceFor
  <2>3. PICK p \in Orders : \E i \in DOMAIN history[p] : history[p][i].event = e /\ x = <<p, i>>
    BY RowsMember
  <2>4. p = o
    BY <2>2, <2>3
  <2>5. QED BY <2>1, <2>3, <2>4, TablesAssumption
<1>3. QED BY <1>1, <1>2

LEMMA CommittedIsCoherent ==
  ASSUME HistoryInv, ExactlyOnce, ShownOK, NEW o \in Orders, orders[o].exists
  PROVE  Coherent(Committed(o))
<1> DEFINE a       == Committed(o)
           rows    == history[o]
           lines   == {a.rows[k] : k \in DOMAIN a.rows}
           moves   == {x \in lines : x.row.outcome # "IGNORED"}
           known   == a.events
<1>1. lines = {Line(o, i) : i \in DOMAIN rows}
  BY CommittedLines
<1>2. /\ DOMAIN rows = 1 .. Len(rows) /\ Len(rows) \in Nat
      /\ rows # << >> /\ Len(rows) \in DOMAIN rows
      /\ orders[o].status = rows[Len(rows)].new
      /\ EffectiveIn(rows) = {} => orders[o].seq = 0
      /\ \A i \in EffectiveIn(rows) :
           (\A j \in EffectiveIn(rows) : j <= i) => orders[o].seq = rows[i].seq
  <2>1. rows \in Seq(HistoryRow) /\ Explains(rows, orders[o])
    BY DEF HistoryInv, LockInv, TypeInv, TypeOK
  <2>2. rows # << >>
    BY <2>1 DEF Explains
  <2>3. DOMAIN rows = 1 .. Len(rows) /\ Len(rows) \in Nat /\ Len(rows) \in DOMAIN rows
    BY <2>1, <2>2
  <2>4. QED BY <2>1, <2>2, <2>3 DEF Explains
<1>3. /\ a.order = orders[o] /\ DOMAIN known = EventsOf(o)
      /\ \A e \in EventsOf(o) :
           known[e].status = events[e].status /\ known[e].reason = events[e].reason
  BY DEF Committed
<1>4. \A i \in DOMAIN rows : Line(o, i).id = i /\ Line(o, i).row = rows[i]
  BY DEF Line
<1>5. /\ \A i \in DOMAIN rows : rows[i].event # Null =>
           /\ rows[i].event \in EventsOf(o) /\ Decided(rows[i].event)
           /\ rows[i].outcome = events[rows[i].event].status
      /\ \A e \in EventsOf(o) : Decided(e) =>
           e # Null /\ \E i \in DOMAIN rows : rows[i].event = e
  BY RowsOfOrder DEF HistoryInv
<1> HIDE DEF a, rows, lines, known
<1>6. lines # {}
  BY <1>1, <1>2
<1>7. ASSUME NEW x \in lines, Newest(x, lines) PROVE a.order.status = x.row.new
  <2>1. PICK i \in DOMAIN rows : x = Line(o, i)
    BY <1>1
  <2>2. Len(rows) <= i
    BY <1>1, <1>2, <1>4, <1>7, <2>1 DEF Newest
  <2>3. i = Len(rows)
    BY <1>2, <2>2
  <2>4. QED BY <1>2, <1>3, <1>4, <2>1, <2>3
<1>8. moves = {Line(o, i) : i \in EffectiveIn(rows)}
  BY <1>1, <1>4 DEF EffectiveIn
<1>9. EffectiveIn(rows) \subseteq DOMAIN rows
  BY DEF EffectiveIn
<1> HIDE DEF moves
<1>10. moves = {} => a.order.seq = 0
  BY <1>2, <1>3, <1>8
<1>11. ASSUME NEW x \in moves, Newest(x, moves) PROVE a.order.seq = x.row.seq
  <2>1. PICK i \in EffectiveIn(rows) : x = Line(o, i)
    BY <1>8
  <2>2. \A j \in EffectiveIn(rows) : j <= i
    BY <1>4, <1>8, <1>9, <1>11, <2>1 DEF Newest
  <2>3. QED BY <1>2, <1>3, <1>4, <1>9, <2>1, <2>2
<1> DEFINE decided(e) == \/ known[e].status = "APPLIED"
                         \/ /\ known[e].status = "IGNORED"
                            /\ known[e].reason # "STALE_TIMESTAMP"
<1>12. \A e \in EventsOf(o) : decided(e) <=> Decided(e)
  BY <1>3 DEF Decided
<1> HIDE DEF decided
<1>13. {x.row.event : x \in lines} \ {Null} = {e \in DOMAIN known : decided(e)}
  <2>1. ASSUME NEW x \in lines, x.row.event # Null
        PROVE  x.row.event \in DOMAIN known /\ decided(x.row.event)
    <3>1. PICK i \in DOMAIN rows : x = Line(o, i)
      BY <1>1
    <3>2. QED BY <1>3, <1>4, <1>5, <1>12, <2>1, <3>1
  <2>2. ASSUME NEW e \in DOMAIN known, decided(e)
        PROVE  e # Null /\ \E x \in lines : x.row.event = e
    <3>1. e # Null /\ \E i \in DOMAIN rows : rows[i].event = e
      BY <1>3, <1>5, <1>12, <2>2
    <3>2. QED BY <1>1, <1>4, <3>1
  <2>3. QED BY <2>1, <2>2
<1>14. \A x \in lines : x.row.event # Null => x.row.outcome = known[x.row.event].status
  <2>1. ASSUME NEW i \in DOMAIN rows, rows[i].event # Null
        PROVE  rows[i].outcome = known[rows[i].event].status
    BY <1>3, <1>5, <2>1
  <2>2. QED BY <1>1, <1>4, <2>1
<1>15. Coherent(a) <=>
         /\ lines # {}
         /\ \A x \in lines : Newest(x, lines) => a.order.status = x.row.new
         /\ moves = {} => a.order.seq = 0
         /\ \A x \in moves : Newest(x, moves) => a.order.seq = x.row.seq
         /\ {x.row.event : x \in lines} \ {Null} = {e \in DOMAIN known : decided(e)}
         /\ \A x \in lines : x.row.event # Null => x.row.outcome = known[x.row.event].status
  BY Zenon DEF Coherent, lines, moves, known, decided
<1>16. Coherent(a)
  BY <1>6, <1>7, <1>10, <1>11, <1>13, <1>14, <1>15
<1>17. QED BY <1>16 DEF a

-----------------------------------------------------------------------------
(* The queries                                                             *)

(* What a query has answered so far comes from the snapshot that its first *)
(* statement saw.                                                          *)
ReaderOK(q) ==
  LET r == reader[q]
  IN  /\ r.pc = "begun" => r.id \in Orders
      /\ r.pc \in {"order", "events"} =>
           Coherent(r.snapshot) /\ r.answer.order = r.snapshot.order
      /\ r.pc = "events" => r.answer.events = r.snapshot.events
      /\ r.pc = "answered" => Coherent(r.answer)

ReadersOK == DOMAIN reader = Readers /\ \A q \in Readers : ReaderOK(q)

LEMMA SameAnswer ==
  ASSUME NEW a, NEW b, a.order = b.order, a.events = b.events, a.rows = b.rows,
         Coherent(a)
  PROVE  Coherent(b)
BY DEF Coherent

LEMMA ReaderGoesOn ==
  ASSUME HistoryInv, ExactlyOnce, ShownOK, ReadersOK, NEW q \in Readers, QueryStep(q)
  PROVE  ReadersOK'
<1> DEFINE r == reader[q]
<1>1. ReaderOK(q) /\ q \in DOMAIN reader
  BY DEF ReadersOK
<1>2. ASSUME NEW o \in AskedOrders, BeginQuery(q, o) PROVE ReaderOK(q)'
  <2>1. o \in Orders
    BY QueriesAssumption
  <2>2. QED BY <1>1, <1>2, <2>1 DEF BeginQuery, Goes, ReaderOK
<1>3. ASSUME SelectOrder(q) PROVE ReaderOK(q)'
  <2>1. r.pc = "begun" /\ r.id \in Orders /\ Sees(q) = Committed(r.id)
    BY <1>1, <1>3 DEF SelectOrder, Sees, ReaderOK
  <2>2. orders[r.id].exists
    BY <1>3, <2>1 DEF SelectOrder, Committed
  <2>3. Coherent(Sees(q))
    BY <2>1, <2>2, CommittedIsCoherent
  <2> DEFINE seen == Sees(q)
  <2>4. reader'[q] = [pc |-> "order", id |-> r.id, snapshot |-> seen,
                      answer |-> [order |-> seen.order, events |-> << >>, rows |-> << >>]]
    BY <1>1, <1>3 DEF SelectOrder, Goes
  <2> HIDE DEF seen
  <2>5. QED BY <2>3, <2>4 DEF ReaderOK, seen
<1>4. ASSUME SelectEvents(q) PROVE ReaderOK(q)'
  <2>1. /\ r.pc = "order" /\ Sees(q) = r.snapshot
        /\ Coherent(r.snapshot) /\ r.answer.order = r.snapshot.order
    BY <1>1, <1>4 DEF SelectEvents, Sees, ReaderOK
  <2>2. reader'[q] = [pc |-> "events", id |-> r.id, snapshot |-> r.snapshot,
                      answer |-> [order |-> r.answer.order, events |-> r.snapshot.events,
                                  rows |-> << >>]]
    BY <1>1, <1>4, <2>1 DEF SelectEvents, Goes
  <2>3. QED BY <2>1, <2>2 DEF ReaderOK
<1>5. ASSUME SelectHistory(q) PROVE ReaderOK(q)'
  <2>1. /\ r.pc = "events" /\ Sees(q) = r.snapshot
        /\ Coherent(r.snapshot) /\ r.answer.order = r.snapshot.order
        /\ r.answer.events = r.snapshot.events
    BY <1>1, <1>5 DEF SelectHistory, Sees, ReaderOK
  <2> DEFINE answer == [order |-> r.answer.order, events |-> r.answer.events,
                        rows |-> r.snapshot.rows]
  <2>2. reader'[q] = [pc |-> "answered", id |-> r.id, snapshot |-> NoView,
                      answer |-> answer]
    BY <1>1, <1>5, <2>1 DEF SelectHistory, Goes
  <2>3. Coherent(answer)
    BY <2>1, SameAnswer
  <2> HIDE DEF answer
  <2>4. QED BY <2>2, <2>3 DEF ReaderOK
<1>6. ASSUME NotFound(q) \/ QueryFails(q) PROVE ReaderOK(q)'
  BY <1>1, <1>6 DEF NotFound, QueryFails, NoReader, ReaderOK
<1>7. ReaderOK(q)'
  BY <1>2, <1>3, <1>4, <1>5, <1>6 DEF QueryStep
<1>8. PICK v : reader' = [reader EXCEPT ![q] = v]
  BY DEF QueryStep, BeginQuery, SelectOrder, NotFound, SelectEvents, SelectHistory,
         QueryFails, Goes
<1>9. ASSUME NEW p \in Readers, p # q PROVE ReaderOK(p)'
  BY <1>8, <1>9 DEF ReadersOK, ReaderOK
<1>10. QED BY <1>7, <1>8, <1>9 DEF ReadersOK

QueryInv == HistoryInv /\ EffectInv /\ ShownOK /\ ReadersOK

LEMMA QueryBegins == QueryInit => QueryInv
<1> SUFFICES ASSUME QueryInit PROVE QueryInv
  OBVIOUS
<1>1. ReadersOK
  BY DEF QueryInit, NoReader, ReadersOK, ReaderOK
<1>2. HistoryInv /\ EffectInv
  BY HistoryInit, EffectInit DEF QueryInit
<1>3. QED BY <1>1, <1>2, ShownInit DEF QueryInv

LEMMA QueryGoesOn == QueryInv /\ [QueryNext]_queryVars => QueryInv'
<1> SUFFICES ASSUME QueryInv, [QueryNext]_queryVars PROVE QueryInv'
  OBVIOUS
<1>1. [Next]_vars
  BY DEF QueryNext, TimedStep, BeginWaiting, QueryStep, queryVars
<1>2. HistoryInv' /\ EffectInv'
  BY <1>1, HistoryStep, EffectStep DEF QueryInv
<1>3. LockInv /\ ExactlyOnce
  BY DEF QueryInv, EffectInv
<1>4. ASSUME UNCHANGED <<vars, shown, overtaken>> PROVE ShownOK'
  BY <1>4 DEF QueryInv, ShownOK, vars, tables
<1>5. ASSUME UNCHANGED reader PROVE ReadersOK'
  BY <1>5 DEF QueryInv, ReadersOK, ReaderOK
<1>6. ASSUME TimedStep PROVE ShownOK' /\ ReadersOK'
  BY <1>3, <1>5, <1>6, ShownStep DEF QueryInv, TimedStep
<1>7. ASSUME NEW q \in Readers, QueryStep(q) PROVE ShownOK' /\ ReadersOK'
  BY <1>3, <1>4, <1>7, ReaderGoesOn DEF QueryInv, QueryStep
<1>8. ASSUME UNCHANGED queryVars PROVE ShownOK' /\ ReadersOK'
  BY <1>4, <1>5, <1>8 DEF queryVars
<1>9. ASSUME NEW c \in Reconcilers, BeginWaiting(c) PROVE ShownOK' /\ ReadersOK'
  BY <1>4, <1>5, <1>9 DEF BeginWaiting
<1>10. QED BY <1>2, <1>6, <1>7, <1>8, <1>9 DEF QueryInv, QueryNext

(* What GET /orders/:id answers is true of one moment: the order, its      *)
(* events and its history agree, whatever is committed between the three   *)
(* SELECTs.                                                                *)
THEOREM AnswersAreOfOneMoment == QuerySpec => []AnswersAreCoherent
<1>1. QueryInv => AnswersAreCoherent
  BY DEF QueryInv, ReadersOK, ReaderOK, AnswersAreCoherent, Answers
<1>2. QED BY <1>1, QueryBegins, QueryGoesOn, PTL DEF QuerySpec
=============================================================================
