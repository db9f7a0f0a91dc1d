---------------------------- MODULE EventProofs -----------------------------
(***************************************************************************)
(* The life of an event, for any number of events, workers and requests.   *)
(*                                                                         *)
(* Its business effect happens exactly once and is never lost to an older  *)
(* one: only the commit of a worker decides an event; the event it commits *)
(* was waiting, because what it read when it claimed the event is still    *)
(* true (LockProofs); and a waiting event has left no row yet.             *)
(*                                                                         *)
(* The row of the event makes only few moves, since a worker and a replay  *)
(* decide on the committed row: from them follow the budget of attempts,   *)
(* the finality of outcomes and the count of deliveries.                   *)
(***************************************************************************)
EXTENDS LockProofs

(* Every stored event has a type that the processor knows.                 *)
KnownTypes ==
  /\ \A e \in Stored : events[e].body.type \in AllowedEventTypes
  /\ NoUnknownType

EffectInv == LockInv /\ KnownTypes /\ ExactlyOnce /\ NothingNewerLost

-----------------------------------------------------------------------------
(* Helpers                                                                 *)

LEMMA RowsMember ==
  ASSUME NEW e, NEW x
  PROVE  x \in RowsOf(e) <=>
           \E o \in Orders : \E i \in DOMAIN history[o] :
             history[o][i].event = e /\ x = <<o, i>>
BY DEF RowsOf

(* A history to which rows of other events were appended has the same rows *)
(* of event e as before.                                                   *)
LEMMA OtherRows ==
  ASSUME NEW e, LockInv,
         \A o \in Orders :
           \/ history'[o] = history[o]
           \/ \E row \in HistoryRow :
                row.event # e /\ history'[o] = Append(history[o], row)
  PROVE  /\ RowsOf(e)' = RowsOf(e)
         /\ \A o \in Orders : \A i \in DOMAIN history[o] :
              history'[o][i] = history[o][i]
<1> DEFINE Kept(o) ==
             /\ \A i \in DOMAIN history[o] :
                  i \in DOMAIN history'[o] /\ history'[o][i] = history[o][i]
             /\ \A i \in DOMAIN history'[o] :
                  history'[o][i].event = e => i \in DOMAIN history[o]
<1>1. ASSUME NEW o \in Orders PROVE Kept(o)
  <2>1. history[o] \in Seq(HistoryRow)
    BY DEF LockInv, TypeInv, TypeOK
  <2>2. CASE history'[o] = history[o]
    BY <2>2
  <2>3. ASSUME NEW row \in HistoryRow, row.event # e,
               history'[o] = Append(history[o], row)
        PROVE  Kept(o)
    BY <2>1, <2>3
  <2>4. QED BY <2>2, <2>3
<1>2. RowsOf(e)' = RowsOf(e)
  BY <1>1 DEF RowsOf
<1>3. QED BY <1>1, <1>2

(* A step that neither decides an event nor changes a decided one.         *)
Undecisive ==
  \A e \in EventIds :
    /\ Decided(e)' <=> Decided(e)
    /\ Decided(e) => /\ events'[e].status = events[e].status
                     /\ events'[e].body = events[e].body

(* What ExactlyOnce says of one event.                                     *)
OnceFor(e) ==
  IF Decided(e)
    THEN \E x \in RowsOf(e) :
           /\ RowsOf(e) = {x}
           /\ x[1] = events[e].body.order
           /\ history[x[1]][x[2]].seq = events[e].body.seq
           /\ history[x[1]][x[2]].outcome = events[e].status
    ELSE RowsOf(e) = {}

LEMMA OnceForAll == ExactlyOnce <=> \A e \in EventIds : OnceFor(e)
BY DEF ExactlyOnce, OnceFor

LEMMA OnceKept ==
  ASSUME LockInv, NEW e \in EventIds, OnceFor(e),
         Decided(e)' <=> Decided(e),
         Decided(e) => events'[e].status = events[e].status
                       /\ events'[e].body = events[e].body,
         \A o \in Orders :
           \/ history'[o] = history[o]
           \/ \E row \in HistoryRow :
                row.event # e /\ history'[o] = Append(history[o], row)
  PROVE  OnceFor(e)'
<1>1. /\ RowsOf(e)' = RowsOf(e)
      /\ \A o \in Orders : \A i \in DOMAIN history[o] :
           history'[o][i] = history[o][i]
  BY OtherRows
<1>2. CASE ~Decided(e)
  BY <1>1, <1>2 DEF OnceFor
<1>3. CASE Decided(e)
  <2>1. PICK x \in RowsOf(e) :
          /\ RowsOf(e) = {x}
          /\ x[1] = events[e].body.order
          /\ history[x[1]][x[2]].seq = events[e].body.seq
          /\ history[x[1]][x[2]].outcome = events[e].status
    BY <1>3 DEF OnceFor
  <2>2. \E o \in Orders : \E i \in DOMAIN history[o] : x = <<o, i>>
    BY RowsMember
  <2>3. history'[x[1]][x[2]] = history[x[1]][x[2]]
    BY <1>1, <2>2
  <2>4. /\ x \in RowsOf(e)' /\ RowsOf(e)' = {x}
        /\ x[1] = events'[e].body.order
        /\ history'[x[1]][x[2]].seq = events'[e].body.seq
        /\ history'[x[1]][x[2]].outcome = events'[e].status
    BY <1>1, <1>3, <2>1, <2>3
  <2>5. QED BY <1>3, <2>4 DEF OnceFor
<1>4. QED BY <1>2, <1>3

-----------------------------------------------------------------------------
(* The steps that decide nothing.                                          *)
LEMMA IngestUndecisive ==
  ASSUME LockInv, IngestStep
  PROVE  Undecisive
<1> PICK b \in Bodies, isStale \in BOOLEAN : Ingest(b, isStale)
  BY DEF IngestStep
<1>1. /\ b.event \in EventIds
      /\ events \in [EventIds -> EventRow]
      /\ events' = [events EXCEPT ![b.event] = Upsert(b, isStale)]
  BY BodyFacts DEF Ingest, LockInv, TypeInv, TypeOK
<1>2. CASE events[b.event].status = "ABSENT"
  <2>1. /\ Upsert(b, isStale).status \in {"PENDING", "IGNORED"}
        /\ Upsert(b, isStale).status = "IGNORED"
             => Upsert(b, isStale).reason = "STALE_TIMESTAMP"
    BY <1>2 DEF Upsert, FirstDelivery
  <2> HIDE DEF Upsert
  <2>2. QED BY <1>1, <1>2, <2>1 DEF Undecisive, Decided
<1>3. CASE events[b.event].status # "ABSENT"
  <2>1. /\ Upsert(b, isStale).status = events[b.event].status
        /\ Upsert(b, isStale).reason = events[b.event].reason
        /\ Upsert(b, isStale).body = events[b.event].body
    BY <1>1, <1>3 DEF Upsert, EventRow
  <2>2. QED BY <1>1, <2>1 DEF Undecisive, Decided
<1>4. QED BY <1>2, <1>3

LEMMA TickUndecisive ==
  ASSUME LockInv, ClockStep
  PROVE  Undecisive
<1>1. ASSUME NEW e \in EventIds
      PROVE  /\ events'[e].status = events[e].status
             /\ events'[e].reason = events[e].reason
             /\ events'[e].body = events[e].body
  <2>1. events[e] \in EventRow
    BY DEF LockInv, TypeInv, TypeOK
  <2>2. events'[e] = IF events[e].next \in {Null, 0} THEN events[e]
                     ELSE [events[e] EXCEPT !.next = events[e].next - 1]
    BY DEF ClockStep, Tick
  <2>3. QED BY <2>1, <2>2 DEF EventRow
<1>2. QED BY <1>1 DEF Undecisive, Decided

LEMMA WorkerUndecisive ==
  ASSUME LockInv, NEW w \in Workers, WorkerStep(w), ~CommitResult(w)
  PROVE  Undecisive
<1>1. CASE UNCHANGED events
  BY <1>1 DEF Undecisive, Decided
<1>2. CASE ScheduleRetry(w) \/ SendToDlq(w)
  <2> DEFINE e == ClaimedEvent(w)
  <2>1. InTransaction(w) /\ e \in EventIds
    BY <1>2, ClaimFacts DEF ScheduleRetry, SendToDlq, InTransaction, LockInv
  <2>2. events[e].status \in Waiting
    BY <2>1 DEF LockInv, WorkerReads
  <2>3. events \in [EventIds -> EventRow] /\ events[e] \in EventRow
    BY <2>1 DEF LockInv, TypeInv, TypeOK
  <2>4. /\ events'[e].status \in {"RETRY_SCHEDULED", "DLQ"}
        /\ \A f \in EventIds \ {e} : events'[f] = events[f]
    <3>1. CASE ScheduleRetry(w)
      BY <2>1, <2>3, <3>1 DEF ScheduleRetry, EventRow
    <3>2. CASE SendToDlq(w)
      BY <2>1, <2>3, <3>2 DEF SendToDlq, EventRow
    <3>3. QED BY <1>2, <3>1, <3>2
  <2>5. QED
    BY <2>2, <2>4 DEF Undecisive, Decided, Waiting
<1>3. QED
  BY <1>1, <1>2
     DEF WorkerStep, WorkerNext, Claim, LockOrder, BusinessError,
         AbortTransaction, Crash, Restart, tables

LEMMA ReplayUndecisive ==
  ASSUME LockInv, NEW r \in Replayers, ReplayStep(r)
  PROVE  Undecisive
<1>1. CASE UNCHANGED events
  BY <1>1 DEF Undecisive, Decided
<1>2. CASE ReplayCommit(r)
  <2> DEFINE e == replay[r].event.body.event
  <2>1. e \in EventIds /\ replay[r].event \in EventRow
    BY <1>2, BodyFacts
       DEF ReplayCommit, LockInv, TypeInv, TypeOK, ControlOK, ReplaysOK, ReplayState
  <2>2. events \in [EventIds -> EventRow] /\ events[e] \in EventRow
    BY <2>1 DEF LockInv, TypeInv, TypeOK
  <2>3. replay[r].event.status = "DLQ" /\ SameRow(replay[r].event, events[e])
    BY <1>2 DEF ReplayCommit, Replayable, LockInv, ReplayReads
  <2>4. events[e].status = "DLQ"
    BY <2>1, <2>2, <2>3 DEF SameRow, EventRow
  <2>5. Revived(events[e]).status = "PENDING"
    BY <2>2 DEF Revived, EventRow
  <2>6. events' = [events EXCEPT ![e] = Revived(events[e])]
    BY <1>2 DEF ReplayCommit
  <2>7. QED
    BY <2>1, <2>2, <2>4, <2>5, <2>6 DEF Undecisive, Decided
<1>3. QED
  BY <1>1, <1>2 DEF ReplayStep, ReplayNext, ReplaySelect, ReplayRefuse,
                    ReplayAbort, tables

-----------------------------------------------------------------------------
(* The steps that leave the histories alone, or append repairs to them.    *)
LEMMA HistorySteps ==
  ASSUME LockInv, [Next]_vars, \A w \in Workers : ~CommitResult(w),
         NEW e \in EventIds
  PROVE  \A o \in Orders :
           \/ history'[o] = history[o]
           \/ \E row \in HistoryRow :
                row.event # e /\ history'[o] = Append(history[o], row)
<1>1. ASSUME NEW r \in Reconcilers, CommitRun(r), NEW o \in Orders
      PROVE  \/ history'[o] = history[o]
             \/ \E row \in HistoryRow :
                  row.event # e /\ history'[o] = Append(history[o], row)
  <2> DEFINE row == RepairHistory(recon[r].seen[o], recon[r].snapshot.state[o])
  <2>1. CASE o \in Repairs(r)
    <3>1. o \in VisitedBy(r)
      BY <2>1 DEF Repairs, WithVerdict
    <3>2. row \in HistoryRow
      BY <3>1, SeenFacts
         DEF RepairHistory, OrderRow, HistoryRow, ProviderRow, LockInv
    <3>3. row.event # e
      BY TablesAssumption DEF RepairHistory
    <3>4. history'[o] = Append(history[o], row)
      BY <1>1, <2>1 DEF CommitRun
    <3> HIDE DEF row
    <3>5. QED BY <3>2, <3>3, <3>4
  <2>2. CASE o \notin Repairs(r)
    BY <1>1, <2>2 DEF CommitRun
  <2>3. QED BY <2>1, <2>2
<1>2. CASE UNCHANGED history
  BY <1>2
<1>3. QED
  BY <1>1, <1>2
     DEF Next, IngestStep, Ingest, WorkerStep, WorkerNext, Claim, LockOrder,
         BusinessError, ScheduleRetry, SendToDlq, AbortTransaction, Crash, Restart,
         ReplayStep, ReplayNext, ReplaySelect, ReplayCommit, ReplayRefuse,
         ReplayAbort, ReconStep, ReconNext, FetchSnapshot, BeginRun, VisitOrder,
         AbortRun, ClockStep, Tick, vars, tables

LEMMA OtherStepsUndecisive ==
  ASSUME LockInv, [Next]_vars, \A w \in Workers : ~CommitResult(w)
  PROVE  Undecisive
<1>1. CASE UNCHANGED events
  BY <1>1 DEF Undecisive, Decided
<1>2. QED
  BY <1>1, IngestUndecisive, TickUndecisive, WorkerUndecisive, ReplayUndecisive
     DEF Next, ReconStep, ReconNext, FetchSnapshot, BeginRun, VisitOrder,
         CommitRun, AbortRun, vars, tables

(* What the commit of a worker does to the tables.                         *)
LEMMA CommitFacts ==
  ASSUME LockInv, NEW w \in Workers, CommitResult(w)
  PROVE  LET e == ClaimedEvent(w)
             o == ClaimedOrder(w)
             body == events[e].body
             result == Process(body, InsertOrderIfMissing(orders[o]))
         IN  /\ e \in EventIds /\ o \in Orders /\ body \in Bodies
             /\ body.event = e /\ body.order = o
             /\ events[e].status \in Waiting
             /\ \A f \in EventIds \ {e} : events'[f] = events[f]
             /\ events'[e].status = result.outcome
             /\ events'[e].reason = result.reason
             /\ events'[e].body = body
             /\ orders'[o] = result.order
             /\ \E row \in HistoryRow :
                  /\ row.event = e /\ row.seq = body.seq
                  /\ row.outcome = result.outcome
                  /\ row.prev = orders[o].status /\ row.new = result.order.status
                  /\ history' = [history EXCEPT ![o] = Append(history[o], row)]
<1> DEFINE e == ClaimedEvent(w)
           o == ClaimedOrder(w)
           body == worker[w].event.body
           result == Process(body, worker[w].order)
           row == WebhookHistory(body, worker[w].order, result)
<1>1. /\ InTransaction(w) /\ e \in EventIds /\ o \in Orders /\ body \in Bodies
      /\ body.event = e /\ body.order = o
  BY ClaimFacts DEF CommitResult, InTransaction, LockInv, ClaimedEvent, ClaimedOrder
<1>2. /\ worker[w].event = events[e] /\ events[e].status \in Waiting
      /\ worker[w].order = InsertOrderIfMissing(orders[o])
  BY <1>1 DEF CommitResult, LockInv, WorkerReads
<1>3. /\ events[e] \in EventRow /\ events \in [EventIds -> EventRow]
      /\ orders \in [Orders -> OrderRow] /\ worker[w].order \in OrderRow
  BY <1>1, <1>2, InsertTypes DEF LockInv, TypeInv, TypeOK
<1>4. /\ result.order \in OrderRow
      /\ result.outcome \in {"APPLIED", "IGNORED"}
  BY <1>1, <1>3, ProcessTypes
<1>5. /\ orders' = [orders EXCEPT ![o] = result.order]
      /\ history' = [history EXCEPT ![o] = Append(history[o], row)]
      /\ events' = [events EXCEPT ![e] =
           [events[e] EXCEPT !.status = result.outcome,
                             !.reason = result.reason, !.next = Null]]
  BY DEF CommitResult
<1> HIDE DEF result
<1>6. row \in HistoryRow
  BY <1>1, <1>3, <1>4, BodyFacts DEF WebhookHistory, HistoryRow, OrderRow
<1>7. /\ row.event = e /\ row.seq = body.seq /\ row.outcome = result.outcome
      /\ row.prev = orders[o].status /\ row.new = result.order.status
  BY <1>1, <1>2, <1>3 DEF WebhookHistory, InsertOrderIfMissing, OrderRow
<1>8. /\ \A f \in EventIds \ {e} : events'[f] = events[f]
      /\ events'[e].status = result.outcome
      /\ events'[e].reason = result.reason
      /\ events'[e].body = body
  BY <1>1, <1>2, <1>3, <1>5 DEF EventRow
<1>9. orders'[o] = result.order
  BY <1>1, <1>3, <1>5
<1> HIDE DEF row
<1>10. result = Process(events[e].body, InsertOrderIfMissing(orders[o]))
  BY <1>2 DEF result
<1>11. QED
  BY <1>1, <1>2, <1>5, <1>6, <1>7, <1>8, <1>9, <1>10

(* The commit gives its event its one row and leaves the others' alone.    *)
LEMMA CommitOnce ==
  ASSUME LockInv, ExactlyOnce, NEW w \in Workers, CommitResult(w)
  PROVE  ExactlyOnce'
<1> PICK c \in EventIds, o \in Orders, body \in Bodies :
      c = ClaimedEvent(w) /\ o = ClaimedOrder(w) /\ body = events[c].body
  BY CommitFacts
<1> DEFINE result == Process(body, InsertOrderIfMissing(orders[o]))
<1>1. PICK row \in HistoryRow :
        /\ row.event = c /\ row.seq = body.seq /\ row.outcome = result.outcome
        /\ history' = [history EXCEPT ![o] = Append(history[o], row)]
  BY CommitFacts
<1>2. /\ body.event = c /\ body.order = o
      /\ events[c].status \in Waiting
      /\ \A f \in EventIds \ {c} : events'[f] = events[f]
      /\ events'[c].status = result.outcome
      /\ events'[c].reason = result.reason
      /\ events'[c].body = body
  BY CommitFacts
<1>3. history \in [Orders -> Seq(HistoryRow)]
  BY DEF LockInv, TypeInv, TypeOK
<1>4. result.outcome \in {"APPLIED", "IGNORED"} /\ result.reason # "STALE_TIMESTAMP"
  BY TablesAssumption DEF Process, Applied, Ignored
<1> HIDE DEF result
<1>5. OnceFor(c)'
  <2> DEFINE n == Len(history[o]) + 1
  <2>1. RowsOf(c) = {}
    BY <1>2, OnceForAll DEF OnceFor, Decided, Waiting
  <2>2. Decided(c)'
    BY <1>2, <1>4 DEF Decided
  <2>3. /\ n \in DOMAIN history'[o] /\ history'[o][n] = row
        /\ \A i \in DOMAIN history'[o] : i = n \/ (i \in DOMAIN history[o]
                                            /\ history'[o][i] = history[o][i])
        /\ \A x \in Orders \ {o} : history'[x] = history[x]
    BY <1>1, <1>2, <1>3
  <2>4. \A x \in Orders : \A i \in DOMAIN history[x] : history[x][i].event # c
    <3> SUFFICES ASSUME NEW x \in Orders, NEW i \in DOMAIN history[x],
                        history[x][i].event = c
                 PROVE  FALSE
      OBVIOUS
    <3>1. <<x, i>> \in RowsOf(c)
      BY RowsMember
    <3>2. QED BY <2>1, <3>1
  <2>5. RowsOf(c)' = {<<o, n>>}
    <3>1. \A x \in Orders : \A i \in DOMAIN history'[x] :
            history'[x][i].event = c <=> x = o /\ i = n
      BY <1>1, <2>3, <2>4
    <3>2. <<o, n>> \in RowsOf(c)'
      BY <2>3, <3>1 DEF RowsOf
    <3>3. ASSUME NEW x \in RowsOf(c)' PROVE x = <<o, n>>
      BY <3>1, <3>3 DEF RowsOf
    <3>4. QED BY <3>2, <3>3
  <2>6. QED
    BY <1>1, <1>2, <2>2, <2>3, <2>5 DEF OnceFor
<1>6. ASSUME NEW e \in EventIds \ {c} PROVE OnceFor(e)'
  <2>1. \A x \in Orders :
          \/ history'[x] = history[x]
          \/ history'[x] = Append(history[x], row) /\ row.event # e
    BY <1>1, <1>2, <1>3
  <2>2. events'[e] = events[e]
    BY <1>2
  <2>3. OnceFor(e)
    BY OnceForAll
  <2>4. (Decided(e)' <=> Decided(e)) /\ events'[e].status = events[e].status
        /\ events'[e].body = events[e].body
    BY <2>2 DEF Decided
  <2>5. QED BY <2>1, <2>3, <2>4, OnceKept
<1>7. \A e \in EventIds : OnceFor(e)'
  BY <1>5, <1>6
<1>8. QED
  BY <1>7 DEF ExactlyOnce, OnceFor

-----------------------------------------------------------------------------
LEMMA EffectInit == Init => EffectInv
<1> SUFFICES ASSUME Init PROVE EffectInv
  OBVIOUS
<1>1. \A e \in EventIds : events[e].status = "ABSENT" /\ events[e].reason = Null
  BY DEF Init, TablesInit, NoEventRow
<1>2. \A o \in Orders : history[o] = << >>
  BY DEF Init, TablesInit
<1>3. \A e \in EventIds : ~Decided(e) /\ RowsOf(e) = {}
  BY <1>1, <1>2 DEF Decided, RowsOf
<1>4. KnownTypes /\ NothingNewerLost
  BY <1>1, <1>3, TablesAssumption
     DEF KnownTypes, NoUnknownType, Stored, NothingNewerLost
<1>5. ExactlyOnce
  BY <1>3 DEF ExactlyOnce
<1>6. QED BY <1>4, <1>5, LockInit DEF EffectInv

(* Ingestion admits only types that the processor knows, so no event is    *)
(* ever ignored for its type.                                              *)
LEMMA KnownTypesStep ==
  ASSUME LockInv, KnownTypes, [Next]_vars
  PROVE  KnownTypes'
<1>1. CASE UNCHANGED events
  BY <1>1 DEF KnownTypes, NoUnknownType, Stored
<1>2. CASE IngestStep
  <2> PICK b \in Bodies, isStale \in BOOLEAN : Ingest(b, isStale)
    BY <1>2 DEF IngestStep
  <2>1. /\ b.event \in EventIds /\ b.type \in AllowedEventTypes
        /\ events \in [EventIds -> EventRow]
        /\ events' = [events EXCEPT ![b.event] = Upsert(b, isStale)]
    BY BodyFacts DEF Ingest, LockInv, TypeInv, TypeOK
  <2>2. CASE events[b.event].status = "ABSENT"
    <3>1. /\ Upsert(b, isStale).body = b
          /\ Upsert(b, isStale).reason # "UNKNOWN_EVENT_TYPE"
      BY <2>2, TablesAssumption DEF Upsert, FirstDelivery
    <3> HIDE DEF Upsert, AllowedEventTypes
    <3>2. QED BY <2>1, <3>1 DEF KnownTypes, NoUnknownType, Stored
  <2>3. CASE events[b.event].status # "ABSENT"
    <3>1. /\ Upsert(b, isStale).body = events[b.event].body
          /\ Upsert(b, isStale).reason = events[b.event].reason
          /\ Upsert(b, isStale).status = events[b.event].status
      BY <2>1, <2>3 DEF Upsert, EventRow
    <3>2. QED BY <2>1, <2>3, <3>1 DEF KnownTypes, NoUnknownType, Stored
  <2>4. QED BY <2>2, <2>3
<1>3. CASE ClockStep
  <2>1. ASSUME NEW e \in EventIds
        PROVE  /\ events'[e].status = events[e].status
               /\ events'[e].reason = events[e].reason
               /\ events'[e].body = events[e].body
    <3>1. events[e] \in EventRow
      BY DEF LockInv, TypeInv, TypeOK
    <3>2. events'[e] = IF events[e].next \in {Null, 0} THEN events[e]
                       ELSE [events[e] EXCEPT !.next = events[e].next - 1]
      BY <1>3 DEF ClockStep, Tick
    <3>3. QED BY <3>1, <3>2 DEF EventRow
  <2>2. QED BY <2>1 DEF KnownTypes, NoUnknownType, Stored
<1>4. ASSUME NEW w \in Workers, CommitResult(w)
      PROVE  KnownTypes'
  <2> PICK c \in EventIds, o \in Orders, body \in Bodies :
        c = ClaimedEvent(w) /\ o = ClaimedOrder(w) /\ body = events[c].body
    BY <1>4, CommitFacts
  <2> DEFINE result == Process(body, InsertOrderIfMissing(orders[o]))
  <2>1. /\ events[c].status \in Waiting
        /\ \A f \in EventIds \ {c} : events'[f] = events[f]
        /\ events'[c].reason = result.reason
        /\ events'[c].body = body
    BY <1>4, CommitFacts
  <2>2. body.type \in AllowedEventTypes
    BY <2>1 DEF KnownTypes, NoUnknownType, Stored, Waiting
  <2>3. result.reason # "UNKNOWN_EVENT_TYPE"
    BY <2>2, TablesAssumption
       DEF Process, Applied, Ignored, AllowedEventTypes, EventTypeToStatus
  <2> HIDE DEF result
  <2>4. QED BY <2>1, <2>2, <2>3 DEF KnownTypes, NoUnknownType, Stored
<1>5. ASSUME NEW w \in Workers, ScheduleRetry(w) \/ SendToDlq(w)
      PROVE  KnownTypes'
  <2> PICK c \in EventIds : c = ClaimedEvent(w) /\ InTransaction(w)
    BY <1>5, ClaimFacts DEF ScheduleRetry, SendToDlq, InTransaction, LockInv
  <2>1. events[c].status \in Waiting
    BY DEF LockInv, WorkerReads
  <2>2. events \in [EventIds -> EventRow] /\ events[c] \in EventRow
    BY DEF LockInv, TypeInv, TypeOK
  <2>3. /\ \A f \in EventIds \ {c} : events'[f] = events[f]
        /\ events'[c].reason \in {"TRANSIENT_ERROR", "MAX_ATTEMPTS_EXHAUSTED"}
        /\ events'[c].body = events[c].body
    <3>1. CASE ScheduleRetry(w)
      BY <2>2, <3>1 DEF ScheduleRetry, EventRow
    <3>2. CASE SendToDlq(w)
      BY <2>2, <3>2 DEF SendToDlq, EventRow
    <3>3. QED BY <1>5, <3>1, <3>2
  <2>4. QED BY <2>1, <2>3 DEF KnownTypes, NoUnknownType, Stored, Waiting
<1>6. ASSUME NEW r \in Replayers, ReplayCommit(r)
      PROVE  KnownTypes'
  <2> PICK c \in Stored : c = replay[r].event.body.event
    BY <1>6 DEF ReplayCommit, LockInv, TypeInv, ControlOK, ReplaysOK
  <2>1. c \in EventIds /\ events \in [EventIds -> EventRow] /\ events[c] \in EventRow
    BY DEF Stored, LockInv, TypeInv, TypeOK
  <2>2. events' = [events EXCEPT ![c] = Revived(events[c])]
    BY <1>6 DEF ReplayCommit
  <2>3. Revived(events[c]).reason = Null /\ Revived(events[c]).body = events[c].body
    BY <2>1 DEF Revived, EventRow
  <2>4. QED BY <2>1, <2>2, <2>3, TablesAssumption DEF KnownTypes, NoUnknownType, Stored
<1>7. QED
  BY <1>1, <1>2, <1>3, <1>4, <1>5, <1>6
     DEF Next, WorkerStep, WorkerNext, Claim, LockOrder, BusinessError,
         AbortTransaction, Crash, Restart, ReplayStep, ReplayNext, ReplaySelect,
         ReplayRefuse, ReplayAbort, ReconStep, ReconNext, FetchSnapshot, BeginRun,
         VisitOrder, CommitRun, AbortRun, vars, tables

LEMMA OnceStep ==
  ASSUME LockInv, ExactlyOnce, [Next]_vars
  PROVE  ExactlyOnce'
<1>1. CASE \E w \in Workers : CommitResult(w)
  BY <1>1, CommitOnce
<1>2. CASE \A w \in Workers : ~CommitResult(w)
  <2>1. ASSUME NEW e \in EventIds PROVE OnceFor(e)'
    <3>1. OnceFor(e)
      BY OnceForAll
    <3>2. /\ Decided(e)' <=> Decided(e)
          /\ Decided(e) => events'[e].status = events[e].status
                           /\ events'[e].body = events[e].body
      BY <1>2, OtherStepsUndecisive DEF Undecisive
    <3>3. \A o \in Orders :
            \/ history'[o] = history[o]
            \/ \E row \in HistoryRow :
                 row.event # e /\ history'[o] = Append(history[o], row)
      BY <1>2, HistorySteps
    <3>4. QED BY <3>1, <3>2, <3>3, OnceKept
  <2>2. QED BY <2>1 DEF ExactlyOnce, OnceFor
<1>3. QED BY <1>1, <1>2

(* The order of a decided event is at least as far as the event: it was    *)
(* there when the event was committed and has not gone back since.         *)
LEMMA NewestStep ==
  ASSUME LockInv, KnownTypes, NothingNewerLost, [Next]_vars
  PROVE  NothingNewerLost'
<1> SUFFICES ASSUME NEW e \in EventIds, Decided(e)'
             PROVE  orders'[events'[e].body.order].seq >= events'[e].body.seq
  BY DEF NothingNewerLost
<1>1. ASSUME Decided(e), events'[e].body = events[e].body
      PROVE  orders'[events'[e].body.order].seq >= events'[e].body.seq
  <2> DEFINE o == events[e].body.order
  <2>1. events[e].body \in Bodies
    BY <1>1 DEF Decided, LockInv, TypeInv, ControlOK, BodiesOK, Stored
  <2>2. o \in Orders /\ events[e].body.seq \in Nat
    BY <2>1, BodyFacts
  <2>3. orders[o].seq \in Nat /\ orders'[o].seq \in Nat
    BY <2>2, LockStep DEF LockInv, TypeInv, TypeOK, OrderRow
  <2>4. orders'[o].seq >= orders[o].seq
    BY <2>2, SequenceStep
  <2>5. orders[o].seq >= events[e].body.seq
    BY <1>1 DEF NothingNewerLost
  <2>6. QED BY <1>1, <2>2, <2>3, <2>4, <2>5
<1>2. ASSUME NEW w \in Workers, CommitResult(w), e = ClaimedEvent(w)
      PROVE  orders'[events'[e].body.order].seq >= events'[e].body.seq
  <2> PICK o \in Orders, body \in Bodies :
        o = ClaimedOrder(w) /\ body = events[e].body
    BY <1>2, CommitFacts
  <2> DEFINE row == InsertOrderIfMissing(orders[o])
             result == Process(body, row)
  <2>1. /\ events[e].status \in Waiting
        /\ events'[e].body = body /\ body.order = o
        /\ orders'[o] = result.order
    BY <1>2, CommitFacts
  <2>2. body.type \in AllowedEventTypes
    BY <2>1 DEF KnownTypes, NoUnknownType, Stored, Waiting
  <2>3. row \in OrderRow /\ body.seq \in Nat /\ row.seq \in Nat
    BY InsertTypes, BodyFacts DEF LockInv, TypeInv, TypeOK, OrderRow
  <2> HIDE DEF row
  <2>4. CASE IsNewer(body, row)
    <3>1. result.order.seq = body.seq
      BY <2>2, <2>3, <2>4
         DEF Process, Applied, AllowedEventTypes, EventTypeToStatus, OrderRow
    <3>2. QED BY <2>1, <2>3, <3>1
  <2>5. CASE ~IsNewer(body, row)
    <3>1. result.order = row
      BY <2>5 DEF Process, Ignored
    <3>2. QED BY <2>1, <2>3, <2>5, <3>1 DEF IsNewer
  <2>6. QED BY <2>4, <2>5
<1>3. CASE \E w \in Workers : CommitResult(w) /\ e # ClaimedEvent(w)
  <2>1. events'[e] = events[e]
    BY <1>3, CommitFacts
  <2>2. QED BY <1>1, <2>1 DEF Decided
<1>4. CASE \A w \in Workers : ~CommitResult(w)
  BY <1>1, <1>4, OtherStepsUndecisive DEF Undecisive
<1>5. QED BY <1>2, <1>3, <1>4

LEMMA EffectStep == EffectInv /\ [Next]_vars => EffectInv'
BY LockStep, KnownTypesStep, OnceStep, NewestStep DEF EffectInv

LEMMA EffectInvariance == Spec => []EffectInv
BY EffectInit, EffectStep, PTL DEF Spec

-----------------------------------------------------------------------------
(* Exactly once: a decided event has exactly one row in the history, of    *)
(* its own order and with its outcome, and any other event has none,       *)
(* through crashes, retries, redeliveries and replays of any number of     *)
(* processes.                                                              *)
THEOREM EffectIsExactlyOnce == Spec => []ExactlyOnce
<1>1. EffectInv => ExactlyOnce
  BY DEF EffectInv
<1>2. QED BY EffectInvariance, <1>1, PTL

(* The unique index on the history never has to refuse a row.              *)
THEOREM IndexIsNeverNeeded == Spec => []SecondDefenceIdle
<1>1. EffectInv => SecondDefenceIdle
  <2> SUFFICES ASSUME EffectInv, NEW w \in Workers, worker[w].pc = "locked"
               PROVE  NoHistoryYet(ClaimedEvent(w))
    BY DEF SecondDefenceIdle
  <2> DEFINE e == ClaimedEvent(w)
  <2>1. e \in EventIds /\ events[e].status \in Waiting
    BY ClaimFacts DEF EffectInv, LockInv, WorkerReads, InTransaction
  <2>2. RowsOf(e) = {}
    BY <2>1 DEF EffectInv, ExactlyOnce, Decided, Waiting
  <2> HIDE DEF e
  <2>3. ASSUME NEW o \in Orders, NEW i \in DOMAIN history[o]
        PROVE  history[o][i].event # e
    <3>1. history[o][i].event = e => <<o, i>> \in RowsOf(e)
      BY RowsMember
    <3>2. QED BY <2>2, <3>1
  <2>4. NoHistoryYet(e)
    BY <2>3 DEF NoHistoryYet
  <2>5. QED BY <2>4 DEF e
<1>2. QED BY EffectInvariance, <1>1, PTL

(* Whatever the order in which events are processed, no order ends behind  *)
(* an event that was decided.                                              *)
THEOREM NewestSequenceWins == Spec => []NothingNewerLost
<1>1. EffectInv => NothingNewerLost
  BY DEF EffectInv
<1>2. QED BY EffectInvariance, <1>1, PTL

(* No event that ingestion let in is ignored for its type.                 *)
THEOREM TypesAgree == Spec => []NoUnknownType
<1>1. EffectInv => NoUnknownType
  BY DEF EffectInv, KnownTypes
<1>2. QED BY EffectInvariance, <1>1, PTL

-----------------------------------------------------------------------------
(* The moves of one row of webhook_events.                                 *)
Inserted(old, new) ==
  /\ old.status = "ABSENT"
  /\ new.status \in {"PENDING", "IGNORED"}
  /\ new.reason # "STALE_SEQUENCE"
  /\ new.attempts = 0 /\ new.next = Null

Recounted(old, new) == new = [old EXCEPT !.count = new.count]

ComesCloser(old, new) ==
  old.next \in Nat \ {0} /\ new = [old EXCEPT !.next = old.next - 1]

SameEvent(old, new) == new.body = old.body /\ new.replays = old.replays

Settled(old, new) ==
  /\ old.status \in Waiting /\ SameEvent(old, new)
  /\ new.status \in {"APPLIED", "IGNORED"}
  /\ new.status = "IGNORED" => new.reason \in {"STALE_SEQUENCE", "UNKNOWN_EVENT_TYPE"}
  /\ new.reason # "STALE_TIMESTAMP" /\ new.count = old.count
  /\ new.reason = "STALE_SEQUENCE" => new.status = "IGNORED"
  /\ new.attempts = old.attempts /\ new.next = Null

Rescheduled(old, new) ==
  /\ old.status \in Waiting /\ ~IsDlq(old.attempts) /\ SameEvent(old, new)
  /\ new.status = "RETRY_SCHEDULED"
  /\ new.reason = "TRANSIENT_ERROR" /\ new.count = old.count
  /\ new.attempts = old.attempts + 1 /\ new.next \in 0 .. (MaxDelay - 1)

GivenUp(old, new) ==
  /\ old.status \in Waiting /\ IsDlq(old.attempts) /\ SameEvent(old, new)
  /\ new.status = "DLQ"
  /\ new.reason = "MAX_ATTEMPTS_EXHAUSTED" /\ new.count = old.count
  /\ new.attempts = old.attempts + 1 /\ new.next = Null

(* The moves of the queue, and those of a delivery.                        *)
Proceeds(old, new) ==
  \/ new = old
  \/ ComesCloser(old, new)
  \/ Settled(old, new)
  \/ Rescheduled(old, new)
  \/ GivenUp(old, new)
  \/ old.status = "DLQ" /\ new = Revived(old)

Moves(old, new) ==
  \/ Inserted(old, new)
  \/ Recounted(old, new)
  \/ Proceeds(old, new)

LEMMA IngestMoves ==
  ASSUME LockInv, IngestStep, NEW e \in EventIds
  PROVE  Moves(events[e], events'[e])
<1> PICK b \in Bodies, isStale \in BOOLEAN : Ingest(b, isStale)
  BY DEF IngestStep
<1>1. events \in [EventIds -> EventRow] /\ b.event \in EventIds
  BY BodyFacts DEF LockInv, TypeInv, TypeOK
<1>2. events' = [events EXCEPT ![b.event] = Upsert(b, isStale)]
  BY DEF Ingest
<1>3. CASE e = b.event /\ events[e].status = "ABSENT"
  <2>1. events'[e] = FirstDelivery(b, isStale)
    BY <1>1, <1>2, <1>3 DEF Upsert
  <2>2. QED BY <1>3, <2>1, TablesAssumption DEF FirstDelivery, Moves, Inserted
<1>4. CASE e = b.event /\ events[e].status # "ABSENT"
  <2>1. events'[e] = [events[e] EXCEPT !.count = events[e].count + 1]
    BY <1>1, <1>2, <1>4 DEF Upsert
  <2>2. QED BY <1>1, <2>1 DEF Moves, Recounted, EventRow
<1>5. CASE e # b.event
  BY <1>1, <1>2, <1>5 DEF Moves, Proceeds
<1>6. QED BY <1>3, <1>4, <1>5

LEMMA TickProceeds ==
  ASSUME LockInv, ClockStep, NEW e \in EventIds
  PROVE  Proceeds(events[e], events'[e])
<1>1. events[e] \in EventRow
  BY DEF LockInv, TypeInv, TypeOK
<1>2. CASE events[e].next \in {Null, 0}
  <2>1. events'[e] = events[e]
    BY <1>2 DEF ClockStep, Tick
  <2>2. QED BY <1>1, <2>1 DEF Proceeds
<1>3. CASE events[e].next \notin {Null, 0}
  <2>1. events'[e] = [events[e] EXCEPT !.next = events[e].next - 1]
    BY <1>3 DEF ClockStep, Tick
  <2>2. events[e].next \in Nat \ {0}
    BY <1>1, <1>3 DEF EventRow
  <2>3. QED BY <2>1, <2>2 DEF Proceeds, ComesCloser
<1>4. QED BY <1>2, <1>3

LEMMA WorkerProceeds ==
  ASSUME LockInv, NEW w \in Workers, WorkerStep(w), NEW e \in EventIds
  PROVE  Proceeds(events[e], events'[e])
<1> DEFINE claimed == ClaimedEvent(w)
<1>0. events \in [EventIds -> EventRow]
  BY DEF LockInv, TypeInv, TypeOK
<1>1. ASSUME InTransaction(w)
      PROVE  /\ claimed \in EventIds
             /\ worker[w].event = events[claimed]
             /\ events[claimed].status \in Waiting
  BY <1>1, ClaimFacts DEF LockInv, WorkerReads
<1>2. CASE CommitResult(w) /\ e = claimed
  <2> DEFINE result == Process(worker[w].event.body, worker[w].order)
  <2>1. InTransaction(w)
    BY <1>2 DEF CommitResult, InTransaction
  <2>2. events'[e] = [events[e] EXCEPT !.status = result.outcome,
                                       !.reason = result.reason, !.next = Null]
    BY <1>0, <1>1, <1>2, <2>1 DEF CommitResult
  <2>3. /\ result.outcome \in {"APPLIED", "IGNORED"} /\ result.reason # "STALE_TIMESTAMP"
        /\ result.reason = "STALE_SEQUENCE" => result.outcome = "IGNORED"
        /\ result.outcome = "IGNORED" =>
             result.reason \in {"STALE_SEQUENCE", "UNKNOWN_EVENT_TYPE"}
    BY TablesAssumption DEF Process, Applied, Ignored
  <2> HIDE DEF result
  <2>4. QED
    BY <1>0, <1>1, <1>2, <2>1, <2>2, <2>3 DEF Proceeds, Settled, SameEvent, EventRow
<1>3. CASE ScheduleRetry(w) /\ e = claimed
  <2>1. InTransaction(w) /\ ~IsDlq(events[e].attempts)
    BY <1>1, <1>3 DEF ScheduleRetry, InTransaction
  <2>2. PICK delay \in Delays(worker[w].event.attempts) :
          events' = [events EXCEPT ![claimed] =
            [@ EXCEPT !.status   = "RETRY_SCHEDULED",
                      !.attempts = NewAttemptCount(worker[w].event.attempts),
                      !.next     = delay,
                      !.reason   = "TRANSIENT_ERROR"]]
    BY <1>3 DEF ScheduleRetry
  <2>3. delay \in 0 .. (MaxDelay - 1)
    BY DEF Delays
  <2>4. events'[e] = [events[e] EXCEPT !.status = "RETRY_SCHEDULED",
                                       !.attempts = events[e].attempts + 1,
                                       !.next = delay, !.reason = "TRANSIENT_ERROR"]
    BY <1>0, <1>1, <1>3, <2>1, <2>2 DEF NewAttemptCount
  <2>5. QED
    BY <1>0, <1>1, <1>3, <2>1, <2>3, <2>4 DEF Proceeds, Rescheduled, SameEvent, EventRow
<1>4. CASE SendToDlq(w) /\ e = claimed
  <2>1. InTransaction(w) /\ IsDlq(events[e].attempts)
    BY <1>1, <1>4 DEF SendToDlq, InTransaction
  <2>2. events'[e] = [events[e] EXCEPT !.status = "DLQ",
                                       !.attempts = events[e].attempts + 1,
                                       !.next = Null,
                                       !.reason = "MAX_ATTEMPTS_EXHAUSTED"]
    BY <1>0, <1>1, <1>4, <2>1 DEF SendToDlq, NewAttemptCount
  <2>3. QED
    BY <1>0, <1>1, <1>4, <2>1, <2>2 DEF Proceeds, GivenUp, SameEvent, EventRow
<1>5. CASE /\ CommitResult(w) \/ ScheduleRetry(w) \/ SendToDlq(w)
           /\ e # claimed
  <2>1. events'[e] = events[e]
    BY <1>0, <1>5 DEF CommitResult, ScheduleRetry, SendToDlq
  <2>2. QED BY <1>0, <2>1 DEF Proceeds
<1>6. CASE UNCHANGED events
  BY <1>0, <1>6 DEF Proceeds
<1>7. QED
  BY <1>2, <1>3, <1>4, <1>5, <1>6
     DEF WorkerStep, WorkerNext, Claim, LockOrder, BusinessError,
         AbortTransaction, Crash, Restart, tables

LEMMA ReplayProceeds ==
  ASSUME LockInv, NEW r \in Replayers, ReplayStep(r), NEW e \in EventIds
  PROVE  Proceeds(events[e], events'[e])
<1> DEFINE f == replay[r].event.body.event
<1>0. events \in [EventIds -> EventRow]
  BY DEF LockInv, TypeInv, TypeOK
<1>1. CASE ReplayCommit(r) /\ e = f
  <2>1. events'[e] = Revived(events[e])
    BY <1>0, <1>1 DEF ReplayCommit
  <2>2. replay[r].event.status = "DLQ" /\ SameRow(replay[r].event, events[e])
    BY <1>1 DEF ReplayCommit, Replayable, LockInv, ReplayReads
  <2>3. replay[r].event \in EventRow
    BY <1>1 DEF ReplayCommit, LockInv, TypeInv, TypeOK, ControlOK, ReplaysOK,
                ReplayState
  <2>4. events[e].status = "DLQ"
    BY <1>0, <2>2, <2>3 DEF SameRow, EventRow
  <2>5. QED BY <2>1, <2>4 DEF Proceeds
<1>2. CASE ReplayCommit(r) /\ e # f
  <2>1. events'[e] = events[e]
    BY <1>0, <1>2 DEF ReplayCommit
  <2>2. QED BY <1>0, <2>1 DEF Proceeds
<1>3. CASE UNCHANGED events
  BY <1>0, <1>3 DEF Proceeds
<1>4. QED
  BY <1>1, <1>2, <1>3
     DEF ReplayStep, ReplayNext, ReplaySelect, ReplayRefuse, ReplayAbort, tables

LEMMA RowProceeds ==
  ASSUME LockInv, [Next]_vars, ~IngestStep, NEW e \in EventIds
  PROVE  Proceeds(events[e], events'[e])
<1>1. CASE UNCHANGED events
  BY <1>1 DEF Proceeds
<1>2. QED
  BY <1>1, TickProceeds, WorkerProceeds, ReplayProceeds
     DEF Next, ReconStep, ReconNext, FetchSnapshot, BeginRun, VisitOrder, CommitRun,
         AbortRun, vars, tables

(* Every step moves every row in one of these ways.                        *)
LEMMA RowMoves ==
  ASSUME LockInv, [Next]_vars, NEW e \in EventIds
  PROVE  Moves(events[e], events'[e])
<1>1. CASE IngestStep
  BY <1>1, IngestMoves
<1>2. CASE ~IngestStep
  BY <1>2, RowProceeds DEF Moves
<1>3. QED BY <1>1, <1>2

-----------------------------------------------------------------------------
(* RetryBudget, for one row.                                               *)
Budgeted(row) ==
  /\ row.status \in Waiting => row.attempts < MaxAttempts
  /\ row.status = "PENDING" => row.attempts = 0
  /\ row.status = "RETRY_SCHEDULED" => row.attempts > 0
  /\ row.status = "DLQ" <=> row.attempts = MaxAttempts
  /\ row.status = "RETRY_SCHEDULED" <=> row.next # Null
  /\ row.next # Null => row.next < MaxDelay

LEMMA BudgetIsPerRow == RetryBudget <=> \A e \in EventIds : Budgeted(events[e])
BY DEF RetryBudget, Budgeted

(* Every move stays within the budget.                                     *)
LEMMA MovesKeepBudget ==
  ASSUME NEW old \in EventRow, NEW new \in EventRow, Budgeted(old), Moves(old, new)
  PROVE  Budgeted(new)
<1>0. /\ old.attempts \in Nat /\ new.attempts \in Nat
      /\ MaxAttempts \in Nat \ {0} /\ MaxDelay \in Nat
      /\ old.next \in Nat \union {Null} /\ new.next \in Nat \union {Null}
      /\ \A n \in Int : n # Null
  BY RetryAssumption, TablesAssumption DEF EventRow
<1>1. CASE Inserted(old, new)
  BY <1>0, <1>1 DEF Inserted, Budgeted, Waiting
<1>2. CASE Recounted(old, new)
  <2>1. /\ new.status = old.status /\ new.attempts = old.attempts
        /\ new.next = old.next
    BY <1>2 DEF Recounted, EventRow
  <2>2. QED BY <2>1 DEF Budgeted
<1>3. CASE ComesCloser(old, new)
  <2>1. /\ new.status = old.status /\ new.attempts = old.attempts
        /\ new.next = old.next - 1 /\ old.next \in Nat \ {0}
    BY <1>3 DEF ComesCloser, EventRow
  <2>2. old.next # Null /\ new.next # Null /\ new.next < old.next
    BY <1>0, <2>1
  <2>3. QED BY <1>0, <2>1, <2>2 DEF Budgeted
<1>4. CASE Settled(old, new)
  BY <1>0, <1>4 DEF Settled, Budgeted, Waiting
<1>5. CASE Rescheduled(old, new)
  BY <1>0, <1>5 DEF Rescheduled, Budgeted, Waiting, IsDlq, NewAttemptCount
<1>6. CASE GivenUp(old, new)
  BY <1>0, <1>6 DEF GivenUp, Budgeted, Waiting, IsDlq, NewAttemptCount
<1>7. CASE old.status = "DLQ" /\ new = Revived(old)
  <2>1. new.status = "PENDING" /\ new.attempts = 0 /\ new.next = Null
    BY <1>7 DEF Revived, EventRow
  <2>2. QED BY <1>0, <2>1 DEF Budgeted, Waiting
<1>8. CASE new = old
  BY <1>8
<1>9. QED
  BY <1>1, <1>2, <1>3, <1>4, <1>5, <1>6, <1>7, <1>8 DEF Moves, Proceeds

LEMMA BudgetInit == Init => RetryBudget
BY RetryAssumption DEF Init, TablesInit, NoEventRow, RetryBudget, Waiting

LEMMA BudgetStep == LockInv /\ LockInv' /\ RetryBudget /\ [Next]_vars => RetryBudget'
<1> SUFFICES ASSUME LockInv, LockInv', RetryBudget, [Next]_vars,
                    NEW e \in EventIds
             PROVE  Budgeted(events'[e])
  BY DEF RetryBudget, Budgeted
<1>1. events[e] \in EventRow /\ events'[e] \in EventRow
  BY DEF LockInv, TypeInv, TypeOK
<1>2. Budgeted(events[e])
  BY BudgetIsPerRow
<1>3. QED BY <1>1, <1>2, RowMoves, MovesKeepBudget

LEMMA BudgetInvariance == Spec => [](LockInv /\ RetryBudget)
BY LockInvariance, BudgetInit, BudgetStep, PTL DEF Spec

(* However failures, crashes, redeliveries and replays are interleaved, an *)
(* event is attempted MaxAttempts times between replays and no more, every *)
(* queued event has an attempt left, and a dead letter has used them all:  *)
(* for every retry configuration that workerConfig accepts.                *)
THEOREM RetriesAreBounded == Spec => []RetryBudget
BY BudgetInvariance, PTL

(* The outcome of an event changes only by a replay of its dead letter,    *)
(* which gives it back to the queue with its whole budget and nothing else *)
(* changed: no redelivery, no second worker and no late retry reopens it.  *)
THEOREM OutcomesStay == Spec => OutcomesAreFinal
<1> DEFINE Kept(e) ==
      events'[e] = [events[e] EXCEPT !.count = events'[e].count]
           Reopened(e) ==
      events'[e] = [events[e] EXCEPT !.status = "PENDING", !.reason = Null,
                                     !.attempts = 0, !.replays = @ + 1]
           Final ==
      \A e \in EventIds :
        /\ events[e].status \in {"APPLIED", "IGNORED"} => Kept(e)
        /\ events[e].status = "DLQ" => Kept(e) \/ Reopened(e)
<1>1. LockInv /\ RetryBudget /\ [Next]_vars => Final
  <2> SUFFICES ASSUME LockInv, RetryBudget, [Next]_vars, NEW e \in EventIds,
                      events[e].status \in {"APPLIED", "IGNORED", "DLQ"}
               PROVE  Kept(e) \/ (events[e].status = "DLQ" /\ Reopened(e))
    OBVIOUS
  <2>1. events[e] \in EventRow /\ events[e].next = Null
    BY BudgetIsPerRow DEF LockInv, TypeInv, TypeOK, Budgeted
  <2>2. Null \notin Nat
    BY TablesAssumption
  <2>3. \/ Recounted(events[e], events'[e])
        \/ events[e].status = "DLQ" /\ events'[e] = Revived(events[e])
    BY <2>1, <2>2, RowMoves
       DEF Moves, Proceeds, Recounted, Inserted, ComesCloser, Settled, Rescheduled,
           GivenUp, Waiting, EventRow
  <2>4. CASE Recounted(events[e], events'[e])
    BY <2>4 DEF Recounted
  <2>5. CASE events[e].status = "DLQ" /\ events'[e] = Revived(events[e])
    BY <2>1, <2>5 DEF Revived, EventRow
  <2>6. QED BY <2>3, <2>4, <2>5
<1>2. Final => \A e \in EventIds :
        LET row == events[e]
        IN  /\ row.status \in {"APPLIED", "IGNORED"} =>
                 events'[e] = [row EXCEPT !.count = events'[e].count]
            /\ row.status = "DLQ" =>
                 \/ events'[e] = [row EXCEPT !.count = events'[e].count]
                 \/ events'[e] = [row EXCEPT !.status = "PENDING", !.reason = Null,
                                             !.attempts = 0, !.replays = @ + 1]
  OBVIOUS
<1> HIDE DEF Final
<1>3. QED
  BY BudgetInvariance, <1>1, <1>2, PTL DEF Spec, OutcomesAreFinal

-----------------------------------------------------------------------------
(* The inbox and the delivery log                                          *)

(* DeliveriesAccounted, for one event.  To be inductive it must also say   *)
(* that an event without a row has no delivery, and that an event that was *)
(* too old is never given to the queue.                                    *)
Accounted(row, log) ==
  /\ row.count = log["CREATED"] + log["IGNORED"] + log["DUPLICATE"] + log["REJECTED"]
  /\ log["CREATED"] + log["IGNORED"] = IF row.status = "ABSENT" THEN 0 ELSE 1
  /\ log["IGNORED"] = 1 <=> row.reason = "STALE_TIMESTAMP"
  /\ row.status = "ABSENT" => row.count = 0 /\ row.reason # "STALE_TIMESTAMP"
  /\ row.reason = "STALE_TIMESTAMP" => row.status = "IGNORED"

AllAccounted == \A e \in EventIds : Accounted(events[e], deliveries[e])

LEMMA AccountedIsEnough == AllAccounted => DeliveriesAccounted
BY DEF AllAccounted, Accounted, DeliveriesAccounted, DeliveryRows, Stored

LEMMA NothingToCount ==
  ASSUME NEW a \in Nat, NEW b \in Nat, NEW c \in Nat, NEW d \in Nat,
         0 = a + b + c + d
  PROVE  a = 0 /\ b = 0 /\ c = 0 /\ d = 0
OBVIOUS

(* The first delivery has an empty log, a later one a row that counts.     *)
LEMMA DeliveryAccounted ==
  ASSUME LockInv, AllAccounted, IngestStep
  PROVE  AllAccounted'
<1> PICK b \in Bodies, isStale \in BOOLEAN : Ingest(b, isStale)
  BY DEF IngestStep
<1> DEFINE e == b.event
           row == Upsert(b, isStale)
           result == DeliveryResult(row, b, isStale)
           log == deliveries[e]
<1>1. /\ e \in EventIds /\ events[e] \in EventRow
      /\ events \in [EventIds -> EventRow]
      /\ deliveries \in [EventIds -> [DeliveryResults -> Nat]]
      /\ log \in [DeliveryResults -> Nat]
  BY BodyFacts DEF LockInv, TypeInv, TypeOK
<1>2. /\ events' = [events EXCEPT ![e] = row]
      /\ deliveries' = [deliveries EXCEPT ![e] = [log EXCEPT ![result] = @ + 1]]
  BY DEF Ingest
<1>3. /\ log["CREATED"] \in Nat /\ log["IGNORED"] \in Nat
      /\ log["DUPLICATE"] \in Nat /\ log["REJECTED"] \in Nat
      /\ events[e].count \in Nat
      /\ Accounted(events[e], log)
  BY <1>1 DEF DeliveryResults, EventRow, AllAccounted
<1>4. Null # "STALE_TIMESTAMP"
  BY TablesAssumption
<1> DEFINE newLog == [log EXCEPT ![result] = log[result] + 1]
<1>5. Accounted(row, newLog)
  <2>1. CASE events[e].status = "ABSENT"
    <3>1. row = FirstDelivery(b, isStale)
      BY <2>1 DEF Upsert
    <3>2. /\ row.count = 1
          /\ row.status = IF isStale THEN "IGNORED" ELSE "PENDING"
          /\ row.reason = IF isStale THEN "STALE_TIMESTAMP" ELSE Null
      BY <3>1 DEF FirstDelivery
    <3> HIDE DEF row
    <3>3. result = IF isStale THEN "IGNORED" ELSE "CREATED"
      BY <3>2 DEF DeliveryResult
    <3>4. /\ log["CREATED"] = 0 /\ log["IGNORED"] = 0
          /\ log["DUPLICATE"] = 0 /\ log["REJECTED"] = 0
      <4>1. 0 = log["CREATED"] + log["IGNORED"] + log["DUPLICATE"] + log["REJECTED"]
        BY <1>3, <2>1 DEF Accounted
      <4>2. QED BY <1>3, <4>1, NothingToCount
    <3> HIDE DEF result
    <3>5. CASE isStale
      <4>1. /\ newLog["CREATED"] = 0 /\ newLog["IGNORED"] = 1
            /\ newLog["DUPLICATE"] = 0 /\ newLog["REJECTED"] = 0
        BY <1>1, <3>3, <3>4, <3>5 DEF DeliveryResults
      <4>2. QED BY <3>2, <3>5, <4>1 DEF Accounted
    <3>6. CASE ~isStale
      <4>1. /\ newLog["CREATED"] = 1 /\ newLog["IGNORED"] = 0
            /\ newLog["DUPLICATE"] = 0 /\ newLog["REJECTED"] = 0
        BY <1>1, <3>3, <3>4, <3>6 DEF DeliveryResults
      <4>2. QED BY <1>4, <3>2, <3>6, <4>1 DEF Accounted
    <3>7. QED BY <3>5, <3>6
  <2>2. CASE events[e].status # "ABSENT"
    <3>1. /\ row.count = events[e].count + 1
          /\ row.status = events[e].status /\ row.reason = events[e].reason
      BY <1>1, <2>2 DEF Upsert, EventRow
    <3> HIDE DEF row
    <3>2. events[e].count >= 1
      BY <1>3, <2>2 DEF Accounted
    <3>3. result \in {"DUPLICATE", "REJECTED"}
      BY <1>3, <3>1, <3>2 DEF DeliveryResult
    <3> HIDE DEF result
    <3>4. /\ newLog["CREATED"] = log["CREATED"] /\ newLog["IGNORED"] = log["IGNORED"]
          /\ newLog["DUPLICATE"] + newLog["REJECTED"]
               = log["DUPLICATE"] + log["REJECTED"] + 1
          /\ newLog["DUPLICATE"] \in Nat /\ newLog["REJECTED"] \in Nat
      BY <1>1, <1>3, <3>3 DEF DeliveryResults
    <3> HIDE DEF newLog
    <3>5. QED BY <1>3, <2>2, <3>1, <3>4 DEF Accounted
  <2>3. QED BY <2>1, <2>2
<1>6. \A f \in EventIds \ {e} :
        events'[f] = events[f] /\ deliveries'[f] = deliveries[f]
  BY <1>1, <1>2
<1>7. events'[e] = row /\ deliveries'[e] = newLog
  BY <1>1, <1>2
<1> HIDE DEF row, newLog
<1>8. QED BY <1>5, <1>6, <1>7 DEF AllAccounted

(* The queue neither counts nor gives back what was too old.               *)
LEMMA QueueAccounted ==
  ASSUME LockInv, AllAccounted, [Next]_vars, ~IngestStep
  PROVE  AllAccounted'
<1>1. deliveries' = deliveries
  BY DEF Next, WorkerStep, WorkerNext, Claim, LockOrder, CommitResult,
         BusinessError, ScheduleRetry, SendToDlq, AbortTransaction, Crash, Restart,
         ReplayStep, ReplayNext, ReplaySelect, ReplayCommit, ReplayRefuse,
         ReplayAbort, ReconStep, ReconNext, FetchSnapshot, BeginRun, VisitOrder,
         CommitRun, AbortRun, ClockStep, Tick, vars, tables
<1> SUFFICES ASSUME NEW e \in EventIds
             PROVE  Accounted(events'[e], deliveries[e])
  BY <1>1 DEF AllAccounted
<1> DEFINE old == events[e]
           new == events'[e]
<1>2. old \in EventRow /\ Accounted(old, deliveries[e]) /\ Proceeds(old, new)
  BY RowProceeds DEF LockInv, TypeInv, TypeOK, AllAccounted
<1>3. Null # "STALE_TIMESTAMP"
  BY TablesAssumption
<1>4. \/ /\ new.count = old.count /\ new.status = old.status /\ new.reason = old.reason
      \/ /\ new.count = old.count
         /\ old.status \notin {"ABSENT", "IGNORED"} /\ new.status # "ABSENT"
         /\ new.reason # "STALE_TIMESTAMP"
  <2>1. CASE new = old
    BY <2>1
  <2>2. CASE ComesCloser(old, new)
    BY <1>2, <2>2 DEF ComesCloser, EventRow
  <2>3. CASE Settled(old, new) \/ Rescheduled(old, new) \/ GivenUp(old, new)
    BY <2>3 DEF Settled, Rescheduled, GivenUp, Waiting
  <2>4. CASE old.status = "DLQ" /\ new = Revived(old)
    BY <1>2, <1>3, <2>4 DEF Revived, EventRow
  <2>5. QED BY <1>2, <2>1, <2>2, <2>3, <2>4 DEF Proceeds
<1>5. QED BY <1>2, <1>4 DEF Accounted

LEMMA AccountedInit == Init => AllAccounted
BY TablesAssumption
   DEF Init, TablesInit, NoEventRow, DeliveryResults, AllAccounted, Accounted

LEMMA AccountedStep == LockInv /\ AllAccounted /\ [Next]_vars => AllAccounted'
BY DeliveryAccounted, QueueAccounted

(* However deliveries, attempts, replays and crashes are interleaved, every *)
(* delivery is counted once, and the first one alone decides whether the   *)
(* event is too old.                                                       *)
THEOREM InboxMatchesLog == Spec => []DeliveriesAccounted
BY LockInvariance, AccountedInit, AccountedStep, AccountedIsEnough, PTL DEF Spec
=============================================================================
