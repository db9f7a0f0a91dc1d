---------------------------- MODULE OrderQueries ----------------------------
(***************************************************************************)
(* GET /orders/:id, src/src/orders: an order, its events and its history,  *)
(* read by three SELECTs of one READ ONLY transaction at REPEATABLE READ,  *)
(* while workers and reconciliations commit.                               *)
(*                                                                         *)
(* The history is shown by changed_at, whose default now() is the time at  *)
(* which the writing transaction began.  Only the order of those times is  *)
(* kept, beside the service.                                               *)
(***************************************************************************)
EXTENDS PaymentService, SequencesExt

CONSTANTS
  Readers,       \* concurrent queries
  AskedOrders    \* bound: the orders they ask for

ASSUME QueriesAssumption == AskedOrders \subseteq Orders

VARIABLES
  open,          \* the open transactions, in the order in which they began
  overtaken,     \* per process and order: the rows that transactions which
                 \* began later than its own have committed before it
  shown,         \* per order: the ids of its history by changed_at, id
  reader         \* per query: what its transaction sees and has read

queryVars == <<vars, open, overtaken, shown, reader>>

NoView == [order |-> NoOrderRow, events |-> << >>, rows |-> << >>]

NoReader ==
  [pc |-> "idle", id |-> Null, snapshot |-> NoView, answer |-> NoView]

NoRows == [o \in Orders |-> 0]

QueryInit ==
  /\ Init
  /\ open = << >>
  /\ overtaken = [p \in Processes |-> NoRows]
  /\ shown = [o \in Orders |-> << >>]
  /\ reader = [q \in Readers |-> NoReader]

-----------------------------------------------------------------------------
(* The times of the transactions                                           *)

Running(p) ==
  \/ p \in Workers /\ InTransaction(p)
  \/ p \in Reconcilers /\ recon[p].pc = "running"

(* After its BEGIN a reconciliation may wait for the advisory lock.        *)
WaitsForLock(p) == p \in Reconcilers /\ recon[p].pc = "fetched"

Begun == {p \in Processes : \E i \in DOMAIN open : open[i] = p}

BeganBefore(p, q) ==
  \E i, j \in DOMAIN open : i < j /\ open[i] = p /\ open[j] = q

HasNewRow(o) == history'[o] # history[o]

(* Transactions end, and others begin.                                     *)
OpenFollows ==
  open' = SelectSeq(open, LAMBDA p : Running(p)' \/ WaitsForLock(p)')
          \o SetToSeq({p \in Processes \ Begun : Running(p)'})

(* DEFAULT now(): the row of a commit gets the time at which the committing *)
(* transaction, the one that has the order, began.  It stands before those *)
(* of the transactions that have overtaken it.                             *)
ShownFollows ==
  shown' = [o \in Orders |->
    IF HasNewRow(o)
      THEN InsertAt(shown[o], Len(shown[o]) + 1 - overtaken[orderLock[o]][o],
                    Len(history'[o]))
      ELSE shown[o]]

OvertakenFollows ==
  overtaken' = [p \in Processes |->
    IF p \in Begun /\ (Running(p)' \/ WaitsForLock(p)')
      THEN [o \in Orders |->
              IF HasNewRow(o) /\ BeganBefore(p, orderLock[o])
                THEN overtaken[p][o] + 1 ELSE overtaken[p][o]]
      ELSE NoRows]

TimedStep ==
  /\ Next
  /\ OpenFollows
  /\ ShownFollows
  /\ OvertakenFollows
  /\ UNCHANGED reader

(* BEGIN, whose time now() keeps, before the wait for the advisory lock.   *)
BeginWaiting(r) ==
  /\ WaitsForLock(r)
  /\ r \notin Begun
  /\ open' = Append(open, r)
  /\ UNCHANGED <<vars, overtaken, shown, reader>>

-----------------------------------------------------------------------------
(* The query                                                               *)

EventsOf(o) == {e \in Stored : events[e].body.order = o}

(* The lines of the history with their ids.                                *)
History(o) ==
  [k \in DOMAIN shown[o] |-> [id |-> shown[o][k], row |-> history[o][shown[o][k]]]]

(* Everything that is committed about an order.                            *)
Committed(o) ==
  [order  |-> orders[o],
   events |-> [e \in EventsOf(o) |-> [status |-> events[e].status,
                                      reason |-> events[e].reason]],
   rows   |-> History(o)]

(* What a statement of the transaction sees: at REPEATABLE READ the state  *)
(* that its first statement saw.                                           *)
SeesLatest(q) == Committed(reader[q].id)

Sees(q) ==
  IF reader[q].pc = "begun" THEN Committed(reader[q].id) ELSE reader[q].snapshot

Goes(q, pc, id, snapshot, answer) ==
  reader' = [reader EXCEPT ![q] =
    [pc |-> pc, id |-> id, snapshot |-> snapshot, answer |-> answer]]

BeginQuery(q, o) ==
  /\ reader[q].pc \in {"idle", "answered"}
  /\ Goes(q, "begun", o, NoView, NoView)

SelectOrder(q) ==
  /\ reader[q].pc = "begun"
  /\ Sees(q).order.exists
  /\ Goes(q, "order", reader[q].id, Sees(q),
          [order |-> Sees(q).order, events |-> << >>, rows |-> << >>])

(* No such order: COMMIT, and 404.                                         *)
NotFound(q) ==
  /\ reader[q].pc = "begun"
  /\ ~Sees(q).order.exists
  /\ reader' = [reader EXCEPT ![q] = NoReader]

SelectEvents(q) ==
  /\ reader[q].pc = "order"
  /\ Goes(q, "events", reader[q].id, reader[q].snapshot,
          [order |-> reader[q].answer.order, events |-> Sees(q).events, rows |-> << >>])

(* The last SELECT, COMMIT and the answer.                                 *)
SelectHistory(q) ==
  /\ reader[q].pc = "events"
  /\ Goes(q, "answered", reader[q].id, NoView,
          [order |-> reader[q].answer.order, events |-> reader[q].answer.events,
           rows |-> Sees(q).rows])

(* A statement fails: ROLLBACK, and 500.                                   *)
QueryFails(q) ==
  /\ reader[q].pc \in {"begun", "order", "events"}
  /\ reader' = [reader EXCEPT ![q] = NoReader]

QueryStep(q) ==
  /\ \/ \E o \in AskedOrders : BeginQuery(q, o)
     \/ SelectOrder(q)
     \/ NotFound(q)
     \/ SelectEvents(q)
     \/ SelectHistory(q)
     \/ QueryFails(q)
  /\ UNCHANGED <<vars, open, overtaken, shown>>

QueryNext ==
  \/ TimedStep
  \/ \E r \in Reconcilers : BeginWaiting(r)
  \/ \E q \in Readers : QueryStep(q)

QuerySpec == QueryInit /\ [][QueryNext]_queryVars

-----------------------------------------------------------------------------
(* What an answer says                                                     *)

Answers == {reader[q].answer : q \in {r \in Readers : reader[r].pc = "answered"}}

Newest(x, lines) == \A y \in lines : y.id <= x.id

(* The order is in the state that the rows of its history lead to, and an  *)
(* event is shown as decided exactly if its row is shown, with the same    *)
(* outcome.                                                                *)
Coherent(a) ==
  LET lines      == {a.rows[k] : k \in DOMAIN a.rows}
      moves      == {x \in lines : x.row.outcome # "IGNORED"}
      decided(e) == \/ a.events[e].status = "APPLIED"
                    \/ /\ a.events[e].status = "IGNORED"
                       /\ a.events[e].reason # "STALE_TIMESTAMP"
  IN  /\ lines # {}
      /\ \A x \in lines : Newest(x, lines) => a.order.status = x.row.new
      /\ moves = {} => a.order.seq = 0
      /\ \A x \in moves : Newest(x, moves) => a.order.seq = x.row.seq
      /\ {x.row.event : x \in lines} \ {Null} = {e \in DOMAIN a.events : decided(e)}
      /\ \A x \in lines :
           x.row.event # Null => x.row.outcome = a.events[x.row.event].status

(* An answer is true of one moment although three statements made it up:   *)
(* what they show of the order, of its events and of its history agrees,   *)
(* whatever workers and reconciliations commit between them                *)
(* (orders.repository.ts 59-93).                                           *)
AnswersAreCoherent == \A a \in Answers : Coherent(a)

(* The answer tells the history of the order in the order in which it      *)
(* happened: every change starts from the status in which the one shown    *)
(* before it ended ('returns events in chronological order',               *)
(* test/orders.e2e-spec.ts 146).                                           *)
HistoryIsChronological ==
  \A a \in Answers : \A k \in DOMAIN a.rows :
    k > 1 => a.rows[k].row.prev = a.rows[k - 1].row.new
=============================================================================
