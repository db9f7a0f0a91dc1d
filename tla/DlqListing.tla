----------------------------- MODULE DlqListing -----------------------------
(***************************************************************************)
(* GET /admin/dlq: DlqController.list and DlqRepository.list of            *)
(* src/src/admin.  A client walks through the dead letters page by page;   *)
(* each page is one READ ONLY transaction at READ COMMITTED whose two      *)
(* statements, the count and the page, see different states, and between   *)
(* two pages workers and replays go on.                                    *)
(***************************************************************************)
EXTENDS PaymentService, SequencesExt

CONSTANTS
  Clients,       \* clients that walk through the list
  AskedLimits,   \* values of the parameter limit that they ask for
  MaxLimit       \* the largest page the controller allows

ASSUME ListingAssumption == MaxLimit \in Nat \ {0} /\ AskedLimits \subseteq Int

VARIABLES
  letters,       \* the rows in DLQ, by processed_at DESC, id DESC
  walk           \* per client: its walk through the pages

listVars == <<vars, letters, walk>>

NoWalk ==
  [pc |-> "idle", limit |-> 0, offset |-> 0, total |-> 0,
   seen |-> {}, steady |-> {}, replayed |-> FALSE]

ListInit ==
  /\ Init
  /\ letters = << >>
  /\ walk = [q \in Clients |-> NoWalk]

-----------------------------------------------------------------------------
(* The order of the list                                                   *)

DeadIn(rows) == {e \in EventIds : rows[e].status = "DLQ"}

(* processed_at is set when the worker gives the event up, which may be    *)
(* before another worker does that commits first: a letter may appear      *)
(* anywhere in the list.  A replay sets it to NULL and the letter leaves.  *)
(* A commit does either for one event.                                     *)
ListFollows ==
  LET new  == DeadIn(events') \ DeadIn(events)
      left == DeadIn(events) \ DeadIn(events')
  IN  \/ new = {} /\ left = {} /\ letters' = letters
      \/ \E e \in new, k \in 1 .. Len(letters) + 1 : letters' = InsertAt(letters, k, e)
      \/ \E k \in DOMAIN letters :
           letters[k] \in left /\ letters' = RemoveAt(letters, k)

Walking(q) == walk[q].pc \in {"between", "counted"}

(* What a walk has to show: the letters that have been dead all the time.  *)
WalkFollows(q) ==
  LET left == DeadIn(events) \ DeadIn(events')
  IN  IF Walking(q) THEN [walk[q] EXCEPT !.steady = @ \ left,
                                         !.replayed = @ \/ left # {}]
                    ELSE walk[q]

ListedStep ==
  /\ Next
  /\ ListFollows
  /\ walk' = [q \in Clients |-> WalkFollows(q)]

-----------------------------------------------------------------------------
(* The pages                                                               *)

(* Anything else is answered 400.                                          *)
Admissible(limit, offset) == limit \in 1 .. MaxLimit /\ offset >= 0

StartWalk(q, limit) ==
  /\ walk[q].pc = "idle"
  /\ Admissible(limit, 0)
  /\ walk' = [walk EXCEPT ![q] = [NoWalk EXCEPT !.pc = "between", !.limit = limit,
                                                !.steady = DeadIn(events)]]

(* BEGIN and SELECT COUNT( * )                                              *)
Count(q) ==
  /\ walk[q].pc = "between"
  /\ Admissible(walk[q].limit, walk[q].offset)
  /\ walk' = [walk EXCEPT ![q] =
       [@ EXCEPT !.pc = "counted", !.total = Cardinality(DeadIn(events))]]

(* LIMIT .. OFFSET ..                                                      *)
ItemsAfter(limit, offset) ==
  SubSeq(letters, offset + 2, Min({offset + 1 + limit, Len(letters)}))

Items(limit, offset) ==
  SubSeq(letters, offset + 1, Min({offset + limit, Len(letters)}))

(* The client goes on behind the page it has got, and is done when a page  *)
(* is not full.                                                            *)
AfterPage(w, items) ==
  [w EXCEPT !.pc     = IF Len(items) < w.limit THEN "done" ELSE "between",
            !.offset = @ + w.limit,
            !.total  = 0,
            !.seen   = @ \union {items[i] : i \in DOMAIN items}]

(* The page, COMMIT and the answer.                                        *)
Page(q) ==
  /\ walk[q].pc = "counted"
  /\ walk' = [walk EXCEPT ![q] =
       AfterPage(walk[q], Items(walk[q].limit, walk[q].offset))]

(* A statement fails: ROLLBACK, 500, and the client asks for the page      *)
(* again.                                                                  *)
PageFails(q) ==
  /\ walk[q].pc = "counted"
  /\ walk' = [walk EXCEPT ![q] = [@ EXCEPT !.pc = "between", !.total = 0]]

ClientStep(q) ==
  /\ \/ \E limit \in AskedLimits : StartWalk(q, limit)
     \/ Count(q)
     \/ Page(q)
     \/ PageFails(q)
  /\ UNCHANGED <<vars, letters>>

ListNext == ListedStep \/ \E q \in Clients : ClientStep(q)

ListSpec == ListInit /\ [][ListNext]_listVars

-----------------------------------------------------------------------------
(* A walk through the list shows every letter that was dead all the time,  *)
(* whatever workers give up meanwhile, unless a replay took a letter out   *)
(* and moved the others up past the client: new letters only make it see a *)
(* letter twice (dlq.repository.ts 56-65).                                 *)
WalksMissNothing ==
  \A q \in Clients :
    walk[q].pc = "done" /\ ~walk[q].replayed => walk[q].steady \subseteq walk[q].seen
=============================================================================
