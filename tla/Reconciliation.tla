--------------------------- MODULE Reconciliation ---------------------------
(***************************************************************************)
(* Reconciliation with the provider: ReconciliationService.reconcile and   *)
(* ReconciliationRepository.executeReconciliation of src/src/admin.  A     *)
(* request fetches the provider's snapshot first, then runs one database   *)
(* transaction: an advisory lock, the orders of the snapshot one by one    *)
(* in the snapshot's order, the report, COMMIT.                            *)
(***************************************************************************)
EXTENDS Tables

CONSTANTS
  Reconcilers,   \* concurrent reconciliation requests
  Snapshots,     \* the snapshots the provider may answer with
  MaxRuns        \* bound: completed runs after which none is started

(* One order as the provider reports it: validate of                       *)
(* src/src/provider/provider-client.ts makes every field mandatory.        *)
ProviderRow == [status : OrderStatuses, seq : Nat, amount : Amounts]

(* A snapshot: the reported orders, without repetition, and their state.   *)
Snapshot == [list : Seq(Orders), state : [Orders -> ProviderRow]]

WellFormed(s) ==
  \A i, j \in DOMAIN s.list : s.list[i] = s.list[j] => i = j

ASSUME ReconciliationAssumption ==
  /\ MaxRuns \in Nat
  /\ Null \notin Reconcilers \union Snapshots \union ProviderRow
  /\ Snapshots \subseteq Snapshot
  /\ \A s \in Snapshots : WellFormed(s)

VARIABLES
  recon,         \* per request: program counter, snapshot and rows read
  advisoryLock,  \* pg_advisory_xact_lock(ADVISORY_LOCK_KEY)
  runs           \* reconciliation_runs with reconciliation_details

reconVars == <<recon, advisoryLock, runs>>

ReconState ==
  [pc       : {"idle", "fetched", "running"},
   snapshot : Snapshots \union {Null},
   todo     : Seq(Orders),                      \* orders not yet visited
   seen     : [Orders -> OrderRow \union {Null}]] \* rows read under lock

(* A committed run: the orders with each verdict, and what the provider     *)
(* reported of the orders it visited.                                      *)
Run ==
  [repaired : SUBSET Orders, ok : SUBSET Orders, stale : SUBSET Orders,
   provider : [Orders -> ProviderRow \union {Null}]]

NoRecon ==
  [pc |-> "idle", snapshot |-> Null, todo |-> << >>,
   seen |-> [o \in Orders |-> Null]]

ReconInit ==
  /\ recon = [r \in Reconcilers |-> NoRecon]
  /\ advisoryLock = Null
  /\ runs = << >>

-----------------------------------------------------------------------------
(* Cases A, B and C of the code.  A row that the run itself has inserted   *)
(* compares with the column defaults.                                      *)
VerdictWithoutStale(local, provider) ==
  IF /\ local.status = provider.status
     /\ local.seq    = provider.seq
     /\ local.amount = provider.amount
  THEN "ALREADY_OK" ELSE "REPAIRED"

VerdictEqualIsStale(local, provider) ==
  IF provider.seq <= local.seq
    THEN "STALE_PROVIDER_SNAPSHOT"
  ELSE VerdictWithoutStale(local, provider)

Verdict(local, provider) ==
  IF provider.seq < local.seq
    THEN "STALE_PROVIDER_SNAPSHOT"
  ELSE IF /\ local.status = provider.status
          /\ local.seq    = provider.seq
          /\ local.amount = provider.amount
    THEN "ALREADY_OK"
  ELSE "REPAIRED"

VisitedBy(r) == {o \in Orders : recon[r].seen[o] # Null}

WithVerdict(r, verdict) ==
  {o \in VisitedBy(r) :
     Verdict(recon[r].seen[o], recon[r].snapshot.state[o]) = verdict}

(* What the run was told about the orders it visited.                      *)
ProviderRows(r) ==
  [o \in Orders |-> IF o \in VisitedBy(r) THEN recon[r].snapshot.state[o]
                                          ELSE Null]

(* The orders that the run rewrites.                                       *)
AllVisited(r) == VisitedBy(r)

Repairs(r) == WithVerdict(r, "REPAIRED")

RepairWithoutAmount(provider) ==
  [exists |-> TRUE, status |-> provider.status,
   seq |-> provider.seq, amount |-> Null]

RepairedRow(provider) ==
  [exists |-> TRUE, status |-> provider.status,
   seq |-> provider.seq, amount |-> provider.amount]

(* previous_status is NULL for an order the run has inserted.              *)
RepairHistoryBlind(local, provider) ==
  [event |-> Null, seq |-> provider.seq, prev |-> Null,
   new |-> provider.status, outcome |-> "RECONCILED"]

RepairHistory(local, provider) ==
  [event |-> Null, seq |-> provider.seq,
   prev  |-> IF local.exists THEN local.status ELSE Null,
   new   |-> provider.status, outcome |-> "RECONCILED"]

EndRun(r) ==
  /\ recon' = [recon EXCEPT ![r] = NoRecon]
  /\ advisoryLock' = IF advisoryLock = r THEN Null ELSE advisoryLock
  /\ ReleaseLocks(r)

-----------------------------------------------------------------------------
(* The provider answers, before any transaction is open.                   *)
FetchSnapshot(r, s) ==
  /\ recon[r].pc = "idle"
  /\ Len(runs) < MaxRuns
  /\ recon' = [recon EXCEPT ![r] =
       [@ EXCEPT !.pc = "fetched", !.snapshot = s, !.todo = s.list]]
  /\ UNCHANGED <<tables, rowLocks, advisoryLock, runs>>

(* pg_advisory_xact_lock waits for the transaction that has the lock.      *)
NoAdvisoryLock == TRUE

AdvisoryFree == advisoryLock = Null

(* BEGIN and the advisory lock, which serialises reconciliations.          *)
BeginRun(r) ==
  /\ recon[r].pc = "fetched"
  /\ AdvisoryFree
  /\ recon' = [recon EXCEPT ![r] = [@ EXCEPT !.pc = "running"]]
  /\ advisoryLock' = r
  /\ UNCHANGED <<tables, rowLocks, runs>>

(* One turn of the loop: insert the order if it is missing, SELECT .. FOR  *)
(* UPDATE, both waiting for a transaction that has the order.  What the    *)
(* turn writes is determined by what it reads, and visible at COMMIT.      *)
VisitOrder(r) ==
  LET o == Head(recon[r].todo)
  IN  /\ recon[r].pc = "running"
      /\ recon[r].todo # << >>
      /\ OrderFree(o)
      /\ recon' = [recon EXCEPT ![r].todo = Tail(@), ![r].seen[o] = orders[o]]
      /\ orderLock' = [orderLock EXCEPT ![o] = r]
      /\ UNCHANGED <<tables, eventLock, advisoryLock, runs>>

(* The details, the COMPLETED run and the repairs become visible together. *)
CommitRun(r) ==
  LET repaired    == Repairs(r)
      local(o)    == recon[r].seen[o]
      provider(o) == recon[r].snapshot.state[o]
  IN  /\ recon[r].pc = "running"
      /\ recon[r].todo = << >>
      /\ orders' = [o \in Orders |->
           IF o \in repaired THEN RepairedRow(provider(o))
           ELSE IF o \in VisitedBy(r) THEN InsertOrderIfMissing(orders[o])
           ELSE orders[o]]
      /\ history' = [o \in Orders |->
           IF o \in repaired
             THEN Append(history[o], RepairHistory(local(o), provider(o)))
             ELSE history[o]]
      /\ runs' = Append(runs,
           [repaired |-> WithVerdict(r, "REPAIRED"),
            ok       |-> WithVerdict(r, "ALREADY_OK"),
            stale    |-> WithVerdict(r, "STALE_PROVIDER_SNAPSHOT"),
            provider |-> ProviderRows(r)])
      /\ EndRun(r)
      /\ UNCHANGED <<events, nextId, deliveries>>

(* A statement fails or the process dies: ROLLBACK, no trace of the run.   *)
AbortRun(r) ==
  /\ recon[r].pc \in {"fetched", "running"}
  /\ EndRun(r)
  /\ UNCHANGED <<tables, runs>>

ReconNext(r) ==
  \/ \E s \in Snapshots : FetchSnapshot(r, s)
  \/ BeginRun(r)
  \/ VisitOrder(r)
  \/ CommitRun(r)
  \/ AbortRun(r)
=============================================================================
