--------------------------- MODULE ProviderClient ---------------------------
(***************************************************************************)
(* The way a snapshot takes from the provider to a reconciliation:         *)
(* readOrders and the GET /provider/orders of                              *)
(* src/provider-simulator/server.js, ProviderClient.fetchSnapshot and      *)
(* validate of src/src/provider/provider-client.ts, and the first half of  *)
(* ReconciliationService.reconcile.                                        *)
(*                                                                         *)
(*   none --Ask--> asked --HeadersArrive--> body --BodyArrives--> fetched  *)
(*                                                                         *)
(* Every other way out of asked and body is an error, answered 502.        *)
(***************************************************************************)
EXTENDS Reconciliation

CONSTANTS
  Files,         \* what the provider's file of orders may be when it is read
  NoFile,        \* the file is missing or empty
  CorruptFile,   \* the file is not JSON
  NoArray,       \* the file's orders are not an array
  MaxInteger     \* the largest value of a column of type INTEGER

(* A file is NoFile, CorruptFile, NoArray or a sequence of rows.           *)
ASSUME ProviderAssumption ==
  /\ MaxInteger \in Nat
  /\ Null \notin Files
  /\ Amounts # {}
  /\ \A file \in Files \ {NoFile, CorruptFile, NoArray} :
       Len(file) \in Nat /\ DOMAIN file = 1 .. Len(file)

VARIABLE exchange   \* per reconciliation: its HTTP exchange with the provider

NoExchange == [pc |-> "none", file |-> Null]

ProviderInit == exchange = [r \in Reconcilers |-> NoExchange]

-----------------------------------------------------------------------------
(* The provider                                                            *)

StatusCode(file) == IF file = CorruptFile THEN 500 ELSE 200

OrdersIn(file) == IF file = NoFile THEN << >> ELSE file

-----------------------------------------------------------------------------
(* The validation of the answer                                            *)

ValidRow(row) ==
  /\ row.id \in Orders
  /\ row.status \in OrderStatuses
  /\ row.seq \in 0 .. MaxInteger
  /\ row.amount \in Amounts

AnyIds(rows) == TRUE

DistinctIds(rows) ==
  \A i, j \in DOMAIN rows : rows[i].id = rows[j].id => i = j

Valid(file) ==
  /\ file # NoArray
  /\ \A i \in DOMAIN OrdersIn(file) : ValidRow(OrdersIn(file)[i])
  /\ DistinctIds(OrdersIn(file))

(* What the reconciliation is given.  Nothing is said of other orders.     *)
Unreported ==
  [status |-> "pending", seq |-> 0, amount |-> CHOOSE a \in Amounts : TRUE]

SnapshotOf(rows) ==
  [list  |-> [i \in DOMAIN rows |-> rows[i].id],
   state |-> [o \in Orders |->
     IF \E i \in DOMAIN rows : rows[i].id = o
       THEN LET row == rows[CHOOSE i \in DOMAIN rows : rows[i].id = o]
            IN  [status |-> row.status, seq |-> row.seq, amount |-> row.amount]
       ELSE Unreported]]

(* Snapshots has every usable snapshot that can be made of a file.         *)
Usable(s) ==
  /\ s \in Snapshot /\ WellFormed(s)
  /\ \A o \in Orders : s.state[o].seq <= MaxInteger

ASSUME SnapshotsAssumption ==
  \A file \in Files \ {CorruptFile, NoArray} :
    Usable(SnapshotOf(OrdersIn(file))) => SnapshotOf(OrdersIn(file)) \in Snapshots

-----------------------------------------------------------------------------
(* The exchange                                                            *)

EndExchange(r) == exchange' = [exchange EXCEPT ![r] = NoExchange]

(* fetch is called and the abort timer set.                                *)
Ask(r) ==
  /\ exchange[r].pc = "none"
  /\ recon[r].pc = "idle"
  /\ exchange' = [exchange EXCEPT ![r].pc = "asked"]
  /\ UNCHANGED <<tables, rowLocks, reconVars>>

(* The response's headers arrive: from here on no timer runs.              *)
HeadersArrive(r, file) ==
  /\ exchange[r].pc = "asked"
  /\ StatusCode(file) = 200
  /\ exchange' = [exchange EXCEPT ![r] = [pc |-> "body", file |-> file]]
  /\ UNCHANGED <<tables, rowLocks, reconVars>>

NeverSet(r) == FALSE

TimerSet(r) == exchange[r].pc = "asked"

(* PROVIDER_TIMEOUT_MS have passed: ProviderTimeoutError.                  *)
TimerFires(r) ==
  /\ TimerSet(r)
  /\ EndExchange(r)
  /\ UNCHANGED <<tables, rowLocks, reconVars>>

(* No connection, or a status other than 2xx: ProviderHttpError.           *)
FetchFails(r) ==
  /\ exchange[r].pc = "asked"
  /\ EndExchange(r)
  /\ UNCHANGED <<tables, rowLocks, reconVars>>

(* The body is complete and valid: the transaction's input is ready.       *)
BodyArrives(r) ==
  /\ exchange[r].pc = "body"
  /\ Valid(exchange[r].file)
  /\ FetchSnapshot(r, SnapshotOf(OrdersIn(exchange[r].file)))
  /\ EndExchange(r)

(* The body breaks off or is not valid: ProviderPayloadError.              *)
BodyFails(r) ==
  /\ exchange[r].pc = "body"
  /\ EndExchange(r)
  /\ UNCHANGED <<tables, rowLocks, reconVars>>
=============================================================================
