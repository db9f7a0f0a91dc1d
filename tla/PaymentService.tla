--------------------------- MODULE PaymentService ---------------------------
(***************************************************************************)
(* The payment webhook service: ingestion, any number of workers, replay   *)
(* requests and reconciliation requests over one PostgreSQL database.      *)
(* Every step is one statement, or a group of statements that no other     *)
(* transaction can observe in part, of one process.                        *)
(***************************************************************************)
EXTENDS Ingestion, Worker, DlqReplay, Reconciliation, FiniteSets

CONSTANT Survivors   \* the workers that from some time on stay up

(* Lock owners can be told apart.                                          *)
ASSUME ProcessesAssumption ==
  /\ Survivors \subseteq Workers
  /\ Workers \intersect Replayers = {}
  /\ Workers \intersect Reconcilers = {}
  /\ Replayers \intersect Reconcilers = {}

Processes == Workers \union Replayers \union Reconcilers

vars == <<tables, rowLocks, worker, replay, reconVars>>

Init ==
  /\ TablesInit
  /\ WorkerInit
  /\ ReplayInit
  /\ ReconInit

(* Each step of one component leaves the control state of the others alone. *)
IngestStep ==
  /\ \E b \in Bodies, isStale \in BOOLEAN : Ingest(b, isStale)
  /\ UNCHANGED <<worker, replay, reconVars>>

WorkerStep(w) == WorkerNext(w) /\ UNCHANGED <<replay, reconVars>>

ReplayStep(r) == ReplayNext(r) /\ UNCHANGED <<worker, reconVars>>

ReconStep(r) == ReconNext(r) /\ UNCHANGED <<worker, replay>>

ClockStep == Tick /\ UNCHANGED <<worker, replay, reconVars>>

Next ==
  \/ IngestStep
  \/ \E w \in Workers : WorkerStep(w)
  \/ \E r \in Replayers : ReplayStep(r)
  \/ \E r \in Reconcilers : ReconStep(r)
  \/ ClockStep

Spec == Init /\ [][Next]_vars

-----------------------------------------------------------------------------
(* Fairness.  A process that is up takes its next step and time passes.    *)
(* Row locks are granted in turn, and the polls of a worker do not always  *)
(* fall into the moments when a request holds the event: both strongly     *)
(* fair.  The workers of Survivors are started again after a crash and     *)
(* meet crashes and failed transactions only finitely often; the others    *)
(* may fail for ever or stay down.  Nothing is assumed of the provider, of *)
(* operators, of requests or of errors in the business block.              *)
WorkerFairness(w) ==
  /\ SF_vars(Claim(w) /\ UNCHANGED <<replay, reconVars>>)
  /\ SF_vars(LockOrder(w) /\ UNCHANGED <<replay, reconVars>>)
  /\ WF_vars((CommitResult(w) \/ ScheduleRetry(w) \/ SendToDlq(w))
             /\ UNCHANGED <<replay, reconVars>>)

StaysUp(w) ==
  /\ WF_vars(Restart(w) /\ UNCHANGED <<replay, reconVars>>)
  /\ <>[][~Crash(w) /\ ~AbortTransaction(w)]_vars

(* A request in progress ends, in one of its ways.                         *)
RequestFairness ==
  /\ \A r \in Replayers :
       WF_vars((ReplayCommit(r) \/ ReplayRefuse(r) \/ ReplayAbort(r))
               /\ UNCHANGED <<worker, reconVars>>)
  /\ \A r \in Reconcilers :
       WF_vars((BeginRun(r) \/ VisitOrder(r) \/ CommitRun(r) \/ AbortRun(r))
               /\ UNCHANGED <<worker, replay>>)

FairSpec ==
  /\ Spec
  /\ WF_vars(ClockStep)
  /\ \A w \in Workers : WorkerFairness(w)
  /\ \A w \in Survivors : StaysUp(w)
  /\ RequestFairness
=============================================================================
