-------------------------- MODULE MigrationProofs --------------------------
(***************************************************************************)
(* However many runners work on the database and however they fail, each   *)
(* file is executed on the schema of all earlier ones, by one runner at a  *)
(* time, and a runner that reports success leaves nothing to do.           *)
(***************************************************************************)
EXTENDS MigrationRunner, TLAPS

(* What a runner has read stays true, because no version is ever removed;  *)
(* it has passed a file only if that file is recorded.                     *)
PassedFilesRecorded ==
  \A r \in Runners :
    /\ runner[r].applied \subseteq versions
    /\ runner[r].pc \in Running => 1..(File(r) - 1) \subseteq versions
    /\ runner[r].pc = "done" => versions = Files

(* A file is executed and not committed yet by the runner that holds its   *)
(* objects, or it was executed for nothing on objects that exist.          *)
CreatorsHoldLocks ==
  \A r \in Runners :
    /\ runner[r].pc \in {"changed", "recorded"} => File(r) \in Files
    /\ runner[r].pc = "changed" =>
         ddlLock[File(r)] = r \/ File(r) \in versions
    /\ runner[r].pc = "recorded" =>
         ddlLock[File(r)] = r /\ File(r) \notin versions

MigrationInv ==
  /\ MigrationTypeOK
  /\ schema = versions
  /\ PassedFilesRecorded
  /\ CreatorsHoldLocks

LEMMA MigrationInitInv == MigrationInit => MigrationInv
<1> SUFFICES ASSUME MigrationInit PROVE MigrationInv
  OBVIOUS
<1>1. 1 \in 1..(NumFiles + 1)
  BY MigrationAssumption
<1> QED
  BY <1>1 DEF MigrationInit, MigrationInv, MigrationTypeOK, RunnerState, AtFirstFile,
     Running, PassedFilesRecorded, CreatorsHoldLocks, File

(* One runner's step, seen from every runner.                              *)
LEMMA RunnerStepInv ==
  ASSUME MigrationInv, NEW r \in Runners, RunnerNext(r)
  PROVE  MigrationInv'
<1> USE MigrationAssumption DEF Files, File, Running
<1>1. /\ runner[r] \in RunnerState
      /\ File(r) \in 1..(NumFiles + 1)
      /\ versions \subseteq Files
  BY DEF MigrationInv, MigrationTypeOK, RunnerState
<1>2. ASSUME NEW f \in Files
      PROVE  LocksWithout(r)[f] = IF ddlLock[f] = r THEN NoRunner ELSE ddlLock[f]
  BY DEF LocksWithout
<1>3. LocksWithout(r) \in [Files -> Runners \union {NoRunner}]
  BY DEF LocksWithout, MigrationInv, MigrationTypeOK
<1>4. CASE Start(r)
  <2>1. /\ runner' = [runner EXCEPT ![r] =
             [pc |-> "next", file |-> 1, applied |-> versions]]
        /\ UNCHANGED <<schema, versions, ddlLock>>
    BY <1>4 DEF Start, AtFirstFile
  <2>2. [pc |-> "next", file |-> 1, applied |-> versions] \in RunnerState
    BY <1>1 DEF RunnerState
  <2>3. 1..(1 - 1) = {}
    OBVIOUS
  <2> QED
    BY <2>1, <2>2, <2>3, <1>1 DEF MigrationInv, MigrationTypeOK,
       PassedFilesRecorded, CreatorsHoldLocks
<1>5. CASE SkipFile(r)
  <2>1. File(r) \in versions
    BY <1>5 DEF SkipFile, MigrationInv, PassedFilesRecorded
  <2>2. 1..File(r) \subseteq versions
    BY <1>5, <1>1, <2>1 DEF SkipFile, MigrationInv, PassedFilesRecorded
  <2>3. runner' = [runner EXCEPT ![r].pc = "next", ![r].file = File(r) + 1]
    BY <1>5 DEF SkipFile, NextFile, MigrationInv, MigrationTypeOK
  <2> QED
    BY <1>5, <1>1, <2>1, <2>2, <2>3
       DEF SkipFile, MigrationInv, MigrationTypeOK, RunnerState,
       PassedFilesRecorded, CreatorsHoldLocks
<1>6. CASE ExecuteFile(r)
  BY <1>6, <1>1 DEF ExecuteFile, Goto, MayChange, MigrationInv, MigrationTypeOK,
     RunnerState, PassedFilesRecorded, CreatorsHoldLocks
<1>7. CASE RecordVersion(r)
  BY <1>7, <1>1 DEF RecordVersion, Goto, MigrationInv, MigrationTypeOK,
     RunnerState, PassedFilesRecorded, CreatorsHoldLocks
<1>8. CASE CommitFile(r)
  <2>1. /\ File(r) \in Files
        /\ ddlLock[File(r)] = r
        /\ 1..(File(r) - 1) \subseteq versions
    BY <1>8 DEF CommitFile, MigrationInv, CreatorsHoldLocks, PassedFilesRecorded
  <2>2. 1..File(r) \subseteq versions'
    BY <1>8, <1>1, <2>1 DEF CommitFile
  <2>3. runner' = [runner EXCEPT ![r].pc = "next", ![r].file = File(r) + 1]
    BY <1>8 DEF CommitFile, NextFile, MigrationInv, MigrationTypeOK
  <2>4. versions' \subseteq Files /\ versions \subseteq versions' /\ schema' = versions'
    BY <1>8, <1>1, <2>1 DEF CommitFile, MigrationInv
  <2>5. MigrationTypeOK'
    BY <1>8, <1>1, <1>3, <2>1, <2>3, <2>4
       DEF CommitFile, MigrationInv, MigrationTypeOK, RunnerState
  <2>6. PassedFilesRecorded'
    BY <1>1, <2>2, <2>3, <2>4
       DEF MigrationInv, MigrationTypeOK, RunnerState, PassedFilesRecorded
  <2>7. CreatorsHoldLocks'
    BY <1>8, <1>2, <2>1, <2>3
       DEF CommitFile, MigrationInv, MigrationTypeOK, CreatorsHoldLocks
  <2> QED
    BY <2>4, <2>5, <2>6, <2>7 DEF MigrationInv
<1>9. CASE Conflict(r) \/ StatementFails(r) \/ KillRunner(r)
  <2>1. /\ runner' = [runner EXCEPT ![r].pc = "failed"]
        /\ ddlLock' = LocksWithout(r)
        /\ UNCHANGED <<schema, versions>>
    BY <1>9 DEF Conflict, StatementFails, KillRunner, AfterError, Goto,
       MigrationInv, MigrationTypeOK
  <2> QED
    BY <1>1, <1>2, <1>3, <2>1 DEF MigrationInv, MigrationTypeOK, RunnerState,
       PassedFilesRecorded, CreatorsHoldLocks
<1>10. CASE Finish(r)
  <2>1. File(r) = NumFiles + 1 /\ 1..(File(r) - 1) \subseteq versions
    BY <1>10, <1>1 DEF Finish, MigrationInv, PassedFilesRecorded
  <2>2. NumFiles + 1 - 1 = NumFiles
    BY MigrationAssumption
  <2>3. 1..NumFiles \subseteq versions
    BY <2>1, <2>2
  <2>4. versions = Files
    BY <1>1, <2>3
  <2> QED
    BY <1>10, <1>1, <2>4 DEF Finish, Goto, MigrationInv, MigrationTypeOK,
       RunnerState, PassedFilesRecorded, CreatorsHoldLocks
<1> QED
  BY <1>4, <1>5, <1>6, <1>7, <1>8, <1>9, <1>10 DEF RunnerNext, Proceed

LEMMA MigrationInvariant == MigrationSpec => []MigrationInv
<1>1. MigrationInit => MigrationInv
  BY MigrationInitInv
<1>2. MigrationInv /\ [MigrationNext]_migrationVars => MigrationInv'
  <2> SUFFICES ASSUME MigrationInv, [MigrationNext]_migrationVars
               PROVE  MigrationInv'
    OBVIOUS
  <2>1. CASE UNCHANGED migrationVars
    BY <2>1 DEF migrationVars, MigrationInv, MigrationTypeOK, PassedFilesRecorded,
       CreatorsHoldLocks, File
  <2>2. CASE MigrationNext
    BY <2>2, RunnerStepInv DEF MigrationNext
  <2> QED
    BY <2>1, <2>2
<1> QED
  BY <1>1, <1>2, PTL DEF MigrationSpec

(* The types of the runner's state (migration-runner.ts 32-88).            *)
THEOREM MigrationTypeCorrect == MigrationSpec => []MigrationTypeOK
<1>1. MigrationInv => MigrationTypeOK
  BY DEF MigrationInv
<1> QED
  BY <1>1, MigrationInvariant, PTL

(* Files are executed in order, on the schema of all earlier files, in     *)
(* spite of the versions having been read once (migration-runner.ts 54-72). *)
THEOREM FilesAreInOrder == MigrationSpec => []FilesInOrder
<1>1. MigrationInv => FilesInOrder
  BY DEF MigrationInv, PassedFilesRecorded, FilesInOrder, Running
<1> QED
  BY <1>1, MigrationInvariant, PTL

(* The objects of a file have one creator (migration-runner.ts 68-78).     *)
THEOREM CreatorsAreUnique == MigrationSpec => []OneCreator
<1>1. MigrationInv => OneCreator
  BY DEF MigrationInv, CreatorsHoldLocks, OneCreator
<1> QED
  BY <1>1, MigrationInvariant, PTL

(* Exit code 0 means a complete schema (migration-runner.ts 60-66, 110-113). *)
THEOREM SuccessIsComplete == MigrationSpec => []SuccessMeansComplete
<1>1. MigrationInv => SuccessMeansComplete
  BY DEF MigrationInv, PassedFilesRecorded, SuccessMeansComplete
<1> QED
  BY <1>1, MigrationInvariant, PTL
=============================================================================
