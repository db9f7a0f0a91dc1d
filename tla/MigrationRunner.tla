-------------------------- MODULE MigrationRunner --------------------------
(***************************************************************************)
(* The migration runner, src/src/database/migration-runner.ts: every .sql  *)
(* file of a directory, in the order of its name, is executed and recorded *)
(* in schema_migrations by one transaction.  A runner takes no lock of its *)
(* own, so several may work on one database: a container that is started   *)
(* again, an operator next to it.  Each runner reads the applied versions  *)
(* once and decides on what it read then.                                  *)
(*                                                                         *)
(* Files are numbered in the order of their names.  The objects a file     *)
(* creates are known by its number.                                        *)
(***************************************************************************)
EXTENDS Integers

CONSTANTS
  Runners,     \* processes that run the migrations
  NumFiles,    \* how many files there are
  Guarded,     \* the files with IF NOT EXISTS throughout (004)
  Retried,     \* the runners somebody starts again when they fail
  NoRunner     \* nobody

Files == 1..NumFiles

ASSUME MigrationAssumption ==
  /\ NumFiles \in Nat
  /\ Guarded \subseteq Files
  /\ Retried \subseteq Runners
  /\ NoRunner \notin Runners

VARIABLES
  schema,      \* the files whose objects exist (committed)
  versions,    \* the rows of schema_migrations (committed)
  ddlLock,     \* per file, the runner whose uncommitted objects others wait for
  runner       \* per runner: where it is and what it has read

migrationVars == <<schema, versions, ddlLock, runner>>

Running == {"next", "changed", "recorded"}

RunnerState ==
  [pc : Running \union {"new", "done", "failed"}, file : 1..(NumFiles + 1),
   applied : SUBSET Files]                \* appliedSet

(* A runner in front of its first file, with what it has read.             *)
FromZero(pc, applied) == [pc |-> pc, file |-> 0, applied |-> applied]

AtFirstFile(pc, applied) == [pc |-> pc, file |-> 1, applied |-> applied]

MigrationInit ==
  /\ schema = {}
  /\ versions = {}
  /\ ddlLock = [f \in Files |-> NoRunner]
  /\ runner = [r \in Runners |-> AtFirstFile("new", {})]

-----------------------------------------------------------------------------
File(r) == runner[r].file

Goto(r, pc) == runner' = [runner EXCEPT ![r].pc = pc]

NextFile(r) ==
  runner' = [runner EXCEPT ![r].pc = "next", ![r].file = File(r) + 1]

NoWait(r) == TRUE

(* A second runner that creates the same objects waits for the first.      *)
MayChange(r) == ddlLock[File(r)] \in {NoRunner, r}

AllDdlLocks(r) == ddlLock

LocksWithout(r) ==
  [f \in Files |-> IF ddlLock[f] = r THEN NoRunner ELSE ddlLock[f]]

(* CREATE TABLE IF NOT EXISTS schema_migrations; SELECT version.           *)
Start(r) ==
  /\ runner[r].pc \in {"new", "done", "failed"}
  /\ runner' = [runner EXCEPT ![r] = AtFirstFile("next", versions)]
  /\ UNCHANGED <<schema, versions, ddlLock>>

(* Migration already applied, skipping.                                    *)
SkipFile(r) ==
  /\ runner[r].pc = "next"
  /\ File(r) \in runner[r].applied
  /\ NextFile(r)
  /\ UNCHANGED <<schema, versions, ddlLock>>

(* BEGIN and the statements of the file.                                   *)
ExecuteFile(r) ==
  /\ runner[r].pc = "next"
  /\ File(r) \in Files \ runner[r].applied
  /\ MayChange(r)
  /\ File(r) \notin schema \/ File(r) \in Guarded
  /\ Goto(r, "changed")
  /\ ddlLock' = IF File(r) \in schema THEN ddlLock
                                      ELSE [ddlLock EXCEPT ![File(r)] = r]
  /\ UNCHANGED <<schema, versions>>

(* INSERT INTO schema_migrations: version is the primary key.              *)
RecordVersion(r) ==
  /\ runner[r].pc = "changed"
  /\ MayChange(r)
  /\ File(r) \notin versions
  /\ Goto(r, "recorded")
  /\ UNCHANGED <<schema, versions, ddlLock>>

(* COMMIT, and on to the next file.                                        *)
CommitFile(r) ==
  /\ runner[r].pc = "recorded"
  /\ schema' = schema \union {File(r)}
  /\ versions' = versions \union {File(r)}
  /\ ddlLock' = LocksWithout(r)
  /\ NextFile(r)

(* The catch block: ROLLBACK, and the error ends the run.                  *)
GoOnAfterError(r) == NextFile(r) /\ ddlLock' = LocksWithout(r)

AfterError(r) == Goto(r, "failed") /\ ddlLock' = LocksWithout(r)

(* Another runner was faster: an object exists, or the version does.       *)
Conflict(r) ==
  /\ \/ /\ runner[r].pc = "next"
        /\ File(r) \in (schema \intersect Files) \ runner[r].applied
     \/ runner[r].pc = "changed" /\ File(r) \in versions
  /\ AfterError(r)
  /\ UNCHANGED <<schema, versions>>

(* Any statement fails, or COMMIT does.                                    *)
StatementFails(r) ==
  /\ runner[r].pc \in Running
  /\ File(r) \in Files
  /\ AfterError(r)
  /\ UNCHANGED <<schema, versions>>

(* The process is killed: PostgreSQL rolls its transaction back.           *)
KillRunner(r) ==
  /\ runner[r].pc \in Running
  /\ Goto(r, "failed")
  /\ ddlLock' = LocksWithout(r)
  /\ UNCHANGED <<schema, versions>>

(* All migrations applied: exit code 0, on which api and worker wait.      *)
Finish(r) ==
  /\ runner[r].pc = "next"
  /\ File(r) \notin Files
  /\ Goto(r, "done")
  /\ UNCHANGED <<schema, versions, ddlLock>>

Proceed(r) ==
  \/ SkipFile(r)
  \/ ExecuteFile(r)
  \/ RecordVersion(r)
  \/ CommitFile(r)
  \/ Conflict(r)
  \/ Finish(r)

RunnerNext(r) ==
  \/ Start(r)
  \/ Proceed(r)
  \/ StatementFails(r)
  \/ KillRunner(r)

MigrationNext == \E r \in Runners : RunnerNext(r)

MigrationSpec == MigrationInit /\ [][MigrationNext]_migrationVars

(* A live runner makes its next step.  The runners of Retried are started  *)
(* again when they fail, and kills and failing statements cease some time. *)
FairMigrationSpec ==
  /\ MigrationSpec
  /\ \A r \in Runners : WF_migrationVars(Proceed(r))
  /\ \A r \in Retried : WF_migrationVars(runner[r].pc # "done" /\ Start(r))
  /\ <>[][\A r \in Runners : ~StatementFails(r) /\ ~KillRunner(r)]_migrationVars

-----------------------------------------------------------------------------
(* Properties                                                              *)

MigrationTypeOK ==
  /\ schema \in SUBSET Files
  /\ versions \in SUBSET Files
  /\ ddlLock \in [Files -> Runners \union {NoRunner}]
  /\ runner \in [Runners -> RunnerState]

(* A file is executed on the schema all earlier files have left: 003 finds *)
(* the tables of 001 whatever other runners do meanwhile and whatever this *)
(* runner read at its start.                                               *)
FilesInOrder ==
  \A r \in Runners :
    runner[r].pc \in {"changed", "recorded"} => 1..(File(r) - 1) \subseteq schema

(* No two runners have created the objects of a file without having        *)
(* committed, so none ever holds an outcome it cannot keep.                *)
OneCreator ==
  \A r, s \in Runners :
    /\ runner[r].pc = "recorded"
    /\ runner[s].pc = "recorded"
    /\ File(r) = File(s)
    => r = s

(* Exit code 0, the condition on which docker compose starts the services, *)
(* means that every file is applied and recorded.                          *)
SuccessMeansComplete ==
  \A r \in Runners : runner[r].pc = "done" => schema = Files /\ versions = Files

(* Runners that disturb each other do not keep each other from the end.    *)
SchemaCompletes == <>(schema = Files /\ \E r \in Retried : runner[r].pc = "done")
=============================================================================
