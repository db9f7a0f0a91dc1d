---------------------------- MODULE MCMigration ----------------------------
(* Three runners over the four files of the repository, the last of them   *)
(* written with IF NOT EXISTS; one runner is started again when it fails.  *)
EXTENDS MigrationRunner

CONSTANTS m1, m2, m3

MCRunners == {m1, m2, m3}

MCRetried == {m1}

MCGuarded == {4}
=============================================================================
