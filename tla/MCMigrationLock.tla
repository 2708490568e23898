--------------------------- MODULE MCMigrationLock ---------------------------
(***************************************************************************)
(* An application with two Migrators on one pool of two connections, and   *)
(* the CLI in a process of its own.                                        *)
(***************************************************************************)
EXTENDS MigrationLock, TLC

CONSTANTS a1, a2, cli, s1, s2, t1, t2, app, shell

MCPoolOf == [x \in {a1, a2, s1, s2} |-> app] @@ [x \in {cli, t1, t2} |-> shell]
=============================================================================
