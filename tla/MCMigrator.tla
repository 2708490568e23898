----------------------------- MODULE MCMigrator -----------------------------
(***************************************************************************)
(* Instances of Migrator for TLC: two processes built from different       *)
(* commits, so that one knows a migration the other does not.              *)
(***************************************************************************)
EXTENDS Migrator

CONSTANTS c1, c2

MCCallers == {c1, c2}
MCVersions == 1..3

\* c2 is built from a branch that lacks migration 2.
MCRegistered == [c \in MCCallers |-> IF c = c1 THEN 1..3 ELSE {1, 3}]

Run(o, n) == [op |-> o, arg |-> n, dry |-> FALSE]
Preview(o, n) == [op |-> o, arg |-> n, dry |-> TRUE]

LockedCommands ==
  {Run("up", 0), Run("up", 1), Run("down", 0), Run("down", 2), Run("redo", 1), Run("redo", 2),
   Run("to", 0), Run("to", 1), Run("to", 2), Run("mark", 0), Run("mark", 3), Preview("up", 0)}

\* Without the lock every pair of loops interleaves: a command of each kind.
UnlockedCommands ==
  {Run("up", 0), Run("down", 1), Run("redo", 1), Run("to", 2), Run("history", 0), Run("new", 1),
   Preview("up", 1), Preview("down", 0), Preview("mark", 3), Preview("to", 9)}

\* Nothing that reverts: what implicit commits do to a half-run Down is documented.
ForwardCommands == {Run("up", 0), Run("up", 1), Run("to", 3), Run("to", 9)}

RedoCommands == {Run("up", 0), Run("redo", 1)}
ToCommands == {Run("up", 0), Run("to", 1), Run("to", 2)}
=============================================================================
