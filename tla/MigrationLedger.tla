--------------------------- MODULE MigrationLedger ---------------------------
(***************************************************************************)
(* What the history promises (docs/architecture.md, "one migration, one    *)
(* transaction"): the history table is a ledger of what is installed.      *)
(* Applying a version installs it and writes its row in one step, at a time*)
(* no earlier than any other; reverting uninstalls the newest version and  *)
(* removes its row in one step.  Only Mark edits rows by themselves.       *)
(***************************************************************************)
EXTENDS Integers

CONSTANTS
  Versions,  \* the migration names, numbered in name order
  Times,     \* the seconds at which a version may be applied
  Full       \* the statements that install one version

VARIABLES
  rows,      \* rows[v]: when v was applied, 0 when it is not
  schema,    \* schema[v]: statements of v that are installed
  edited     \* rows have been edited by hand

vars == <<rows, schema, edited>>

Init ==
  /\ rows = [v \in Versions |-> 0]
  /\ schema = [v \in Versions |-> 0]
  /\ edited = FALSE

Apply(v, t) ==
  /\ rows[v] = 0 /\ \A w \in Versions : rows[w] <= t
  /\ rows' = [rows EXCEPT ![v] = t]
  /\ schema' = [schema EXCEPT ![v] = @ + Full]
  /\ UNCHANGED edited

Revert(v) ==
  /\ rows[v] # 0
  /\ \A w \in Versions \ {v} : rows[w] < rows[v] \/ (rows[w] = rows[v] /\ w < v)
  /\ rows' = [rows EXCEPT ![v] = 0]
  /\ schema' = [schema EXCEPT ![v] = @ - Full]
  /\ UNCHANGED edited

Edit(v, t) ==
  /\ rows' = [rows EXCEPT ![v] = t]
  /\ edited' = TRUE
  /\ UNCHANGED schema

Next ==
  \E v \in Versions : \/ \E t \in Times : Apply(v, t)
                      \/ Revert(v)
                      \/ \E t \in Times \cup {0} : Edit(v, t)

Spec == Init /\ [][Next]_vars
=============================================================================
