------------------------- MODULE MCColumnDefinition -------------------------
(***************************************************************************)
(* Instances of ColumnDefinition for TLC.                                  *)
(***************************************************************************)
EXTENDS ColumnDefinition

Plain(t, given) == [type |-> t, given |-> given, calls |-> <<>>]

\* One constructor for each way a type is treated: with or without a size or values, a
\* number or not, fit for SERIAL and IDENTITY or not, a key from the start or not.
MCStarts == {
  Plain("integer", {}), Plain("bigInteger", {"Size"}), Plain("smallInteger", {}),
  Plain("string", {"Size"}), Plain("decimal", {"Size"}), Plain("timestamp", {"Size"}),
  Plain("binary", {"Size"}), Plain("enum", {"Values"}), Plain("json", {}),
  [type |-> "bigInteger", given |-> {}, calls |-> <<"PrimaryKey", "AutoIncrement">>],
  [type |-> "integer", given |-> {}, calls |-> <<"PrimaryKey", "AutoIncrement", "Unsigned">>]}
=============================================================================
