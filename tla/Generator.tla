------------------------------- MODULE Generator -------------------------------
(***************************************************************************)
(* internal/generator/generator.go without its files: what a migration     *)
(* template says, as a function of the options.  CommandLine.tla has the   *)
(* commands that write it.                                                 *)
(*                                                                         *)
(* A --fields value is a sequence of tokens, the four symbols the parser   *)
(* knows and the words between them; blanks around a word are left out.    *)
(* Of the Go code, what a reader of the template sees is kept: the dialect *)
(* it was made for, the calls on each column and the table options.        *)
(***************************************************************************)
EXTENDS Ordered, SequencesExt, FiniteSetsExt

Symbols == {"(", ")", ",", ":"}

\* dialectRegistry.
dialectRegistry == {"mysql", "sqlite", "postgres", "sqlserver"}

-----------------------------------------------------------------------------
(* Parsing *)

Occurrences(s, symbol, n) == Cardinality({i \in 1..n : s[i] = symbol})
Depth(s, i) == Occurrences(s, "(", i) - Occurrences(s, ")", i)

\* The pieces of s between the places in cuts.
Between(s, cuts) ==
  LET at == <<0>> \o InOrder(cuts) \o <<Len(s) + 1>>
  IN  [k \in 1..(Cardinality(cuts) + 1) |-> SubSeq(s, at[k] + 1, at[k + 1] - 1)]

splitTopLevel_AnyDepth(s, sep) == Between(s, {i \in DOMAIN s : s[i] = sep})

\* The pieces between the separators that no parenthesis is open at.
splitTopLevel(s, sep) == Between(s, {i \in DOMAIN s : s[i] = sep /\ Depth(s, i) = 0})

\* A word with arguments, or all of it as the word.
parseType(s) ==
  LET open == {i \in DOMAIN s : s[i] = "("}
  IN  IF open = {} \/ Last(s) # ")" THEN [name |-> s, args |-> <<>>]
      ELSE [name |-> SubSeq(s, 1, Min(open) - 1),
            args |-> splitTopLevel(SubSeq(s, Min(open) + 1, Len(s) - 1), ",")]

Field(tokens) ==
  [name |-> tokens[1], type |-> parseType(tokens[2]), modifiers |-> SubSeq(tokens, 3, Len(tokens))]

\* One field for each part; invalid says that a part has no type.
ParseFields(input) ==
  LET parts == IF input = <<>> THEN <<>> ELSE splitTopLevel(input, ",")
      Tokens(i) == splitTopLevel(parts[i], ":")
  IN  IF \E i \in DOMAIN parts : Len(Tokens(i)) < 2 THEN [invalid |-> TRUE, fields |-> <<>>]
      ELSE [invalid |-> FALSE, fields |-> [i \in DOMAIN parts |-> Field(Tokens(i))]]

-----------------------------------------------------------------------------
(* The columns *)

Plain == [notNull |-> "NotNull", null |-> "Null", unsigned |-> "Unsigned"]
WithValue == [default |-> "DefaultValue", defaultExpression |-> "DefaultExpression"]

\* A modifier that the template writes; every other one is left out without an error.
Known(mod) ==
  \/ Len(mod) = 1 /\ mod[1] \in DOMAIN Plain
  \/ Len(mod) > 2 /\ mod[1] \in DOMAIN WithValue /\ mod[2] = "(" /\ Last(mod) = ")"

CallFor(mod) ==
  IF Len(mod) = 1 THEN [call |-> Plain[mod[1]], value |-> <<>>]
  ELSE [call |-> WithValue[mod[1]], value |-> SubSeq(mod, 3, Len(mod) - 1)]

\* The chain of calls, ended by Null when none of them is about NULL.
ColumnCode(f) ==
  LET known == Pick(f.modifiers, {k \in DOMAIN f.modifiers : Known(f.modifiers[k])})
      calls == [i \in DOMAIN known |-> CallFor(known[i])]
      hasNullability == \E i \in DOMAIN calls : calls[i].call \in {"NotNull", "Null"}
  IN  [name |-> f.name, builder |-> f.type.name, args |-> f.type.args,
       calls |-> IF hasNullability THEN calls
                 ELSE Append(calls, [call |-> "Null", value |-> <<>>])]

dialectProfiles_MySQLForAll(d) == [primaryKey |-> "unsignedBigPrimaryKey", options |-> "engine"]

\* The id column and the table options.
dialectProfiles(d) ==
  [primaryKey |-> CASE d = "mysql" -> "unsignedBigPrimaryKey"
                    [] d = "sqlite" -> "primaryKey"
                    [] OTHER -> "bigPrimaryKey",
   options |-> IF d = "mysql" THEN "engine" ELSE ""]

-----------------------------------------------------------------------------
(* The template *)

\* go/format refuses what is not Go: a builder's name or an argument that is not a word,
\* but for one empty argument at the end.
IsGo(column) ==
  /\ Len(column.builder) = 1 /\ column.builder[1] \notin Symbols
  /\ \A i \in DOMAIN column.args :
       \/ Len(column.args[i]) = 1 /\ column.args[i][1] \notin Symbols
       \/ column.args[i] = <<>> /\ i = Len(column.args)

Columns(input) == LET fields == ParseFields(input).fields
                  IN  [i \in DOMAIN fields |-> ColumnCode(fields[i])]

\* What BuildContent and Generate refuse before there is a file.
BuildContentFails(options) ==
  \/ options.name = ""
  \/ options.dialect \notin dialectRegistry
  \/ ParseFields(options.fields).invalid
  \/ \E i \in DOMAIN Columns(options.fields) : ~IsGo(Columns(options.fields)[i])

\* Without fields there is no table, and Down cannot be done.
BuildContent(options) ==
  [dialect |-> options.dialect, profile |-> dialectProfiles(options.dialect),
   columns |-> Columns(options.fields), reversible |-> options.fields # <<>>]
=============================================================================
