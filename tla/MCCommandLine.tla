---------------------------- MODULE MCCommandLine ----------------------------
(***************************************************************************)
(* Instances of CommandLine for TLC.                                       *)
(***************************************************************************)
EXTENDS CommandLine

Mod(word, value) == [word |-> word, value |-> value]
Col(name, type, args, modifiers) == [name |-> name, type |-> type, args |-> args, modifiers |-> modifiers]

\* Commas and colons inside parentheses, nested parentheses, modifiers in both orders,
\* columns that some dialects do not have.
MCFieldLists == {
  <<Col("title", "string", <<"128">>, <<Mod("notNull", <<>>)>>), Col("body", "json", <<>>, <<>>)>>,
  <<Col("price", "decimal", <<"10", "2">>, <<Mod("default", <<"0">>), Mod("notNull", <<>>)>>)>>,
  <<Col("at", "dateTime", <<>>, <<Mod("defaultExpression", <<"f", "(", "a", ",", "b", ":", ")">>)>>),
    Col("n", "unsignedBigInteger", <<>>, <<Mod("null", <<>>), Mod("unsigned", <<>>)>>)>>,
  <<Col("kind", "enum", <<"a", "b">>, <<Mod("default", <<"a">>)>>)>>}

Word(word) == [flag |-> "", word |-> word, snake |-> word, tokens |-> <<>>, number |-> {}]
Number(word, n) == [Word(word) EXCEPT !.number = {n}]
Name(word, snake) == [Word(word) EXCEPT !.snake = snake]
Dialect(word) == [Word(word) EXCEPT !.flag = "dialect"]
FieldsFlag(tokens) == [Word("") EXCEPT !.flag = "fields", !.tokens = tokens]
OtherFlag == [Word("") EXCEPT !.flag = "name"]

\* Lists that are none: no type, an empty part, a parenthesis left open.
BadFields == {<<"title">>, <<"a", ":", "text", ",">>, <<"a", ":", "string", "(", "9", ",", "b", ":", "text">>}

Creates ==
  {[command |-> "create", args |-> args] : args \in
     {<<FieldsFlag(Written(list)), Name("add_x", "add_x")>> : list \in MCFieldLists}
     \cup {<<FieldsFlag(bad), Name("add_x", "add_x")>> : bad \in BadFields}
     \cup {<<Dialect("postgresql"), Dialect(d), FieldsFlag(Written(CHOOSE l \in MCFieldLists : l[1].name = "price")),
             Name("Add-X", "add_x")>> : d \in {"sqlite", "sqlserver"}}
     \cup {<<Name("Add-X", "add_x")>>, <<Name("", "")>>, <<Name("add_y", "add_y"), Dialect("sqlite")>>,
           <<OtherFlag, Name("add_y", "add_y")>>, <<Dialect(""), Name("add_y", "add_y")>>}}

Databases ==
  {[command |-> "up", args |-> args] : args \in {<<>>, <<Word("1O")>>, <<Number("3", 3)>>}}
  \cup {[command |-> "down", args |-> args] : args \in {<<>>, <<Word("x")>>, <<Number("-1", -1)>>}}
  \cup {[command |-> "history", args |-> <<Number("0", 0)>>],
        [command |-> "to", args |-> <<Number("0", 0)>>], [command |-> "to", args |-> <<>>],
        [command |-> "mark", args |-> <<Word("v"), Word("w")>>],
        [command |-> "new", args |-> <<>>], [command |-> "redo", args |-> <<Word("n")>>],
        [command |-> "", args |-> <<>>], [command |-> "status", args |-> <<>>]}

MCInvocations == Creates \cup Databases

Env(dsn, dialect, table, dryRun) == [dsn |-> dsn, dialect |-> dialect, table |-> table, dryRun |-> dryRun]
MCEnvironments ==
  {Env("dsn", d, "", "") : d \in {"", "mysql", "sqlite", "postgresql", "sqlserver", "oracle"}}
  \cup {Env("", "postgres", "", ""), Env("dsn", "mssql", "log", "yes"), Env("dsn", "postgres", "", "on")}
=============================================================================
