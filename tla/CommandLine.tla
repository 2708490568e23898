------------------------------ MODULE CommandLine ------------------------------
(***************************************************************************)
(* cmd/migrate/main.go up to the call of the Migrator, and Generate of     *)
(* internal/generator/generator.go with its file: processes that were      *)
(* started in one environment and in one directory.                        *)
(*                                                                         *)
(* A create reads the clock, makes the text, creates the file exclusively  *)
(* and writes it, and others run, fail and die in between.  A database     *)
(* command ends here with the request it hands to the Migrator, which      *)
(* Migrator.tla takes up.  Letter case and blanks around a dialect's name  *)
(* are left out: both ways to look one up ignore them.                     *)
(***************************************************************************)
EXTENDS Generator

CONSTANTS
  Processes,
  Environments,  \* [dsn, dialect, table, dryRun]: "" for a variable that is not set
  Invocations,   \* [command, args]: the command lines
  FieldLists,    \* lists of columns that --fields values are written from
  Faults,        \* "open": no directory or file; "write": a failed write; "crash"
  MaxClock       \* bound: seconds that pass

DbCommands == {"up", "down", "redo", "history", "new", "mark", "to"}

\* An argument: a flag with its value, or a word, with the number it is, if any.
Argument == [flag : STRING, word : STRING, snake : STRING, tokens : Seq(STRING), number : SUBSET Int]
IsFlag(arg) == arg.flag # ""

ASSUME CommandLineAssumption ==
  /\ \A e \in Environments : DOMAIN e = {"dsn", "dialect", "table", "dryRun"}
  /\ \A i \in Invocations : /\ i.args \in Seq(Argument)
                            /\ \A k \in DOMAIN i.args : \A n, m \in i.args[k].number : n = m
  /\ Faults \subseteq {"open", "write", "crash"}
  /\ MaxClock \in Nat

VARIABLES
  env,         \* the environment
  clock,       \* seconds
  files,       \* the directory migrations: version -> [by, whole, content]
  pc,          \* where a process is
  invocation,  \* how it was started
  version,     \* Generate's version, once it is known
  request      \* what a process has handed to the Migrator

vars == <<env, clock, files, pc, invocation, version, request>>

-----------------------------------------------------------------------------
(* Reading arguments and environment *)

\* driverAliases, which have the empty name too, and the dialect of the driver.
driverAliases ==
  [name \in dialectRegistry \cup {"", "sqlite3", "postgresql", "mssql"} |->
     CASE name = "" -> "mysql" [] name = "sqlite3" -> "sqlite"
       [] name = "postgresql" -> "postgres" [] name = "mssql" -> "sqlserver" [] OTHER -> name]

envBool(value) == value \in {"1", "true", "TRUE", "yes"}

optionalInt_ZeroForJunk(args, fallback) ==
  IF args = <<>> THEN fallback
  ELSE IF args[1].number = {} THEN 0 ELSE CHOOSE n \in args[1].number : TRUE

\* The first argument, if it is there and a number.
optionalInt(args, fallback) ==
  IF args = <<>> \/ args[1].number = {} THEN fallback ELSE CHOOSE n \in args[1].number : TRUE

Fallback(command) == CASE command = "up" -> 0 [] command \in {"down", "redo"} -> 1 [] OTHER -> 10

defaultCreateDialect_Ignored == "mysql"

defaultCreateDialect == IF env.dialect # "" THEN env.dialect ELSE "mysql"

\* Flags end at the first argument that is none; of two with a name the last counts.
FlagsEnd(args) == Min({k \in DOMAIN args : ~IsFlag(args[k])} \cup {Len(args) + 1})
Given(args, flag) == {k \in 1..(FlagsEnd(args) - 1) : args[k].flag = flag}

UsageError(args) ==
  \/ \E k \in 1..(FlagsEnd(args) - 1) : args[k].flag \notin {"fields", "dialect"}
  \/ FlagsEnd(args) # Len(args)

Options(args) ==
  [name    |-> args[Len(args)].word,
   fields  |-> LET given == Given(args, "fields")
               IN  IF given = {} THEN <<>> ELSE args[Max(given)].tokens,
   dialect |-> LET given == Given(args, "dialect")
                   name == IF given = {} THEN defaultCreateDialect ELSE args[Max(given)].word
               IN  IF name = "" THEN "mysql" ELSE name]

-----------------------------------------------------------------------------
(* The processes *)

Nothing == [command |-> "", count |-> 0, target |-> "", dialect |-> "", table |-> "", dryRun |-> FALSE]

TypeOK ==
  /\ env \in Environments /\ clock \in 0..MaxClock
  /\ pc \in [Processes -> {"idle", "open", "write", "created", "handed", "refused", "failed", "crashed"}]
  /\ invocation \in [Processes -> Invocations]
  /\ \A v \in DOMAIN files : /\ v[1] <= clock /\ files[v].whole \in BOOLEAN
                             /\ version[files[v].by] = v
  /\ \A p \in Processes :
       /\ (request[p] # Nothing) <=> pc[p] = "handed"
       /\ pc[p] \in {"write", "created"} => version[p] \in DOMAIN files

Init ==
  /\ env \in Environments /\ clock = 0 /\ files = <<>>
  /\ pc = [p \in Processes |-> "idle"]
  /\ invocation \in [Processes -> Invocations]
  /\ version = [p \in Processes |-> <<>>]
  /\ request = [p \in Processes |-> Nothing]

Ends(p, how) == pc' = [pc EXCEPT ![p] = how]

\* runCreate and Generate up to the file; snakeName makes one of several names.
runCreate(p) ==
  LET args == invocation[p].args
  IN  /\ pc[p] = "idle" /\ invocation[p].command = "create"
      /\ IF UsageError(args) \/ BuildContentFails(Options(args))
         THEN Ends(p, "refused") /\ UNCHANGED version
         ELSE /\ version' = [version EXCEPT ![p] = <<clock, args[Len(args)].snake>>]
              /\ Ends(p, "open")
      /\ UNCHANGED <<env, clock, files, invocation, request>>

Empty(p) == [by |-> p, whole |-> FALSE, content |-> BuildContent(Options(invocation[p].args))]

With(v, file) == [w \in DOMAIN files \cup {v} |-> IF w = v THEN file ELSE files[w]]

Created_ClockReadAgain(p) == With(<<clock, version[p][2]>>, Empty(p))

\* content is what the file will say when it is whole.
Created(p) == With(version[p], Empty(p))

OpenFile_Truncates(p) ==
  /\ pc[p] = "open"
  /\ files' = Created(p)
  /\ Ends(p, "write")
  /\ UNCHANGED <<env, clock, invocation, version, request>>

\* O_EXCL: a file of that name is left as it is.
OpenFile(p) ==
  /\ pc[p] = "open"
  /\ IF version[p] \in DOMAIN files THEN Ends(p, "refused") /\ UNCHANGED files
     ELSE files' = Created(p) /\ Ends(p, "write")
  /\ UNCHANGED <<env, clock, invocation, version, request>>

OpenFails(p) ==
  /\ "open" \in Faults /\ pc[p] = "open"
  /\ Ends(p, "refused")
  /\ UNCHANGED <<env, clock, files, invocation, version, request>>

Write(p) ==
  /\ pc[p] = "write"
  /\ files' = [files EXCEPT ![version[p]].whole = TRUE]
  /\ Ends(p, "created")
  /\ UNCHANGED <<env, clock, invocation, version, request>>

\* What was written so far stays in the directory.
WriteFails(p) ==
  /\ "write" \in Faults /\ pc[p] = "write"
  /\ Ends(p, "failed")
  /\ UNCHANGED <<env, clock, files, invocation, version, request>>

Crash(p) ==
  /\ "crash" \in Faults /\ pc[p] \in {"open", "write"}
  /\ Ends(p, "crashed")
  /\ UNCHANGED <<env, clock, files, invocation, version, request>>

\* runDBCommand refuses a command before it calls the Migrator.
Refuses(p) ==
  LET i == invocation[p]
  IN  \/ i.command \notin DbCommands
      \/ env.dsn = "" \/ env.dialect \notin DOMAIN driverAliases
      \/ i.command \in {"mark", "to"} /\ Len(i.args) # 1

Request(p) ==
  LET i == invocation[p]
  IN  [command |-> i.command,
       count   |-> IF i.command \in {"mark", "to"} THEN 0 ELSE optionalInt(i.args, Fallback(i.command)),
       target  |-> IF i.command \in {"mark", "to"} THEN i.args[1].word ELSE "",
       dialect |-> driverAliases[env.dialect],
       table   |-> IF env.table # "" THEN env.table ELSE "migration",
       dryRun  |-> envBool(env.dryRun)]

runDBCommand(p) ==
  /\ pc[p] = "idle" /\ invocation[p].command # "create"
  /\ IF Refuses(p) THEN Ends(p, "refused") /\ UNCHANGED request
     ELSE request' = [request EXCEPT ![p] = Request(p)] /\ Ends(p, "handed")
  /\ UNCHANGED <<env, clock, files, invocation, version>>

Tick ==
  /\ clock < MaxClock
  /\ clock' = clock + 1
  /\ UNCHANGED <<env, files, pc, invocation, version, request>>

Ended(p) == pc[p] \notin {"idle", "open", "write"}
Finished == (\A p \in Processes : Ended(p)) /\ clock = MaxClock /\ UNCHANGED vars

Next ==
  \/ \E p \in Processes : \/ runCreate(p) \/ OpenFile(p) \/ OpenFails(p) \/ Write(p)
                          \/ WriteFails(p) \/ Crash(p) \/ runDBCommand(p)
  \/ Tick \/ Finished

Spec == Init /\ [][Next]_vars

-----------------------------------------------------------------------------
(* Properties *)

\* The file of p when all of it has been written.
Full(p) == [Empty(p) EXCEPT !.whole = TRUE]

\* docs/cli.md:140: a file that a create has reported is there, whole and its own, for as
\* long as nobody deletes it, whoever creates the same name in the same second; and a
\* file that is not whole is one whose writer is at work, has reported an error or died.
CreatedFilesStay ==
  /\ \A p \in Processes :
       pc[p] = "created" => files[version[p]] = Full(p)
  /\ \A v \in DOMAIN files : ~files[v].whole => pc[files[v].by] \in {"write", "failed", "crashed"}

\* docs/cli.md:154-167: columns as the documentation has them, and the --fields value of
\* a list of them.  What is in the parentheses of a default has its own parentheses closed.
Ordinary == STRING \ Symbols
Balanced(s) == Depth(s, Len(s)) = 0 /\ \A i \in DOMAIN s : Depth(s, i) >= 0
Valued == {"default", "defaultExpression"}
Documented ==
  [name : Ordinary, type : Ordinary, args : Seq(Ordinary),
   modifiers : Seq([word : Valued \cup {"notNull", "null", "unsigned"},
                    value : {s \in Seq(STRING) : Balanced(s)}])]

ASSUME FieldListsAssumption == \A list \in FieldLists : list \in Seq(Documented)

Joined(parts, sep) ==
  LET Up[n \in 0..(Len(parts) - 1)] ==
        IF n = 0 THEN parts[1] ELSE Up[n - 1] \o <<sep>> \o parts[n + 1]
  IN  IF parts = <<>> THEN <<>> ELSE Up[Len(parts) - 1]

Parens(s) == <<"(">> \o s \o <<")">>
Words(s) == [k \in DOMAIN s |-> <<s[k]>>]
WrittenType(c) == <<c.type>> \o (IF c.args = <<>> THEN <<>> ELSE Parens(Joined(Words(c.args), ",")))
WrittenModifier(m) == <<m.word>> \o (IF m.word \in Valued THEN Parens(m.value) ELSE <<>>)
Parts(c) == <<<<c.name>>, WrittenType(c)>> \o [k \in DOMAIN c.modifiers |-> WrittenModifier(c.modifiers[k])]
Written(list) == Joined([i \in DOMAIN list |-> Joined(Parts(list[i]), ":")], ",")

\* docs/cli.md:159-167: the call for each modifier, and Null when none is about NULL.
CallMeant(m) ==
  [call |-> CASE m.word = "notNull" -> "NotNull" [] m.word = "null" -> "Null"
              [] m.word = "unsigned" -> "Unsigned"
              [] m.word = "default" -> "DefaultValue" [] OTHER -> "DefaultExpression",
   value |-> IF m.word \in Valued THEN m.value ELSE <<>>]
Meant(c) ==
  LET words == {c.modifiers[k].word : k \in DOMAIN c.modifiers}
      calls == [k \in DOMAIN c.modifiers |-> CallMeant(c.modifiers[k])]
  IN  [name |-> <<c.name>>, builder |-> <<c.type>>, args |-> Words(c.args),
       calls |-> IF words \cap {"null", "notNull"} # {} THEN calls
                 ELSE Append(calls, [call |-> "Null", value |-> <<>>])]

\* The columns in a file are those the command line lists, in order, each with all of its
\* arguments and modifiers, the commas and colons inside parentheses included; and a
\* create is refused before there is a file for what is wrong with something else.
FieldsAsDocumented ==
  \A p \in Processes : \A list \in FieldLists :
    LET args == invocation[p].args
        Lists == invocation[p].command = "create" /\ Given(args, "fields") # {}
                   /\ args[Max(Given(args, "fields"))].tokens = Written(list)
    IN  Lists =>
          /\ \A v \in DOMAIN files : files[v].by = p =>
               files[v].content.columns = [i \in DOMAIN list |-> Meant(list[i])]
          /\ (pc[p] = "refused" /\ version[p] = <<>>) =>
               UsageError(args) \/ Options(args).name = "" \/ Options(args).dialect \notin dialectRegistry

Builder == INSTANCE ColumnDefinition
             WITH Starts <- {}, MaxBuilders <- 1, made <- <<>>, calls <- <<>>

\* The constructors that make calls themselves; any other is named for its type.
Shorthands ==
  LET Of(type, calls) == [type |-> type, calls |-> calls]
      key == <<"PrimaryKey", "AutoIncrement">>
  IN  [primaryKey            |-> Of("integer", key),
       bigPrimaryKey         |-> Of("bigInteger", key),
       unsignedPrimaryKey    |-> Of("integer", Append(key, "Unsigned")),
       unsignedBigPrimaryKey |-> Of("bigInteger", Append(key, "Unsigned")),
       unsignedTinyInteger   |-> Of("tinyInteger", <<"Unsigned">>),
       unsignedSmallInteger  |-> Of("smallInteger", <<"Unsigned">>),
       unsignedInteger       |-> Of("integer", <<"Unsigned">>),
       unsignedBigInteger    |-> Of("bigInteger", <<"Unsigned">>)]

\* The builder that a chain of calls in a file makes, when the file is compiled.
Chain(constructor, args, calls) ==
  LET short == constructor \in DOMAIN Shorthands
  IN  Builder!Constructed(
        [type  |-> IF short THEN Shorthands[constructor].type ELSE constructor,
         given |-> IF args = <<>> THEN {} ELSE {"Size"},
         calls |-> (IF short THEN Shorthands[constructor].calls ELSE <<>>) \o calls])

\* The columns a file creates: the id, and those that were listed.
Id(content) == Chain(content.profile.primaryKey, <<>>, <<>>)
Made(c) == Chain(c.builder[1], c.args, [k \in DOMAIN c.calls |-> c.calls[k].call])

CreateTableFails(d, content) ==
  \/ content.profile.options # "" /\ d \notin {"mysql", "postgres"}
  \/ Builder!RefusedBy(d, Id(content))
  \/ \E i \in DOMAIN content.columns : Builder!RefusedBy(d, Made(content.columns[i]))

\* docs/dialects.md:81-91: of what can be listed, a column that is asked to be unsigned, and
\* on SQL Server an enum or a set, is not to be had.
Unsupported(d, c) ==
  \/ /\ d \in {"postgres", "sqlserver"}
     /\ \/ \E k \in DOMAIN c.calls : c.calls[k].call = "Unsigned"
        \/ c.builder[1] \in {"unsignedPrimaryKey", "unsignedBigPrimaryKey", "unsignedTinyInteger",
                             "unsignedSmallInteger", "unsignedInteger", "unsignedBigInteger"}
  \/ d = "sqlserver" /\ c.builder[1] \in {"enum", "set"}

\* A file that is run as it was written creates its table on the dialect it was made for,
\* with an id that the database counts, unless a column was listed that the dialect does
\* not have (internal/generator/generator_test.go:140).
FileRunsOnItsDialect ==
  \A v \in DOMAIN files :
    LET content == files[v].content
        d == content.dialect
    IN  (files[v].whole /\ content.reversible) =>
          /\ CreateTableFails(d, content)
               <=> \E i \in DOMAIN content.columns : Unsupported(d, content.columns[i])
          /\ {"PrimaryKey", "AutoIncrement"}
               \subseteq UNION {Builder!Says(clause) : clause \in Builder!BuildColumn(d, Id(content))}

\* cmd/migrate/main.go:69: without --dialect a file is made for the dialect that the
\* database commands of the same environment run on, or not at all.
CreateMatchesDatabase ==
  \A p, q \in Processes :
    /\ pc[p] = "created" /\ Given(invocation[p].args, "dialect") = {}
    /\ pc[q] = "handed"
    => files[version[p]].content.dialect = request[q].dialect

\* docs/cli.md:27-36: the count is the first argument; left out or not a whole
\* number it is the default, so that a slip of the pen makes no down or redo of more than
\* one version; everything is asked for by up alone or by a number that says so.
RequestIsAsDocumented ==
  \A p \in Processes : pc[p] = "handed" =>
    LET r == request[p]
        args == invocation[p].args
        said == IF args = <<>> THEN {} ELSE args[1].number
    IN  /\ r.command \in {"down", "redo"} /\ r.count # 1 => said = {r.count}
        /\ r.command \in {"history", "new"} /\ r.count # 10 => said = {r.count}
        /\ r.command = "up" => (r.count = 0 /\ said = {}) \/ said = {r.count}
        /\ r.command \in {"mark", "to"} => args = <<args[1]>> /\ args[1].word = r.target
=============================================================================
