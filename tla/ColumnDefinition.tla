-------------------------- MODULE ColumnDefinition --------------------------
(***************************************************************************)
(* migrate/column_builder.go and BuildColumn of the four dialects: a       *)
(* column is described by a chain of calls on an immutable builder, and    *)
(* each dialect renders it as the clauses of a definition or refuses it.   *)
(*                                                                         *)
(* Builders are values that a migration keeps and derives others from:     *)
(* made[i] is the i-th one, calls[i] the modifiers that led to it.  What   *)
(* is left out: the text of a clause, the order of the clauses, and string *)
(* arguments that are empty.                                               *)
(***************************************************************************)
EXTENDS Integers, SequencesExt

CONSTANTS
  Starts,      \* what the constructors that are called return
  MaxBuilders  \* bound: builders made in one behaviour

Dialects == {"mysql", "postgres", "sqlite", "sqlserver"}

IntegerTypes == {"tinyInteger", "smallInteger", "integer", "bigInteger"}
SerialTypes == {"integer", "bigInteger"}
TextTypes == {"text", "tinyText", "mediumText", "longText"}
BlobTypes == {"tinyBlob", "mediumBlob", "longBlob"}
TimeTypes == {"dateTime", "time", "timestamp"}

\* What the constructors of MigrationContext return: a type, whether its size or its
\* values are given, and the modifiers the constructor itself has called.
Constructors ==
  LET MaySize == IntegerTypes \cup TimeTypes \cup {"string", "binary", "float", "double"}
      MustSize == {"char", "decimal", "money"}
      NoSize == TextTypes \cup BlobTypes \cup {"boolean", "date", "json", "uuid"}
      Key == <<"PrimaryKey", "AutoIncrement">>
  IN  [type : NoSize \cup MaySize, given : {{}}, calls : {<<>>}]
        \cup [type : MaySize \cup MustSize, given : {{"Size"}}, calls : {<<>>}]
        \cup [type : {"enum", "set"}, given : {{"Values"}}, calls : {<<>>}]
        \cup [type : IntegerTypes, given : {{}, {"Size"}}, calls : {<<"Unsigned">>}]
        \cup [type : SerialTypes, given : {{}}, calls : {Key, Append(Key, "Unsigned")}]

ASSUME StartsAssumption == Starts \subseteq Constructors
ASSUME MaxBuildersAssumption == MaxBuilders \in Nat \ {0}

VARIABLES
  made,   \* made[i]: the fields of the i-th builder
  calls   \* calls[i]: the modifiers called on the way to it

vars == <<made, calls>>

-----------------------------------------------------------------------------
(* The builder *)

Modifiers ==
  {"NotNull", "Null", "Unsigned", "PrimaryKey", "AutoIncrement", "Unique", "DefaultValue",
   "DefaultExpression", "Comment", "Check", "After", "First", "Append", "Charset",
   "Collate", "GeneratedAs", "Stored", "Virtual"}

\* The fields of ColumnBuilder that are set, each named for the modifier that sets it.
\* Nullability has two: nullSet, and nullable when no NOT NULL was asked for.
Fields == (Modifiers \ {"NotNull", "Null"}) \cup {"nullSet", "nullable"}

Assigned_NotNullUnset(m) ==
  CASE m = "Null"       -> {"nullSet", "nullable"}
    [] m = "PrimaryKey" -> {"nullSet", "PrimaryKey"}
    [] OTHER            -> {m}

\* The fields a modifier sets.
Assigned(m) ==
  CASE m = "Null"       -> {"nullSet", "nullable"}
    [] m = "NotNull"    -> {"nullSet"}
    [] m = "PrimaryKey" -> {"nullSet", "PrimaryKey"}
    [] OTHER            -> {m}

Cleared_ValueKept(m) ==
  CASE m \in {"NotNull", "PrimaryKey"} -> {"nullable"}
    [] m = "DefaultValue" -> {"DefaultExpression"}
    [] m \in {"After", "First"} -> {"After", "First"}
    [] m \in {"Stored", "Virtual"} -> {"Stored", "Virtual"}
    [] OTHER -> {}

\* The fields a modifier resets; After, First, Stored and Virtual then set one again.
Cleared(m) ==
  CASE m \in {"NotNull", "PrimaryKey"} -> {"nullable"}
    [] m = "DefaultValue" -> {"DefaultExpression"}
    [] m = "DefaultExpression" -> {"DefaultValue"}
    [] m \in {"After", "First"} -> {"After", "First"}
    [] m \in {"Stored", "Virtual"} -> {"Stored", "Virtual"}
    [] OTHER -> {}

\* A modifier called on a builder: a clone with the fields assigned.
Modified(b, m) == [b EXCEPT !.is = (@ \ Cleared(m)) \cup Assigned(m)]

newColumnBuilder(s) == [type |-> s.type, given |-> s.given, is |-> {"nullable"}]

\* The builder a constructor returns: a new one, after the calls the constructor makes.
Constructed(s) ==
  LET Called[n \in 0..Len(s.calls)] ==
        IF n = 0 THEN newColumnBuilder(s) ELSE Modified(Called[n - 1], s.calls[n])
  IN  Called[Len(s.calls)]

TypeOK ==
  /\ Len(made) \in 1..MaxBuilders /\ DOMAIN calls = DOMAIN made
  /\ \A i \in DOMAIN made : /\ \E s \in Starts : made[i].type = s.type /\ made[i].given = s.given
                            /\ made[i].is \subseteq Fields
                            /\ calls[i] \in Seq(Modifiers)

Init ==
  \E s \in Starts : /\ made = <<Constructed(s)>>
                    /\ calls = <<s.calls>>

Derive_InPlace(i, m) ==
  /\ Len(made) < MaxBuilders
  /\ made' = Append([made EXCEPT ![i] = Modified(@, m)], Modified(made[i], m))
  /\ calls' = Append(calls, Append(calls[i], m))

\* A modifier is called on any of the builders made so far.
Derive(i, m) ==
  /\ Len(made) < MaxBuilders
  /\ made' = Append(made, Modified(made[i], m))
  /\ calls' = Append(calls, Append(calls[i], m))

\* The migration is written.
Finished == Len(made) = MaxBuilders /\ UNCHANGED vars

Next ==
  \/ \E i \in DOMAIN made, m \in Modifiers : Derive(i, m)
  \/ Finished

Spec == Init /\ [][Next]_vars

-----------------------------------------------------------------------------
(* What the dialects render.  A clause is named for what it says: a        *)
(* modifier, the declared Type, its Size or its Values.                    *)

Nullability(b) == IF "nullSet" \notin b.is THEN {}
                  ELSE IF "nullable" \in b.is THEN {"Null"} ELSE {"NotNull"}

\* STORED and VIRTUAL are written after GENERATED ALWAYS AS only.
Generated(b) == IF "GeneratedAs" \in b.is
                THEN b.is \cap {"GeneratedAs", "Stored", "Virtual"} ELSE {}

Anywhere == {"Unique", "DefaultValue", "DefaultExpression", "Check", "Append"}
Positions == {"After", "First", "Charset", "Collate"}

supportsMySQLUnsigned(t) == t \in IntegerTypes \cup {"float", "double", "decimal", "money"}

\* mysqlType spells out every size and every value.
MySQLColumn(b) ==
  {"Type"} \cup b.given \cup Nullability(b) \cup Generated(b)
    \cup (b.is \cap (Anywhere \cup Positions \cup {"AutoIncrement", "PrimaryKey", "Comment"}))
    \cup {m \in {"Unsigned"} \cap b.is : supportsMySQLUnsigned(b.type)}

pgType(b) ==
  {"Type"} \cup {m \in {"Size"} \cap b.given : b.type \in TimeTypes \cup {"string", "char", "decimal"}}

\* Whether the key is a SERIAL or BIGSERIAL.
pgSerialType(b) == {"PrimaryKey", "AutoIncrement"} \subseteq b.is /\ b.type \in SerialTypes

\* SERIAL takes the place of the type; it is written without nullability or default.
PostgreSQLColumn(b) ==
  IF pgSerialType(b)
  THEN {"Serial", "PrimaryKey"} \cup Generated(b)
         \cup (b.is \cap {"Unique", "Check", "Append"})
  ELSE pgType(b) \cup Nullability(b) \cup Generated(b) \cup (b.is \cap Anywhere)

sqliteType(b) ==
  {"Type"} \cup {m \in {"Size"} \cap b.given : b.type \in {"string", "char", "decimal", "money"}}

\* Any primary key is an INTEGER PRIMARY KEY, whatever its declared type.
SQLiteColumn(b) ==
  IF "PrimaryKey" \in b.is
  THEN b.is \cap {"PrimaryKey", "AutoIncrement", "Append"}
  ELSE sqliteType(b) \cup Nullability(b) \cup Generated(b) \cup (b.is \cap Anywhere)

mssqlType(b) ==
  {"Type"} \cup {m \in {"Size"} \cap b.given :
                   b.type \in TimeTypes \cup {"string", "char", "binary", "float", "decimal"}}

\* Whether INT or BIGINT IDENTITY(1,1) PRIMARY KEY takes the place of the type.
mssqlIdentityType(b) == {"PrimaryKey", "AutoIncrement"} \subseteq b.is /\ b.type \in SerialTypes

isIdentityColumn_IntegerOnly(b) ==
  {"PrimaryKey", "AutoIncrement"} \subseteq b.is /\ b.type = "integer"

\* Whether PRIMARY KEY is left to the identity: the same question, asked again.
isIdentityColumn(b) == {"PrimaryKey", "AutoIncrement"} \subseteq b.is /\ b.type \in SerialTypes

SQLServerColumn(b) ==
  Nullability(b) \cup (b.is \cap Anywhere)
    \cup (IF mssqlIdentityType(b) THEN {"Identity"} ELSE mssqlType(b))
    \cup {m \in {"PrimaryKey"} \cap b.is : ~isIdentityColumn(b)}

\* An UnsupportedOperationError instead of a definition.
RefusedBy(d, b) ==
  \/ d # "mysql" /\ b.is \cap Positions # {}
  \/ d \in {"postgres", "sqlserver"} /\ "Unsigned" \in b.is
  \/ d = "sqlite" /\ "Comment" \in b.is
  \/ d = "sqlserver" /\ ("GeneratedAs" \in b.is \/ b.type \in {"enum", "set"})

\* CreateTable and AddColumn render the whole column.
BuildColumn(d, b) ==
  CASE d = "mysql"    -> MySQLColumn(b)
    [] d = "postgres" -> PostgreSQLColumn(b)
    [] d = "sqlite"   -> SQLiteColumn(b)
    [] OTHER          -> SQLServerColumn(b)

\* AlterColumn: SQLite has none, and PostgreSQL changes the type alone, whatever the
\* modifiers, SERIAL and what it refuses to create included.
AlterRefusedBy(d, b) == d = "sqlite" \/ (d # "postgres" /\ RefusedBy(d, b))
AlterColumn(d, b) == IF d = "postgres" THEN pgType(b) ELSE BuildColumn(d, b)

-----------------------------------------------------------------------------
(* Properties *)

Says(clause) ==
  CASE clause = "Serial"   -> {"Type", "AutoIncrement"}
    [] clause = "Identity" -> {"Type", "AutoIncrement", "PrimaryKey"}
    [] OTHER               -> {clause}

\* Modifiers of which a column can have one only.
Alternatives == {{"Null", "NotNull"}, {"DefaultValue", "DefaultExpression"},
                 {"After", "First"}, {"Stored", "Virtual"}}

\* What a chain of calls asks for: each modifier in it that no later call replaces.
\* PrimaryKey is a NotNull too.
Asked(p) ==
  LET As(m) == IF m = "PrimaryKey" THEN {"NotNull", "PrimaryKey"} ELSE {m}
      Replaces(m, a) == \E alt \in Alternatives : a \in alt /\ As(m) \cap (alt \ {a}) # {}
  IN  {a \in Modifiers : \E i \in DOMAIN p :
         a \in As(p[i]) /\ \A j \in (i + 1)..Len(p) : ~Replaces(p[j], a)}

\* What the documentation says a dialect leaves out of a column b without an error: the
\* matrix of docs/dialects.md:81-91 and the notes on each dialect below it (an SQLite or
\* PostgreSQL type that has no size among them); docs/migrations.md:132 has Stored and
\* Virtual go with GeneratedAs.
LeftOut(d, b, asked) ==
  LET key == "PrimaryKey" \in asked
      serial == key /\ "AutoIncrement" \in asked /\ b.type \in SerialTypes
      Sizeless == CASE d = "sqlite"   -> IntegerTypes \cup TimeTypes \cup {"binary", "float", "double"}
                    [] d = "postgres" -> {"double", "money"}
                    [] OTHER          -> {}
      plain == {"Null", "NotNull", "DefaultValue", "DefaultExpression"}
  IN
  {a \in asked \cup b.given \cup {"Type"} :
     \/ a = "Unsigned" /\ (d = "sqlite" \/ ~supportsMySQLUnsigned(b.type))
     \/ a = "Comment" /\ d \in {"postgres", "sqlserver"}
     \/ a = "PrimaryKey" /\ d = "postgres" /\ ~serial
     \/ a \in plain /\ d = "postgres" /\ serial
     \/ a \in {"Stored", "Virtual"} /\ "GeneratedAs" \notin asked
     \/ a = "Size" /\ b.type \in Sizeless
     \/ a = "Values" /\ d # "mysql"
     \/ d = "sqlite" /\ key /\ a \notin {"PrimaryKey", "AutoIncrement", "Append"}}

\* What the documentation does not settle, or settles as the code does not: the sizes of
\* other types that PostgreSQL and SQL Server write without one, AutoIncrement outside a
\* SERIAL or an IDENTITY, and AutoIncrement or PrimaryKey without the other on SQLite.
Unsettled(d, b, asked) ==
  LET key == "PrimaryKey" \in asked
      auto == "AutoIncrement" \in asked
      Sizeless == CASE d = "postgres"  -> IntegerTypes \cup {"binary", "float"}
                    [] d = "sqlserver" -> IntegerTypes \cup {"double", "money"}
                    [] OTHER           -> {}
  IN  {a \in {"Size"} : b.type \in Sizeless}
        \cup {a \in {"AutoIncrement"} :
                \/ d \in {"postgres", "sqlserver"} /\ auto /\ ~(key /\ b.type \in SerialTypes)
                \/ d = "sqlite" /\ key # auto}

\* Each dialect writes what the calls on the way to a builder ask for, the last one of
\* those that exclude each other, and nothing else; it leaves out only what the
\* documentation says (LeftOut), and on what is Unsettled nothing is claimed.  No call on
\* another builder made from the same one shows (column_builder.go:3, an immutable
\* chainable API).  A column altered to a builder is asked to be what a new one would be,
\* on PostgreSQL for the type and its size only (docs/dialects.md:48).
ColumnIsAsAsked ==
  \A i \in DOMAIN made, d \in Dialects :
    LET b == made[i]
        Meant(modifiers) == (modifiers \cup b.given \cup {"Type"}) \ LeftOut(d, b, modifiers)
        Written(clauses) == UNION {Says(c) : c \in clauses}
        AsAsked(clauses, modifiers) ==
          Written(clauses) \ Unsettled(d, b, modifiers) = Meant(modifiers) \ Unsettled(d, b, modifiers)
    IN  /\ ~RefusedBy(d, b) => AsAsked(BuildColumn(d, b), Asked(calls[i]))
        /\ ~AlterRefusedBy(d, b) =>
             AsAsked(AlterColumn(d, b), IF d = "postgres" THEN {} ELSE Asked(calls[i]))

\* No definition contradicts or repeats itself: one nullability, one default, one place,
\* one kind of generated column, one PRIMARY KEY, which SQL Server's identity is too.
OneClauseEach ==
  \A i \in DOMAIN made, d \in Dialects : ~RefusedBy(d, made[i]) =>
    LET clauses == BuildColumn(d, made[i])
    IN  /\ \A c1, c2 \in clauses : c1 # c2 => Says(c1) \cap Says(c2) = {}
        /\ \A alt \in Alternatives : Cardinality(alt \cap clauses) <= 1

\* docs/dialects.md:152 (and the matrix, :88): on SQLite a primary key is always written
\* INTEGER PRIMARY KEY AUTOINCREMENT, m.String(36).PrimaryKey() for one.  The code writes
\* AUTOINCREMENT for the keys it was called on only (sqlite.go:50).
SQLiteKeysAutoincrement ==
  \A i \in DOMAIN made :
    "PrimaryKey" \in Asked(calls[i]) /\ ~RefusedBy("sqlite", made[i])
      => {"PrimaryKey", "AutoIncrement"} \subseteq BuildColumn("sqlite", made[i])
=============================================================================
