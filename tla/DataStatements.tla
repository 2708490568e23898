---------------------------- MODULE DataStatements ----------------------------
(***************************************************************************)
(* The data statements of migrate/base_dialect.go (INSERT, batch INSERT,   *)
(* UPDATE, DELETE), the calls of migrate/schema_plan.go that plan them and *)
(* RowExists and CountRows of migrate/query.go, as a migration uses them   *)
(* that seeds or moves rows: ask first, then plan, then execute.           *)
(*                                                                         *)
(* A value is written into the text of a statement (an Expression) or      *)
(* bound to a placeholder; which argument a placeholder gets is decided by *)
(* its place, where it is ?, or by its number, where it is $n or @pn.  The *)
(* conditions are texts of the migration's author, placeholders included.  *)
(* Columns are numbered in the order of their names, and 0 is NULL.        *)
(***************************************************************************)
EXTENDS Ordered, Functions

CONSTANTS
  Columns,     \* the columns of the table, small numbers
  Migrations,  \* what the migrations ask and call
  Tables,      \* the contents of the table to begin with: sequences of rows
  Faults,      \* "query": a query fails; "stmt": a statement does; "crash"
  MaxRuns      \* bound: runs of the migration

Dialects == {"mysql", "postgres", "sqlserver", "sqlite"}
ByPlace == {"mysql", "sqlite"}

\* The value of a row's column: an Expression or a plain value.
Value == [expr : BOOLEAN, v : Nat]

\* A condition: columns compared with a literal or, where lit is 0, with the next
\* argument.  first is the number its author gave the first placeholder, 0 for ?.
Condition == [tests : Seq([col : Columns, lit : Nat]), first : Nat]
Always(cond) == cond.tests = <<>>

\* A call: an insert and an update have one Row, a map, whose keys are cols; a batch has
\* several of the columns in cols, each as long as cols unless the migration is wrong; a
\* delete has none.  No column is written twice.
IsRow(c) == Len(c.rows) = 1 /\ Len(c.rows[1]) = Len(c.cols)
Call == {c \in [op : {"insert", "batch", "update", "delete"}, cols : Seq(Columns),
                rows : Seq(Seq(Value)), cond : Condition, args : Seq(Nat)] :
           IsInjective(c.cols) /\ (c.op \in {"insert", "update"} => IsRow(c))}

ASSUME DataAssumption ==
  /\ Columns \subseteq Nat \ {0} /\ IsFiniteSet(Columns)
  /\ \A t \in Tables : t \in Seq([Columns -> Nat])
  /\ \A m \in Migrations : /\ m.ask \in {"exists", "count", "nothing"}
                           /\ m.cond \in Condition /\ m.args \in Seq(Nat)
                           /\ m.calls \in Seq(Call)
  /\ Faults \subseteq {"query", "stmt", "crash"} /\ MaxRuns \in Nat \ {0}

VARIABLES
  dialect,     \* the dialect of the database
  migration,   \* the migration that is run
  pc,          \* where its run is
  dry,         \* MigrationContext.dryRun
  called,      \* calls of the chain that have been made
  statements,  \* SchemaPlan.statements
  err,         \* SchemaPlan.err is set
  ran,         \* statements that have been executed
  table,       \* the rows the migration's transaction sees
  before,      \* the rows when the run began
  runs,        \* runs begun
  faulty       \* a fault occurred in this run

world == <<dialect, migration>>
plan == <<called, statements, err>>
vars == <<world, pc, dry, plan, ran, table, before, runs, faulty>>

-----------------------------------------------------------------------------
(* Statements: pieces of text, each a literal or a placeholder, and arguments *)

Literal(v) == [mark |-> -1, lit |-> v]
Mark(n) == [mark |-> n, lit |-> 0]

Placeholder(d, n) == IF d \in ByPlace THEN Mark(0) ELSE Mark(n)

\* Where the values are that are no Expressions, and where a condition has placeholders.
Plain(values) == {i \in DOMAIN values : ~values[i].expr}
Open(cond) == {i \in DOMAIN cond.tests : cond.tests[i].lit = 0}

\* The text of the values, and their arguments: args grows with each plain value.
Pieces(d, values) ==
  [i \in DOMAIN values |->
     IF values[i].expr THEN Literal(values[i].v) ELSE Placeholder(d, Rank(Plain(values), i))]
Args(values) == Pick([i \in DOMAIN values |-> values[i].v], Plain(values))

\* The author's text: the tests and the placeholders in them.
Where(cond) ==
  [i \in DOMAIN cond.tests |->
     [col |-> cond.tests[i].col,
      piece |-> IF cond.tests[i].lit # 0 THEN Literal(cond.tests[i].lit)
                ELSE Mark(IF cond.first = 0 THEN 0 ELSE cond.first + Rank(Open(cond), i) - 1)]]

Statement(op, cols, set, where, args) ==
  [op |-> op, cols |-> cols, set |-> set, where |-> where, args |-> args]

\* The columns of a Row, a map, in the order of their names, and the values in it.
sortedRowKeys(c) == InOrder(Range(c.cols))
ValuesByKey(c) ==
  LET row == c.rows[1]
  IN  [i \in DOMAIN sortedRowKeys(c) |->
         row[CHOOSE j \in DOMAIN c.cols : c.cols[j] = sortedRowKeys(c)[i]]]

buildInsert(d, c) ==
  Statement("insert", sortedRowKeys(c), Pieces(d, ValuesByKey(c)), <<>>, Args(ValuesByKey(c)))

\* Rows as long as the columns, one after the other.
RowByRow(rows, width) ==
  [n \in 1..(Len(rows) * width) |-> rows[((n - 1) \div width) + 1][((n - 1) % width) + 1]]

buildBatchInsert_EachRowAnew(d, c) ==
  Statement("insert", c.cols, RowByRow([i \in DOMAIN c.rows |-> Pieces(d, c.rows[i])], Len(c.cols)),
            <<>>, Args(RowByRow(c.rows, Len(c.cols))))

\* The numbers of the placeholders go on from row to row.
buildBatchInsert(d, c) ==
  LET values == RowByRow(c.rows, Len(c.cols))
  IN  Statement("insert", c.cols, Pieces(d, values), <<>>, Args(values))

buildUpdate_ArgumentsAnyway(d, c) ==
  Statement("update", sortedRowKeys(c), Pieces(d, ValuesByKey(c)), Where(c.cond),
            Args(ValuesByKey(c)) \o c.args)

\* The arguments of the condition come after those of SET, and only with a condition.
buildUpdate(d, c) ==
  Statement("update", sortedRowKeys(c), Pieces(d, ValuesByKey(c)), Where(c.cond),
            Args(ValuesByKey(c)) \o (IF Always(c.cond) THEN <<>> ELSE c.args))

buildDelete(c) == Statement("delete", <<>>, <<>>, Where(c.cond), c.args)

\* An empty Row, no columns, no rows, or a row that is not as long as the columns.
Malformed(c) ==
  /\ c.op # "delete"
  /\ \/ c.cols = <<>> \/ c.rows = <<>>
     \/ \E i \in DOMAIN c.rows : Len(c.rows[i]) # Len(c.cols)

Built(d, c) ==
  CASE c.op = "insert" -> buildInsert(d, c)
    [] c.op = "batch"  -> buildBatchInsert(d, c)
    [] c.op = "update" -> buildUpdate(d, c)
    [] OTHER           -> buildDelete(c)

-----------------------------------------------------------------------------
(* The database *)

\* Every piece of a statement in the order of its text.
Text(st) == st.set \o [i \in DOMAIN st.where |-> st.where[i].piece]
MarksOf(st) == {i \in DOMAIN Text(st) : Text(st)[i].mark # -1}

\* Placeholders of the other kind are no placeholders.  MySQL and PostgreSQL want as
\* many arguments as the statement has parameters; SQLite and SQL Server enough.
Accepts(d, st) ==
  LET numbers == {Text(st)[i].mark : i \in MarksOf(st)}
      places == Cardinality(MarksOf(st))
  IN  CASE d = "mysql"     -> numbers \subseteq {0} /\ places = Len(st.args)
        [] d = "sqlite"    -> numbers \subseteq {0} /\ places <= Len(st.args)
        [] d = "postgres"  -> numbers = DOMAIN st.args
        [] d = "sqlserver" -> numbers \subseteq DOMAIN st.args

\* The value that the i-th piece of the text stands for.
ValueAt(st, i) ==
  LET piece == Text(st)[i]
  IN  CASE piece.mark = -1 -> piece.lit
        [] piece.mark = 0  -> st.args[Rank(MarksOf(st), i)]
        [] OTHER           -> st.args[piece.mark]

Matches(st, row) ==
  \A i \in DOMAIN st.where : row[st.where[i].col] = ValueAt(st, Len(st.set) + i)

\* The row that the pieces from the k-th on make of a row.
Assigned(st, k, row) ==
  [col \in Columns |->
     IF \E i \in DOMAIN st.cols : st.cols[i] = col
     THEN ValueAt(st, k - 1 + CHOOSE i \in DOMAIN st.cols : st.cols[i] = col)
     ELSE row[col]]

EmptyRow == [col \in Columns |-> 0]

After(st, t) ==
  LET width == Len(st.cols)
  IN  CASE st.op = "insert" ->
             t \o [i \in 1..(Len(st.set) \div width) |->
                     Assigned(st, (i - 1) * width + 1, EmptyRow)]
        [] st.op = "update" ->
             [i \in DOMAIN t |-> IF Matches(st, t[i]) THEN Assigned(st, 1, t[i]) ELSE t[i]]
        [] OTHER -> Pick(t, {i \in DOMAIN t : ~Matches(st, t[i])})

-----------------------------------------------------------------------------
(* The query helpers *)

\* What the drivers of go.mod hand to Scan: PostgreSQL has a boolean for EXISTS, the others and
\* every COUNT an integer.
Answer(d, ask, n) ==
  IF ask = "exists" /\ d = "postgres"
  THEN [type |-> "bool", v |-> IF n > 0 THEN 1 ELSE 0]
  ELSE [type |-> "int64", v |-> IF ask = "exists" /\ n > 0 THEN 1 ELSE n]

toInt64_IntegersOnly(answer) == IF answer.type = "int64" THEN answer.v ELSE 0

\* Integers of any width and booleans; any other type is 0.
toInt64(answer) == IF answer.type \in {"int64", "bool"} THEN answer.v ELSE 0

\* BuildRowExistsSQL and BuildCountRowsSQL put the condition into a SELECT, whose
\* placeholders are the condition's own.
Query(m) == Statement("select", <<>>, <<>>, Where(m.cond), m.args)

\* RowExists, or CountRows > 0.
Found(d, m, t) ==
  LET n == Cardinality({i \in DOMAIN t : Matches(Query(m), t[i])})
  IN  toInt64(Answer(d, m.ask, n)) # 0

-----------------------------------------------------------------------------
(* The run of a migration *)

TypeOK ==
  /\ dialect \in Dialects /\ migration \in Migrations
  /\ pc \in {"ask", "chain", "exec", "done", "skipped", "failed"}
  /\ dry \in BOOLEAN /\ err \in BOOLEAN /\ faulty \in BOOLEAN
  /\ called \in 0..Len(migration.calls) /\ ran \in 0..Len(statements)
  /\ Len(statements) <= called /\ (~err => Len(statements) = called)
  /\ table \in Seq([Columns -> Nat]) /\ before \in Seq([Columns -> Nat])
  /\ runs \in 0..MaxRuns

Init ==
  /\ dialect \in Dialects /\ migration \in Migrations /\ dry \in BOOLEAN
  /\ pc = IF migration.ask = "nothing" THEN "chain" ELSE "ask"
  /\ called = 0 /\ statements = <<>> /\ err = FALSE /\ ran = 0
  /\ table \in Tables /\ before = table
  /\ runs = 1 /\ faulty = FALSE

\* The transaction is rolled back, and what it wrote is gone.
Fail == pc' = "failed" /\ table' = before

\* RowExists or CountRows, in a dry run too; the migration goes on if there is no row.
Ask ==
  /\ pc = "ask"
  /\ IF Accepts(dialect, Query(migration))
     THEN /\ pc' = IF Found(dialect, migration, table) THEN "skipped" ELSE "chain"
          /\ UNCHANGED table
     ELSE Fail
  /\ UNCHANGED <<world, dry, plan, ran, before, runs, faulty>>

QueryFails ==
  /\ "query" \in Faults /\ pc = "ask"
  /\ Fail /\ faulty' = TRUE
  /\ UNCHANGED <<world, dry, plan, ran, before, runs>>

ChainCall_ErrorReplaced ==
  /\ pc = "chain" /\ called < Len(migration.calls)
  /\ called' = called + 1
  /\ LET c == migration.calls[called + 1]
     IN  /\ err' = Malformed(c)
         /\ statements' = IF err' THEN statements ELSE Append(statements, Built(dialect, c))
  /\ UNCHANGED <<world, pc, dry, ran, table, before, runs, faulty>>

\* addStatement: the first error is kept, and nothing is added after it.
ChainCall ==
  /\ pc = "chain" /\ called < Len(migration.calls)
  /\ called' = called + 1
  /\ LET c == migration.calls[called + 1]
     IN  /\ err' = (err \/ Malformed(c))
         /\ statements' = IF err' THEN statements ELSE Append(statements, Built(dialect, c))
  /\ UNCHANGED <<world, pc, dry, ran, table, before, runs, faulty>>

Exec ==
  /\ pc = "chain" /\ called = Len(migration.calls)
  /\ IF err THEN Fail ELSE pc' = (IF dry THEN "done" ELSE "exec") /\ UNCHANGED table
  /\ UNCHANGED <<world, dry, plan, ran, before, runs, faulty>>

ExecStatement ==
  /\ pc = "exec" /\ ran < Len(statements)
  /\ IF Accepts(dialect, statements[ran + 1])
     THEN /\ table' = After(statements[ran + 1], table)
          /\ ran' = ran + 1
          /\ UNCHANGED pc
     ELSE Fail /\ UNCHANGED ran
  /\ UNCHANGED <<world, dry, plan, before, runs, faulty>>

StatementFails ==
  /\ "stmt" \in Faults /\ pc = "exec" /\ ran < Len(statements)
  /\ Fail /\ faulty' = TRUE
  /\ UNCHANGED <<world, dry, plan, ran, before, runs>>

ExecReturns ==
  /\ pc = "exec" /\ ran = Len(statements)
  /\ pc' = "done"
  /\ UNCHANGED <<world, dry, plan, ran, table, before, runs, faulty>>

Crash ==
  /\ "crash" \in Faults /\ pc \in {"ask", "chain", "exec"}
  /\ Fail /\ faulty' = TRUE
  /\ UNCHANGED <<world, dry, plan, ran, before, runs>>

Ended == pc \in {"done", "skipped", "failed"}

\* The migration is run again: after a failure, a preview, or Down and Up.
Rerun ==
  /\ Ended /\ runs < MaxRuns
  /\ runs' = runs + 1 /\ dry' \in BOOLEAN
  /\ pc' = IF migration.ask = "nothing" THEN "chain" ELSE "ask"
  /\ called' = 0 /\ statements' = <<>> /\ err' = FALSE /\ ran' = 0
  /\ before' = table /\ faulty' = FALSE
  /\ UNCHANGED <<world, table>>

Finished == Ended /\ runs = MaxRuns /\ UNCHANGED vars

Next ==
  \/ Ask \/ QueryFails \/ ChainCall \/ Exec \/ ExecStatement \/ StatementFails
  \/ ExecReturns \/ Crash \/ Rerun \/ Finished

Spec == Init /\ [][Next]_vars

-----------------------------------------------------------------------------
(* Properties *)

\* The condition of a call read as docs/migrations.md:206 has it: each of its
\* placeholders is for the next of the call's own arguments.
Meant(cond, args, row) ==
  \A i \in DOMAIN cond.tests :
    row[cond.tests[i].col] =
      IF cond.tests[i].lit # 0 THEN cond.tests[i].lit ELSE args[Rank(Open(cond), i)]

\* What a call asks for, read off its arguments alone.
Asked(t, c) ==
  LET With(row, values) ==
        [col \in Columns |-> IF \E j \in DOMAIN c.cols : c.cols[j] = col
                             THEN values[CHOOSE j \in DOMAIN c.cols : c.cols[j] = col].v
                             ELSE row[col]]
  IN  CASE c.op \in {"insert", "batch"} ->
             t \o [i \in DOMAIN c.rows |-> With(EmptyRow, c.rows[i])]
        [] c.op = "update" ->
             [i \in DOMAIN t |-> IF Meant(c.cond, c.args, t[i]) THEN With(t[i], c.rows[1]) ELSE t[i]]
        [] OTHER -> Pick(t, {i \in DOMAIN t : ~Meant(c.cond, c.args, t[i])})

\* What the first n of the calls ask for, one after the other.
AskedBy(t, cs, n) ==
  LET rows[k \in 0..Len(cs)] == IF k = 0 THEN t ELSE Asked(rows[k - 1], cs[k])
  IN  rows[n]

\* The author numbers the placeholders of a condition in the dialect's way, and where
\* they have numbers goes on from the `bound' ones in front of it.
Numbered(d, cond, args, bound) ==
  /\ Cardinality(Open(cond)) = Len(args)
  /\ Open(cond) # {} => cond.first = IF d \in ByPlace THEN 0 ELSE bound + 1

WellNumbered(d, m) ==
  /\ m.ask # "nothing" => Numbered(d, m.cond, m.args, 0)
  /\ \A i \in DOMAIN m.calls :
       LET c == m.calls[i]
           bound == IF Malformed(c) THEN 0 ELSE Cardinality(Plain(c.rows[1]))
       IN  CASE c.op = "update" -> Always(c.cond) \/ Numbered(d, c.cond, c.args, bound)
             [] c.op = "delete" -> Numbered(d, c.cond, c.args, 0)
             [] OTHER           -> TRUE

\* The statements executed so far have done what the calls they come from ask for, and
\* a run that returned nil has done all of it; a run that failed, was a preview or met a
\* call that cannot be built has done nothing.
DataAsAsked ==
  WellNumbered(dialect, migration) =>
    LET did == IF pc \in {"exec", "done"} /\ ~dry THEN ran ELSE 0
    IN  /\ table = AskedBy(before, migration.calls, did)
        /\ (pc = "done" /\ ~dry) => did = Len(migration.calls)
        /\ pc = "done" => \A i \in DOMAIN migration.calls : ~Malformed(migration.calls[i])

\* Nothing but a fault or a call that cannot be built stops a migration whose conditions
\* are numbered in the dialect's way: every placeholder has its argument, and every
\* argument its placeholder.
OnlyFaultsStopIt ==
  pc = "failed" /\ WellNumbered(dialect, migration)
    => faulty \/ \E i \in DOMAIN migration.calls : Malformed(migration.calls[i])

\* A migration that inserts a row only when it has found none (docs/migrations.md:273)
\* has it inserted once it has returned, and never twice, however often it is run, fails
\* and is previewed.
Seeds(m) ==
  LET seeded == AskedBy(<<>>, m.calls, Len(m.calls))
  IN  /\ m.ask # "nothing" /\ \A i \in DOMAIN m.calls : m.calls[i].op = "insert"
      /\ \A i \in DOMAIN m.calls : ~Malformed(m.calls[i])
      /\ Cardinality({i \in DOMAIN seeded : Meant(m.cond, m.args, seeded[i])}) = 1
SeededOnce ==
  Seeds(migration) /\ WellNumbered(dialect, migration) =>
    LET there == Cardinality({i \in DOMAIN table : Meant(migration.cond, migration.args, table[i])})
    IN  there <= 1 /\ (pc = "skipped" \/ (pc = "done" /\ ~dry) => there = 1)
=============================================================================
