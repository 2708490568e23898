# A verification project for yiimigrate

TLA+ models of the migration runner in `src/`, the TLC runs that check them, and the
theorems TLAPS proves about them. `yiimigrate` is a Go library and CLI that applies,
reverts and inspects database migrations written in Go, in the manner of Yii2, on MySQL,
SQLite, PostgreSQL and SQL Server.

## 1. The system

| Component | State | Operations | Meets |
| --- | --- | --- | --- |
| **Migrator** (`migrate/migrator.go`) | the registered migrations, sorted by name; `DryRun`, `UseLock`; locals of the command in progress | `Up Down Redo To Mark New History` | the database through `*sql.DB` or one `*sql.Tx` per migration |
| **Migration history** (`migrator.go`, `base_dialect.go`) | a table of (version, apply_time in seconds), primary key version | ensure, load ascending or descending, insert, delete | written in the transaction of a migration's body, or row by row by `Mark` |
| **Advisory lock** (`migrator.go` `withLock`; lock SQL of each dialect) | a lock owned by a database *session* | acquire, release: two queries on the pool | `database/sql` decides which session each query runs on |
| **Schema plan** (`migrate/schema_plan.go`) | a list of statements, the recorded error | about thirty chained calls, ten of them guarded (`...IfExists`, `...IfNotExists`), `Exec` | probes (`query.go`) when the chain is *built*, statements when it is executed |
| **Migration context, queries** (`types.go`, `query.go`) | db or tx, dialect, dryRun | probes, `QueryValue`, `RowExists`, `CountRows`, conversions | the bodies of migrations |
| **Dialect adapters** (`base_dialect.go`, `mysql.go`, `postgres.go`, `sqlite.go`, `sqlserver.go`) | none | about forty SQL builders each, some unsupported | plan, migrator |
| **Dialect registry** (`dialect_registry.go`) | an immutable map | lookup | CLI, generator |
| **Column builder** (`column_builder.go`, `columns.go`) | a record of attributes, cloned by every call | the constructors of the context, eighteen modifiers | `BuildColumn` of the dialects |
| **Generator** (`internal/generator`) | files | parse fields, write a file exclusively | CLI |
| **Command line** (`cmd/migrate/main.go`) | none | parse, open the pool, one command, close it | all of the above |

What is hard in it: there is no server, so every process that runs a command is a
concurrent actor on one database, possibly built from another commit and so with other
migrations; every database call may fail or lose its answer, and the process may die
between any two; the lock belongs to a session the code does not pin; where DDL commits
implicitly, "one migration, one transaction" does not hold; and a plan decides by probes
made before anything is executed. The list `hazards` in `PROJECT.json` says where each
of these bites, and which property would notice.

## 2. The modules

| Module | Models | Instance for TLC | Proofs |
| --- | --- | --- | --- |
| `Migrator` | the commands; implements `MigrationLedger`, what the history promises | `MCMigrator` | `MigratorProofs`, and `LedgerProofs` on top of it |
| `MigrationLock` | the lock on pooled sessions; implements `LossyLock`, what `withLock` promises | `MCMigrationLock` | `LockProofs` |
| `SchemaPlan` | the chain of calls, the probes, `Exec` | `MCSchemaPlan` | `PlanProofs` |
| `DataStatements` | the calls of a chain that write rows, and the queries before them | `MCDataStatements` | `DataProofs`, on `OrderProofs` |
| `ColumnDefinition` | the column builder, `BuildColumn` and `AlterColumn` of the dialects | `MCColumnDefinition` | `ColumnProofs` |
| `Generator`, `CommandLine` | the template as a function of the options; the processes that write it or call the Migrator. The columns of a created file are built with `ColumnDefinition` | `MCCommandLine` | `CommandProofs`, on `OrderProofs` |
| `Ordered` | the members of a finite set of numbers in their order, which the arguments of a statement and the pieces of a list come in | | `OrderProofs`: what both need of ranks, places and counting up |

**Migrator** is `migrator.go`. A caller is a process with at most one command. `pc[c]` is
its place between two database calls and `phase[c]` the loop it is in: `apply` (the loop
of `up` and of `To` upwards), `revert` (`down`), `to` and `back` (`To` before and after its
second reading of the rows), `unmark` and `mark` (the two loops of `Mark`), `read`. The
actions follow the code: `Invoke`, `AcquireLock`/`LockTimeout`, `Start` (what each command
does before its first call), `EnsureMigrationTable`, `loadApplied`, `Plan` (what the loop
will visit), `Visit`, `Body` (one statement), `Record` (INSERT or DELETE of the row),
`Commit`, `DryRun`, `EndLoop`, `Unregistered`, `Return`; and what goes wrong: `CommitFails`
(done or not, the answer is an error), `StatementFails`, `Crash`, and `Exit` after a panic.
Versions are numbers in the order of their names. `effect[v]` counts the committed `Up`
statements of `v` minus the committed `Down` statements: the schema, as far as the
properties tell it apart. `marked` remembers that `Mark` has edited rows, after which
history and schema may differ by design. The constant `Transactional = FALSE` stands for
engines where DDL commits implicitly: each statement, and the row, takes effect at once.
A second writer of a row waits for the transaction that holds it (`RowLocked`).

The lock of this module is mutual exclusion, as the documentation describes it. How far
the code delivers that is the subject of **MigrationLock**: a pool per process, its
connections (an open one is a session), `GET_LOCK` that is reentrant per session,
`pg_advisory_lock`, `sp_getapplock`, SQLite's refusal; `acquireLock` and `releaseLock` each
borrow *any* free connection; contexts end, `fn` panics, idle sessions are lost. A CLI
process has one caller and closes its pool; an application may run several Migrators on
one pool. Wherever the code takes "a connection of the pool", the model has `\E s`.

**SchemaPlan** is `schema_plan.go`. A script is a chain of calls; each creates, drops, alters
or uses one object and is guarded or strict. To alter is what SQLite cannot do to an object that
is there (`AlterColumn`, `RenameColumn`, `TruncateTable`, comments), to use is the rest. `ChainCall` is one call with its probe,
`existenceGuard` and `add` are the code's, `Supported` and `Seen` say what a dialect
refuses and which objects its probes can find; `ExecStatement` is one statement against
a database that accepts a create only when the object is absent and its table present,
and any other statement only when it is there. Dropping a table drops its parts. Statements take
effect one by one here, as on a `*sql.DB`, in a dry run's context or in MySQL: the hard
case. What a rollback undoes is in Migrator.

**ColumnDefinition** is `column_builder.go` with the `BuildColumn` of the four dialects.
`made` is the builders a migration has made so far, `calls` the modifiers on the way to
each; `Derive` calls any modifier on any of them. A builder's fields are named for the
modifier that sets them, and `Assigned` and `Cleared` are what each modifier writes.
SQL Server decides twice whether a key is an identity, for the type (`mssqlIdentityType`) and
for `PRIMARY KEY` (`isIdentityColumn`), and so does the model. A
dialect's definition is the set of clauses it writes (`MySQLColumn`, `PostgreSQLColumn`,
`SQLiteColumn`, `SQLServerColumn`), or an unsupported-operation error (`RefusedBy`).
`AlterColumn` writes the same but on PostgreSQL, where it writes the type.

**DataStatements** is INSERT, batch INSERT, UPDATE and DELETE of `base_dialect.go`, the chain
calls that plan them, and `RowExists` and `CountRows` with `toInt64`. A statement is pieces of
text, each a literal or a placeholder, and a list of arguments; a placeholder finds its
argument by place (`?`) or by number (`$n`, `@pn`). The conditions are the author's text, with
whatever numbers the author gave. The database executes the pieces, so that a value bound to
the wrong column is a wrong row. A migration asks, plans, executes, fails (and is rolled
back), and is run again.

**Generator** and **CommandLine** are `internal/generator/generator.go` and
`cmd/migrate/main.go`. A `--fields` value is a sequence of words and the four symbols
`( ) , :`; `splitTopLevel`, `parseType`, `ParseFields` and `ColumnCode` work on it as the code
does. A process is started with one command line; `create` reads the clock (`runCreate`),
creates the file exclusively (`OpenFile`) and writes it (`Write`), a database command ends
with the `Request` that it hands to the Migrator, where **Migrator** takes it up.

**MigrationLedger** is abstract: applying a version installs it and writes its row in
one step, at a time no earlier than any other; reverting takes the newest. `Migrator`
implements it under `rows <- hist, schema <- effect, edited <- marked`.

**LossyLock** is abstract too: one process holds the lock for any number of its callers; it
is granted when free or at home, given back by the last who needs it, and taken from under
a caller by nothing but the end of a session, which sets `broken` for good. `MigrationLock`
implements it under `holder <-` the process of the owning session, `inside <-` the callers
that were granted the lock and have not released it.

## 3. The runs

Every run checks for deadlock: each specification has a step `Finished` that stutters only
when all commands are given and have returned, so a state in which a caller waits
for ever with nobody else to move is an error.

| Run | Question | Distinct states |
| --- | --- | --- |
| `migrator_locked` | two processes, one of them without migration 2, all write commands, failures and crashes, lock, transactions | 3.3 M |
| `migrator_unlocked` | the same without a lock, with dry runs and readers; liveness | 159 k |
| `migrator_implicit` | implicit commits, two statements per body, nothing reverts | 25 k |
| `lock` | two Migrators on one application pool, the CLI beside it, four dialects, lost sessions, ended contexts, panics; liveness | 129 k |
| `plan` | eight chains on four dialects from every state of the schema, two sessions, dry runs, failed probes and statements, crashes | 3.5 M |
| `columns` | any three modifiers on any tree of builders, for eleven ways to start, on four dialects | 389 k |
| `data` | pairs of calls and seeds, every numbering of the placeholders, four dialects, three tables to begin with, faults, previews, three runs | 266 k |
| `shell` | two processes with any of thirty command lines in nine environments, failed opens and writes, crashes | 247 k |
| `redo_reapplies`, `to_missing`, `lock_refused`, `sqlite_keys` | a documented sentence the code does not keep (section 6) | |

What the passing runs show:

- `HistoryMatchesSchema`: under the lock and with transactions, a version's statements are
  in the database exactly when its row is. `ImplementsLedger`: moreover every change is an
  atomic apply of a version in time order, a revert of the newest, or an edit by `Mark`.
- `NewestRevertedFirst`: no command but `Mark` takes a row from under a newer one.
- `CommandsDeliver`: when a command returned nil, its limit was honoured and the rows are as
  its argument says: `up` left nothing pending (or applied the first n in name order), `down`
  left nothing (or took n), `To` ended with its target applied, `Mark` with exactly the
  registered versions up to its own.
- `MarkStopsBetween`: wherever a `Mark` stops, by an error or a crash, the history is one
  it was to pass through, so that running it again repairs it: the rows it has read without the
  oldest ones, or the first of the registered versions up to its own.
- `NoUnrecordedSchema`: without a lock, nothing is installed unrecorded or twice. The
  converse fails without a lock (two processes may both run `Down` of a version, since
  the DELETE's row count is not read) and is not claimed.
- `DryRunHarmless`: no step of a dry run changes the database or the lock, the steps in which
  it goes through the bodies of migrations included.
- `NoHalfRecorded`: with implicit commits, a row only appears after the whole body.
- `ProcessesExclude`: commands of different processes do not overlap, *unless* the session
  that owns the lock has ended while another caller of its pool was granted the lock and
  had not returned (`broken`). TLC found that the weaker exception "ended while `fn`
  runs" is not enough: a release issued after the loss reaches a session on which a
  sibling has been granted the lock since. Two commands on one pool may overlap: the lock
  is reentrant in a session.
- `ImplementsLossyLock`: what the pools do with sessions, releases that go astray included,
  comes down to the abstract lock; a release never takes the lock from a sibling that still
  needs it unless the lock was lost before.
- `CliLeavesNoLock`, `CallsReturn`: a CLI process never leaves the lock behind; a call
  returns on every dialect but PostgreSQL, where a lock left behind is waited for with no
  timeout.
- `DoneMeansAsAsked`, `RerunNeverFails`: a chain of guarded calls in table-before-parts
  order (parts-before-table for drops) whose objects the dialect can probe for brings the
  schema to what it asks for when it returns nil, whatever was there, and can be run again
  after any failure. `Rerunnable` states the condition; a chain with a primary key meets it
  on PostgreSQL only.
- `RacersLeaveItAsAsked`: two sessions that race on such a chain may make each other fail,
  but when all are over, and no fault occurred, the schema is as asked.
- `FailedPlanExecutesNothing`: a plan that met any error, even one overwritten by a later
  probe's, executes nothing.
- `PreviewCoversRun`: a finished dry run of a chain contains every statement a real run of
  it has planned, in its order.
- `ColumnIsAsAsked`: whatever the order of the calls, and whatever else was derived from
  the same builder, a dialect that does not refuse a column writes each modifier asked for
  that no later call replaced, and nothing else; it leaves out only what the documentation
  lists (`LeftOut`). Altering a column asks for the same, or on PostgreSQL for its type and
  size. The property is silent on what the documentation does not settle (`Unsettled`):
  `AutoIncrement` outside a `SERIAL` or an `IDENTITY`, which PostgreSQL and SQL Server drop;
  `AutoIncrement` or `PrimaryKey` without the other on SQLite (`sqlite_keys` is about the
  second); and the sizes of integers, and of `binary` and `float` on PostgreSQL and `double`
  and `money` on SQL Server, which are dropped.
- `OneClauseEach`: no definition has two nullabilities, defaults, positions or primary keys;
  on SQL Server none beside the identity, whose type says `PRIMARY KEY` already.
- `DataAsAsked`: after each statement the rows are what the calls so far ask for, read off
  their arguments alone, whatever expressions stand between the bound values, and a run that
  failed or was a preview has changed nothing. `OnlyFaultsStopIt`: the arguments are never
  too many or too few. Both are about conditions whose placeholders are numbered in the
  dialect's way, in an UPDATE on from the bound values of SET (`WellNumbered`); the run has
  the others too, which fail on PostgreSQL and can bind the wrong values on SQL Server.
- `SeededOnce`: a migration that asks whether its row is there, and inserts it if not, has it
  inserted exactly once after any number of runs, failures and previews. That takes the right
  answer from `toInt64` for what each driver returns.
- `CreatedFilesStay`: whoever creates the same name in the same second, a file that was
  reported is whole and its creator's own, and an unfinished one belongs to a process that
  is at work, has reported an error or died.
- `FieldsAsDocumented`: a list of columns written as the documentation has it comes out as those
  columns with all their arguments and modifiers, commas and colons in parentheses included.
- `FileRunsOnItsDialect`: a created file that compiles, run unchanged, makes a `CREATE TABLE` with
  a key the database counts, which its dialect refuses exactly when a column was listed that it
  does not have: an `unsigned` one on PostgreSQL and SQL Server, an `enum` or a `set` on SQL
  Server. `CreateMatchesDatabase`: without
  `--dialect` it is the dialect of the database commands in the same environment, or `create`
  is refused (`postgresql`, `sqlite3` and `mssql` are names for the database commands only).
- `RequestIsAsDocumented`: a count other than the default was written on the command line as a
  number: no slip of the pen reverts more than one version.

**Bounds.** Three migrations are the least with a gap, a middle one and a tie; two
processes are the least that race, and one of them lacks migration 2. Four commands
let a fault, a command of the other process, a repair and a look at the result follow each
other (three without the lock, where steps interleave). `MaxTime = 2` makes both
ties and strict order of `apply_time`. Bodies have one statement where a transaction makes
them atomic and two where it does not. In `lock`, three callers on two pools of two
connections are the least where a release can go to the wrong session of the right pool
while another process waits; four calls. In `plan`, one table with one part of each kind;
three runs (`MaxRuns`) let two sessions race and one rerun, or a preview follow both.
In `columns`, four builders (`MaxBuilders`) are a start and three modifiers: two that
exclude each other and one that depends on them, in any order, or two derived from one
builder. Starts differ in what a dialect can tell apart, keys with three calls already made.
In `data`, two columns are the least where keys come in another order than the names and an
expression stands before or behind a bound value; two calls let one succeed and the next be
malformed; three runs a failure, a preview and a repetition. In `shell`, two processes race for
a name or put a `create` beside a database command; two seconds (`MaxClock = 1`) tell the same
second from another; the four lists have nested
parentheses, modifiers in either order, and columns that some dialects refuse.

**Fairness** is weak fairness of `Step(c)`, what a process does by itself: the operating
system schedules it and the database answers or fails. No fairness is assumed of faults,
cancellation, lost sessions, new commands or the clock. `LockTimeout` is part of `Step`:
`LockTimeoutSeconds` is finite. In `MigrationLock` PostgreSQL's wait has no such step.

## 4. The proofs

Every theorem holds for any values of the constants that satisfy the assumptions named in the
module of the component (sets of callers, versions, registries, commands, scripts, pools, command
lines, faults; bounds), and under what the second column adds.

| Theorem | Assumes | Says |
| --- | --- | --- |
| `TypeCorrect` | | `Spec => []TypeOK` |
| `NothingUnrecorded` | `Transactional` | `Spec => []NoUnrecordedSchema` |
| `HistoryAndSchemaAgree` | `UseLock` or `Alone`, `Transactional` | `Spec => []HistoryMatchesSchema` |
| `DryRunsAreHarmless` | | `Spec => DryRunHarmless` |
| `MigratorImplementsLedger` | `UseLock` or `Alone`, `Transactional` | `Spec => ImplementsLedger` |
| `RevertsInOrder` | `UseLock` or `Alone`, `Transactional` | `Spec => NewestRevertedFirst` |
| `MarkStopsOnItsWay` | `UseLock` or `Alone`, `Transactional` | `Spec => []MarkStopsBetween` |
| `CommandsDoWhatTheyAsk` | `UseLock` or `Alone`, `Transactional` | `Spec => []CommandsDeliver` |
| `NeverHalfRecorded` | not `Transactional`; only dry runs, `up`, `new` and `history` | `Spec => []NoHalfRecorded` |
| `LockTypeCorrect` | | `Spec => []TypeOK` of MigrationLock |
| `LockExcludes` | | `Spec => []ProcessesExclude` |
| `LockImplementsLossyLock` | | `Spec => ImplementsLossyLock` |
| `CliLeavesNoLockBehind` | | `Spec => []CliLeavesNoLock` |
| `PlanTypeCorrect` | | `Spec => []TypeOK` of SchemaPlan |
| `ErrorsExecuteNothing` | | `Spec => []FailedPlanExecutesNothing` |
| `DoneIsAsAsked` | | `Spec => []DoneMeansAsAsked` |
| `RerunsSucceed` | | `Spec => []RerunNeverFails` |
| `PreviewsCoverRuns` | | `Spec => []PreviewCoversRun` |
| `RacersSettleIt` | | `Spec => []RacersLeaveItAsAsked` |
| `CommandTypeCorrect` | | `Spec => []TypeOK` of CommandLine |
| `CreatesDoNotOverwrite` | | `Spec => []CreatedFilesStay` |
| `RequestsSayWhatIsWritten` | | `Spec => []RequestIsAsDocumented` |
| `CreatesForTheDatabase` | | `Spec => []CreateMatchesDatabase` |
| `FilesRunOnTheirDialect` | | `Spec => []FileRunsOnItsDialect` |
| `FieldsComeOutAsDocumented` | | `Spec => []FieldsAsDocumented` |
| `ColumnTypeCorrect` | | `Spec => []TypeOK` of ColumnDefinition |
| `ColumnsAreAsAsked` | | `Spec => []ColumnIsAsAsked` |
| `ColumnsHaveOneClauseEach` | | `Spec => []OneClauseEach` |
| `DataTypeCorrect` | | `Spec => []TypeOK` of DataStatements |
| `DataDoesAsAsked` | | `Spec => []DataAsAsked` |
| `FaultsAloneStopData` | | `Spec => []OnlyFaultsStopIt` |
| `SeedsOnce` | `TablesHoldSeedsOnce` | `Spec => []SeededOnce` |

`Alone` says that there is at most one caller, `TablesHoldSeedsOnce` that the table a seed is
inserted into has at most one such row before the first run. The assumptions of `Migrator`: a caller is not `NoOne`; versions are a finite set of
positive numbers; registries hold versions; a body has at least one statement; there is at
least one second. Of `MigrationLock`: callers and connections are finite and disjoint, `NoConn` is
none of them nor a pool, and a pool of the CLI has one caller. Of `SchemaPlan`: a table is its own table, and a part's
table is one. Of `CommandLine`: an argument is at most one number, and the lists of columns that
`FieldsAsDocumented` is about are as the documentation has them: names, types and arguments are
words that are none of the four symbols, modifiers are the five documented, and the parentheses in
a default are closed. A command line may have any tokens. Of `ColumnDefinition`: a
column starts with a constructor of the context, and there may be at least one builder. Of
`DataStatements`: columns are a finite set of positive numbers, no call names a column twice,
and the values of an INSERT or UPDATE are one row as wide as its columns (a Go map is that); a
batch may have rows of any width, and none.

*Argument.* `TypeOK` says that a command reports only versions its caller registers. That
is not inductive: `TypeInv` adds `KnownInHand`, that what a loop visits and what is in hand
is registered (by the selection of pending versions, or by the lookup before a revert).

`NoUnrecordedSchema` is preserved by COMMIT only if the row about to appear is not there.
`RecordedInv` adds `ReadyToCommit` (the INSERT was accepted, and nobody has committed the
same row since) and that no two transactions hold the same row: the primary key made the
second wait. No lock is needed.

`HistoryMatchesSchema` also needs that a row about to be deleted is there. `LockInv` says
that a write command between its start and the end of its loops holds the lock or is alone, that each
loop is at its own steps (`WellPlaced`), and that everything a caller has still to revert,
and what it has in hand, is in the history (`Fresh`): its reading is not stale, since nobody
else has written since.

The ledger's steps need more: `Apply` a time no earlier than any row, `Revert` the newest row.
`LedgerInv` is about time and order. `Timed`: no row is newer than the clock, nor than a row
about to be committed. `Ahead`: a caller that reverts still knows the order of the rows, and
what it has in hand or has still to visit is newer than every row it will leave. `Plan`
establishes that: for a limit because what `limitApplied` keeps has fewer newer rows than
what it cuts (`LimitAppliedIsNewest`, by cardinalities), for a target because everything kept
is not newer than the target. Each `Visit` takes the newest that is left. While one caller is
at it nobody else has a row to revert or to commit (`OthersHaveNothingInHand`). `RowsChange`
then says what a step does to the rows, and both theorems read it off.

`CommandsDeliver` is about a command as a whole, so `DeliverInv` follows it from its reading of
the rows to its return. At the start of a loop (`Prepared`) the rows are those it has read. In
the loop, what it was to do is what it has done and what it has left, and the rows are those it
read with what it has done (`Applying`, `TakingBack`, `Editing`). At the end nothing is left
and that is the promise. Another caller at work would break it; the lock, or being alone, says
there is none (`OthersDeliver`). That limits choose the first n in name order, or the
last n by time, are lemmas on ordered sets (`LimitedPending`, `LimitedRows`).

`MarkStopsBetween` holds of a `Mark` at any point of its loops. `MarkInv` says that it visits
the versions in their order, so that what is left comes after the one in hand (`MarkedSoFar`),
and that nobody else writes before it has returned, failed or not. `DeliverInv` says what
is done and what is left, and the two together that what is done is the oldest, or the first.

`PreviewInv` says that a dry run is never where the database or the lock is written, nor
does it hold the lock, and that it takes nothing for applied but what it is about to revert;
so `To` in a dry run never goes back for its second reading.

`NoHalfRecorded` needs a link from the counter of a command to the database: `CountInv` says
that the version in hand has had at least as many statements executed as its command has
counted (`Counted`), all of them when it comes to the row. Other commands can only add to
that, since nothing is reverted. That holds without any lock.

`ProcessesExclude` follows from `Kept`: while the lock is not broken, its owner is of the process
of every caller who was granted it and has not released it, and has been granted it at least
as often as there are such callers (`Cardinality(Holders) <= depth`). The count is what is needed:
a release takes one grant away from a session that siblings share, and the lock is free
only when none is left. The same invariant gives the refinement of `LossyLock`: a release
that frees the lock finds no other holder. `Placed` (a caller at a query has an open
connection of its own pool) carries the typing, and `CliLeavesNoLock`, whose only caller
closes the pool when it returns.

`FailedPlanExecutesNothing` needs only that a recorded error keeps `Exec` from its loop. For
`DoneMeansAsAsked`, `Advancing` says that every call made so far is settled, or its statement
is planned and not yet executed (`Pending`). `StatementsSettle` is the lemma under it: in a
rerunnable chain a statement settles its call and unsettles none, because all calls pull
the same way; so other sessions may do as they like. `RerunNeverFails` needs the order as well:
`Smooth` says that statements are in the order of their calls (`Early`, `Ordered`), and, while
nobody else has changed the schema, the database will accept each of them once those before
it are done (`Fits`): a part's table is there, or its CREATE is planned in front of it.

`PreviewCoversRun` follows from two facts about any chain: the statements of a plan are drawn
from the calls in their order (`Drawn`), and a dry run without an error takes all (`Whole`).

`RacersLeaveItAsAsked` is about who is ahead. A session `Leads` a call when it is executing and
all its remaining statements come later in the chain. `LateIsLed`: if a session still has a
statement whose call is already settled, some session leads that call. That holds because
whoever settles a call executes it, and so leads it and, when dropping a table settles its
parts, everything before it. A statement is refused only for a settled call
(`RefusedIsSettled`, from `Progress` and the order), so the session that fails leaves another
behind that leads all it led itself: the chain of failures ends in a session that returns
(`SomebodyIsAtIt`), and then `DoneMeansAsAsked` applies.

`CreatedFilesStay` follows from `Owned`: a file belongs to the process whose version it bears,
and what that process will write was settled when it read its command line. It takes O_EXCL
for a second process with the same version not to become its owner. The other two rest on
`Heard`: what a process hands on is what its command line and the environment say, and the
dialect of an accepted create is one of the registry.

The two properties about what is in a file add `Settled`: a file says what its options say,
and a create that was refused before it had a version was refused for its options alone. The rest is
about functions, and the theorems say it for sequences of any length. `FileRunsOnItsDialect` says
what a dialect refuses of a chain of calls, so the fields of the builder have to be known
from the chain (`BuilderIs`, `ChainIs`): by one more call at a time, `BuilderSteps`. No call of
a file but `Unsigned`, and no constructor but the unsigned ones, `enum` and `set`, sets what some
dialect refuses (`ListedRefused`).

`FieldsAsDocumented` says that the parser undoes what the documentation's notation does. A sequence
is *closed* when its parentheses are and a separator is in it only between them. What is closed is
split nowhere (`SplitClosed`), and a separator and a closed part behind a sequence make one piece
more of it (`SplitOn`, from how depth, occurrences and the order of cuts carry over to a
longer sequence: `DepthJoined`, `InOrderOn`, `PlacesJoined`). So closed parts that were joined come
out again, however many (`JoinedIs`). A word in front of closed parentheses is closed
(`ClosedParens`), hence types, modifiers and, for the comma, whole columns are, and each is
read back: `TypeIsRead`, `ModifierIsRead`, `ColumnIsRead`, `ListIsRead`. That nothing of a documented
list is refused is `MeantIsGo`.

All about columns rests on one fact (`ColumnInv`): the fields of each builder say what the calls
on the way to it ask for (`Reads`). What calls ask for is defined backwards, a call counts
unless a later one replaces it; `AskedOfMore` says what one more call does to that, and
`ModifiedReads` that a modifier does the same to the fields. From the fields the theorems
follow dialect by dialect.

About data, the heart is which argument a placeholder gets. `Writes` says that the text of a
statement is the pieces of its values, in the order of its columns, then its condition, and its
arguments those of the plain values and then the author's. A value has as many plain ones up to it
as its `Rank`, so the placeholder of the n-th has the n-th argument by place and by number
alike, whatever expressions stand between (`ArgsOfValues`). From that the
database accepts every statement and the rows are what its call asks for. `RunInv` says that
the plan is the statements of the calls made so far (`PlanIsBuilt`), `AskedInv` that
the table is what the statements executed so far ask for. For `SeededOnce`, `Sowing` counts the
rows that the query looks for: none before the insert, and one after. That the
recursive functions for the rows asked for and the rows sown are what their definitions say
for every number of calls is shown by counting up, as below.

*Where the assumptions hold.* `Transactional` is PostgreSQL, SQL Server and SQLite, and
MySQL for bodies without DDL. `UseLock` in Migrator is working mutual exclusion. With
the code's own lock that is MySQL, up to the exception of `ProcessesExclude`. SQLite has no
advisory lock, and on PostgreSQL and SQL Server acquiring it fails (section 6), so
there the library runs with `UseLock = false`, and a single process is covered by `Alone`.

Where a function is defined step by step (`Joined`, the builder of a chain, the rows asked for),
`StepByStep` says that there is one, and `CountedUp`, by a least counterexample, that what holds at
first and carries over from each number to the next holds of all numbers of a finite range.

*Not proved.* Liveness (`CommandsReturn`, `CallsReturn`), which is beyond the prover and stays
with TLC. Every invariant and every other action property of the passing runs is a theorem.

## 5. What is left out, and why

- Text: quoting, the spelling of DDL, comments on tables and columns, log lines, and of the
  template what is not a column: names of types and tables, and how a default is spelt
  (`defaultValueCode` leaves what parses as a number as it is, so that `default(nan)` or
  `default(010)` is written as Go code that means something else or nothing). A type in a list stands
  for the constructor it names however it is spelt (`builderName`), and one that names none is
  written all the same: that file does not compile, and nothing is said of running it.
- One clock that does not go back, for all processes: clocks of different hosts are not
  modelled, and `apply_time`'s `int` column (2038) is not either.
- A lock that ends under a running command is in MigrationLock only, not in Migrator.
- What a rolled back transaction costs a concurrent DDL statement (lock waits on objects
  other than the history row): a body's statements may fail at any point instead.
- `QueryOne` and `QueryAll`, whose rows go to the author's code; answers of drivers that `go.mod`
  does not have; a body that asks about rows of a table that its plan has yet to create.
- Of the command line: what `sql.Open` finds wrong with a DSN, letter case and blanks in the
  names of dialects. Of the generator: making the directory is part of opening the file, and
  an error of `Close`, which the code ignores, is not told from success.
- Of column definitions: the order of the clauses, the type names themselves, modifiers
  with an empty argument (they set nothing, and may reset), a nil builder, and whether a
  database accepts the clauses of an `ALTER COLUMN`.
- The logger (pure output) and `register.go` (an empty list).

## 6. Where documentation and code disagree

Each is a run with `expect: violation`; `PROJECT.json` quotes the sentence.

1. `redo_reapplies`: `Redo` passes a *number* to `up`. With nothing reverted the number is 0
   and everything pending is applied; with an older pending version that one is applied.
2. `to_missing`: `To` backwards over a row whose migration is not registered calls a method
   of a nil interface and panics; `Down` reports `ErrMigrationNotFound`.
3. `lock_refused`: on PostgreSQL the answer of `pg_advisory_lock` (void) cannot be scanned
   into an integer, so the lock is granted, stays with the session and the command fails;
   on SQL Server `sp_getapplock` outside a transaction is refused, and its success is 0,
   not the 1 that `acquireLock` wants.
4. `sqlite_keys`: `docs/dialects.md:152` and the matrix at 88 say that SQLite renders every
   primary key as `INTEGER PRIMARY KEY AUTOINCREMENT`, `m.String(36).PrimaryKey()` for one; the
   code writes `AUTOINCREMENT` only when `AutoIncrement` was called.

Others were met and have no run of their own:

- `docs/cli.md:235` says that a dry run does not query the history; `Down`, `Redo` and `To 0` do,
  since `History` (`migrator.go:104`) has no early return for it.
- `docs/migrations.md:240` says that after a failed probe the calls that follow are no-ops and
  `Exec` returns that error; guarded calls go on probing, and the last failure replaces the
  first (`schema_plan.go:52`).
- `migrator.go:196` says that `To` ends when its version is the latest applied one; a pending
  target that is not last in name order ends with another version as the latest.
- `docs/dialects.md:125` and `docs/migrations.md:242` say that guarded drops of constraints are
  always skipped on SQLite; a dry run emits them without asking (`schema_plan.go:47`), meets the
  unsupported operation and fails where the real run succeeds, on the example migration's
  `Down` for one.
- `migrator.go:196` again: `To` backwards reads the rows a second time (`migrator.go:216`). Without
  the lock its target may be reverted in between; then it reverts every row.
- `docs/dialects.md:48` has the full definition in SQL Server's `ALTER COLUMN`; a default, a
  check, `UNIQUE`, `PRIMARY KEY` or `IDENTITY` in it is not T-SQL, and the code writes them.
- `docs/migrations.md:206` and the example at 273 write a condition with `?`, on every dialect.
  The condition is passed on as it is, and `?` is no placeholder for PostgreSQL and SQL
  Server. That the author of an UPDATE has to count the bound values of SET is said nowhere.

Limits the documentation states (the lock is not pinned to a session, MySQL commits DDL
implicitly, probes that always answer no, PostgreSQL's unbounded wait) are not findings;
the properties are stated so as to say what holds in spite of them.

## 7. Plan

Done: all components but those listed in section 5, two abstract specifications with their
refinements, and the theorems of section 4.

Worth doing next:

1. Migrator on `LossyLock` instead of a lock that is never lost, and what is left of
   `HistoryMatchesSchema` when it is.
2. Separate clocks per caller in Migrator, with `NewestRevertedFirst` about names rather than
   times.
3. `QueryOne` and `QueryAll` with the column types of each driver.
