----------------------------- MODULE SchemaPlan -----------------------------
(***************************************************************************)
(* migrate/schema_plan.go: the chain of calls that builds a plan, the      *)
(* existence probes of the IfExists variants, and Exec.                    *)
(*                                                                         *)
(* A session runs one script, the chain in a migration's body, and several *)
(* sessions may run it at once or again after a failure: processes that do *)
(* not share a lock (SQLite has none), retries, previews with dry-run.     *)
(* Every statement takes effect by itself, as on a *sql.DB or in a MySQL   *)
(* transaction with DDL; module Migrator models what a transaction undoes. *)
(***************************************************************************)
EXTENDS Integers, Sequences, FiniteSets

CONSTANTS
  Sessions,   \* those that run the script
  Objects,    \* tables, columns, indexes, primary keys and foreign keys
  Kind,       \* Kind[o]: "table", "column", "index", "primary" or "foreign"
  Table,      \* Table[o]: the table o is part of; o itself for a table
  Scripts,    \* the chains of calls
  Dialects,   \* the dialects the behaviours range over
  Faults,     \* "probe": a metadata query fails; "stmt": a statement does; "crash"
  MaxRuns     \* bound: runs of the script

Kinds == {"table", "column", "index", "primary", "foreign"}

\* A call of the chain.  "create" and "drop" bring o into being or take it away;
\* "use" and "alter" are the other statements, which need o: "alter" AlterColumn,
\* RenameColumn, TruncateTable and the comments, "use" Raw, RenameTable and the DML.  A
\* renamed object is the same object: chains that go by both its names are left out.
Call == [verb : {"create", "drop", "use", "alter"}, object : Objects, guarded : BOOLEAN]

ASSUME ObjectsAssumption ==
  /\ Kind \in [Objects -> Kinds] /\ Table \in [Objects -> Objects]
  /\ \A o \in Objects : Kind[Table[o]] = "table" /\ (Kind[o] = "table" => Table[o] = o)
ASSUME ScriptsAssumption ==
  \A s \in Scripts :
    s \in Seq(Call) /\ \A i \in DOMAIN s : s[i].verb \in {"use", "alter"} => ~s[i].guarded
ASSUME PlanConstantsAssumption ==
  /\ Dialects \subseteq {"mysql", "postgres", "sqlserver", "sqlite"}
  /\ Faults \subseteq {"probe", "stmt", "crash"} /\ MaxRuns \in Nat

VARIABLES
  dialect,  \* the dialect of the database
  script,   \* the chain of calls every session runs
  present,  \* the objects that exist in the database
  runs,     \* runs begun so far
  faulty,   \* a fault of Faults has occurred, in any run
  pc,       \* pc[b]: where session b is
  dry,      \* dry[b]: MigrationContext.dryRun
  called,   \* called[b]: calls of the chain that have been made
  plan,     \* plan[b]: SchemaPlan.statements
  err,      \* err[b]: SchemaPlan.err, as the index of the call it comes from; 0 is nil
  first,    \* first[b]: the first call of the chain that failed, 0 if none did
  ran,      \* ran[b]: statements of plan[b] that have been executed
  alone     \* alone[b]: no other session has changed the database during the run of b

world == <<dialect, script>>
chain == <<called, plan, err, first>>
vars == <<world, present, runs, faulty, pc, dry, chain, ran, alone>>

-----------------------------------------------------------------------------
(* The dialects and the database *)

\* The statements SQLite cannot generate are errors of the call (unsupported).
Supported(d, c) ==
  d = "sqlite" => CASE c.verb = "create" -> Kind[c.object] \notin {"primary", "foreign"}
                    [] c.verb = "drop"   -> Kind[c.object] \in {"table", "index"}
                    [] OTHER             -> c.verb = "use"

\* The objects an existence probe can find.  SQLite answers "SELECT 0" for named
\* constraints, SQL Server looks for a primary key among the check constraints,
\* and MySQL calls every primary key PRIMARY, whatever name it was given.
Seen(d, o) ==
  CASE Kind[o] = "primary" -> d = "postgres"
    [] Kind[o] = "foreign" -> d # "sqlite"
    [] OTHER               -> TRUE

WellFormed(S) == \A o \in S : Table[o] \in S

\* What the database makes of a statement: one it accepts, and its effect.
Accepts(S, c) ==
  IF c.verb = "create" THEN c.object \notin S /\ Table[c.object] \in S \cup {c.object}
                       ELSE c.object \in S
After(S, c) ==
  CASE c.verb = "create" -> S \cup {c.object}
    [] c.verb = "drop"   -> S \ {o \in Objects : c.object \in {o, Table[o]}}
    [] OTHER             -> S

TypeOK ==
  /\ dialect \in Dialects /\ script \in Scripts
  /\ present \subseteq Objects /\ WellFormed(present)
  /\ runs \in Nat /\ faulty \in BOOLEAN
  /\ pc \in [Sessions -> {"idle", "chain", "exec", "done", "failed", "stopped"}]
  /\ dry \in [Sessions -> BOOLEAN] /\ alone \in [Sessions -> BOOLEAN]
  /\ called \in [Sessions -> 0..Len(script)]
  /\ \A b \in Sessions : plan[b] \in Seq(Call) /\ Len(plan[b]) <= called[b]
  /\ \A b \in Sessions : err[b] \in 0..called[b] /\ first[b] \in 0..err[b]
  /\ \A b \in Sessions : ran[b] \in 0..Len(plan[b])

Init ==
  /\ dialect \in Dialects /\ script \in Scripts
  /\ present \in {S \in SUBSET Objects : WellFormed(S)}
  /\ runs = 0 /\ faulty = FALSE
  /\ pc = [b \in Sessions |-> "idle"]
  /\ dry = [b \in Sessions |-> FALSE] /\ alone = [b \in Sessions |-> TRUE]
  /\ called = [b \in Sessions |-> 0]
  /\ plan = [b \in Sessions |-> <<>>]
  /\ err = [b \in Sessions |-> 0] /\ first = [b \in Sessions |-> 0]
  /\ ran = [b \in Sessions |-> 0]

-----------------------------------------------------------------------------
(* The chain *)

\* Schema: an empty plan on a context that is in dry-run or is not.
Schema(b, d) ==
  /\ pc[b] \in {"idle", "done", "failed", "stopped"} /\ runs < MaxRuns
  /\ runs' = runs + 1
  /\ pc' = [pc EXCEPT ![b] = "chain"]
  /\ dry' = [dry EXCEPT ![b] = d] /\ alone' = [alone EXCEPT ![b] = TRUE]
  /\ called' = [called EXCEPT ![b] = 0]
  /\ plan' = [plan EXCEPT ![b] = <<>>]
  /\ err' = [err EXCEPT ![b] = 0] /\ first' = [first EXCEPT ![b] = 0]
  /\ ran' = [ran EXCEPT ![b] = 0]
  /\ UNCHANGED <<world, present, faulty>>

existenceGuard_Inverted(b, c) ==
  c.guarded => dry[b] \/ (c.object \in present /\ Seen(dialect, c.object)) = (c.verb = "create")

existenceGuard_DryProbes(b, c) ==
  c.guarded => (c.object \in present /\ Seen(dialect, c.object)) = (c.verb = "drop")

existenceGuard_NeverSkips(b, c) == TRUE

\* Whether the call emits its statement: a strict one does, and a dry run does
\* without asking; otherwise the probe decides, now, before anything is executed.
existenceGuard(b, c) ==
  c.guarded => dry[b] \/ (c.object \in present /\ Seen(dialect, c.object)) = (c.verb = "drop")

add_Twice(b, c) ==
  IF err[b] # 0 \/ ~Supported(dialect, c)
  THEN /\ err' = [err EXCEPT ![b] = IF @ = 0 THEN called'[b] ELSE @]
       /\ first' = [first EXCEPT ![b] = IF @ = 0 THEN called'[b] ELSE @]
       /\ UNCHANGED plan
  ELSE /\ plan' = [plan EXCEPT ![b] = @ \o <<c, c>>]
       /\ UNCHANGED <<err, first>>

add_InFront(b, c) ==
  IF err[b] # 0 \/ ~Supported(dialect, c)
  THEN /\ err' = [err EXCEPT ![b] = IF @ = 0 THEN called'[b] ELSE @]
       /\ first' = [first EXCEPT ![b] = IF @ = 0 THEN called'[b] ELSE @]
       /\ UNCHANGED plan
  ELSE /\ plan' = [plan EXCEPT ![b] = <<c>> \o @]
       /\ UNCHANGED <<err, first>>

\* add and addStatement: the first error stays, and nothing is added after it.
add(b, c) ==
  IF err[b] # 0 THEN UNCHANGED <<plan, err, first>>
  ELSE IF ~Supported(dialect, c)
  THEN /\ err' = [err EXCEPT ![b] = called'[b]]
       /\ first' = [first EXCEPT ![b] = called'[b]]
       /\ UNCHANGED plan
  ELSE /\ plan' = [plan EXCEPT ![b] = Append(@, c)]
       /\ UNCHANGED <<err, first>>

ChainCall(b) ==
  /\ pc[b] = "chain" /\ called[b] < Len(script)
  /\ called' = [called EXCEPT ![b] = @ + 1]
  /\ LET c == script[called[b] + 1]
     IN IF existenceGuard(b, c) THEN add(b, c) ELSE UNCHANGED <<plan, err, first>>
  /\ UNCHANGED <<world, present, runs, faulty, pc, dry, ran, alone>>

\* A failed probe is recorded even over an error the plan has.
RecordProbeError(b) ==
  /\ err' = [err EXCEPT ![b] = called'[b]]
  /\ first' = [first EXCEPT ![b] = IF @ = 0 THEN called'[b] ELSE @]

ProbeFails(b) ==
  /\ "probe" \in Faults
  /\ pc[b] = "chain" /\ called[b] < Len(script)
  /\ script[called[b] + 1].guarded /\ ~dry[b]
  /\ called' = [called EXCEPT ![b] = @ + 1]
  /\ RecordProbeError(b)
  /\ faulty' = TRUE
  /\ UNCHANGED <<world, present, runs, pc, dry, plan, ran, alone>>

-----------------------------------------------------------------------------
(* Exec *)

Proceed_IgnoresError(b) == IF dry[b] THEN "done" ELSE "exec"

\* The plan's error comes first, then dry-run.
Proceed(b) ==
  IF err[b] # 0 THEN "failed" ELSE IF dry[b] THEN "done" ELSE "exec"

Exec(b) ==
  /\ pc[b] = "chain" /\ called[b] = Len(script)
  /\ pc' = [pc EXCEPT ![b] = Proceed(b)]
  /\ UNCHANGED <<world, present, runs, faulty, dry, chain, ran, alone>>

\* One statement: Exec goes on to the next, or returns the database's error.
AfterStatement(b) ==
  LET c == plan[b][ran[b] + 1] IN
  IF Accepts(present, c)
  THEN /\ ran' = [ran EXCEPT ![b] = @ + 1]
       /\ present' = After(present, c)
       /\ UNCHANGED pc
  ELSE /\ pc' = [pc EXCEPT ![b] = "failed"]
       /\ UNCHANGED <<ran, present>>

ExecStatement(b) ==
  /\ pc[b] = "exec" /\ ran[b] < Len(plan[b])
  /\ AfterStatement(b)
  /\ alone' = [d \in Sessions |-> alone[d] /\ (d = b \/ present' = present)]
  /\ UNCHANGED <<world, runs, faulty, dry, chain>>

ExecReturns(b) ==
  /\ pc[b] = "exec" /\ ran[b] = Len(plan[b])
  /\ pc' = [pc EXCEPT ![b] = "done"]
  /\ UNCHANGED <<world, present, runs, faulty, dry, chain, ran, alone>>

\* A statement fails for a reason of its own, or the process dies: the statements
\* before it stay.
Stops(b) ==
  /\ \/ "stmt" \in Faults /\ pc[b] = "exec" /\ ran[b] < Len(plan[b])
     \/ "crash" \in Faults /\ pc[b] \in {"chain", "exec"}
  /\ pc' = [pc EXCEPT ![b] = "stopped"]
  /\ faulty' = TRUE
  /\ UNCHANGED <<world, present, runs, dry, chain, ran, alone>>

Finished ==
  /\ runs = MaxRuns /\ \A b \in Sessions : pc[b] \in {"idle", "done", "failed", "stopped"}
  /\ UNCHANGED vars

Next ==
  \/ \E b \in Sessions : \/ \E d \in BOOLEAN : Schema(b, d)
                         \/ ChainCall(b) \/ ProbeFails(b)
                         \/ Exec(b) \/ ExecStatement(b) \/ ExecReturns(b) \/ Stops(b)
  \/ Finished

Spec == Init /\ [][Next]_vars

-----------------------------------------------------------------------------
(* Properties *)

\* A chain of guarded calls in the order of the example migration: all of them
\* create, a table before its parts, or all drop, a part before its table; each
\* object once, and the dialect can probe for it and generate its statement.
Rerunnable(s) ==
  /\ \A i \in DOMAIN s : s[i].guarded /\ Seen(dialect, s[i].object) /\ Supported(dialect, s[i])
  /\ \A i, j \in DOMAIN s :
       /\ s[i].verb = s[j].verb
       /\ s[i].object = s[j].object => i = j
       /\ Table[s[i].object] = s[j].object /\ i # j => (j < i) = (s[i].verb = "create")
  /\ \A i \in DOMAIN s :
       s[i].verb = "create" => \E j \in 1..i : s[j].object = Table[s[i].object]

\* The database is as the script asks.
AsAsked ==
  \A i \in DOMAIN script : (script[i].object \in present) = (script[i].verb = "create")

Over(b) == pc[b] \in {"idle", "done", "failed", "stopped"}

\* Exec of such a plan that returns nil outside a dry run has brought the database
\* to what the chain asks for, whatever was there before, earlier runs left half
\* done, and other runs of the same chain do in between.
DoneMeansAsAsked ==
  Rerunnable(script) =>
    \A b \in Sessions : pc[b] = "done" /\ ~dry[b] => AsAsked

\* The plan of such a script never trips over what is there already, or is not,
\* whatever a failed run left half done: alone, it can only fail by a fault of
\* its own.
RerunNeverFails ==
  Rerunnable(script) =>
    \A b \in Sessions : pc[b] = "failed" /\ alone[b] => err[b] # 0

\* Runs of such a script that race without a lock may make each other fail, by a
\* probe that is stale when its statement runs, but never all of them.
RacersLeaveItAsAsked ==
  Rerunnable(script) /\ ~faulty /\ (\A b \in Sessions : Over(b))
    /\ (\E b \in Sessions : pc[b] # "idle" /\ ~dry[b])
    => AsAsked

\* A plan that has recorded an error executes nothing, even if the call that
\* failed is the last of many and a later probe replaced the error.
FailedPlanExecutesNothing ==
  \A b \in Sessions : first[b] # 0 => ran[b] = 0 /\ pc[b] \notin {"exec", "done"}

Embeds(s, t) ==
  \E f \in [DOMAIN s -> DOMAIN t] :
    \A i, j \in DOMAIN s : t[f[i]] = s[i] /\ (i < j => f[i] < f[j])

\* A preview shows every statement a run may execute, in the order it executes
\* them: the plan of a run is contained in the plan of a preview of the script.
PreviewCoversRun ==
  \A b, d \in Sessions :
    ~dry[b] /\ dry[d] /\ pc[d] = "done" => Embeds(plan[b], plan[d])
=============================================================================
