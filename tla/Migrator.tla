------------------------------ MODULE Migrator ------------------------------
(***************************************************************************)
(* migrate/migrator.go: the commands that apply, revert and inspect the    *)
(* migrations of one database.                                             *)
(*                                                                         *)
(* A caller is a process that runs one command at a time (cmd/migrate opens*)
(* the database, runs one command and closes it).  Callers share the       *)
(* database: the history table, the schema the migrations' bodies build    *)
(* and the advisory lock.  Every database call of a command is a step of   *)
(* its own; between two of them other callers run, a call may fail, and    *)
(* the process may die.  The advisory lock is here the mutual exclusion    *)
(* its documentation describes; module MigrationLock models how the code   *)
(* obtains and releases it on the connections of a pool.                   *)
(***************************************************************************)
EXTENDS Integers, FiniteSets

CONSTANTS
  Callers,        \* the processes that run commands
  NoOne,          \* the holder of the lock when it is free
  Versions,       \* the migration names, numbered in name order
  Registered,     \* Registered[c]: the migrations compiled into caller c
  Commands,       \* the commands callers may be given
  UseLock,        \* Migrator.UseLock
  Transactional,  \* FALSE: DDL commits implicitly, as in MySQL
  BodySteps,      \* statements in the body of a migration
  Faults,         \* what may go wrong: "stmt", "commit", "crash"
  MaxTime,        \* bound: the clock, in seconds
  MaxCommands     \* bound: commands given to the callers

WriteOps == {"up", "down", "redo", "to", "mark"}
ReadOps == {"new", "history"}

Command == [op : WriteOps \cup ReadOps, arg : Nat, dry : BOOLEAN]

ASSUME NoOneAssumption == NoOne \notin Callers
ASSUME VersionsAssumption == Versions \subseteq Nat \ {0} /\ IsFiniteSet(Versions)
ASSUME RegisteredAssumption == Registered \in [Callers -> SUBSET Versions]
ASSUME CommandsAssumption == Commands \subseteq Command
ASSUME SwitchesAssumption == UseLock \in BOOLEAN /\ Transactional \in BOOLEAN
ASSUME BodyStepsAssumption == BodySteps \in Nat \ {0}
ASSUME BoundsAssumption == MaxTime \in Nat \ {0} /\ MaxCommands \in Nat
ASSUME FaultsAssumption == Faults \subseteq {"stmt", "commit", "crash"}

VARIABLES
  hist,      \* hist[v]: apply_time of the committed row of v, 0 when there is none
  table,     \* the history table exists
  effect,    \* effect[v]: committed Up statements of v minus committed Down statements
  marked,    \* Mark has edited a row: history and schema may differ, by design
  clock,     \* the time in seconds, as now().Unix() returns it
  lock,      \* the caller that holds the advisory lock, or NoOne
  issued,    \* how many commands have been given
  pc,        \* pc[c]: where caller c is in its command
  cmd,       \* cmd[c]: the command c runs
  phase,     \* phase[c]: the loop of the command c is in
  snap,      \* snap[c]: the rows c read last
  todo,      \* todo[c]: the versions the loop has still to visit
  cur,       \* cur[c]: the version being applied, reverted or marked
  step,      \* step[c]: body statements of cur that have run
  stamp,     \* stamp[c]: apply_time of the uncommitted INSERT of c
  applied,   \* applied[c]: the versions this command has applied
  reverted   \* reverted[c]: the versions this command has reverted

database == <<hist, table, effect, marked>>
results == <<applied, reverted>>
loop == <<phase, snap, todo, cur, step, stamp>>
vars == <<database, clock, lock, issued, pc, cmd, loop, results>>

-----------------------------------------------------------------------------
(* What the loops of the commands visit, and in which order.               *)

Rows(h) == {v \in Versions : h[v] # 0}
NoRows == [v \in Versions |-> 0]

\* ORDER BY apply_time DESC, version DESC: v comes before w.
Newer(h, v, w) == h[v] > h[w] \/ (h[v] = h[w] /\ v > w)

LimitMigrations_OneMore(S, n) ==
  {v \in S : n = 0 \/ Cardinality({w \in S : w < v}) <= n}

\* limitMigrations: the first n pending ones in name order; all of them when n is 0.
LimitMigrations(S, n) ==
  {v \in S : n = 0 \/ Cardinality({w \in S : w < v}) < n}

\* limitApplied: the n newest rows; all of them when n is 0.
LimitApplied(h, n) ==
  {v \in Rows(h) : n = 0 \/ Cardinality({w \in Rows(h) : Newer(h, w, v)}) < n}

Inserting(c) == phase[c] \in {"apply", "mark"}
Reverting(c) == phase[c] \in {"revert", "back"}
Marking(c) == phase[c] \in {"unmark", "mark"}

Front_OldestFirst(c) ==
  {v \in todo[c] : \A w \in todo[c] \ {v} :
     IF Inserting(c) THEN v < w ELSE Newer(snap[c], w, v)}

\* The version the loop visits next: registered ones in name order, rows from
\* the newest to the oldest, and Mark's rows (Applied) from the oldest.
Front(c) ==
  {v \in todo[c] : \A w \in todo[c] \ {v} :
     CASE Inserting(c) -> v < w
       [] Reverting(c) -> Newer(snap[c], v, w)
       [] OTHER        -> Newer(snap[c], w, v)}

\* The limit up() is called with: Redo passes len(reverted), To has none.
Limit(c) ==
  CASE cmd[c].op = "to" -> 0
    [] cmd[c].op = "redo" /\ phase[c] = "apply" -> Cardinality(reverted[c])
    [] OTHER -> cmd[c].arg

Locking_MarkWithoutLock(k) == UseLock /\ ~k.dry /\ k.op \in WriteOps \ {"mark"}

\* The commands that run under withLock take the lock unless it is disabled.
Locking(k) == UseLock /\ ~k.dry /\ k.op \in WriteOps

\* Another transaction's uncommitted row of v: the primary key makes writers wait.
RowLocked(c, v) ==
  Transactional /\ \E d \in Callers \ {c} : pc[d] = "commit" /\ cur[d] = v

Autocommit_RowOutsideTx(c) == TRUE

\* A row written now is committed now: Mark runs outside a transaction, and an
\* implicit commit has ended the transaction of a body with DDL.
Autocommit(c) == Marking(c) \/ ~Transactional

TypeOK ==
  /\ hist \in [Versions -> Nat] /\ table \in BOOLEAN
  /\ effect \in [Versions -> Int] /\ marked \in BOOLEAN
  /\ clock \in 1..MaxTime /\ lock \in Callers \cup {NoOne} /\ issued \in Nat
  /\ pc \in [Callers -> {"idle", "acquire", "start", "ensure", "load", "plan", "next",
                         "body", "record", "commit", "ok", "failed", "panicked"}]
  /\ cmd \in [Callers -> Command]
  /\ phase \in [Callers -> {"none", "read", "apply", "revert", "to", "back",
                            "unmark", "mark"}]
  /\ snap \in [Callers -> [Versions -> Nat]]
  /\ todo \in [Callers -> SUBSET Versions]
  /\ cur \in [Callers -> Versions \cup {0}]
  /\ step \in [Callers -> Nat] /\ stamp \in [Callers -> Nat]
  /\ \A c \in Callers : applied[c] \subseteq Registered[c] /\ reverted[c] \subseteq Registered[c]

NoCommand == [op |-> "new", arg |-> 0, dry |-> FALSE]

Init ==
  /\ hist = NoRows /\ table = FALSE /\ marked = FALSE
  /\ effect = [v \in Versions |-> 0]
  /\ clock = 1 /\ lock = NoOne /\ issued = 0
  /\ pc = [c \in Callers |-> "idle"]
  /\ cmd = [c \in Callers |-> NoCommand]
  /\ phase = [c \in Callers |-> "none"]
  /\ snap = [c \in Callers |-> NoRows]
  /\ todo = [c \in Callers |-> {}]
  /\ cur = [c \in Callers |-> 0]
  /\ step = [c \in Callers |-> 0]
  /\ stamp = [c \in Callers |-> 0]
  /\ applied = [c \in Callers |-> {}]
  /\ reverted = [c \in Callers |-> {}]

-----------------------------------------------------------------------------
(* withLock *)

Invoke(c, k) ==
  /\ pc[c] = "idle" /\ issued < MaxCommands
  /\ issued' = issued + 1
  /\ cmd' = [cmd EXCEPT ![c] = k]
  /\ pc' = [pc EXCEPT ![c] = IF Locking(k) THEN "acquire" ELSE "start"]
  /\ UNCHANGED <<database, clock, lock, loop, results>>

AcquireLock(c) ==
  /\ pc[c] = "acquire" /\ lock = NoOne
  /\ lock' = c
  /\ pc' = [pc EXCEPT ![c] = "start"]
  /\ UNCHANGED <<database, clock, issued, cmd, loop, results>>

\* ErrMigrationLockTimeout: LockTimeoutSeconds passed while another held it.
LockTimeout(c) ==
  /\ pc[c] = "acquire" /\ lock # NoOne
  /\ pc' = [pc EXCEPT ![c] = "failed"]
  /\ UNCHANGED <<database, clock, lock, issued, cmd, loop, results>>

\* The command is over, whichever way: its process keeps nothing.
Forget(c) ==
  /\ pc' = [pc EXCEPT ![c] = "idle"]
  /\ cmd' = [cmd EXCEPT ![c] = NoCommand]
  /\ phase' = [phase EXCEPT ![c] = "none"]
  /\ snap' = [snap EXCEPT ![c] = NoRows]
  /\ todo' = [todo EXCEPT ![c] = {}]
  /\ cur' = [cur EXCEPT ![c] = 0]
  /\ step' = [step EXCEPT ![c] = 0]
  /\ stamp' = [stamp EXCEPT ![c] = 0]
  /\ applied' = [applied EXCEPT ![c] = {}]
  /\ reverted' = [reverted EXCEPT ![c] = {}]
  /\ lock' = IF lock = c THEN NoOne ELSE lock
  /\ UNCHANGED <<database, clock, issued>>

\* withLock after fn: releaseLock and return.  Its own failure means a broken
\* connection, whose session the server ends: the lock is free either way.
Return(c) == pc[c] \in {"ok", "failed"} /\ Forget(c)

-----------------------------------------------------------------------------
(* Reading the history *)

\* Where a command goes to read the rows.  Applied reads nothing in a dry run;
\* History only skips the CREATE TABLE then and still runs its SELECT.
Applied(k) == IF k.dry THEN "plan" ELSE "ensure"
History(k) == IF k.dry THEN "load" ELSE "ensure"

\* The start of each command, up to its first database call.
Start(c) ==
  LET k == cmd[c]
      Go(ph, where) == /\ phase' = [phase EXCEPT ![c] = ph]
                       /\ pc' = [pc EXCEPT ![c] = where]
  IN
  /\ pc[c] = "start"
  /\ \/ k.op = "up" /\ Go("apply", Applied(k))
     \/ k.op \in {"down", "redo"} /\ Go("revert", History(k))
     \/ k.op = "to" /\ k.arg = 0 /\ Go("revert", History(k))
     \/ k.op = "to" /\ k.arg \in Registered[c] /\ Go("to", Applied(k))
     \/ k.op = "to" /\ k.arg \notin Registered[c] \cup {0} /\ Go("to", "failed")
     \/ k.op = "mark" /\ ~k.dry /\ Go("unmark", "ensure")
     \/ k.op = "mark" /\ k.dry
          /\ Go("unmark", IF k.arg \in Registered[c] \cup {0} THEN "ok" ELSE "failed")
     \/ k.op = "new" /\ Go("read", Applied(k))
     \/ k.op = "history" /\ Go("read", History(k))
  /\ UNCHANGED <<database, clock, lock, issued, cmd, snap, todo, cur, step, stamp, results>>

\* CREATE TABLE IF NOT EXISTS; Mark looks its version up only after it.
EnsureMigrationTable(c) ==
  /\ pc[c] = "ensure"
  /\ table' = TRUE
  /\ pc' = [pc EXCEPT ![c] =
       IF phase[c] = "unmark" /\ cmd[c].arg \notin Registered[c] \cup {0}
       THEN "failed" ELSE "load"]
  /\ UNCHANGED <<hist, effect, marked, clock, lock, issued, cmd, loop, results>>

loadApplied(c) ==
  /\ pc[c] = "load"
  /\ IF table
     THEN /\ snap' = [snap EXCEPT ![c] = hist]
          /\ pc' = [pc EXCEPT ![c] = "plan"]
     ELSE /\ pc' = [pc EXCEPT ![c] = "failed"]
          /\ UNCHANGED snap
  /\ UNCHANGED <<database, clock, lock, issued, cmd, phase, todo, cur, step, stamp, results>>

\* What the loop visits, from the rows read.  To reads them a second time
\* (History after Applied) before it reverts.
Plan(c) ==
  LET h == snap[c]
      target == cmd[c].arg
      Visit(ph, S) == /\ phase' = [phase EXCEPT ![c] = ph]
                      /\ todo' = [todo EXCEPT ![c] = S]
                      /\ pc' = [pc EXCEPT ![c] = "next"]
  IN
  /\ pc[c] = "plan"
  /\ \/ /\ phase[c] = "apply"
        /\ Visit("apply", LimitMigrations(Registered[c] \ Rows(h), Limit(c)))
     \/ phase[c] = "revert" /\ Visit("revert", LimitApplied(h, Limit(c)))
     \/ /\ phase[c] = "to" /\ target \notin Rows(h)
        /\ Visit("apply", {v \in Registered[c] \ Rows(h) : v <= target})
     \/ /\ phase[c] = "to" /\ target \in Rows(h)
        /\ phase' = [phase EXCEPT ![c] = "back"]
        /\ pc' = [pc EXCEPT ![c] = "ensure"]
        /\ UNCHANGED todo
     \/ /\ phase[c] = "back"
        /\ Visit("back", {v \in Rows(h) : target \in Rows(h) => Newer(h, v, target)})
     \/ phase[c] = "unmark" /\ Visit("unmark", Rows(h))
     \/ /\ phase[c] = "read"
        /\ pc' = [pc EXCEPT ![c] = "ok"]
        /\ UNCHANGED <<phase, todo>>
  /\ UNCHANGED <<database, clock, lock, issued, cmd, snap, cur, step, stamp, results>>

-----------------------------------------------------------------------------
(* The loops *)

\* A loop has visited everything: Redo goes on to up(), Mark to its INSERTs.
EndLoop(c) ==
  /\ pc[c] = "next" /\ todo[c] = {}
  /\ \/ /\ cmd[c].op = "redo" /\ phase[c] = "revert"
        /\ phase' = [phase EXCEPT ![c] = "apply"]
        /\ snap' = [snap EXCEPT ![c] = NoRows]
        /\ pc' = [pc EXCEPT ![c] = Applied(cmd[c])]
        /\ UNCHANGED todo
     \/ /\ phase[c] = "unmark" /\ cmd[c].arg # 0
        /\ phase' = [phase EXCEPT ![c] = "mark"]
        /\ todo' = [todo EXCEPT ![c] = {v \in Registered[c] : v <= cmd[c].arg}]
        /\ UNCHANGED <<snap, pc>>
     \/ /\ ~(cmd[c].op = "redo" /\ phase[c] = "revert")
        /\ ~(phase[c] = "unmark" /\ cmd[c].arg # 0)
        /\ pc' = [pc EXCEPT ![c] = "ok"]
        /\ UNCHANGED <<phase, snap, todo>>
  /\ UNCHANGED <<database, clock, lock, issued, cmd, cur, step, stamp, results>>

Known_NotLookedUp(c, v) == TRUE

\* down() and To look a row's migration up in the registry before reverting it.
Known(c, v) == Reverting(c) => v \in Registered[c]

\* down() returns ErrMigrationNotFound; To calls a method of the nil it found.
Unregistered(c) ==
  /\ pc[c] = "next"
  /\ \E v \in Front(c) : ~Known(c, v)
  /\ pc' = [pc EXCEPT ![c] = IF phase[c] = "back" THEN "panicked" ELSE "failed"]
  /\ UNCHANGED <<database, clock, lock, issued, cmd, loop, results>>

\* The version is among the results of the command.
Report(c, v) ==
  /\ applied' = [applied EXCEPT ![c] = IF phase[c] = "apply" THEN @ \cup {v} ELSE @]
  /\ reverted' = [reverted EXCEPT ![c] = IF Reverting(c) THEN @ \cup {v} ELSE @]

DryRun_Executes(c) ==
  /\ pc[c] = "next" /\ cmd[c].dry
  /\ \E v \in Front(c) :
       /\ Known(c, v)
       /\ todo' = [todo EXCEPT ![c] = @ \ {v}]
       /\ Report(c, v)
       /\ effect' = [effect EXCEPT ![v] = IF Inserting(c) THEN @ + BodySteps ELSE @ - BodySteps]
  /\ UNCHANGED <<hist, table, marked, clock, lock, issued, pc, cmd, phase, snap, cur, step, stamp>>

\* apply() and revert() in a dry run: the body runs, its statements do not.
DryRun(c) ==
  /\ pc[c] = "next" /\ cmd[c].dry
  /\ \E v \in Front(c) :
       /\ Known(c, v)
       /\ todo' = [todo EXCEPT ![c] = @ \ {v}]
       /\ Report(c, v)
  /\ UNCHANGED <<database, clock, lock, issued, pc, cmd, phase, snap, cur, step, stamp>>

\* apply() and revert() up to BeginTx, or an iteration of Mark.
Visit(c) ==
  /\ pc[c] = "next" /\ ~cmd[c].dry
  /\ \E v \in Front(c) :
       /\ Known(c, v)
       /\ cur' = [cur EXCEPT ![c] = v]
       /\ todo' = [todo EXCEPT ![c] = @ \ {v}]
  /\ step' = [step EXCEPT ![c] = 0]
  /\ pc' = [pc EXCEPT ![c] = IF Marking(c) THEN "record" ELSE "body"]
  /\ UNCHANGED <<database, clock, lock, issued, cmd, phase, snap, stamp, results>>

\* The net statements of cur that d statements of the body in hand amount to.
Installed(c, d) == [effect EXCEPT ![cur[c]] = IF Inserting(c) THEN @ + d ELSE @ - d]

\* One statement of migration.Up or migration.Down, in the transaction.
Body(c) ==
  /\ pc[c] = "body" /\ step[c] < BodySteps
  /\ step' = [step EXCEPT ![c] = @ + 1]
  /\ effect' = IF Transactional THEN effect ELSE Installed(c, 1)
  /\ pc' = [pc EXCEPT ![c] = IF step[c] + 1 = BodySteps THEN "record" ELSE "body"]
  /\ UNCHANGED <<hist, table, marked, clock, lock, issued, cmd, phase, snap, todo, cur,
                 stamp, results>>

Refused_Upsert(c) == FALSE

\* The primary key refuses the INSERT of a row that is there.  Deleting a row
\* that is not there is no error: the number of rows affected is not read.
Refused(c) == Inserting(c) /\ hist[cur[c]] # 0

AfterRecord_Retries(c) ==
  IF Refused(c) THEN "record" ELSE IF Marking(c) THEN "next" ELSE "commit"

AfterRecord(c) ==
  IF Refused(c) THEN "failed" ELSE IF Marking(c) THEN "next" ELSE "commit"

\* The INSERT or DELETE of the history row.
Record(c) ==
  /\ pc[c] = "record" /\ ~RowLocked(c, cur[c])
  /\ pc' = [pc EXCEPT ![c] = AfterRecord(c)]
  /\ stamp' = [stamp EXCEPT ![c] = IF Inserting(c) THEN clock ELSE 0]
  /\ hist' = IF Autocommit(c) /\ ~Refused(c)
             THEN [hist EXCEPT ![cur[c]] = stamp'[c]] ELSE hist
  /\ marked' = (marked \/ (Marking(c) /\ ~Refused(c)))
  /\ UNCHANGED <<table, effect, clock, lock, issued, cmd, phase, snap, todo, cur, step, results>>

Publish_RevertKeepsRow(c) ==
  /\ hist' = IF Inserting(c) THEN [hist EXCEPT ![cur[c]] = stamp[c]] ELSE hist
  /\ effect' = Installed(c, BodySteps)

\* What COMMIT makes permanent: the row and the body's statements together.
Publish(c) ==
  IF Transactional
  THEN /\ hist' = [hist EXCEPT ![cur[c]] = stamp[c]]
       /\ effect' = Installed(c, BodySteps)
  ELSE UNCHANGED <<hist, effect>>

Commit(c) ==
  /\ pc[c] = "commit"
  /\ Publish(c)
  /\ Report(c, cur[c])
  /\ pc' = [pc EXCEPT ![c] = "next"]
  /\ UNCHANGED <<table, marked, clock, lock, issued, cmd, loop>>

-----------------------------------------------------------------------------
(* What goes wrong *)

\* COMMIT returns an error: it was not done, or it was and the answer was lost.
CommitFails(c) ==
  /\ "commit" \in Faults /\ pc[c] = "commit"
  /\ Publish(c) \/ UNCHANGED <<hist, effect>>
  /\ pc' = [pc EXCEPT ![c] = "failed"]
  /\ UNCHANGED <<table, marked, clock, lock, issued, cmd, loop, results>>

AfterError_BodyIgnored(c) == IF pc[c] = "body" THEN "record" ELSE "failed"
AfterError(c) == "failed"

\* Any other database call, or the body itself, returns an error:
\* rollbackWithCause, and the command returns the error.
StatementFails(c) ==
  /\ "stmt" \in Faults
  /\ \/ pc[c] \in {"acquire", "ensure", "load", "body", "record"}
     \/ pc[c] = "next" /\ ~Marking(c) /\ \E v \in Front(c) : Known(c, v)
  /\ pc' = [pc EXCEPT ![c] = AfterError(c)]
  /\ UNCHANGED <<database, clock, lock, issued, cmd, loop, results>>

\* The process dies: the server rolls its transaction back and ends its session.
Crash(c) == "crash" \in Faults /\ pc[c] # "idle" /\ Forget(c)

\* A panic reaches main: the process exits.
Exit(c) == pc[c] = "panicked" /\ Forget(c)

Tick ==
  /\ clock < MaxTime
  /\ clock' = clock + 1
  /\ UNCHANGED <<database, lock, issued, pc, cmd, loop, results>>

\* All commands have been given and have returned.
Finished ==
  /\ issued = MaxCommands /\ \A c \in Callers : pc[c] = "idle"
  /\ UNCHANGED vars

\* What a process does by itself, and is scheduled to do.
Step(c) ==
  \/ AcquireLock(c) \/ LockTimeout(c) \/ Start(c) \/ EnsureMigrationTable(c)
  \/ loadApplied(c) \/ Plan(c) \/ EndLoop(c) \/ Unregistered(c) \/ DryRun(c)
  \/ Visit(c) \/ Body(c) \/ Record(c) \/ Commit(c) \/ Return(c) \/ Exit(c)

Next ==
  \/ \E c \in Callers : \/ \E k \in Commands : Invoke(c, k)
                        \/ Step(c)
                        \/ CommitFails(c) \/ StatementFails(c) \/ Crash(c)
  \/ Tick
  \/ Finished

Spec == Init /\ [][Next]_vars

FairSpec == Spec /\ \A c \in Callers : WF_vars(Step(c))

-----------------------------------------------------------------------------
(* Properties *)

\* A version's Up statements are in the database exactly when its row is: a
\* crash, a failed statement, a lost COMMIT answer or another process never
\* leaves one without the other (apply and revert, under the lock).
HistoryMatchesSchema ==
  ~marked => \A v \in Versions : effect[v] = IF hist[v] # 0 THEN BodySteps ELSE 0

\* Even with no lock: nothing is installed that the history does not show, and
\* nothing is installed twice, because apply's INSERT shares the body's transaction.
NoUnrecordedSchema ==
  ~marked => \A v \in Versions : effect[v] <= IF hist[v] # 0 THEN BodySteps ELSE 0

\* Where DDL commits implicitly (as in MySQL) and nothing is reverted: a row
\* appears only after every statement of Up has run, whatever failed before.
NoHalfRecorded ==
  \A v \in Versions : hist[v] # 0 => effect[v] >= BodySteps

\* What a command that returned nil has achieved, while it still holds the lock.
Delivered(c) ==
  LET k == cmd[c]
      rows == Rows(hist)
      pending == Registered[c] \ rows
      Complete(S, n, left) == n > 0 /\ left # {} => Cardinality(S) = n
  IN
  CASE k.op = "up" ->
         /\ applied[c] \subseteq rows
         /\ k.arg = 0 => pending = {}
         /\ Complete(applied[c], k.arg, pending)
         /\ \A v \in applied[c], w \in pending : v < w
    [] k.op = "down" \/ (k.op = "to" /\ k.arg = 0) ->
         /\ reverted[c] \cap rows = {}
         /\ k.arg = 0 => rows = {}
         /\ Complete(reverted[c], k.arg, rows)
    [] k.op = "to" /\ k.arg # 0 ->
         /\ k.arg \in rows
         /\ applied[c] # {} => \A v \in pending : v > k.arg
         /\ reverted[c] # {} => \A v \in rows \ {k.arg} : Newer(hist, k.arg, v)
    [] k.op = "redo" ->
         reverted[c] # {} => Cardinality(applied[c]) = Cardinality(reverted[c])
    [] k.op = "mark" -> rows = {v \in Registered[c] : v <= k.arg}
    [] OTHER -> TRUE

\* Each command does what its argument asks for: the limit is honoured, up stops
\* only when nothing is pending, To ends with its target applied, Mark with
\* exactly the registered versions up to its own.
CommandsDeliver ==
  \A c \in Callers : pc[c] = "ok" /\ ~cmd[c].dry => Delivered(c)

\* Down, Redo and To never take a row away from under a newer one.
NewestRevertedFirst ==
  [][\A v \in Versions :
       hist[v] # 0 /\ hist'[v] = 0 /\ (\A c \in Callers : ~Marking(c))
         => \A w \in Versions \ {v} : hist[w] # 0 => Newer(hist, v, w)]_vars

\* Mark edits the rows one by one, outside a transaction.  Wherever it stops, by an error
\* or by the death of its process, the history is one it was to pass through: the rows it
\* has read without the oldest ones, or the first of the registered versions up to its own.
MarkStopsBetween ==
  \A c \in Callers : Marking(c) /\ cur[c] # 0 =>
    LET rows == Rows(hist)
        read == Rows(snap[c])
        asked == {v \in Registered[c] : v <= cmd[c].arg}
    IN  IF phase[c] = "unmark"
        THEN /\ rows \subseteq read
             /\ \A v \in rows : /\ hist[v] = snap[c][v]
                               /\ \A w \in read \ rows : Newer(snap[c], v, w)
        ELSE /\ rows \subseteq asked
             /\ \A v \in rows, w \in asked \ rows : v < w

\* What process c keeps; every step of its command changes some of it.
kept(c) == <<pc[c], phase[c], snap[c], todo[c], cur[c], step[c], stamp[c], applied[c], reverted[c]>>

\* No step of a dry run changes the database or the lock, the execution of migrations
\* (apply and revert) and the return included, whatever other commands it interleaves with.
DryRunHarmless ==
  [][\A c \in Callers : cmd[c].dry /\ pc[c] # "idle" /\ kept(c)' # kept(c)
       => UNCHANGED <<database, lock>>]_vars

\* Every change of history or schema is a step of the ledger the documentation
\* describes: apply pushes a version, revert pops the newest, Mark edits rows.
Ledger == INSTANCE MigrationLedger
            WITH rows <- hist, schema <- effect, edited <- marked,
                 Full <- BodySteps, Times <- 1..MaxTime
ImplementsLedger == Ledger!Spec

\* Every command returns, with an error at worst: nobody waits for ever on the
\* lock, on a row another transaction wrote, or on a process that died.
CommandsReturn ==
  \A c \in Callers : pc[c] # "idle" ~> pc[c] = "idle"

\* docs/cli.md:76: redo re-applies the migrations it has just reverted.
RedoReappliesReverted ==
  \A c \in Callers : pc[c] = "ok" /\ cmd[c].op = "redo" /\ ~cmd[c].dry
    => applied[c] = reverted[c]

\* migration.go:14: an applied migration with no registered implementation is
\* reported with ErrMigrationNotFound.
MissingIsReported == \A c \in Callers : pc[c] # "panicked"
=============================================================================
