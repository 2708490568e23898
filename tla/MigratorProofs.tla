--------------------------- MODULE MigratorProofs ---------------------------
(***************************************************************************)
(* What TLAPS proves of Migrator, for every set of callers, of migrations, *)
(* of commands and of faults.                                              *)
(***************************************************************************)
EXTENDS Migrator, TLAPS

-----------------------------------------------------------------------------
(* Typing *)

\* A caller's loop stays within the migrations the caller knows: what apply
\* visits is registered, and so is what it or revert has in hand.
KnownInHand(c) ==
  /\ phase[c] = "apply" /\ pc[c] \in {"next", "body", "record", "commit"}
       => todo[c] \subseteq Registered[c]
  /\ pc[c] \in {"body", "record", "commit"}
       => /\ cur[c] \in Versions
          /\ phase[c] = "apply" \/ Reverting(c) => cur[c] \in Registered[c]

TypeInv ==
  /\ TypeOK
  /\ applied \in [Callers -> SUBSET Versions]
  /\ reverted \in [Callers -> SUBSET Versions]
  /\ \A c \in Callers : KnownInHand(c)

\* The loops visit nothing but what they are given.
LEMMA Selection ==
  ASSUME NEW S, NEW h, NEW n
  PROVE  /\ LimitMigrations(S, n) \subseteq S
         /\ LimitApplied(h, n) \subseteq Rows(h)
         /\ Rows(h) \subseteq Versions
         /\ \A c : Front(c) \subseteq todo[c]
  BY DEF LimitMigrations, LimitApplied, Rows, Front

LEMMA NoCommandType == NoCommand \in Command
  BY DEF NoCommand, Command, WriteOps, ReadOps

LEMMA InstalledType ==
  ASSUME effect \in [Versions -> Int], NEW c, NEW d \in Int
  PROVE  Installed(c, d) \in [Versions -> Int]
<1>1. \A v \in Versions : effect[v] + d \in Int /\ effect[v] - d \in Int
  OBVIOUS
<1> QED
  BY <1>1 DEF Installed, Inserting

LEMMA InitTypeInv == Init => TypeInv
<1> SUFFICES ASSUME Init PROVE TypeInv
  OBVIOUS
<1>1. NoRows \in [Versions -> Nat] /\ [v \in Versions |-> 0] \in [Versions -> Int]
  BY DEF NoRows
<1>2. clock \in 1..MaxTime
  BY BoundsAssumption DEF Init
<1>3. cmd \in [Callers -> Command] /\ snap \in [Callers -> [Versions -> Nat]]
  BY <1>1, NoCommandType DEF Init
<1>4. TypeOK
  BY <1>1, <1>2, <1>3 DEF Init, TypeOK
<1>5. \A c \in Callers : KnownInHand(c)
  BY DEF Init, KnownInHand
<1> QED
  BY <1>4, <1>5 DEF Init, TypeInv

\* The end of a command, in whichever way it ends.
LEMMA ForgetTypeInv ==
  ASSUME TypeInv, NEW c \in Callers, Forget(c)
  PROVE  TypeInv'
<1>1. TypeOK'
  <2>1. NoRows \in [Versions -> Nat]
    BY DEF NoRows
  <2>2. cmd' \in [Callers -> Command] /\ snap' \in [Callers -> [Versions -> Nat]]
    BY <2>1, NoCommandType DEF TypeInv, TypeOK, Forget
  <2>3. \A d \in Callers : applied'[d] \subseteq Registered[d] /\ reverted'[d] \subseteq Registered[d]
    BY DEF TypeInv, TypeOK, Forget
  <2> QED
    BY <2>2, <2>3 DEF TypeInv, TypeOK, Forget, database
<1>2. \A d \in Callers : KnownInHand(d)'
  BY DEF TypeInv, TypeOK, KnownInHand, Forget, Reverting
<1> QED
  BY <1>1, <1>2 DEF TypeInv, Forget

\* A step that moves a caller to where it has nothing in hand.
LEMMA MoveTypeInv ==
  ASSUME TypeInv, NEW c \in Callers,
         NEW where \in {"acquire", "start", "ensure", "load", "plan", "ok", "failed", "panicked"},
         pc' = [pc EXCEPT ![c] = where],
         UNCHANGED <<hist, effect, marked, clock, todo, cur, step, stamp, results>>,
         table' \in BOOLEAN, lock' \in Callers \cup {NoOne}, issued' \in Nat,
         cmd' \in [Callers -> Command],
         phase' \in [Callers -> {"none", "read", "apply", "revert", "to", "back", "unmark", "mark"}],
         \A d \in Callers \ {c} : phase'[d] = phase[d],
         snap' \in [Callers -> [Versions -> Nat]]
  PROVE  TypeInv'
<1>1. TypeOK'
  BY DEF TypeInv, TypeOK, results
<1>2. \A d \in Callers : KnownInHand(d)'
  BY DEF TypeInv, TypeOK, KnownInHand, Reverting
<1> QED
  BY <1>1, <1>2 DEF TypeInv, results

\* Every step of a caller, of a fault or of the clock preserves the typing.
LEMMA StepTypeInv ==
  ASSUME TypeInv, NEW c \in Callers, Step(c)
  PROVE  TypeInv'
<1> USE DEF TypeInv, TypeOK
<1>1. CASE AcquireLock(c)
  BY <1>1, MoveTypeInv DEF AcquireLock, database, loop
<1>2. CASE LockTimeout(c)
  BY <1>2, MoveTypeInv DEF LockTimeout, database, loop
<1>3. CASE Start(c)
  <2>1. PICK where \in {"ensure", "load", "plan", "ok", "failed"},
             ph \in {"read", "apply", "revert", "to", "unmark"} :
          phase' = [phase EXCEPT ![c] = ph] /\ pc' = [pc EXCEPT ![c] = where]
    BY <1>3 DEF Start, Applied, History
  <2>2. UNCHANGED <<database, clock, lock, issued, cmd, snap, todo, cur, step, stamp, results>>
    BY <1>3 DEF Start
  <2> QED
    BY <2>1, <2>2, MoveTypeInv DEF database
<1>4. CASE EnsureMigrationTable(c)
  <2>1. \E where \in {"load", "failed"} : pc' = [pc EXCEPT ![c] = where]
    BY <1>4 DEF EnsureMigrationTable
  <2> QED
    BY <1>4, <2>1, MoveTypeInv DEF EnsureMigrationTable, loop
<1>5. CASE loadApplied(c)
  <2>1. \E where \in {"plan", "failed"} : pc' = [pc EXCEPT ![c] = where]
    BY <1>5 DEF loadApplied
  <2>2. snap' \in [Callers -> [Versions -> Nat]]
    BY <1>5 DEF loadApplied
  <2> QED
    BY <1>5, <2>1, <2>2, MoveTypeInv DEF loadApplied, database
<1>6. CASE Plan(c)
  <2>1. CASE pc' = [pc EXCEPT ![c] = "next"]
    <3>1. \E S \in SUBSET Versions, ph \in {"apply", "revert", "back", "unmark"} :
             /\ todo' = [todo EXCEPT ![c] = S] /\ phase' = [phase EXCEPT ![c] = ph]
             /\ ph = "apply" => S \subseteq Registered[c]
      BY <1>6, <2>1, Selection, RegisteredAssumption DEF Plan
    <3>2. TypeOK'
      BY <1>6, <2>1, <3>1 DEF Plan, database, results
    <3>3. \A d \in Callers : KnownInHand(d)'
      BY <1>6, <2>1, <3>1 DEF Plan, KnownInHand, Reverting
    <3> QED
      BY <1>6, <3>2, <3>3 DEF Plan, results
  <2>2. CASE pc' # [pc EXCEPT ![c] = "next"]
    <3>1. PICK where \in {"ensure", "ok"} : pc' = [pc EXCEPT ![c] = where]
      BY <1>6, <2>2 DEF Plan
    <3>2. UNCHANGED todo /\ (UNCHANGED phase \/ phase' = [phase EXCEPT ![c] = "back"])
      BY <1>6, <2>2 DEF Plan
    <3>3. UNCHANGED <<database, clock, lock, issued, cmd, snap, cur, step, stamp, results>>
      BY <1>6 DEF Plan
    <3> QED
      BY <3>1, <3>2, <3>3, MoveTypeInv DEF database
  <2> QED
    BY <2>1, <2>2
<1>7. CASE EndLoop(c)
  <2>1. CASE UNCHANGED pc
    <3>0. /\ phase' = [phase EXCEPT ![c] = "mark"]
          /\ todo' = [todo EXCEPT ![c] = {v \in Registered[c] : v <= cmd[c].arg}]
          /\ UNCHANGED snap
      BY <1>7, <2>1 DEF EndLoop, Applied
    <3>1. TypeOK'
      <4>1. todo' \in [Callers -> SUBSET Versions]
        BY <3>0, RegisteredAssumption
      <4>2. phase' \in [Callers -> {"none", "read", "apply", "revert", "to", "back", "unmark", "mark"}]
        BY <3>0
      <4>3. UNCHANGED <<database, clock, lock, issued, cmd, cur, step, stamp, results>>
        BY <1>7 DEF EndLoop
      <4> QED
        BY <2>1, <3>0, <4>1, <4>2, <4>3 DEF database, results
    <3>2. \A d \in Callers : KnownInHand(d)'
      BY <1>7, <2>1 DEF EndLoop, KnownInHand, Reverting
    <3> QED
      BY <1>7, <3>1, <3>2 DEF EndLoop, results
  <2>2. CASE ~UNCHANGED pc
    <3>1. PICK where \in {"plan", "ensure", "ok"} : pc' = [pc EXCEPT ![c] = where]
      BY <1>7, <2>2 DEF EndLoop, Applied
    <3>2. NoRows \in [Versions -> Nat]
      BY DEF NoRows
    <3>3. /\ UNCHANGED todo
          /\ UNCHANGED phase \/ phase' = [phase EXCEPT ![c] = "apply"]
          /\ UNCHANGED snap \/ snap' = [snap EXCEPT ![c] = NoRows]
      BY <1>7, <2>2 DEF EndLoop
    <3>4. UNCHANGED <<database, clock, lock, issued, cmd, cur, step, stamp, results>>
      BY <1>7 DEF EndLoop
    <3>5. snap' \in [Callers -> [Versions -> Nat]]
      BY <3>2, <3>3
    <3>6. /\ phase' \in [Callers -> {"none", "read", "apply", "revert", "to", "back",
                                       "unmark", "mark"}]
          /\ \A d \in Callers \ {c} : phase'[d] = phase[d]
      BY <3>3
    <3> QED
      BY <3>1, <3>3, <3>4, <3>5, <3>6, MoveTypeInv DEF database
  <2> QED
    BY <2>1, <2>2
<1>8. CASE Unregistered(c)
  <2>1. \E where \in {"panicked", "failed"} : pc' = [pc EXCEPT ![c] = where]
    BY <1>8 DEF Unregistered
  <2> QED
    BY <1>8, <2>1, MoveTypeInv DEF Unregistered, database, loop
<1>9. CASE DryRun(c)
  <2>1. PICK v \in todo[c] : Known(c, v) /\ todo' = [todo EXCEPT ![c] = @ \ {v}] /\ Report(c, v)
    BY <1>9, Selection DEF DryRun
  <2>2. phase[c] = "apply" \/ Reverting(c) => v \in Registered[c]
    BY <1>9, <2>1 DEF DryRun, KnownInHand, Known
  <2>3. TypeOK'
    BY <1>9, <2>1, <2>2 DEF DryRun, database, Report
  <2>4. \A d \in Callers : KnownInHand(d)'
    BY <1>9, <2>1 DEF DryRun, KnownInHand, Reverting
  <2> QED
    BY <1>9, <2>1, <2>3, <2>4 DEF Report
<1>10. CASE Visit(c)
  <2>1. PICK v \in todo[c] : /\ Known(c, v) /\ cur' = [cur EXCEPT ![c] = v]
                             /\ todo' = [todo EXCEPT ![c] = @ \ {v}]
    BY <1>10, Selection DEF Visit
  <2>2. TypeOK'
    BY <1>10, <2>1 DEF Visit, database, results
  <2>3. KnownInHand(c)'
    BY <1>10, <2>1 DEF Visit, KnownInHand, Reverting, Known
  <2>4. \A d \in Callers \ {c} : KnownInHand(d)'
    BY <1>10, <2>1 DEF Visit, KnownInHand, Reverting
  <2> QED
    BY <1>10, <2>2, <2>3, <2>4 DEF Visit, results
<1>11. CASE Body(c)
  <2>1. effect' \in [Versions -> Int]
    BY <1>11, InstalledType DEF Body
  <2>2. TypeOK'
    BY <1>11, <2>1 DEF Body, results
  <2>3. \A d \in Callers : KnownInHand(d)'
    BY <1>11 DEF Body, KnownInHand, Reverting
  <2> QED
    BY <1>11, <2>2, <2>3 DEF Body, results
<1>12. CASE Record(c)
  <2>1. stamp' \in [Callers -> Nat] /\ hist' \in [Versions -> Nat] /\ marked' \in BOOLEAN
    <3>1. clock \in Nat
      BY BoundsAssumption
    <3>2. stamp' \in [Callers -> Nat]
      BY <1>12, <3>1 DEF Record
    <3>3. hist' \in [Versions -> Nat]
      BY <1>12, <3>2 DEF Record
    <3> QED
      BY <1>12, <3>2, <3>3 DEF Record, Marking, Refused
  <2>2. \E where \in {"failed", "next", "commit"} : pc' = [pc EXCEPT ![c] = where]
    <3>1. AfterRecord(c) \in {"failed", "next", "commit"}
      BY DEF AfterRecord, Refused, Marking, Inserting
    <3> QED
      BY <1>12, <3>1 DEF Record
  <2>3. TypeOK'
    BY <1>12, <2>1, <2>2 DEF Record, results
  <2>4. \A d \in Callers : KnownInHand(d)'
    BY <1>12, <2>2 DEF Record, KnownInHand, Reverting
  <2> QED
    BY <1>12, <2>3, <2>4 DEF Record, results
<1>13. CASE Commit(c)
  <2>1. hist' \in [Versions -> Nat] /\ effect' \in [Versions -> Int]
    BY <1>13, BodyStepsAssumption DEF Commit, Publish, Installed
  <2>2. TypeOK'
    BY <1>13, <2>1 DEF Commit, Report, loop, KnownInHand
  <2>3. \A d \in Callers : KnownInHand(d)'
    BY <1>13 DEF Commit, KnownInHand, Reverting, loop
  <2> QED
    BY <1>13, <2>2, <2>3, RegisteredAssumption DEF Commit, Report, loop
<1>14. CASE Return(c) \/ Exit(c)
  BY <1>14, ForgetTypeInv DEF Return, Exit
<1> QED
  BY <1>1, <1>2, <1>3, <1>4, <1>5, <1>6, <1>7, <1>8, <1>9, <1>10, <1>11, <1>12, <1>13, <1>14
  DEF Step

LEMMA NextTypeInv == TypeInv /\ [Next]_vars => TypeInv'
<1> SUFFICES ASSUME TypeInv, [Next]_vars PROVE TypeInv'
  OBVIOUS
<1> USE DEF TypeInv, TypeOK
<1>1. CASE \E c \in Callers, k \in Commands : Invoke(c, k)
  <2>1. PICK c \in Callers, k \in Commands : Invoke(c, k)
    BY <1>1
  <2>2. PICK where \in {"acquire", "start"} : pc' = [pc EXCEPT ![c] = where]
    BY <2>1 DEF Invoke
  <2>3. cmd' \in [Callers -> Command] /\ issued' \in Nat
    BY <2>1, CommandsAssumption DEF Invoke
  <2> QED
    BY <2>1, <2>2, <2>3, MoveTypeInv DEF Invoke, database, loop
<1>2. CASE \E c \in Callers : Step(c)
  BY <1>2, StepTypeInv
<1>3. CASE \E c \in Callers : CommitFails(c)
  <2>1. PICK c \in Callers : CommitFails(c)
    BY <1>3
  <2>2. hist' \in [Versions -> Nat] /\ effect' \in [Versions -> Int]
    BY <2>1, BodyStepsAssumption, InstalledType DEF CommitFails, Publish
  <2>3. TypeOK'
    BY <2>1, <2>2 DEF CommitFails, loop, results
  <2>4. \A d \in Callers : KnownInHand(d)'
    BY <2>1 DEF CommitFails, KnownInHand, Reverting, loop
  <2> QED
    BY <2>1, <2>3, <2>4 DEF CommitFails, results
<1>4. CASE \E c \in Callers : StatementFails(c)
  <2>1. PICK c \in Callers : StatementFails(c)
    BY <1>4
  <2>2. /\ pc' = [pc EXCEPT ![c] = "failed"]
        /\ UNCHANGED <<database, clock, lock, issued, cmd, loop, results>>
    BY <2>1 DEF StatementFails, AfterError
  <2> QED
    BY <2>2, MoveTypeInv DEF database, loop
<1>5. CASE \E c \in Callers : Crash(c)
  BY <1>5, ForgetTypeInv DEF Crash
<1>6. CASE Tick
  <2>1. clock' \in 1..MaxTime
    BY <1>6, BoundsAssumption DEF Tick
  <2>2. TypeOK'
    BY <1>6, <2>1 DEF Tick, database, loop, results
  <2>3. \A d \in Callers : KnownInHand(d)'
    BY <1>6 DEF Tick, KnownInHand, Reverting, loop
  <2> QED
    BY <1>6, <2>2, <2>3 DEF Tick, results
<1>7. CASE UNCHANGED vars
  <2>1. UNCHANGED <<hist, table, effect, marked, clock, lock, issued, pc, cmd, phase, snap,
                    todo, cur, step, stamp, applied, reverted>>
    BY <1>7 DEF vars, database, loop, results
  <2>2. \A d \in Callers : KnownInHand(d)'
    BY <2>1 DEF KnownInHand, Reverting
  <2> QED
    BY <2>1, <2>2
<1> QED
  BY <1>1, <1>2, <1>3, <1>4, <1>5, <1>6, <1>7 DEF Next, Finished

\* Every value the model computes is one the program could hold: the rows are
\* those of migrations, and a command reports only migrations it has registered.
THEOREM TypeCorrect == Spec => []TypeOK
<1>1. Spec => []TypeInv
  BY InitTypeInv, NextTypeInv, PTL DEF Spec
<1> QED
  BY <1>1, PTL DEF TypeInv

-----------------------------------------------------------------------------
(* Nothing unrecorded, with or without the lock.                           *)

\* What COMMIT relies on: the row about to be inserted is not there, and no other
\* transaction holds the same row, because the primary key has made it wait.
ReadyToCommit(c) ==
  pc[c] = "commit" => /\ Inserting(c) => hist[cur[c]] = 0 /\ stamp[c] # 0
                      /\ ~Inserting(c) => stamp[c] = 0

CommitInv ==
  /\ \A c \in Callers : ReadyToCommit(c)
  /\ \A c, d \in Callers : c # d /\ pc[c] = "commit" /\ pc[d] = "commit" => cur[c] # cur[d]

RecordedInv == CommitInv /\ NoUnrecordedSchema

\* A step that writes no row and no schema, and brings nobody to COMMIT.
LEMMA QuietStep ==
  ASSUME RecordedInv, UNCHANGED <<hist, effect, marked>>,
         \A d \in Callers : pc'[d] = "commit" =>
           pc[d] = "commit" /\ cur'[d] = cur[d] /\ stamp'[d] = stamp[d] /\ phase'[d] = phase[d]
  PROVE  RecordedInv'
<1>1. CommitInv'
  BY DEF RecordedInv, CommitInv, ReadyToCommit, Inserting
<1>2. NoUnrecordedSchema'
  BY DEF RecordedInv, NoUnrecordedSchema
<1> QED
  BY <1>1, <1>2 DEF RecordedInv

\* In a transactional database only Record and the two outcomes of COMMIT are not quiet.
LEMMA QuietActions ==
  ASSUME TypeInv, Transactional, NEW c \in Callers,
         \/ \E k \in Commands : Invoke(c, k)
         \/ AcquireLock(c) \/ LockTimeout(c) \/ Start(c) \/ EnsureMigrationTable(c)
         \/ loadApplied(c) \/ Plan(c) \/ EndLoop(c) \/ Unregistered(c) \/ DryRun(c)
         \/ Visit(c) \/ Body(c) \/ Return(c) \/ Exit(c) \/ StatementFails(c) \/ Crash(c)
  PROVE  /\ UNCHANGED <<hist, effect, marked>>
         /\ \A d \in Callers : pc'[d] = "commit" =>
              pc[d] = "commit" /\ cur'[d] = cur[d] /\ stamp'[d] = stamp[d] /\ phase'[d] = phase[d]
<1> USE DEF TypeInv, TypeOK, database, loop
<1>1. CASE \E k \in Commands : Invoke(c, k)
  BY <1>1 DEF Invoke
<1>2. CASE AcquireLock(c) \/ LockTimeout(c) \/ EnsureMigrationTable(c) \/ loadApplied(c)
  BY <1>2 DEF AcquireLock, LockTimeout, EnsureMigrationTable, loadApplied
<1>3. CASE Start(c)
  BY <1>3 DEF Start, Applied, History
<1>4. CASE Plan(c)
  BY <1>4 DEF Plan
<1>5. CASE EndLoop(c)
  BY <1>5 DEF EndLoop, Applied
<1>6. CASE Unregistered(c) \/ DryRun(c) \/ StatementFails(c)
  BY <1>6 DEF Unregistered, DryRun, StatementFails, AfterError
<1>7. CASE Visit(c)
  BY <1>7 DEF Visit
<1>8. CASE Body(c)
  BY <1>8 DEF Body
<1>9. CASE Return(c) \/ Exit(c) \/ Crash(c)
  BY <1>9 DEF Return, Exit, Crash, Forget
<1> QED
  BY <1>1, <1>2, <1>3, <1>4, <1>5, <1>6, <1>7, <1>8, <1>9

LEMMA RecordRecorded ==
  ASSUME TypeInv, RecordedInv, Transactional, NEW c \in Callers, Record(c)
  PROVE  RecordedInv'
<1> USE DEF TypeInv, TypeOK
<1>1. \A d \in Callers \ {c} : pc[d] = "commit" => cur[d] # cur[c]
  BY DEF Record, RowLocked
<1>2. \A d \in Callers \ {c} : /\ pc'[d] = pc[d] /\ cur'[d] = cur[d]
                               /\ stamp'[d] = stamp[d] /\ phase'[d] = phase[d]
  BY DEF Record
<1>3. \A v \in Versions : v # cur[c] => hist'[v] = hist[v]
  BY DEF Record
<1>4. \A d \in Callers \ {c} : ReadyToCommit(d)'
  BY <1>1, <1>2, <1>3 DEF RecordedInv, CommitInv, ReadyToCommit, Inserting, KnownInHand
<1>5. pc'[c] = "commit" => ~Marking(c) /\ ~Refused(c) /\ UNCHANGED hist
  BY DEF Record, AfterRecord, Autocommit, Refused, Marking, Inserting
<1>6. ReadyToCommit(c)'
  <2>1. clock # 0
    BY BoundsAssumption
  <2> QED
    BY <1>5, <2>1 DEF Record, ReadyToCommit, Refused, Inserting
<1>7. CommitInv'
  BY <1>1, <1>2, <1>4, <1>6 DEF RecordedInv, CommitInv, Record
<1>8. NoUnrecordedSchema'
  <2>1. CASE Marking(c) /\ ~Refused(c)
    BY <2>1 DEF Record, NoUnrecordedSchema
  <2>2. CASE ~(Marking(c) /\ ~Refused(c))
    BY <2>2 DEF Record, RecordedInv, NoUnrecordedSchema, Autocommit, Refused, Marking, Inserting
  <2> QED
    BY <2>1, <2>2
<1> QED
  BY <1>7, <1>8 DEF RecordedInv

LEMMA PublishRecorded ==
  ASSUME TypeInv, RecordedInv, Transactional, NEW c \in Callers,
         Commit(c) \/ (CommitFails(c) /\ Publish(c))
  PROVE  RecordedInv'
<1> USE DEF TypeInv, TypeOK
<1>1. /\ pc[c] = "commit" /\ cur[c] \in Versions
      /\ hist' = [hist EXCEPT ![cur[c]] = stamp[c]]
      /\ effect' = Installed(c, BodySteps)
      /\ pc'[c] # "commit"
      /\ \A d \in Callers \ {c} : pc'[d] = pc[d]
      /\ UNCHANGED <<marked, cur, stamp, phase>>
  BY DEF Commit, CommitFails, Publish, KnownInHand, loop
<1>2. CommitInv'
  BY <1>1 DEF RecordedInv, CommitInv, ReadyToCommit, Inserting, KnownInHand
<1>3. ReadyToCommit(c)
  BY DEF RecordedInv, CommitInv
<1>4. NoUnrecordedSchema'
  <2>1. CASE Inserting(c)
    BY <1>1, <1>3, <2>1, BodyStepsAssumption
    DEF RecordedInv, NoUnrecordedSchema, ReadyToCommit, Installed, Inserting
  <2>2. CASE ~Inserting(c)
    BY <1>1, <1>3, <2>2, BodyStepsAssumption
    DEF RecordedInv, NoUnrecordedSchema, ReadyToCommit, Installed, Inserting
  <2> QED
    BY <2>1, <2>2
<1> QED
  BY <1>2, <1>4 DEF RecordedInv

LEMMA NextRecorded ==
  ASSUME TypeInv, RecordedInv, Transactional, [Next]_vars
  PROVE  RecordedInv'
<1>1. CASE UNCHANGED vars \/ Tick
  BY <1>1, QuietStep DEF Tick, vars, database, loop
<1>2. ASSUME NEW c \in Callers, Record(c)
      PROVE  RecordedInv'
  BY <1>2, RecordRecorded
<1>3. ASSUME NEW c \in Callers, Commit(c) \/ CommitFails(c)
      PROVE  RecordedInv'
  <2>1. CASE Commit(c) \/ (CommitFails(c) /\ Publish(c))
    BY <2>1, PublishRecorded
  <2>2. CASE CommitFails(c) /\ UNCHANGED <<hist, effect>>
    BY <2>2, QuietStep DEF CommitFails, loop, TypeInv, TypeOK
  <2> QED
    BY <1>3, <2>1, <2>2 DEF CommitFails
<1>4. ASSUME NEW c \in Callers, NEW k \in Commands, Invoke(c, k)
      PROVE  RecordedInv'
  BY <1>4, QuietActions, QuietStep
<1>5. ASSUME NEW c \in Callers, Step(c) \/ StatementFails(c) \/ Crash(c)
      PROVE  RecordedInv'
  BY <1>2, <1>3, <1>5, QuietActions, QuietStep DEF Step
<1> QED
  BY <1>1, <1>2, <1>3, <1>4, <1>5 DEF Next, Finished

\* In a database with transactional DDL, nothing is ever installed that the history
\* does not show, nor twice, however many processes run without a lock, fail or die.
THEOREM NothingUnrecorded ==
  ASSUME Transactional
  PROVE  Spec => []NoUnrecordedSchema
<1>1. Init => RecordedInv
  BY BodyStepsAssumption
  DEF Init, RecordedInv, CommitInv, ReadyToCommit, NoUnrecordedSchema, NoRows
<1>2. TypeInv /\ RecordedInv /\ [Next]_vars => RecordedInv'
  BY NextRecorded
<1>3. RecordedInv => NoUnrecordedSchema
  BY DEF RecordedInv
<1> QED
  BY <1>1, <1>2, <1>3, InitTypeInv, NextTypeInv, PTL DEF Spec

-----------------------------------------------------------------------------
(* Under the lock, or with one process only, history and schema agree.     *)

Alone == \A c, d \in Callers : c = d

\* Nobody but c can be working.
Exclusive(c) == lock = c \/ Alone

\* Between the moment it has the lock and the end of its loops.
Working(c) ==
  /\ ~cmd[c].dry /\ cmd[c].op \in WriteOps
  /\ pc[c] \in {"start", "ensure", "load", "plan", "next", "body", "record", "commit"}

\* Who is where: only write commands have loops, and each loop its own steps.
WellPlaced(c) ==
  /\ pc[c] = "acquire" => cmd[c].op \in WriteOps
  /\ cmd[c].op \in ReadOps /\ pc[c] \notin {"idle", "acquire", "start"} => phase[c] = "read"
  /\ pc[c] \in {"next", "body", "record", "commit"}
       => phase[c] \in {"apply", "revert", "back", "unmark", "mark"}
  /\ pc[c] \in {"body", "commit"} => phase[c] \in {"apply", "revert", "back"}
  /\ pc[c] \in {"body", "record", "commit"} => ~cmd[c].dry

\* What a caller is about to revert is still in the history.
Fresh(c) ==
  ~cmd[c].dry /\ Reverting(c) =>
    /\ pc[c] = "plan" => snap[c] = hist
    /\ pc[c] \in {"next", "body", "record", "commit"} => todo[c] \subseteq Rows(hist)
    /\ pc[c] \in {"body", "record", "commit"} => cur[c] \in Rows(hist) \ todo[c]

LockInv ==
  /\ \A c \in Callers : Working(c) => Exclusive(c)
  /\ \A c \in Callers : WellPlaced(c)
  /\ \A c \in Callers : Fresh(c)

\* The others do not notice a step of c that keeps the rows and their lock.
LEMMA OthersKeep ==
  ASSUME LockInv, NEW c \in Callers, UNCHANGED hist,
         \A d \in Callers \ {c} : /\ pc'[d] = pc[d] /\ cmd'[d] = cmd[d] /\ phase'[d] = phase[d]
                                  /\ snap'[d] = snap[d] /\ todo'[d] = todo[d] /\ cur'[d] = cur[d]
                                  /\ lock = d => lock' = d,
         Working(c)' => Exclusive(c)', WellPlaced(c)', Fresh(c)'
  PROVE  LockInv'
<1>1. \A d \in Callers \ {c} : (Working(d) => Exclusive(d))'
  BY DEF LockInv, Working, Exclusive, Alone
<1>2. \A d \in Callers \ {c} : WellPlaced(d)'
  BY DEF LockInv, WellPlaced
<1>3. \A d \in Callers \ {c} : Fresh(d)'
  BY DEF LockInv, Fresh, Reverting, Rows
<1> QED
  BY <1>1, <1>2, <1>3 DEF LockInv

\* A step that changes rows is a step of the caller that holds the lock: no other
\* caller is anywhere it could notice.
LEMMA OthersWait ==
  ASSUME TypeInv, LockInv, NEW c \in Callers, Working(c), UNCHANGED <<cmd, phase, snap, todo, cur, lock>>,
         \A d \in Callers \ {c} : pc'[d] = pc[d],
         WellPlaced(c)', Fresh(c)'
  PROVE  LockInv'
<1>1. \A d \in Callers \ {c} : ~Working(d)
  BY DEF LockInv, Exclusive, Alone
<1>2. \A d \in Callers : (Working(d) => Exclusive(d))'
  BY DEF LockInv, Working, Exclusive, Alone
<1>3. \A d \in Callers \ {c} : WellPlaced(d)'
  BY DEF LockInv, WellPlaced
<1>4. \A d \in Callers \ {c} : Fresh(d)'
  <2> SUFFICES ASSUME NEW d \in Callers \ {c}, ~cmd[d].dry, Reverting(d),
                      pc[d] \in {"plan", "next", "body", "record", "commit"}
               PROVE  FALSE
    BY DEF Fresh, Reverting
  <2>1. cmd[d].op \in WriteOps
    BY DEF LockInv, WellPlaced, Reverting, TypeInv, TypeOK, Command
  <2> QED
    BY <1>1, <2>1 DEF Working
<1> QED
  BY <1>2, <1>3, <1>4 DEF LockInv

\* The steps that write no row: those of the lock, of reading and of the loops.
LEMMA ReadingLockInv ==
  ASSUME TypeInv, LockInv, UseLock \/ Alone, Transactional, NEW c \in Callers,
         \/ \E k \in Commands : Invoke(c, k)
         \/ AcquireLock(c) \/ LockTimeout(c) \/ Start(c) \/ EnsureMigrationTable(c)
         \/ loadApplied(c) \/ Plan(c) \/ EndLoop(c) \/ Unregistered(c) \/ DryRun(c)
         \/ Visit(c) \/ Body(c) \/ Return(c) \/ Exit(c) \/ StatementFails(c) \/ Crash(c)
  PROVE  LockInv'
<1> USE DEF TypeInv, TypeOK, database, loop
<1>0. /\ (Working(c) => Exclusive(c)) /\ WellPlaced(c) /\ Fresh(c)
      /\ cmd[c] \in Command /\ c # NoOne
  BY NoOneAssumption DEF LockInv
<1>1. CASE \E k \in Commands : Invoke(c, k)
  <2>1. PICK k \in Commands : Invoke(c, k)
    BY <1>1
  <2>2. k \in Command /\ pc'[c] \in {"acquire", "start"} /\ cmd'[c] = k
        /\ (pc'[c] = "start" => Alone \/ ~(~k.dry /\ k.op \in WriteOps))
        /\ (pc'[c] = "acquire" => k.op \in WriteOps)
    BY <2>1, CommandsAssumption DEF Invoke, Locking
  <2>3. (Working(c)' => Exclusive(c)') /\ WellPlaced(c)' /\ Fresh(c)'
    BY <2>2 DEF Working, Exclusive, Alone, WellPlaced, Fresh, Reverting, ReadOps, WriteOps
  <2> QED
    BY <2>1, <2>3, OthersKeep DEF Invoke
<1>2. CASE AcquireLock(c) \/ LockTimeout(c) \/ EnsureMigrationTable(c)
  <2>1. WellPlaced(c)' /\ Fresh(c)' /\ (Working(c)' => Exclusive(c)')
    BY <1>0, <1>2 DEF AcquireLock, LockTimeout, EnsureMigrationTable, WellPlaced, Fresh,
                      Reverting, Working, Exclusive, Alone, ReadOps, WriteOps
  <2>2. UNCHANGED <<hist, cmd, phase, snap, todo, cur>>
        /\ \A d \in Callers \ {c} : pc'[d] = pc[d] /\ (lock = d => lock' = d)
    BY <1>2, NoOneAssumption DEF AcquireLock, LockTimeout, EnsureMigrationTable
  <2> QED
    BY <2>1, <2>2, OthersKeep
<1>10. CASE Unregistered(c) \/ StatementFails(c)
  <2>1. pc' = [pc EXCEPT ![c] = IF pc'[c] = "panicked" THEN "panicked" ELSE "failed"]
    BY <1>10 DEF Unregistered, StatementFails, AfterError
  <2>2. UNCHANGED <<database, clock, lock, issued, cmd, loop, results>>
        /\ pc[c] \in {"acquire", "ensure", "load", "body", "record", "next"}
    BY <1>10 DEF Unregistered, StatementFails
  <2>3. WellPlaced(c)' /\ Fresh(c)' /\ ~Working(c)'
    BY <1>0, <2>1, <2>2 DEF WellPlaced, Fresh, Working, ReadOps, WriteOps
  <2> QED
    BY <2>1, <2>2, <2>3, OthersKeep
<1>3. CASE Start(c)
  <2>1. WellPlaced(c)'
    BY <1>0, <1>3 DEF Start, Applied, History, WellPlaced, ReadOps
  <2>2. Fresh(c)'
    BY <1>0, <1>3 DEF Start, Applied, History, Fresh, Reverting
  <2>3. Working(c)' => Exclusive(c)'
    BY <1>0, <1>3 DEF Start, Working, Exclusive, Alone
  <2> QED
    BY <1>3, <2>1, <2>2, <2>3, OthersKeep DEF Start
<1>4. CASE loadApplied(c)
  <2>1. WellPlaced(c)' /\ Fresh(c)' /\ (Working(c)' => Exclusive(c)')
    BY <1>0, <1>4 DEF loadApplied, WellPlaced, Fresh, Reverting, Working, Exclusive, Alone
  <2> QED
    BY <1>4, <2>1, OthersKeep DEF loadApplied
<1>5. CASE Plan(c)
  <2>1. WellPlaced(c)'
    BY <1>0, <1>5 DEF Plan, WellPlaced
  <2>2. Fresh(c)'
    <3>1. CASE phase[c] \in {"revert", "back"}
      <4>1. pc'[c] = "next" /\ (~cmd[c].dry => snap[c] = hist)
        BY <1>0, <1>5, <3>1 DEF Plan, Fresh, Reverting
      <4>2. todo'[c] \subseteq Rows(snap[c])
        <5>1. CASE phase[c] = "revert"
          <6>1. todo' = [todo EXCEPT ![c] = LimitApplied(snap[c], Limit(c))]
            BY <1>5, <5>1 DEF Plan
          <6>2. LimitApplied(snap[c], Limit(c)) \subseteq Rows(snap[c])
            BY Selection
          <6> QED
            BY <6>1, <6>2
        <5>2. CASE phase[c] = "back"
          BY <1>5, <4>1, <5>2 DEF Plan
        <5> QED
          BY <3>1, <5>1, <5>2
      <4>3. UNCHANGED <<hist, cmd>>
        BY <1>5 DEF Plan
      <4> QED
        BY <4>1, <4>2, <4>3 DEF Fresh, Rows
    <3>2. CASE phase[c] \notin {"revert", "back"}
      BY <1>5, <3>2 DEF Plan, Fresh, Reverting
    <3> QED
      BY <3>1, <3>2
  <2>3. Working(c)' => Exclusive(c)'
    BY <1>0, <1>5 DEF Plan, Working, Exclusive, Alone
  <2> QED
    BY <1>5, <2>1, <2>2, <2>3, OthersKeep DEF Plan
<1>6. CASE EndLoop(c)
  <2>1. WellPlaced(c)'
    BY <1>0, <1>6 DEF EndLoop, Applied, WellPlaced, ReadOps
  <2>2. Fresh(c)'
    BY <1>0, <1>6 DEF EndLoop, Applied, Fresh, Reverting
  <2>3. Working(c)' => Exclusive(c)'
    BY <1>0, <1>6 DEF EndLoop, Working, Exclusive, Alone
  <2> QED
    BY <1>6, <2>1, <2>2, <2>3, OthersKeep DEF EndLoop
<1>7. CASE DryRun(c) \/ Visit(c)
  <2>0. Front(c) \subseteq todo[c]
    BY Selection
  <2>1. WellPlaced(c)'
    BY <1>0, <1>7 DEF DryRun, Visit, WellPlaced, Marking
  <2>2. Fresh(c)'
    BY <1>0, <1>7, <2>0 DEF DryRun, Visit, Fresh, Reverting
  <2>3. Working(c)' => Exclusive(c)'
    BY <1>0, <1>7 DEF DryRun, Visit, Working, Exclusive, Alone
  <2> QED
    BY <1>7, <2>1, <2>2, <2>3, OthersKeep DEF DryRun, Visit
<1>8. CASE Body(c)
  <2>1. WellPlaced(c)' /\ Fresh(c)' /\ (Working(c)' => Exclusive(c)')
    BY <1>0, <1>8 DEF Body, WellPlaced, Fresh, Reverting, Working, Exclusive, Alone
  <2> QED
    BY <1>8, <2>1, OthersKeep DEF Body
<1>9. CASE Return(c) \/ Exit(c) \/ Crash(c)
  <2>1. Forget(c)
    BY <1>9 DEF Return, Exit, Crash
  <2>2. WellPlaced(c)' /\ Fresh(c)' /\ ~Working(c)'
    BY <2>1 DEF Forget, WellPlaced, Fresh, Working
  <2> QED
    BY <1>0, <2>1, <2>2, OthersKeep DEF Forget
<1> QED
  BY <1>1, <1>2, <1>3, <1>4, <1>5, <1>6, <1>7, <1>8, <1>9, <1>10

\* The steps that write rows, all taken by the caller that holds the lock.
LEMMA WritingLockInv ==
  ASSUME TypeInv, LockInv, Transactional, NEW c \in Callers,
         Record(c) \/ Commit(c) \/ CommitFails(c)
  PROVE  LockInv'
<1> USE DEF TypeInv, TypeOK, loop
<1>0. /\ WellPlaced(c) /\ Fresh(c) /\ KnownInHand(c)
      /\ cmd[c] \in Command
      /\ pc[c] \in {"record", "commit"} /\ pc'[c] \in {"next", "commit", "failed"}
      /\ UNCHANGED <<cmd, phase, snap, todo, cur, lock>>
      /\ \A d \in Callers \ {c} : pc'[d] = pc[d]
  <2>1. AfterRecord(c) \in {"failed", "next", "commit"}
    BY DEF AfterRecord, Refused, Marking, Inserting
  <2> QED
    BY <2>1 DEF LockInv, Record, Commit, CommitFails
<1>1. Working(c)
  BY <1>0 DEF Working, WellPlaced, Command
<1>2. WellPlaced(c)'
  <2>1. CASE Record(c)
    BY <1>0, <2>1 DEF Record, AfterRecord, Refused, Marking, Inserting, WellPlaced, WriteOps, ReadOps
  <2>2. CASE Commit(c) \/ CommitFails(c)
    BY <1>0, <2>2 DEF Commit, CommitFails, WellPlaced, WriteOps, ReadOps
  <2> QED
    BY <2>1, <2>2
<1>3. Fresh(c)'
  <2> SUFFICES ASSUME Reverting(c), ~cmd[c].dry
               PROVE  Fresh(c)'
    BY <1>0 DEF Fresh, Reverting
  <2>1. todo[c] \subseteq Rows(hist) /\ cur[c] \in Rows(hist) \ todo[c]
    BY <1>0 DEF Fresh
  <2>2. CASE Record(c)
    <3>1. UNCHANGED hist
      BY <2>2 DEF Record, Autocommit, Marking, Reverting
    <3> QED
      BY <1>0, <2>1, <3>1 DEF Fresh, Rows
  <2>3. CASE Commit(c) \/ CommitFails(c)
    <3>1. \A v \in Versions : v # cur[c] => hist'[v] = hist[v]
      BY <2>3 DEF Commit, CommitFails, Publish
    <3>2. todo[c] \subseteq Rows(hist')
      BY <2>1, <3>1 DEF Rows
    <3> QED
      BY <1>0, <2>3, <3>2 DEF Fresh, Rows, Commit, CommitFails
  <2> QED
    BY <2>2, <2>3
<1> QED
  BY <1>0, <1>1, <1>2, <1>3, OthersWait

LEMMA NextLockInv ==
  ASSUME TypeInv, LockInv, UseLock \/ Alone, Transactional, [Next]_vars
  PROVE  LockInv'
<1>1. CASE UNCHANGED vars \/ Tick
  <2>1. UNCHANGED <<hist, lock, pc, cmd, phase, snap, todo, cur>>
    BY <1>1 DEF vars, database, loop, Tick
  <2> QED
    BY <2>1 DEF LockInv, Working, WellPlaced, Fresh, Reverting, Rows, Exclusive, Alone
<1>2. ASSUME NEW c \in Callers, NEW k \in Commands, Invoke(c, k)
      PROVE  LockInv'
  BY <1>2, ReadingLockInv
<1>3. ASSUME NEW c \in Callers, Step(c) \/ CommitFails(c) \/ StatementFails(c) \/ Crash(c)
      PROVE  LockInv'
  BY <1>3, ReadingLockInv, WritingLockInv DEF Step
<1> QED
  BY <1>1, <1>2, <1>3 DEF Next, Finished

LEMMA NextMatches ==
  ASSUME TypeInv, LockInv, RecordedInv, HistoryMatchesSchema, Transactional, [Next]_vars
  PROVE  HistoryMatchesSchema'
<1> USE DEF TypeInv, TypeOK
<1>1. CASE UNCHANGED <<hist, effect, marked>>
  BY <1>1 DEF HistoryMatchesSchema
<1>2. ASSUME NEW c \in Callers, Record(c)
      PROVE  HistoryMatchesSchema'
  BY <1>2 DEF Record, HistoryMatchesSchema, Autocommit, Refused, Marking, Inserting
<1>3. ASSUME NEW c \in Callers, Commit(c) \/ (CommitFails(c) /\ Publish(c))
      PROVE  HistoryMatchesSchema'
  <2>1. /\ pc[c] = "commit" /\ cur[c] \in Versions
        /\ hist' = [hist EXCEPT ![cur[c]] = stamp[c]]
        /\ effect' = Installed(c, BodySteps)
        /\ UNCHANGED marked
    BY <1>3 DEF Commit, CommitFails, Publish, KnownInHand
  <2>2. ReadyToCommit(c) /\ Fresh(c) /\ WellPlaced(c)
    BY DEF RecordedInv, CommitInv, LockInv
  <2>3. CASE Inserting(c)
    BY <2>1, <2>2, <2>3, BodyStepsAssumption
    DEF HistoryMatchesSchema, ReadyToCommit, Installed, Inserting
  <2>4. CASE ~Inserting(c)
    <3>1. hist[cur[c]] # 0
      BY <2>1, <2>2, <2>4 DEF Fresh, WellPlaced, Inserting, Reverting, Rows
    <3> QED
      BY <2>1, <2>2, <2>4, <3>1, BodyStepsAssumption
      DEF HistoryMatchesSchema, ReadyToCommit, Installed, Inserting
  <2> QED
    BY <2>3, <2>4
<1>4. ASSUME NEW c \in Callers, NEW k \in Commands, Invoke(c, k)
      PROVE  UNCHANGED <<hist, effect, marked>>
  BY <1>4, QuietActions
<1>5. ASSUME NEW c \in Callers, Step(c) \/ CommitFails(c) \/ StatementFails(c) \/ Crash(c)
      PROVE  HistoryMatchesSchema'
  <2>1. CASE CommitFails(c) /\ ~Publish(c)
    BY <1>1, <2>1 DEF CommitFails
  <2> QED
    BY <1>1, <1>2, <1>3, <1>5, <2>1, QuietActions DEF Step
<1> QED
  BY <1>1, <1>4, <1>5 DEF Next, Finished, Tick, vars, database

\* With transactional DDL a version's statements are in the database exactly when its
\* row is, whatever fails, dies or loses its answer: for any number of processes built
\* from any registries and running any commands under the lock, and for one process
\* without it.
THEOREM HistoryAndSchemaAgree ==
  ASSUME UseLock \/ Alone, Transactional
  PROVE  Spec => []HistoryMatchesSchema
<1>1. Init => LockInv /\ HistoryMatchesSchema
  BY DEF Init, LockInv, Working, WellPlaced, Fresh, NoCommand, ReadOps, WriteOps,
         HistoryMatchesSchema, NoRows, Reverting
<1>2. Init => RecordedInv
  BY BodyStepsAssumption
  DEF Init, RecordedInv, CommitInv, ReadyToCommit, NoUnrecordedSchema, NoRows
<1>3. TypeInv /\ LockInv /\ [Next]_vars => LockInv'
  BY NextLockInv
<1>4. TypeInv /\ RecordedInv /\ [Next]_vars => RecordedInv'
  BY NextRecorded
<1>5. TypeInv /\ LockInv /\ RecordedInv /\ HistoryMatchesSchema /\ [Next]_vars
        => HistoryMatchesSchema'
  BY NextMatches
<1> QED
  BY <1>1, <1>2, <1>3, <1>4, <1>5, InitTypeInv, NextTypeInv, PTL DEF Spec

-----------------------------------------------------------------------------
(* A dry run touches nothing.                                              *)

\* A command in a dry run is never where the database or the lock is written, and
\* believes that nothing is applied, but for what it is about to revert.
Preview(c) ==
  /\ pc[c] = "idle" \/ cmd[c].dry => lock # c
  /\ pc[c] \in {"idle", "acquire", "start"} => snap[c] = NoRows
  /\ cmd[c].dry => /\ pc[c] \notin {"acquire", "ensure", "body", "record", "commit"}
                   /\ phase[c] \in {"apply", "to"} => pc[c] # "load" /\ snap[c] = NoRows

PreviewInv == \A c \in Callers : Preview(c)

\* The steps of a caller, one at a time.
LEMMA StepPreview ==
  ASSUME TypeInv, PreviewInv, NEW c \in Callers,
         \/ \E k \in Commands : Invoke(c, k)
         \/ Step(c) \/ CommitFails(c) \/ StatementFails(c) \/ Crash(c)
  PROVE  /\ Preview(c)'
         /\ \A d \in Callers \ {c} : /\ pc'[d] = pc[d] /\ cmd'[d] = cmd[d]
                                     /\ phase'[d] = phase[d] /\ snap'[d] = snap[d]
                                     /\ lock # d => lock' # d
         /\ cmd[c].dry /\ pc[c] # "idle" => UNCHANGED <<database, lock>>
<1> USE DEF TypeInv, TypeOK, loop
<1>0. Preview(c) /\ c # NoOne
  BY NoOneAssumption DEF PreviewInv
<1>1. CASE \E k \in Commands : Invoke(c, k)
  <2>1. PICK k \in Commands : Invoke(c, k)
    BY <1>1
  <2>2. pc[c] = "idle" /\ pc'[c] = (IF Locking(k) THEN "acquire" ELSE "start") /\ cmd'[c] = k
    BY <2>1, CommandsAssumption DEF Invoke
  <2>3. k.dry => pc'[c] = "start"
    BY <2>2 DEF Locking
  <2>4. Preview(c)'
    BY <1>0, <2>1, <2>2, <2>3 DEF Preview, Invoke
  <2> QED
    BY <2>1, <2>2, <2>4 DEF Invoke
<1>2. CASE AcquireLock(c) \/ LockTimeout(c) \/ EnsureMigrationTable(c)
  BY <1>0, <1>2 DEF AcquireLock, LockTimeout, EnsureMigrationTable, Preview, database
<1>11. CASE loadApplied(c)
  <2>1. UNCHANGED <<database, cmd, phase, lock>> /\ pc[c] = "load" /\ pc'[c] \in {"plan", "failed"}
    BY <1>11 DEF loadApplied
  <2>2. \A d \in Callers \ {c} : pc'[d] = pc[d] /\ snap'[d] = snap[d]
    BY <1>11 DEF loadApplied
  <2>3. cmd[c].dry => phase[c] \notin {"apply", "to"}
    BY <1>0, <1>11 DEF loadApplied, Preview
  <2> QED
    BY <1>0, <2>1, <2>2, <2>3 DEF Preview, database
<1>3. CASE Start(c)
  BY <1>0, <1>3 DEF Start, Applied, History, Preview, database
<1>4. CASE Plan(c)
  <2>1. cmd[c].dry /\ phase[c] = "to" => Rows(snap[c]) = {}
    BY <1>0 DEF Preview, Rows, NoRows
  <2>2. Preview(c)'
    BY <1>0, <1>4, <2>1 DEF Plan, Preview
  <2> QED
    BY <1>4, <2>2 DEF Plan, database
<1>5. CASE EndLoop(c)
  BY <1>0, <1>5 DEF EndLoop, Applied, Preview, database
<1>6. CASE Unregistered(c) \/ DryRun(c) \/ StatementFails(c)
  BY <1>0, <1>6 DEF Unregistered, DryRun, StatementFails, AfterError, Preview, database
<1>7. CASE Visit(c) \/ Body(c)
  BY <1>0, <1>7 DEF Visit, Body, Preview, database
<1>8. CASE Record(c)
  <2>1. AfterRecord(c) \in {"failed", "next", "commit"}
    BY DEF AfterRecord, Refused, Marking, Inserting
  <2> QED
    BY <1>0, <1>8, <2>1 DEF Record, Preview, database
<1>9. CASE Commit(c) \/ CommitFails(c)
  BY <1>0, <1>9 DEF Commit, CommitFails, Preview, database
<1>10. CASE Return(c) \/ Exit(c) \/ Crash(c)
  <2>1. Forget(c)
    BY <1>10 DEF Return, Exit, Crash
  <2> QED
    BY <1>0, <2>1, NoOneAssumption DEF Forget, Preview, NoCommand, database
<1> QED
  BY <1>1, <1>2, <1>3, <1>4, <1>5, <1>6, <1>7, <1>8, <1>9, <1>10, <1>11 DEF Step

\* What a process keeps is changed by its own steps only.
LEMMA NobodyElses ==
  ASSUME TypeInv, NEW c \in Callers, NEW d \in Callers \ {c},
         \/ \E k \in Commands : Invoke(c, k)
         \/ Step(c) \/ CommitFails(c) \/ StatementFails(c) \/ Crash(c)
  PROVE  kept(d)' = kept(d)
<1> USE DEF TypeInv, TypeOK, kept, loop, results
<1>1. CASE \E k \in Commands : Invoke(c, k)
  BY <1>1 DEF Invoke
<1>2. CASE AcquireLock(c) \/ LockTimeout(c) \/ EnsureMigrationTable(c) \/ loadApplied(c)
  BY <1>2 DEF AcquireLock, LockTimeout, EnsureMigrationTable, loadApplied
<1>3. CASE Start(c)
  BY <1>3 DEF Start, Applied, History
<1>4. CASE Plan(c)
  BY <1>4 DEF Plan
<1>5. CASE EndLoop(c)
  BY <1>5 DEF EndLoop, Applied
<1>6. CASE Unregistered(c) \/ StatementFails(c) \/ CommitFails(c)
  BY <1>6 DEF Unregistered, StatementFails, CommitFails, AfterError
<1>7. CASE DryRun(c) \/ Commit(c)
  BY <1>7 DEF DryRun, Commit, Report
<1>8. CASE Visit(c) \/ Body(c)
  BY <1>8 DEF Visit, Body
<1>9. CASE Record(c)
  BY <1>9 DEF Record
<1>10. CASE Return(c) \/ Exit(c) \/ Crash(c)
  BY <1>10 DEF Return, Exit, Crash, Forget
<1> QED
  BY <1>1, <1>2, <1>3, <1>4, <1>5, <1>6, <1>7, <1>8, <1>9, <1>10 DEF Step

\* No step of a dry run changes the database or the lock, the execution of migrations and
\* the return included.  It needs neither the lock nor transactional DDL, whatever other
\* commands it interleaves with.
THEOREM DryRunsAreHarmless == Spec => DryRunHarmless
<1>1. Init => PreviewInv
  BY NoOneAssumption DEF Init, PreviewInv, Preview, NoCommand
<1>2. ASSUME TypeInv, PreviewInv, [Next]_vars
      PROVE  PreviewInv'
  <2>1. CASE UNCHANGED vars \/ Tick
    <3>1. UNCHANGED <<lock, pc, cmd, phase, snap>>
      BY <2>1 DEF vars, loop, Tick
    <3> QED
      BY <1>2, <3>1 DEF PreviewInv, Preview
  <2>2. ASSUME NEW c \in Callers,
               \/ \E k \in Commands : Invoke(c, k)
               \/ Step(c) \/ CommitFails(c) \/ StatementFails(c) \/ Crash(c)
        PROVE  PreviewInv'
    BY <1>2, <2>2, StepPreview DEF PreviewInv, Preview
  <2> QED
    BY <1>2, <2>1, <2>2 DEF Next, Finished
<1>3. ASSUME TypeInv, PreviewInv, Next
      PROVE  \A c \in Callers : cmd[c].dry /\ pc[c] # "idle" /\ kept(c)' # kept(c)
                                  => UNCHANGED <<database, lock>>
  <2> SUFFICES ASSUME NEW c \in Callers, cmd[c].dry, pc[c] # "idle", kept(c)' # kept(c)
               PROVE  UNCHANGED <<database, lock>>
    OBVIOUS
  <2>1. PICK d \in Callers :
          \/ \E k \in Commands : Invoke(d, k)
          \/ Step(d) \/ CommitFails(d) \/ StatementFails(d) \/ Crash(d)
    BY <1>3 DEF Next, Finished, Tick, vars, loop, results, kept
  <2>2. d = c
    BY <1>3, <2>1, NobodyElses
  <2> QED
    BY <1>3, <2>1, <2>2, StepPreview
<1> QED
  BY <1>1, <1>2, <1>3, InitTypeInv, NextTypeInv, PTL DEF Spec, DryRunHarmless

-----------------------------------------------------------------------------
(* On a database whose DDL commits implicitly, where a transaction undoes  *)
(* nothing: a row is the last thing that apply writes.                     *)

\* What a caller has in hand has had as many statements of its body executed as the
\* caller has counted, all of them when it comes to the row.
Counted(c) ==
  /\ ~cmd[c].dry => cmd[c].op \in {"up", "new", "history"} /\ phase[c] \in {"none", "read", "apply"}
  /\ pc[c] \in {"idle", "acquire", "start"} => phase[c] = "none"
  /\ pc[c] = "plan" /\ ~cmd[c].dry => phase[c] \in {"read", "apply"}
  /\ pc[c] \in {"ensure", "load"} => phase[c] # "none"
  /\ pc[c] = "next" /\ ~cmd[c].dry => phase[c] = "apply"
  /\ pc[c] \in {"body", "record", "commit"}
       => ~cmd[c].dry /\ phase[c] = "apply" /\ step[c] <= effect[cur[c]]
  /\ pc[c] \in {"record", "commit"} => effect[cur[c]] >= BodySteps

CountInv ==
  /\ NoHalfRecorded
  /\ \A v \in Versions : effect[v] >= 0
  /\ \A c \in Callers : Counted(c)

LEMMA InitCounted == Init => CountInv
<1> SUFFICES ASSUME Init PROVE CountInv
  OBVIOUS
<1>1. NoHalfRecorded /\ \A v \in Versions : effect[v] >= 0
  BY DEF Init, NoRows, NoHalfRecorded
<1>2. \A c \in Callers : Counted(c)
  BY DEF Init, NoCommand, Counted
<1> QED
  BY <1>1, <1>2 DEF CountInv

\* A caller's step that writes neither row nor schema disturbs nobody else.
LEMMA OthersCounted ==
  ASSUME TypeInv, CountInv, NEW c \in Callers, UNCHANGED hist,
         effect' \in [Versions -> Int], \A v \in Versions : effect'[v] >= effect[v],
         \A d \in Callers \ {c} : UNCHANGED <<pc[d], cmd[d], phase[d], cur[d], step[d]>>,
         Counted(c)'
  PROVE  CountInv'
<1> USE DEF TypeInv, TypeOK
<1>1. NoHalfRecorded' /\ \A v \in Versions : effect'[v] >= 0
  BY BodyStepsAssumption DEF CountInv, NoHalfRecorded
<1>2. ASSUME NEW d \in Callers \ {c} PROVE Counted(d)'
  <2>1. Counted(d) /\ KnownInHand(d) /\ step[d] \in Nat
    BY DEF CountInv
  <2>2. cur[d] \in Versions => effect[cur[d]] \in Int /\ effect'[cur[d]] >= effect[cur[d]]
                               /\ effect'[cur[d]] \in Int
    OBVIOUS
  <2> QED
    BY <2>1, <2>2, BodyStepsAssumption DEF Counted, KnownInHand
<1> QED
  BY <1>1, <1>2 DEF CountInv

LEMMA BodyCounted ==
  ASSUME TypeInv, CountInv, ~Transactional, NEW c \in Callers, Body(c) PROVE CountInv'
<1> USE DEF TypeInv, TypeOK
<1>1. /\ Counted(c) /\ pc[c] = "body" /\ cur[c] \in Versions /\ phase[c] = "apply"
      /\ step[c] \in Nat /\ step[c] <= effect[cur[c]] /\ effect[cur[c]] \in Int
  BY DEF Body, CountInv, Counted, KnownInHand
<1>2. effect' = [effect EXCEPT ![cur[c]] = effect[cur[c]] + 1]
  BY <1>1 DEF Body, Installed, Inserting
<1>3. step'[c] = step[c] + 1 /\ effect'[cur[c]] = effect[cur[c]] + 1
  BY <1>1, <1>2 DEF Body
<1>4. Counted(c)'
  BY <1>1, <1>3, BodyStepsAssumption DEF Body, Counted
<1>5. effect' \in [Versions -> Int] /\ \A v \in Versions : effect'[v] >= effect[v]
  BY <1>1, <1>2
<1> QED
  BY <1>4, <1>5, OthersCounted DEF Body

\* The row: it is only written for a body that is complete.
LEMMA RecordCounted ==
  ASSUME TypeInv, CountInv, NEW c \in Callers, Record(c) PROVE CountInv'
<1> USE DEF TypeInv, TypeOK
<1>1. /\ Counted(c) /\ pc[c] = "record" /\ phase[c] = "apply" /\ ~Marking(c)
      /\ cur[c] \in Versions /\ effect[cur[c]] >= BodySteps
  BY DEF Record, CountInv, Counted, KnownInHand, Marking
<1>2. NoHalfRecorded'
  BY <1>1 DEF Record, CountInv, NoHalfRecorded
<1>3. pc' = [pc EXCEPT ![c] = "failed"] \/ pc' = [pc EXCEPT ![c] = "commit"]
  BY <1>1 DEF Record, AfterRecord
<1>4. \A d \in Callers : Counted(d)'
  BY <1>1, <1>3 DEF Record, CountInv, Counted
<1> QED
  BY <1>2, <1>4 DEF Record, CountInv

LEMMA OnlyTheCallerMoves ==
  ASSUME TypeInv, CountInv, NEW c \in Callers, UNCHANGED <<hist, effect>>,
         \A d \in Callers \ {c} : UNCHANGED <<pc[d], cmd[d], phase[d], cur[d], step[d]>>,
         Counted(c)'
  PROVE  CountInv'
<1>1. effect' \in [Versions -> Int] /\ \A v \in Versions : effect'[v] >= effect[v]
  BY DEF TypeInv, TypeOK
<1> QED
  BY <1>1, OthersCounted

LEMMA CommitCounted ==
  ASSUME TypeInv, CountInv, ~Transactional, NEW c \in Callers, Commit(c) \/ CommitFails(c)
  PROVE  CountInv'
<1> USE DEF TypeInv, TypeOK
<1>1. UNCHANGED <<hist, effect>>
  BY DEF Commit, CommitFails, Publish
<1>2. Counted(c)'
  BY DEF Commit, CommitFails, CountInv, Counted, loop
<1>3. \A d \in Callers \ {c} : UNCHANGED <<pc[d], cmd[d], phase[d], cur[d], step[d]>>
  BY DEF Commit, CommitFails, loop
<1> QED
  BY <1>1, <1>2, <1>3, OnlyTheCallerMoves

LEMMA ForgetCounted ==
  ASSUME TypeInv, CountInv, NEW c \in Callers, Forget(c) PROVE CountInv'
<1> USE DEF TypeInv, TypeOK
<1>1. Counted(c)'
  BY DEF Forget, NoCommand, Counted
<1>2. UNCHANGED <<hist, effect>>
  BY DEF Forget, database
<1>3. \A d \in Callers \ {c} : UNCHANGED <<pc[d], cmd[d], phase[d], cur[d], step[d]>>
  BY DEF Forget
<1> QED
  BY <1>1, <1>2, <1>3, OnlyTheCallerMoves

\* A forward command is given its loop, or none, and stays in it.
LEMMA RestCounted ==
  ASSUME TypeInv, CountInv, NEW c \in Callers,
         \A k \in Commands : k.dry \/ k.op \in {"up", "new", "history"},
         \/ \E k \in Commands : Invoke(c, k)
         \/ AcquireLock(c) \/ LockTimeout(c) \/ Start(c) \/ EnsureMigrationTable(c)
         \/ loadApplied(c) \/ Plan(c) \/ EndLoop(c) \/ Unregistered(c) \/ DryRun(c)
         \/ Visit(c) \/ StatementFails(c)
  PROVE  CountInv'
<1> USE DEF TypeInv, TypeOK, database, loop
<1>0. Counted(c) /\ cmd[c] \in Command /\ cmd[c].dry \in BOOLEAN
  BY DEF CountInv, Command
<1>1. CASE \E k \in Commands : Invoke(c, k)
  <2>1. Counted(c)'
    <3>1. PICK k \in Commands : Invoke(c, k)
      BY <1>1
    <3>2. phase[c] \in {"none", "read", "apply"} \/ cmd[c].dry
      BY <1>0 DEF Counted
    <3> QED
      BY <1>0, <3>1, <3>2 DEF Invoke, Counted
  <2>2. /\ UNCHANGED <<hist, effect>>
        /\ \A d \in Callers \ {c} : UNCHANGED <<pc[d], cmd[d], phase[d], cur[d], step[d]>>
    BY <1>1 DEF Invoke
  <2> QED
    BY <2>1, <2>2, OnlyTheCallerMoves
<1>2. CASE AcquireLock(c) \/ LockTimeout(c) \/ EnsureMigrationTable(c) \/ loadApplied(c)
  <2>1. Counted(c)'
    BY <1>0, <1>2 DEF AcquireLock, LockTimeout, EnsureMigrationTable, loadApplied, Counted
  <2>2. /\ UNCHANGED <<hist, effect>>
        /\ \A d \in Callers \ {c} : UNCHANGED <<pc[d], cmd[d], phase[d], cur[d], step[d]>>
    BY <1>2 DEF AcquireLock, LockTimeout, EnsureMigrationTable, loadApplied
  <2> QED
    BY <2>1, <2>2, OnlyTheCallerMoves
<1>3. CASE Start(c)
  <2>1. Counted(c)'
    BY <1>0, <1>3 DEF Start, Applied, History, Counted
  <2>2. /\ UNCHANGED <<hist, effect>>
        /\ \A d \in Callers \ {c} : UNCHANGED <<pc[d], cmd[d], phase[d], cur[d], step[d]>>
    BY <1>3 DEF Start
  <2> QED
    BY <2>1, <2>2, OnlyTheCallerMoves
<1>4. CASE Plan(c)
  <2>1. Counted(c)'
    BY <1>0, <1>4 DEF Plan, Counted
  <2>2. /\ UNCHANGED <<hist, effect>>
        /\ \A d \in Callers \ {c} : UNCHANGED <<pc[d], cmd[d], phase[d], cur[d], step[d]>>
    BY <1>4 DEF Plan
  <2> QED
    BY <2>1, <2>2, OnlyTheCallerMoves
<1>5. CASE EndLoop(c)
  <2>1. Counted(c)'
    BY <1>0, <1>5 DEF EndLoop, Applied, Counted
  <2>2. /\ UNCHANGED <<hist, effect>>
        /\ \A d \in Callers \ {c} : UNCHANGED <<pc[d], cmd[d], phase[d], cur[d], step[d]>>
    BY <1>5 DEF EndLoop
  <2> QED
    BY <2>1, <2>2, OnlyTheCallerMoves
<1>6. CASE Unregistered(c) \/ DryRun(c) \/ StatementFails(c)
  <2>1. Counted(c)'
    BY <1>0, <1>6 DEF Unregistered, DryRun, StatementFails, AfterError, Counted
  <2>2. /\ UNCHANGED <<hist, effect>>
        /\ \A d \in Callers \ {c} : UNCHANGED <<pc[d], cmd[d], phase[d], cur[d], step[d]>>
    BY <1>6 DEF Unregistered, DryRun, StatementFails, AfterError
  <2> QED
    BY <2>1, <2>2, OnlyTheCallerMoves
<1>7. CASE Visit(c)
  <2>1. PICK n \in Versions : cur' = [cur EXCEPT ![c] = n]
    BY <1>7, Selection DEF Visit
  <2>2. phase[c] = "apply" /\ ~Marking(c)
    BY <1>0, <1>7 DEF Visit, Counted, Marking
  <2>3. Counted(c)'
    BY <1>0, <1>7, <2>1, <2>2 DEF Visit, Counted, CountInv
  <2>4. /\ UNCHANGED <<hist, effect>>
        /\ \A d \in Callers \ {c} : UNCHANGED <<pc[d], cmd[d], phase[d], cur[d], step[d]>>
    BY <1>7 DEF Visit
  <2> QED
    BY <2>3, <2>4, OnlyTheCallerMoves
<1> QED
  BY <1>1, <1>2, <1>3, <1>4, <1>5, <1>6, <1>7

\* Without transactional DDL, with the lock or without it, and whatever fails or crashes: when
\* nothing is reverted but in dry runs, a version is never recorded before all of its body ran.
THEOREM NeverHalfRecorded ==
  ASSUME ~Transactional, \A k \in Commands : k.dry \/ k.op \in {"up", "new", "history"}
  PROVE  Spec => []NoHalfRecorded
<1>1. Init => TypeInv /\ CountInv
  BY InitTypeInv, InitCounted
<1>2. TypeInv /\ CountInv /\ [Next]_vars => (TypeInv /\ CountInv)'
  <2> SUFFICES ASSUME TypeInv, CountInv, [Next]_vars PROVE CountInv'
    BY NextTypeInv
  <2>1. CASE Tick \/ UNCHANGED vars
    BY <2>1 DEF Tick, vars, CountInv, NoHalfRecorded, Counted, database, loop
  <2>2. CASE \E c \in Callers : Return(c) \/ Exit(c) \/ Crash(c)
    BY <2>2, ForgetCounted DEF Return, Exit, Crash
  <2> QED
    BY <2>1, <2>2, RestCounted, BodyCounted, RecordCounted, CommitCounted DEF Next, Step, Finished
<1>3. CountInv => NoHalfRecorded
  BY DEF CountInv
<1> QED
  BY <1>1, <1>2, <1>3, PTL DEF Spec
=============================================================================
