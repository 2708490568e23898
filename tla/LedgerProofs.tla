---------------------------- MODULE LedgerProofs ----------------------------
(***************************************************************************)
(* Under the lock, or with one process, and with transactional DDL: every  *)
(* step of Migrator is a step of MigrationLedger or changes nothing there, *)
(* every command that returns nil has done what its argument asks, and a   *)
(* Mark that stops has left a history that it was to pass through.         *)
(***************************************************************************)
EXTENDS MigratorProofs, FiniteSetTheorems

-----------------------------------------------------------------------------
(* The order of the rows *)

LEMMA NewerOrder ==
  ASSUME NEW h \in [Versions -> Nat], NEW u \in Versions, NEW v \in Versions, NEW w \in Versions
  PROVE  /\ Newer(h, u, v) /\ Newer(h, v, w) => Newer(h, u, w)
         /\ u = v \/ Newer(h, u, v) \/ Newer(h, v, u)
         /\ ~Newer(h, v, v)
<1>1. u \in Nat /\ v \in Nat /\ w \in Nat /\ h[u] \in Nat /\ h[v] \in Nat /\ h[w] \in Nat
  BY VersionsAssumption
<1> QED
  BY <1>1 DEF Newer

\* limitApplied cuts the list of rows after its newest ones.
LEMMA LimitAppliedIsNewest ==
  ASSUME NEW h \in [Versions -> Nat], NEW n \in Nat,
         NEW v \in LimitApplied(h, n), NEW w \in Rows(h) \ LimitApplied(h, n)
  PROVE  Newer(h, v, w)
<1> DEFINE Above(x) == {u \in Rows(h) : Newer(h, u, x)}
<1>1. v \in Versions /\ w \in Versions /\ v \in Rows(h) /\ v # w
  BY DEF LimitApplied, Rows
<1>2. n # 0 /\ Cardinality(Above(v)) < n /\ ~(Cardinality(Above(w)) < n)
  BY DEF LimitApplied
<1>3. IsFiniteSet(Rows(h)) /\ IsFiniteSet(Above(v)) /\ IsFiniteSet(Above(w))
  <2>1. Rows(h) \in SUBSET Versions /\ Above(v) \in SUBSET Versions /\ Above(w) \in SUBSET Versions
    BY DEF Rows
  <2> HIDE DEF Above
  <2> QED
    BY <2>1, FS_Subset, VersionsAssumption
<1>4. SUFFICES ASSUME Newer(h, w, v) PROVE FALSE
  BY <1>1, NewerOrder
<1>5. Above(w) \in SUBSET Above(v)
  BY <1>1, <1>4, NewerOrder DEF Rows
<1>6. Cardinality(Above(w)) <= Cardinality(Above(v))
  <2> HIDE DEF Above
  <2> QED
    BY <1>3, <1>5, FS_Subset
<1>7. Cardinality(Above(v)) \in Nat /\ Cardinality(Above(w)) \in Nat
  <2> HIDE DEF Above
  <2> QED
    BY <1>3, FS_CardinalityType
<1> HIDE DEF Above
<1> QED
  BY <1>2, <1>6, <1>7

LEMMA LimitType ==
  ASSUME TypeInv, NEW c \in Callers
  PROVE  Limit(c) \in Nat
<1>1. IsFiniteSet(reverted[c])
  BY FS_Subset, VersionsAssumption DEF TypeInv
<1> QED
  BY <1>1, FS_CardinalityType DEF Limit, TypeInv, TypeOK, Command

-----------------------------------------------------------------------------
(* The invariant *)

\* A caller that reverts still knows the order of the rows, and what it is about to
\* revert is newer than everything it will leave.
Ahead(c) ==
  ~cmd[c].dry /\ Reverting(c) =>
    /\ pc[c] \in {"next", "body", "record", "commit"}
         => \A v \in Rows(hist) : snap[c][v] = hist[v]
    /\ pc[c] = "next" => \A v \in todo[c], w \in Rows(hist) \ todo[c] : Newer(hist, v, w)
    /\ pc[c] \in {"body", "record", "commit"} =>
         /\ \A w \in Rows(hist) \ {cur[c]} : Newer(hist, cur[c], w)
         /\ \A v \in todo[c], w \in Rows(hist) \ (todo[c] \cup {cur[c]}) : Newer(hist, v, w)

\* No row is newer than the clock, nor than a row about to be committed.
Timed(c) ==
  /\ stamp[c] <= clock
  /\ pc[c] = "commit" /\ Inserting(c) => \A v \in Versions : hist[v] <= stamp[c]

LedgerInv ==
  /\ \A v \in Versions : hist[v] <= clock
  /\ \A c \in Callers : Timed(c)
  /\ \A c \in Callers : Ahead(c)

\* A step of c that keeps the rows: the others do not notice.
LEMMA LedgerOthersKeep ==
  ASSUME TypeInv, LedgerInv, NEW c \in Callers, UNCHANGED <<hist, clock>>,
         \A d \in Callers \ {c} :
            /\ pc'[d] = pc[d] /\ cmd'[d] = cmd[d] /\ phase'[d] = phase[d] /\ stamp'[d] = stamp[d]
            /\ snap'[d] = snap[d] /\ todo'[d] = todo[d] /\ cur'[d] = cur[d],
         Timed(c)', Ahead(c)'
  PROVE  LedgerInv'
<1>1. \A d \in Callers \ {c} : Timed(d)'
  BY DEF LedgerInv, Timed, Inserting
<1>2. \A d \in Callers \ {c} : Ahead(d)'
  BY DEF LedgerInv, Ahead, Reverting, Rows, Newer
<1> QED
  BY <1>1, <1>2 DEF LedgerInv

\* A step that brings c to where it has nothing left to revert.
LEMMA AwayFromLoops ==
  ASSUME TypeInv, LedgerInv, NEW c \in Callers, UNCHANGED <<hist, clock>>,
         pc'[c] \notin {"next", "body", "record", "commit"}, stamp'[c] \in {stamp[c], 0},
         \A d \in Callers \ {c} :
            /\ pc'[d] = pc[d] /\ cmd'[d] = cmd[d] /\ phase'[d] = phase[d] /\ stamp'[d] = stamp[d]
            /\ snap'[d] = snap[d] /\ todo'[d] = todo[d] /\ cur'[d] = cur[d]
  PROVE  LedgerInv'
<1>1. clock \in Nat
  BY DEF TypeInv, TypeOK
<1>2. Timed(c)'
  BY <1>1 DEF LedgerInv, Timed
<1>3. Ahead(c)'
  BY DEF Ahead
<1> QED
  BY <1>2, <1>3, LedgerOthersKeep

\* The steps that write no row.
LEMMA ReadingLedgerInv ==
  ASSUME TypeInv, LockInv, LedgerInv, Transactional, NEW c \in Callers,
         \/ \E k \in Commands : Invoke(c, k)
         \/ AcquireLock(c) \/ LockTimeout(c) \/ Start(c) \/ EnsureMigrationTable(c)
         \/ loadApplied(c) \/ Plan(c) \/ EndLoop(c) \/ Unregistered(c) \/ DryRun(c)
         \/ Visit(c) \/ Body(c) \/ Return(c) \/ Exit(c) \/ StatementFails(c) \/ Crash(c)
  PROVE  LedgerInv'
<1> USE DEF TypeInv, TypeOK, database, loop
<1>0. Timed(c) /\ Ahead(c) /\ Fresh(c) /\ WellPlaced(c)
  BY DEF LedgerInv, LockInv
<1>1. CASE \/ \E k \in Commands : Invoke(c, k)
           \/ AcquireLock(c) \/ LockTimeout(c) \/ EnsureMigrationTable(c) \/ loadApplied(c)
  BY <1>1, AwayFromLoops DEF Invoke, AcquireLock, LockTimeout, EnsureMigrationTable, loadApplied
<1>2. CASE Start(c)
  BY <1>2, AwayFromLoops DEF Start, Applied, History
<1>3. CASE Return(c) \/ Exit(c) \/ Crash(c)
  BY <1>3, AwayFromLoops DEF Return, Exit, Crash, Forget
<1>4. CASE Unregistered(c) \/ StatementFails(c)
  BY <1>4, AwayFromLoops DEF Unregistered, StatementFails, AfterError
<1>5. CASE Plan(c)
  <2>0. /\ UNCHANGED <<hist, clock, cmd, snap, cur, stamp>> /\ pc'[c] \in {"next", "ensure", "ok"}
        /\ \A d \in Callers \ {c} : pc'[d] = pc[d] /\ phase'[d] = phase[d] /\ todo'[d] = todo[d]
    BY <1>5 DEF Plan
  <2>1. CASE pc'[c] # "next"
    BY <2>0, <2>1, AwayFromLoops
  <2>2. CASE pc'[c] = "next"
    <3>1. Timed(c)'
      BY <1>0, <2>0, <2>2 DEF Timed
    <3>2. ASSUME ~cmd[c].dry, phase'[c] \in {"revert", "back"}
          PROVE  /\ snap[c] = hist
                 /\ \A v \in todo'[c], w \in Rows(hist) \ todo'[c] : Newer(hist, v, w)
      <4>1. phase[c] = phase'[c]
        BY <1>5, <2>2, <3>2 DEF Plan
      <4>2. snap[c] = hist
        BY <1>0, <1>5, <3>2, <4>1 DEF Fresh, Plan, Reverting
      <4>3. CASE phase[c] = "revert"
        <5>1. todo'[c] = LimitApplied(hist, Limit(c))
          BY <1>5, <4>2, <4>3 DEF Plan
        <5> QED
          BY <4>2, <5>1, LimitAppliedIsNewest, LimitType
      <4>4. CASE phase[c] = "back"
        <5> DEFINE target == cmd[c].arg
        <5>1. todo'[c] = {v \in Rows(hist) : target \in Rows(hist) => Newer(hist, v, target)}
          BY <1>5, <2>2, <4>2, <4>4 DEF Plan
        <5> SUFFICES ASSUME NEW v \in todo'[c], NEW w \in Rows(hist) \ todo'[c]
                     PROVE  Newer(hist, v, w)
          BY <4>2
        <5>2. /\ v \in Versions /\ w \in Versions /\ target \in Versions
              /\ Newer(hist, v, target) /\ ~Newer(hist, w, target)
          BY <5>1 DEF Rows
        <5> QED
          BY <5>2, NewerOrder
      <4> QED
        BY <3>2, <4>1, <4>3, <4>4
    <3>3. Ahead(c)'
      BY <2>0, <2>2, <3>2 DEF Ahead, Reverting, Rows, Newer
    <3> QED
      BY <2>0, <3>1, <3>3, LedgerOthersKeep
  <2> QED
    BY <2>1, <2>2
<1>6. CASE EndLoop(c)
  <2>1. CASE pc'[c] \in {"plan", "ensure", "ok"}
    BY <1>6, <2>1, AwayFromLoops DEF EndLoop
  <2>2. CASE phase'[c] = "mark"
    <3>1. Timed(c)' /\ Ahead(c)'
      BY <1>0, <1>6, <2>2 DEF EndLoop, Timed, Ahead, Reverting, Applied
    <3> QED
      BY <1>6, <3>1, LedgerOthersKeep DEF EndLoop
  <2> QED
    BY <1>6, <2>1, <2>2 DEF EndLoop, Applied
<1>7. CASE DryRun(c)
  <2>1. Timed(c)' /\ Ahead(c)'
    BY <1>0, <1>7 DEF DryRun, Timed, Ahead
  <2> QED
    BY <1>7, <2>1, LedgerOthersKeep DEF DryRun
<1>8. CASE Visit(c)
  <2>0. /\ UNCHANGED <<hist, clock, cmd, snap, phase, stamp>> /\ pc[c] = "next"
        /\ pc'[c] \in {"record", "body"} /\ pc' = [pc EXCEPT ![c] = pc'[c]]
    BY <1>8 DEF Visit
  <2>1. Timed(c)'
    BY <1>0, <2>0 DEF Timed
  <2>2. PICK v \in Front(c) : /\ cur' = [cur EXCEPT ![c] = v]
                              /\ todo' = [todo EXCEPT ![c] = @ \ {v}]
    BY <1>8 DEF Visit
  <2>3. ASSUME ~cmd[c].dry, Reverting(c)
        PROVE  /\ \A w \in Rows(hist) \ {v} : Newer(hist, v, w)
               /\ \A u \in todo[c] \ {v}, w \in Rows(hist) \ todo[c] : Newer(hist, u, w)
    <3>1. v \in todo[c] /\ todo[c] \subseteq Rows(hist)
      BY <1>0, <2>0, <2>3, Selection DEF Fresh
    <3>2. \A w \in todo[c] \ {v} : Newer(snap[c], v, w)
      BY <2>3 DEF Front, Reverting, Inserting
    <3>3. \A w \in todo[c] \ {v} : Newer(hist, v, w)
      BY <1>0, <2>0, <2>3, <3>1, <3>2 DEF Ahead, Newer
    <3> QED
      BY <1>0, <2>0, <2>3, <3>1, <3>3 DEF Ahead
  <2>4. Ahead(c)'
    BY <1>0, <2>0, <2>2, <2>3 DEF Ahead, Reverting, Rows, Newer
  <2> QED
    BY <2>0, <2>1, <2>2, <2>4, LedgerOthersKeep
<1>9. CASE Body(c)
  <2>1. Timed(c)' /\ Ahead(c)'
    BY <1>0, <1>9 DEF Body, Timed, Ahead, Reverting, Rows, Newer
  <2> QED
    BY <1>9, <2>1, LedgerOthersKeep DEF Body
<1> QED
  BY <1>1, <1>2, <1>3, <1>4, <1>5, <1>6, <1>7, <1>8, <1>9

\* While one caller works, nobody else has rows to revert or to commit.
LEMMA OthersHaveNothingInHand ==
  ASSUME TypeInv, LockInv, NEW c \in Callers, Working(c), NEW d \in Callers \ {c}
  PROVE  /\ pc[d] # "commit"
         /\ ~cmd[d].dry /\ Reverting(d) => pc[d] \notin {"next", "body", "record", "commit"}
<1>1. ~Working(d)
  BY DEF LockInv, Exclusive, Alone
<1>2. cmd[d].op \in WriteOps \cup ReadOps /\ WellPlaced(d)
  BY DEF LockInv, TypeInv, TypeOK, Command
<1> QED
  BY <1>1, <1>2 DEF Working, WellPlaced, Reverting

\* The steps that write rows.
LEMMA WritingLedgerInv ==
  ASSUME TypeInv, LockInv, RecordedInv, LedgerInv, Transactional, NEW c \in Callers,
         Record(c) \/ Commit(c) \/ CommitFails(c)
  PROVE  LedgerInv'
<1> USE DEF TypeInv, TypeOK, loop
<1>0. /\ WellPlaced(c) /\ KnownInHand(c) /\ Timed(c) /\ Ahead(c) /\ Fresh(c) /\ ReadyToCommit(c)
      /\ cmd[c] \in Command
      /\ pc[c] \in {"record", "commit"} /\ pc'[c] \in {"next", "commit", "failed"}
      /\ UNCHANGED <<cmd, phase, snap, todo, cur, clock>>
      /\ \A d \in Callers \ {c} : pc'[d] = pc[d] /\ stamp'[d] = stamp[d]
  <2>1. AfterRecord(c) \in {"failed", "next", "commit"}
    BY DEF AfterRecord, Refused, Marking, Inserting
  <2> QED
    BY <2>1 DEF LockInv, LedgerInv, RecordedInv, CommitInv, Record, Commit, CommitFails
<1>1. Working(c)
  BY <1>0 DEF Working, WellPlaced, Command
<1>2. clock \in Nat /\ cur[c] \in Versions /\ \A v \in Versions : hist[v] \in Nat
  BY <1>0 DEF KnownInHand
<1>3. hist' \in [Versions -> Nat] /\ \A v \in Versions : hist'[v] <= clock
  <2>1. hist' = hist \/ \E t \in Nat : t <= clock /\ hist' = [hist EXCEPT ![cur[c]] = t]
    <3>1. CASE Record(c)
      <4>1. stamp'[c] \in Nat /\ stamp'[c] <= clock
        BY <1>2, <3>1 DEF Record
      <4>2. hist' = hist \/ hist' = [hist EXCEPT ![cur[c]] = stamp'[c]]
        BY <3>1 DEF Record
      <4> QED
        BY <4>1, <4>2
    <3>2. CASE Commit(c) \/ CommitFails(c)
      BY <1>0, <3>2 DEF Commit, CommitFails, Publish, Timed
    <3> QED
      BY <3>1, <3>2
  <2> QED
    BY <1>2, <2>1 DEF LedgerInv
<1>4. \A d \in Callers \ {c} : Timed(d)' /\ Ahead(d)'
  BY <1>0, <1>1, OthersHaveNothingInHand DEF LedgerInv, Timed, Ahead, Reverting
<1>5. Timed(c)'
  <2>1. CASE Record(c)
    <3>1. stamp'[c] = IF Inserting(c) THEN clock ELSE 0
      BY <2>1 DEF Record
    <3> QED
      BY <1>0, <1>2, <1>3, <3>1 DEF Timed, Inserting
  <2>2. CASE Commit(c) \/ CommitFails(c)
    BY <1>0, <2>2 DEF Commit, CommitFails, Timed
  <2> QED
    BY <2>1, <2>2
<1>6. Ahead(c)'
  <2> SUFFICES ASSUME Reverting(c), ~cmd[c].dry
               PROVE  Ahead(c)'
    BY <1>0 DEF Ahead, Reverting
  <2>1. CASE Record(c)
    <3>1. UNCHANGED hist /\ pc'[c] \in {"commit", "failed"}
      BY <2>1 DEF Record, Autocommit, AfterRecord, Refused, Marking, Reverting, Inserting
    <3> QED
      BY <1>0, <2>1, <3>1 DEF Record, Ahead, Reverting, Rows, Newer
  <2>2. CASE Commit(c)
    <3>1. hist' = [hist EXCEPT ![cur[c]] = 0] /\ pc'[c] = "next"
      BY <1>0, <2>2 DEF Commit, Publish, ReadyToCommit, Reverting, Inserting
    <3>2. Rows(hist') = Rows(hist) \ {cur[c]} /\ \A v \in Rows(hist') : hist'[v] = hist[v]
      BY <1>2, <3>1 DEF Rows
    <3>3. todo[c] \subseteq Rows(hist) \ {cur[c]}
      BY <1>0, <2>2 DEF Commit, Fresh
    <3> QED
      <4>1. pc[c] = "commit" /\ UNCHANGED <<snap, todo>>
        BY <1>0, <2>2 DEF Commit
      <4>2. \A v \in Rows(hist') : snap'[c][v] = hist'[v]
        BY <1>0, <3>2, <4>1 DEF Ahead
      <4>3. ASSUME NEW v \in todo'[c], NEW w \in Rows(hist') \ todo'[c]
            PROVE  Newer(hist', v, w)
        <5>1. v \in Rows(hist') /\ w \in Rows(hist) \ (todo[c] \cup {cur[c]})
          BY <3>2, <3>3, <4>1, <4>3
        <5>2. Newer(hist, v, w)
          BY <1>0, <4>1, <4>3, <5>1 DEF Ahead
        <5> QED
          BY <3>2, <4>3, <5>1, <5>2 DEF Newer
      <4> QED
        BY <3>1, <4>2, <4>3 DEF Ahead
  <2>3. CASE CommitFails(c)
    BY <1>0, <2>3 DEF CommitFails, Ahead
  <2> QED
    BY <2>1, <2>2, <2>3
<1> QED
  BY <1>0, <1>3, <1>4, <1>5, <1>6 DEF LedgerInv

LEMMA NextLedgerInv ==
  ASSUME TypeInv, LockInv, RecordedInv, LedgerInv, Transactional, [Next]_vars
  PROVE  LedgerInv'
<1>1. CASE UNCHANGED vars \/ Tick
  <2>1. /\ UNCHANGED <<hist, pc, cmd, phase, snap, todo, cur, stamp>>
        /\ clock \in Nat /\ clock' \in Nat /\ clock <= clock'
    BY <1>1 DEF vars, database, loop, Tick, TypeInv, TypeOK
  <2>2. \A v \in Versions : hist[v] \in Nat
    BY DEF TypeInv, TypeOK
  <2>3. \A c \in Callers : stamp[c] \in Nat
    BY DEF TypeInv, TypeOK
  <2>4. \A v \in Versions : hist'[v] <= clock'
    BY <2>1, <2>2 DEF LedgerInv
  <2>5. \A c \in Callers : Timed(c)'
    BY <2>1, <2>3 DEF LedgerInv, Timed, Inserting
  <2>6. \A c \in Callers : Ahead(c)'
    BY <2>1 DEF LedgerInv, Ahead, Reverting, Rows, Newer
  <2> QED
    BY <2>4, <2>5, <2>6 DEF LedgerInv
<1>2. ASSUME NEW c \in Callers, NEW k \in Commands, Invoke(c, k)
      PROVE  LedgerInv'
  BY <1>2, ReadingLedgerInv
<1>3. ASSUME NEW c \in Callers, Step(c) \/ CommitFails(c) \/ StatementFails(c) \/ Crash(c)
      PROVE  LedgerInv'
  BY <1>3, ReadingLedgerInv, WritingLedgerInv DEF Step
<1> QED
  BY <1>1, <1>2, <1>3 DEF Next, Finished

-----------------------------------------------------------------------------
(* The steps of the ledger *)

\* What one step does to the rows and the schema, if it does anything.
LEMMA RowsChange ==
  ASSUME TypeInv, LockInv, RecordedInv, LedgerInv, Transactional, Next,
         ~UNCHANGED <<hist, effect, marked>>
  PROVE  \E c \in Callers :
           /\ cur[c] \in Versions
           /\ \/ /\ Marking(c) /\ marked' = TRUE /\ UNCHANGED effect
                 /\ \E t \in 0..MaxTime : hist' = [hist EXCEPT ![cur[c]] = t]
              \/ /\ hist[cur[c]] = 0 /\ stamp[c] \in 1..MaxTime
                 /\ \A v \in Versions : hist[v] <= stamp[c]
                 /\ hist' = [hist EXCEPT ![cur[c]] = stamp[c]]
                 /\ effect' = [effect EXCEPT ![cur[c]] = @ + BodySteps]
                 /\ UNCHANGED marked
              \/ /\ hist[cur[c]] # 0
                 /\ \A v \in Versions \ {cur[c]} : hist[v] # 0 => Newer(hist, cur[c], v)
                 /\ hist' = [hist EXCEPT ![cur[c]] = 0]
                 /\ effect' = [effect EXCEPT ![cur[c]] = @ - BodySteps]
                 /\ UNCHANGED marked
<1> USE DEF TypeInv, TypeOK
<1>1. PICK c \in Callers : Record(c) \/ ((Commit(c) \/ CommitFails(c)) /\ Publish(c))
  <2>1. \A c \in Callers : \A k \in Commands : ~Invoke(c, k)
    BY QuietActions
  <2>2. PICK c \in Callers : Step(c) \/ CommitFails(c) \/ StatementFails(c) \/ Crash(c)
    BY <2>1 DEF Next, Tick, Finished, vars, database
  <2>3. Record(c) \/ Commit(c) \/ CommitFails(c)
    BY <2>2, QuietActions DEF Step
  <2> QED
    BY <2>3 DEF Commit, CommitFails
<1>2. cur[c] \in Versions /\ pc[c] \in {"record", "commit"}
  BY <1>1 DEF KnownInHand, Record, Commit, CommitFails
<1>3. CASE Record(c)
  <2>1. Marking(c) /\ ~Refused(c)
    BY <1>3 DEF Record, Autocommit
  <2>2. marked' = TRUE /\ UNCHANGED effect /\ hist' = [hist EXCEPT ![cur[c]] = stamp'[c]]
    BY <1>3, <2>1 DEF Record, Autocommit
  <2>3. stamp'[c] \in 0..MaxTime
    BY <1>3, BoundsAssumption DEF Record
  <2> QED
    BY <1>2, <2>1, <2>2, <2>3
<1>4. CASE (Commit(c) \/ CommitFails(c)) /\ Publish(c)
  <2>1. /\ pc[c] = "commit" /\ hist' = [hist EXCEPT ![cur[c]] = stamp[c]]
        /\ effect' = Installed(c, BodySteps) /\ UNCHANGED marked
    BY <1>4 DEF Commit, CommitFails, Publish
  <2>2. ReadyToCommit(c) /\ Timed(c) /\ Ahead(c) /\ Fresh(c) /\ WellPlaced(c)
    BY DEF RecordedInv, CommitInv, LedgerInv, LockInv
  <2>3. CASE Inserting(c)
    <3>1. effect' = [effect EXCEPT ![cur[c]] = @ + BodySteps]
      BY <2>1, <2>3 DEF Installed
    <3>2. hist[cur[c]] = 0 /\ stamp[c] \in 1..MaxTime /\ \A v \in Versions : hist[v] <= stamp[c]
      BY <2>1, <2>2, <2>3, BoundsAssumption DEF ReadyToCommit, Timed
    <3> QED
      BY <1>2, <2>1, <3>1, <3>2
  <2>4. CASE ~Inserting(c)
    <3>1. effect' = [effect EXCEPT ![cur[c]] = @ - BodySteps] /\ stamp[c] = 0
      BY <2>1, <2>2, <2>4 DEF Installed, ReadyToCommit
    <3>2. Reverting(c) /\ ~cmd[c].dry
      BY <2>1, <2>2, <2>4 DEF WellPlaced, Inserting, Reverting
    <3>3. hist[cur[c]] # 0 /\ \A v \in Versions \ {cur[c]} : hist[v] # 0 => Newer(hist, cur[c], v)
      BY <2>1, <2>2, <3>2 DEF Fresh, Ahead, Rows
    <3> QED
      BY <1>2, <2>1, <3>1, <3>3
  <2> QED
    BY <2>3, <2>4
<1> QED
  BY <1>1, <1>3, <1>4

LedgerIInv == TypeInv /\ LockInv /\ RecordedInv /\ LedgerInv

\* What the theorems below share.
LEMMA LedgerInvariant ==
  ASSUME UseLock \/ Alone, Transactional
  PROVE  Spec => []LedgerIInv
<1>1. Init => LedgerIInv
  <2> SUFFICES ASSUME Init PROVE LedgerIInv
    OBVIOUS
  <2>1. TypeInv
    BY InitTypeInv
  <2>2. LockInv
    BY DEF Init, LockInv, Working, WellPlaced, Fresh, NoCommand, ReadOps, WriteOps, Reverting
  <2>3. RecordedInv
    BY BodyStepsAssumption
    DEF Init, RecordedInv, CommitInv, ReadyToCommit, NoUnrecordedSchema, NoRows
  <2>4. LedgerInv
    BY DEF Init, LedgerInv, Timed, Ahead, NoRows
  <2> QED
    BY <2>1, <2>2, <2>3, <2>4 DEF LedgerIInv
<1>2. LedgerIInv /\ [Next]_vars => LedgerIInv'
  BY NextTypeInv, NextLockInv, NextRecorded, NextLedgerInv DEF LedgerIInv
<1> QED
  BY <1>1, <1>2, PTL DEF Spec

\* The commands implement the ledger: under the lock, or with one process, and with
\* transactional DDL, every change of history or schema applies a version in one step
\* and not before the others, reverts the newest in one step, or is an edit by Mark.
THEOREM MigratorImplementsLedger ==
  ASSUME UseLock \/ Alone, Transactional
  PROVE  Spec => ImplementsLedger
<1>1. Init => Ledger!Init
  BY DEF Init, Ledger!Init, NoRows
<1>2. LedgerIInv /\ [Next]_vars => [Ledger!Next]_(Ledger!vars)
  <2> SUFFICES ASSUME LedgerIInv, Next, ~UNCHANGED <<hist, effect, marked>>
               PROVE  Ledger!Next
    BY DEF Ledger!vars, vars, database
  <2>1. PICK c \in Callers :
           /\ cur[c] \in Versions
           /\ \/ /\ Marking(c) /\ marked' = TRUE /\ UNCHANGED effect
                 /\ \E t \in 0..MaxTime : hist' = [hist EXCEPT ![cur[c]] = t]
              \/ /\ hist[cur[c]] = 0 /\ stamp[c] \in 1..MaxTime
                 /\ \A v \in Versions : hist[v] <= stamp[c]
                 /\ hist' = [hist EXCEPT ![cur[c]] = stamp[c]]
                 /\ effect' = [effect EXCEPT ![cur[c]] = @ + BodySteps]
                 /\ UNCHANGED marked
              \/ /\ hist[cur[c]] # 0
                 /\ \A v \in Versions \ {cur[c]} : hist[v] # 0 => Newer(hist, cur[c], v)
                 /\ hist' = [hist EXCEPT ![cur[c]] = 0]
                 /\ effect' = [effect EXCEPT ![cur[c]] = @ - BodySteps]
                 /\ UNCHANGED marked
    BY RowsChange DEF LedgerIInv
  <2>2. CASE Marking(c) /\ marked' = TRUE /\ UNCHANGED effect
             /\ \E t \in 0..MaxTime : hist' = [hist EXCEPT ![cur[c]] = t]
    <3>1. PICK t \in 0..MaxTime : hist' = [hist EXCEPT ![cur[c]] = t]
      BY <2>2
    <3>2. t \in 1..MaxTime \cup {0}
      BY <3>1, BoundsAssumption
    <3>3. Ledger!Edit(cur[c], t)
      BY <2>2, <3>1 DEF Ledger!Edit
    <3> QED
      BY <2>1, <3>2, <3>3 DEF Ledger!Next
  <2>3. CASE hist[cur[c]] = 0 /\ stamp[c] \in 1..MaxTime
             /\ (\A v \in Versions : hist[v] <= stamp[c])
             /\ hist' = [hist EXCEPT ![cur[c]] = stamp[c]]
             /\ effect' = [effect EXCEPT ![cur[c]] = @ + BodySteps]
             /\ UNCHANGED marked
    <3>1. Ledger!Apply(cur[c], stamp[c])
      BY <2>3 DEF Ledger!Apply
    <3> QED
      BY <2>1, <2>3, <3>1 DEF Ledger!Next
  <2>4. CASE hist[cur[c]] # 0
             /\ (\A v \in Versions \ {cur[c]} : hist[v] # 0 => Newer(hist, cur[c], v))
             /\ hist' = [hist EXCEPT ![cur[c]] = 0]
             /\ effect' = [effect EXCEPT ![cur[c]] = @ - BodySteps]
             /\ UNCHANGED marked
    <3>1. \A v \in Versions : hist[v] \in Nat
      BY DEF LedgerIInv, TypeInv, TypeOK
    <3>2. \A v \in Versions \ {cur[c]} :
             hist[v] < hist[cur[c]] \/ (hist[v] = hist[cur[c]] /\ v < cur[c])
      <4> SUFFICES ASSUME NEW v \in Versions \ {cur[c]}
                   PROVE  hist[v] < hist[cur[c]] \/ (hist[v] = hist[cur[c]] /\ v < cur[c])
        OBVIOUS
      <4>1. /\ v \in Nat /\ cur[c] \in Nat /\ hist[v] \in Nat /\ hist[cur[c]] \in Nat
            /\ hist[cur[c]] # 0 /\ (hist[v] # 0 => Newer(hist, cur[c], v))
        BY <2>1, <2>4, <3>1, VersionsAssumption
      <4> QED
        BY <4>1 DEF Newer
    <3>3. Ledger!Revert(cur[c])
      BY <2>4, <3>2 DEF Ledger!Revert
    <3> QED
      BY <2>1, <3>3 DEF Ledger!Next
  <2> QED
    BY <2>1, <2>2, <2>3, <2>4
<1> QED
  BY <1>1, <1>2, LedgerInvariant, PTL DEF Spec, ImplementsLedger, Ledger!Spec

\* No command but Mark takes a row away from under a newer one.
THEOREM RevertsInOrder ==
  ASSUME UseLock \/ Alone, Transactional
  PROVE  Spec => NewestRevertedFirst
<1>1. ASSUME LedgerIInv, [Next]_vars, NEW v \in Versions, hist[v] # 0, hist'[v] = 0,
             \A c \in Callers : ~Marking(c)
      PROVE  \A w \in Versions \ {v} : hist[w] # 0 => Newer(hist, v, w)
  <2>1. Next /\ ~UNCHANGED <<hist, effect, marked>>
    BY <1>1 DEF vars, database
  <2>2. PICK c \in Callers :
           /\ cur[c] \in Versions
           /\ \/ stamp[c] \in 1..MaxTime /\ hist' = [hist EXCEPT ![cur[c]] = stamp[c]]
              \/ /\ \A w \in Versions \ {cur[c]} : hist[w] # 0 => Newer(hist, cur[c], w)
                 /\ hist' = [hist EXCEPT ![cur[c]] = 0]
    BY <1>1, <2>1, RowsChange DEF LedgerIInv
  <2>3. hist \in [Versions -> Nat]
    BY <1>1 DEF LedgerIInv, TypeInv, TypeOK
  <2>4. v = cur[c] /\ ~(stamp[c] \in 1..MaxTime /\ hist' = [hist EXCEPT ![cur[c]] = stamp[c]])
    BY <1>1, <2>2, <2>3
  <2> QED
    BY <2>2, <2>4
<1>2. LedgerIInv /\ [Next]_vars
        => [\A v \in Versions :
              hist[v] # 0 /\ hist'[v] = 0 /\ (\A c \in Callers : ~Marking(c))
                => \A w \in Versions \ {v} : hist[w] # 0 => Newer(hist, v, w)]_vars
  BY <1>1
<1> QED
  BY <1>2, LedgerInvariant, PTL DEF Spec, NewestRevertedFirst

-----------------------------------------------------------------------------
(* The first n elements of an ordered set *)

\* R orders S: a set of pairs, the smaller first.
Orders(R, S) ==
  /\ \A u, v, w \in S : <<u, v>> \in R /\ <<v, w>> \in R => <<u, w>> \in R
  /\ \A u, v \in S : u = v \/ <<u, v>> \in R \/ <<v, u>> \in R
  /\ \A v \in S : <<v, v>> \notin R

Below(R, S, v) == {w \in S : <<w, v>> \in R}
First(R, S, n) == {v \in S : Cardinality(Below(R, S, v)) < n}

\* A finite ordered set has a first element.
LEMMA FirstElement ==
  ASSUME NEW R, NEW S, IsFiniteSet(S), Orders(R, S), NEW T \in SUBSET S, T # {}
  PROVE  \E m \in T : \A w \in T \ {m} : <<m, w>> \in R
<1> DEFINE B == {Below(R, S, v) : v \in T}
<1>1. IsWellFoundedOn(StrictSubsetOrdering(S), SUBSET S)
  BY FS_StrictSubsetOrderingWellFounded, FS_FiniteSubsetsOfFinite
<1>2. B \subseteq SUBSET S /\ B # {}
  BY DEF Below
<1>3. PICK b \in B : \A a \in B : <<a, b>> \notin StrictSubsetOrdering(S)
  <2> HIDE DEF B
  <2> QED
    BY <1>1, <1>2, WFMin
<1>4. PICK m \in T : b = Below(R, S, m)
  OBVIOUS
<1>5. ASSUME NEW w \in T, <<w, m>> \in R PROVE FALSE
  <2>1. Below(R, S, w) \subseteq Below(R, S, m)
    BY <1>5 DEF Below, Orders
  <2>2. w \in Below(R, S, m) /\ w \notin Below(R, S, w)
    BY <1>5 DEF Below, Orders
  <2>3. <<Below(R, S, w), b>> \in StrictSubsetOrdering(S)
    BY <1>2, <1>4, <2>1, <2>2 DEF StrictSubsetOrdering
  <2> QED
    BY <1>3, <2>3
<1> QED
  BY <1>5 DEF Orders

LEMMA LastElement ==
  ASSUME NEW R, NEW S, IsFiniteSet(S), Orders(R, S), NEW T \in SUBSET S, T # {}
  PROVE  \E m \in T : \A w \in T \ {m} : <<w, m>> \in R
<1> DEFINE Q == {p \in S \X S : <<p[2], p[1]>> \in R}
<1>1. \A v, w \in S : <<v, w>> \in Q <=> <<w, v>> \in R
  OBVIOUS
<1> HIDE DEF Q
<1>2. Orders(Q, S)
  BY <1>1 DEF Orders
<1> QED
  BY <1>1, <1>2, FirstElement

\* Cutting an ordered set after its first n elements leaves the first n, or all of them.
LEMMA FirstOnes ==
  ASSUME NEW R, NEW S, IsFiniteSet(S), Orders(R, S), NEW n \in Nat \ {0},
         NEW L, L = First(R, S, n)
  PROVE  /\ IsFiniteSet(L) /\ Cardinality(L) <= n
         /\ L # S => Cardinality(L) = n
         /\ \A v \in L, w \in S \ L : <<v, w>> \in R
<1>0. L \in SUBSET S /\ \A v \in S : v \in L <=> Cardinality(Below(R, S, v)) < n
  BY DEF First
<1>1. IsFiniteSet(L) /\ Cardinality(L) \in Nat /\ L \subseteq S
  BY <1>0, FS_Subset, FS_CardinalityType
<1>2. \A v \in S : /\ Below(R, S, v) \in SUBSET S
                   /\ IsFiniteSet(Below(R, S, v)) /\ Cardinality(Below(R, S, v)) \in Nat
  <2>1. \A v : Below(R, S, v) \in SUBSET S
    BY DEF Below
  <2> QED
    BY <2>1, FS_Subset, FS_CardinalityType
<1>3. Cardinality(L) <= n
  <2>1. CASE L = {}
    BY <2>1, FS_EmptySet
  <2>2. CASE L # {}
    <3>1. PICK m \in L : \A w \in L \ {m} : <<w, m>> \in R
      BY <1>1, <2>2, LastElement
    <3>2. m \in S /\ Cardinality(Below(R, S, m)) < n
      BY <1>0
    <3>3. L \in SUBSET (Below(R, S, m) \cup {m})
      BY <1>1, <3>1 DEF Below
    <3>3a. IsFiniteSet(Below(R, S, m)) /\ m \notin Below(R, S, m)
      BY <1>2, <3>2 DEF Below, Orders
    <3>4. /\ IsFiniteSet(Below(R, S, m) \cup {m})
          /\ Cardinality(Below(R, S, m) \cup {m}) = Cardinality(Below(R, S, m)) + 1
      BY <3>3a, FS_AddElement
    <3>5. Cardinality(L) <= Cardinality(Below(R, S, m) \cup {m})
      BY <3>3, <3>4, FS_Subset
    <3>6. Cardinality(Below(R, S, m) \cup {m}) \in Nat
      BY <3>4, FS_CardinalityType
    <3> QED
      BY <1>1, <1>2, <3>2, <3>4, <3>5, <3>6
  <2> QED
    BY <2>1, <2>2
<1>4. L # S => Cardinality(L) >= n
  <2> SUFFICES ASSUME L # S PROVE Cardinality(L) >= n
    OBVIOUS
  <2> DEFINE T == S \ L
  <2>0. T \in SUBSET S /\ T # {}
    BY <1>1
  <2>1. PICK m \in T : \A w \in T \ {m} : <<m, w>> \in R
    <3> HIDE DEF T
    <3> QED
      BY <2>0, FirstElement
  <2>2. Cardinality(Below(R, S, m)) >= n
    BY <1>0, <1>2, <2>1
  <2>3. Below(R, S, m) \in SUBSET L
    BY <2>1 DEF Below, Orders
  <2>4. Cardinality(Below(R, S, m)) <= Cardinality(L)
    BY <1>1, <2>3, FS_Subset
  <2> QED
    BY <1>1, <1>2, <2>1, <2>2, <2>4
<1>5. ASSUME NEW v \in L, NEW w \in S \ L PROVE <<v, w>> \in R
  <2> SUFFICES ASSUME <<w, v>> \in R PROVE FALSE
    BY <1>0 DEF Orders
  <2>1. Below(R, S, w) \in SUBSET Below(R, S, v)
    BY <1>0 DEF Below, Orders
  <2>2. Cardinality(Below(R, S, w)) <= Cardinality(Below(R, S, v))
    BY <1>0, <1>2, <2>1, FS_Subset
  <2>3. v \in S /\ w \in S /\ Cardinality(Below(R, S, v)) < n /\ ~(Cardinality(Below(R, S, w)) < n)
    BY <1>0
  <2> QED
    BY <1>2, <2>2, <2>3
<1> QED
  BY <1>1, <1>3, <1>4, <1>5

-----------------------------------------------------------------------------
(* What the limits leave *)

\* limitMigrations: the first n pending ones, or all of them.
LEMMA LimitedPending ==
  ASSUME NEW P \in SUBSET Versions, NEW n \in Nat \ {0}, NEW L, L = LimitMigrations(P, n)
  PROVE  /\ IsFiniteSet(L) /\ Cardinality(L) <= n
         /\ L # P => Cardinality(L) = n
         /\ \A v \in L, w \in P \ L : v < w
<1> DEFINE R == {p \in Nat \X Nat : p[1] < p[2]}
<1>1. IsFiniteSet(P) /\ P \subseteq Nat
  BY VersionsAssumption, FS_Subset
<1>2. \A v, w \in P : <<v, w>> \in R <=> v < w
  BY <1>1
<1>3. \A v \in P : Below(R, P, v) = {w \in P : w < v}
  BY <1>2 DEF Below
<1> HIDE DEF R
<1>4. Orders(R, P)
  BY <1>1, <1>2 DEF Orders
<1>5. L = First(R, P, n)
  BY <1>3 DEF First, LimitMigrations
<1>6. /\ IsFiniteSet(L) /\ Cardinality(L) <= n
      /\ L # P => Cardinality(L) = n
      /\ \A v \in L, w \in P \ L : <<v, w>> \in R
  BY <1>1, <1>4, <1>5, FirstOnes
<1> QED
  BY <1>2, <1>5, <1>6 DEF First

\* limitApplied: the n newest rows, or all of them.
LEMMA LimitedRows ==
  ASSUME NEW h \in [Versions -> Nat], NEW n \in Nat \ {0}, NEW L, L = LimitApplied(h, n),
         L # Rows(h)
  PROVE  Cardinality(L) = n
<1> DEFINE R == {p \in Versions \X Versions : Newer(h, p[1], p[2])}
<1>1. IsFiniteSet(Rows(h)) /\ Rows(h) \subseteq Versions
  BY VersionsAssumption, FS_Subset DEF Rows
<1>2. \A v, w \in Rows(h) : <<v, w>> \in R <=> Newer(h, v, w)
  BY <1>1
<1>3. \A v \in Rows(h) : Below(R, Rows(h), v) = {w \in Rows(h) : Newer(h, w, v)}
  BY <1>2 DEF Below
<1> HIDE DEF R
<1>4. Orders(R, Rows(h))
  <2>1. \A u, v, w \in Rows(h) : <<u, v>> \in R /\ <<v, w>> \in R => <<u, w>> \in R
    BY <1>1, <1>2, NewerOrder
  <2>2. \A u, v \in Rows(h) : u = v \/ <<u, v>> \in R \/ <<v, u>> \in R
    BY <1>1, <1>2, NewerOrder
  <2>3. \A v \in Rows(h) : <<v, v>> \notin R
    BY <1>1, <1>2, NewerOrder
  <2> QED
    BY <2>1, <2>2, <2>3 DEF Orders
<1>5. L = First(R, Rows(h), n)
  BY <1>3 DEF First, LimitApplied
<1> QED
  BY <1>1, <1>4, <1>5, FirstOnes

-----------------------------------------------------------------------------
(* The invariant *)

\* A command that changes the history: none of the others, and not a dry run.
Writing(c) == ~cmd[c].dry /\ cmd[c].op \in WriteOps

Reads == {"ensure", "load", "plan"}
Loops == {"next", "body", "record", "commit", "ok"}

\* What the loop has still to do, the version in hand included.
InHand(c) == IF pc[c] \in {"body", "record", "commit"} THEN {cur[c]} ELSE {}
Left(c) == todo[c] \cup InHand(c)

\* The loops of a command.
Routes(k) ==
  CASE k.op = "up" -> {"apply"}
    [] k.op = "down" \/ (k.op = "to" /\ k.arg = 0) -> {"revert"}
    [] k.op = "redo" -> {"revert", "apply"}
    [] k.op = "to" /\ k.arg # 0 -> {"to", "apply", "back"}
    [] OTHER -> {"unmark", "mark"}

\* Where a command is on its route.
Routed(c) ==
  /\ pc[c] \in Reads \cup Loops => phase[c] \in Routes(cmd[c])
  /\ pc[c] \in Loops => phase[c] # "to"
  /\ pc[c] \in Reads => phase[c] # "mark" /\ (cmd[c].op = "to" => phase[c] # "apply")
  /\ pc[c] \in Reads \cup Loops /\ cmd[c].op = "to" => cmd[c].arg \in Registered[c] \cup {0}
  /\ pc[c] \in Loops /\ phase[c] = "mark" => cmd[c].arg # 0
  /\ pc[c] = "ok" => /\ todo[c] = {}
                     /\ ~(cmd[c].op = "redo" /\ phase[c] = "revert")
                     /\ ~(phase[c] = "unmark" /\ cmd[c].arg # 0)

\* A loop starts from the rows as they are, with nothing done but what redo has reverted.
Prepared(c) ==
  /\ pc[c] = "plan" => snap[c] = hist
  /\ pc[c] \in Reads =>
       /\ applied[c] = {} /\ reverted[c] \cap Rows(hist) = {}
       /\ ~(phase[c] = "apply" /\ cmd[c].op = "redo") => reverted[c] = {}
       /\ phase[c] = "back" => cmd[c].arg \in Rows(hist)

\* What a loop was to apply or to revert, of the rows it started from.
ToApply(c) ==
  IF cmd[c].op = "to" THEN {v \in Registered[c] \ Rows(snap[c]) : v <= cmd[c].arg}
  ELSE LimitMigrations(Registered[c] \ Rows(snap[c]), Limit(c))
ToRevert(c) ==
  IF phase[c] = "back" THEN {v \in Rows(snap[c]) : Newer(snap[c], v, cmd[c].arg)}
  ELSE LimitApplied(snap[c], Limit(c))

\* What the loop was to do is done or left, and the rows are those it started from with
\* what is done.
Applying(c) ==
  /\ ToApply(c) = applied[c] \cup Left(c)
  /\ Rows(hist) = Rows(snap[c]) \cup applied[c]
  /\ reverted[c] \cap Rows(snap[c]) = {}
  /\ cmd[c].op = "to" => cmd[c].arg \notin Rows(snap[c])
  /\ cmd[c].op # "redo" => reverted[c] = {}
TakingBack(c) ==
  /\ ToRevert(c) = reverted[c] \cup Left(c)
  /\ Rows(hist) = Rows(snap[c]) \ reverted[c]
  /\ \A v \in Rows(hist) : hist[v] = snap[c][v]
  /\ applied[c] = {}
  /\ phase[c] = "back" => cmd[c].arg \in Rows(snap[c])
Editing(c) ==
  /\ phase[c] = "unmark" => Rows(hist) = Left(c) /\ InHand(c) \cap todo[c] = {}
  /\ phase[c] = "mark" => Rows(hist) \cup Left(c) = {v \in Registered[c] : v <= cmd[c].arg}
OnWay(c) ==
  pc[c] \in Loops => /\ phase[c] = "apply" => Applying(c)
                     /\ Reverting(c) => TakingBack(c)
                     /\ Editing(c)

Deliver(c) ==
  /\ pc[c] \in {"idle", "acquire", "start"} => applied[c] = {} /\ reverted[c] = {}
  /\ Writing(c) => /\ pc[c] = "ok" => Exclusive(c)
                   /\ Routed(c) /\ Prepared(c) /\ OnWay(c)

DeliverInv == \A c \in Callers : Deliver(c)

\* The others do not notice a step of c: it keeps the rows, or c has the lock.
LEMMA OthersDeliver ==
  ASSUME LockInv, DeliverInv, NEW c \in Callers, NEW d \in Callers \ {c},
         UNCHANGED hist \/ Working(c), lock = d => lock' = d,
         pc'[d] = pc[d], cmd'[d] = cmd[d], phase'[d] = phase[d], snap'[d] = snap[d],
         todo'[d] = todo[d], cur'[d] = cur[d], applied'[d] = applied[d], reverted'[d] = reverted[d]
  PROVE  Deliver(d)'
<1>0. Deliver(d)
  BY DEF DeliverInv
<1>1. Writing(d) /\ pc[d] = "ok" => Exclusive(d) /\ Exclusive(d)'
  BY <1>0 DEF Deliver, Exclusive, Alone
<1>2. Writing(d) /\ pc[d] \in Reads \cup Loops => UNCHANGED hist
  <2> SUFFICES ASSUME Writing(d), pc[d] \in Reads \cup Loops, Working(c) PROVE FALSE
    OBVIOUS
  <2>1. Exclusive(c)
    BY DEF LockInv
  <2>2. Exclusive(d)
    BY <1>1 DEF LockInv, Working, Writing, Reads, Loops
  <2> QED
    BY <2>1, <2>2 DEF Exclusive, Alone
<1>3. Writing(d)' <=> Writing(d)
  BY DEF Writing
<1>4. ASSUME Writing(d)
      PROVE  Routed(d)' /\ Prepared(d)' /\ OnWay(d)'
  <2>0. Routed(d) /\ Prepared(d) /\ OnWay(d)
    BY <1>0, <1>4 DEF Deliver
  <2>1. Routed(d)'
    BY <2>0 DEF Routed, Routes
  <2>2. CASE pc[d] \in Reads \cup Loops
    <3>1. UNCHANGED hist
      BY <1>2, <1>4, <2>2
    <3>2. Prepared(d)'
      BY <2>0, <3>1 DEF Prepared, Rows
    <3>3. UNCHANGED <<Left(d), InHand(d), Rows(hist), Rows(snap[d]), Limit(d)>>
      BY <3>1 DEF Left, InHand, Rows, Limit
    <3>4. UNCHANGED <<ToApply(d), ToRevert(d)>>
      BY <3>3 DEF ToApply, ToRevert, LimitApplied, Newer, Rows
    <3>5. OnWay(d)'
      BY <2>0, <3>1, <3>3, <3>4 DEF OnWay, Applying, TakingBack, Editing, Reverting
    <3> QED
      BY <2>1, <3>2, <3>5
  <2>3. CASE pc[d] \notin Reads \cup Loops
    BY <2>1, <2>3 DEF Prepared, OnWay, Reads
  <2> QED
    BY <2>2, <2>3
<1> QED
  BY <1>0, <1>1, <1>3, <1>4 DEF Deliver
-----------------------------------------------------------------------------
(* A caller's own steps *)

\* Before its loops: the lock, the table, the rows.
LEMMA ReadingDeliver ==
  ASSUME TypeInv, LockInv, DeliverInv, NEW c \in Callers,
         \/ \E k \in Commands : Invoke(c, k)
         \/ AcquireLock(c) \/ LockTimeout(c) \/ Start(c) \/ EnsureMigrationTable(c)
         \/ loadApplied(c) \/ Return(c) \/ Exit(c) \/ Crash(c)
  PROVE  Deliver(c)'
<1> USE DEF TypeInv, TypeOK, database, loop, results
<1>0. Deliver(c) /\ cmd[c] \in Command
  BY DEF DeliverInv
<1>1. CASE \E k \in Commands : Invoke(c, k)
  <2>1. /\ pc[c] = "idle" /\ pc'[c] \in {"acquire", "start"}
        /\ UNCHANGED <<applied, reverted>>
    BY <1>1 DEF Invoke
  <2> QED
    BY <1>0, <2>1 DEF Deliver, Routed, Prepared, OnWay, Reads, Loops
<1>2. CASE AcquireLock(c) \/ LockTimeout(c)
  <2>1. /\ pc[c] = "acquire" /\ pc'[c] \in {"start", "failed"}
        /\ UNCHANGED <<applied, reverted>>
    BY <1>2 DEF AcquireLock, LockTimeout
  <2> QED
    BY <1>0, <2>1 DEF Deliver, Routed, Prepared, OnWay, Reads, Loops
<1>3. CASE Start(c)
  <2>1. /\ pc[c] = "start" /\ UNCHANGED <<cmd, applied, reverted>>
        /\ applied[c] = {} /\ reverted[c] = {}
    BY <1>0, <1>3 DEF Start, Deliver
  <2>2. ASSUME Writing(c)
        PROVE  \/ pc'[c] = "failed"
               \/ /\ pc'[c] = "ensure" /\ phase'[c] \in Routes(cmd[c])
                  /\ phase'[c] \notin {"mark", "back"}
                  /\ cmd[c].op = "to" => phase'[c] # "apply" /\ cmd[c].arg \in Registered[c] \cup {0}
    <3>1. /\ cmd[c].op \in {"up", "down", "redo", "to", "mark"} /\ ~cmd[c].dry
          /\ Applied(cmd[c]) = "ensure" /\ History(cmd[c]) = "ensure"
      BY <2>2 DEF Applied, History, Writing, WriteOps
    <3>2. CASE cmd[c].op = "to"
      <4>1. CASE cmd[c].arg = 0
        <5>1. pc'[c] = "failed" \/ (pc'[c] = "ensure" /\ phase'[c] \in {"revert", "to"})
          BY <1>3, <3>1, <3>2 DEF Start
        <5>2. 0 \notin Registered[c]
          BY RegisteredAssumption, VersionsAssumption
        <5>3. pc'[c] = "failed" \/ (pc'[c] = "ensure" /\ phase'[c] = "revert")
          BY <1>3, <3>1, <3>2, <4>1, <5>2 DEF Start
        <5> QED
          BY <3>2, <4>1, <5>3 DEF Routes
      <4>2. CASE cmd[c].arg # 0
        <5>1. \/ pc'[c] = "failed"
              \/ pc'[c] = "ensure" /\ phase'[c] = "to" /\ cmd[c].arg \in Registered[c]
          BY <1>3, <3>1, <3>2, <4>2 DEF Start
        <5> QED
          BY <3>2, <4>2, <5>1 DEF Routes
      <4> QED
        BY <4>1, <4>2
    <3>3. CASE cmd[c].op # "to"
      BY <1>0, <1>3, <3>1, <3>3 DEF Start, Routes
    <3> QED
      BY <3>2, <3>3
  <2>3. Writing(c)' <=> Writing(c)
    BY <2>1 DEF Writing
  <2>4. pc'[c] \in {"ensure", "load", "plan", "ok", "failed"}
    BY <1>3 DEF Start, Applied, History
  <2>5. ASSUME Writing(c) PROVE pc'[c] # "ok" /\ Routed(c)' /\ Prepared(c)' /\ OnWay(c)'
    <3>1. CASE pc'[c] = "failed"
      BY <3>1 DEF Routed, Prepared, OnWay, Reads, Loops
    <3>2. CASE pc'[c] = "ensure"
      <4>1. Routed(c)'
        BY <2>1, <2>2, <2>5, <3>2 DEF Routed, Routes, Reads, Loops
      <4> QED
        BY <2>1, <2>2, <2>5, <3>2, <4>1 DEF Prepared, OnWay, Reads, Loops
    <3> QED
      BY <2>2, <2>5, <3>1, <3>2
  <2> QED
    BY <2>3, <2>4, <2>5 DEF Deliver
<1>4. CASE EnsureMigrationTable(c) \/ loadApplied(c)
  <2>1. /\ pc[c] \in Reads /\ pc'[c] \in {"load", "plan", "failed"}
        /\ UNCHANGED <<hist, cmd, phase, applied, reverted>>
        /\ pc'[c] = "plan" => snap'[c] = hist
    BY <1>4 DEF EnsureMigrationTable, loadApplied, Reads
  <2>2. (Writing(c)' <=> Writing(c)) /\ UNCHANGED <<Rows(hist), Routes(cmd[c])>>
    BY <2>1 DEF Writing, Rows, Routes
  <2>3. ASSUME Writing(c) PROVE Routed(c)' /\ Prepared(c)' /\ OnWay(c)'
    <3>1. Routed(c) /\ Prepared(c)
      BY <1>0, <2>3 DEF Deliver
    <3>2. Routed(c)'
      BY <2>1, <2>2, <3>1 DEF Routed, Reads, Loops
    <3> QED
      BY <2>1, <2>2, <3>1, <3>2 DEF Prepared, OnWay, Reads, Loops
  <2> QED
    BY <2>1, <2>2, <2>3 DEF Deliver
<1>5. CASE Return(c) \/ Exit(c) \/ Crash(c)
  <2>1. /\ pc'[c] = "idle" /\ cmd'[c] = NoCommand /\ applied'[c] = {} /\ reverted'[c] = {}
    BY <1>5 DEF Return, Exit, Crash, Forget
  <2> QED
    BY <2>1 DEF Deliver, Writing, NoCommand, WriteOps
<1> QED
  BY <1>1, <1>2, <1>3, <1>4, <1>5

\* A command that fails has nothing to show.
LEMMA FailingDeliver ==
  ASSUME NEW c \in Callers, pc'[c] \in {"failed", "panicked"}
  PROVE  Deliver(c)'
BY DEF Deliver, Routed, Prepared, OnWay, Reads, Loops

\* A dry run reports, and changes nothing.
LEMMA DryDeliver ==
  ASSUME TypeInv, DeliverInv, NEW c \in Callers, DryRun(c)
  PROVE  Deliver(c)'
BY DEF DryRun, Deliver, Writing

LEMMA PlanDeliver ==
  ASSUME TypeInv, LockInv, DeliverInv, NEW c \in Callers, Plan(c)
  PROVE  Deliver(c)'
<1> USE DEF TypeInv, TypeOK
<1>0. Deliver(c) /\ cmd[c] \in Command
  BY DEF DeliverInv
<1>1. /\ pc[c] = "plan" /\ pc'[c] \in {"next", "ensure", "ok"}
      /\ UNCHANGED <<hist, cmd, snap, applied, reverted>>
      /\ UNCHANGED <<Rows(hist), Rows(snap[c]), Routes(cmd[c])>> /\ (Writing(c)' <=> Writing(c))
  BY DEF Plan, database, results, Rows, Routes, Writing
<1> SUFFICES ASSUME Writing(c)
             PROVE  pc'[c] # "ok" /\ Routed(c)' /\ Prepared(c)' /\ OnWay(c)'
  BY <1>1 DEF Deliver
<1>2. /\ Routed(c) /\ phase[c] \in Routes(cmd[c]) /\ phase[c] # "read"
      /\ snap[c] = hist /\ applied[c] = {} /\ reverted[c] \cap Rows(hist) = {}
      /\ ~(phase[c] = "apply" /\ cmd[c].op = "redo") => reverted[c] = {}
      /\ phase[c] = "back" => cmd[c].arg \in Rows(hist)
      /\ phase[c] = "apply" => cmd[c].op # "to"
      /\ phase[c] # "mark"
      /\ cmd[c].op = "to" => cmd[c].arg \in Registered[c] \cup {0}
      /\ phase[c] \in {"to", "back"} => cmd[c].op = "to" /\ cmd[c].arg # 0
  BY <1>0, <1>1 DEF Deliver, Routed, Prepared, Reads, Routes
<1>3. CASE phase[c] = "to" /\ cmd[c].arg \in Rows(snap[c])
  <2>1. pc'[c] = "ensure" /\ phase'[c] = "back"
    BY <1>3 DEF Plan
  <2>2. Routed(c)'
    BY <1>1, <1>2, <1>3, <2>1 DEF Routed, Routes, Reads, Loops
  <2> QED
    BY <1>1, <1>2, <1>3, <2>1, <2>2 DEF Prepared, OnWay, Reads, Loops
<1>4. CASE ~(phase[c] = "to" /\ cmd[c].arg \in Rows(snap[c]))
  <2>1. /\ pc'[c] = "next" /\ phase'[c] = (IF phase[c] = "to" THEN "apply" ELSE phase[c])
        /\ \A d \in Callers : phase'[d] \in {"none", "read", "apply", "revert", "to", "back",
                                             "unmark", "mark"}
    BY <1>2, <1>4 DEF Plan
  <2>2. Routed(c)' /\ Prepared(c)'
    BY <1>1, <1>2, <2>1 DEF Routed, Prepared, Routes, Reads, Loops
  <2>3. Left(c)' = todo'[c] /\ InHand(c)' = {}
    BY <2>1 DEF Left, InHand
  <2>4. CASE phase[c] = "apply"
    <3>1. todo'[c] = LimitMigrations(Registered[c] \ Rows(snap[c]), Limit(c))
      BY <2>4 DEF Plan
    <3>2. UNCHANGED Limit(c)
      BY <1>1, <2>1, <2>4 DEF Limit
    <3>3. ToApply(c)' = LimitMigrations(Registered[c] \ Rows(snap[c]), Limit(c))
      BY <1>1, <1>2, <2>4, <3>2 DEF ToApply
    <3>4. Applying(c)'
      BY <1>1, <1>2, <2>3, <2>4, <3>1, <3>3 DEF Applying
    <3> QED
      BY <2>1, <2>2, <2>4, <3>4 DEF OnWay, Reverting, Editing
  <2>5. CASE phase[c] = "to"
    <3>1. /\ cmd[c].arg \notin Rows(snap[c])
          /\ todo'[c] = {v \in Registered[c] \ Rows(snap[c]) : v <= cmd[c].arg}
      BY <1>4, <2>5 DEF Plan
    <3>2. ToApply(c)' = todo'[c]
      BY <1>1, <1>2, <2>5, <3>1 DEF ToApply
    <3>3. Applying(c)'
      BY <1>1, <1>2, <2>3, <2>5, <3>1, <3>2 DEF Applying
    <3> QED
      BY <2>1, <2>2, <2>5, <3>3 DEF OnWay, Reverting, Editing
  <2>6. CASE Reverting(c)
    <3>1. todo'[c] = ToRevert(c)
      BY <1>2, <1>4, <2>6 DEF Plan, Reverting, ToRevert
    <3>2. UNCHANGED <<Limit(c), phase[c]>>
      BY <1>1, <2>1, <2>6 DEF Limit, Reverting
    <3>3. UNCHANGED ToRevert(c)
      BY <1>1, <3>2 DEF ToRevert, LimitApplied, Newer
    <3>4. TakingBack(c)'
      <4>1. ToRevert(c)' = reverted'[c] \cup Left(c)'
        BY <1>1, <1>2, <2>3, <2>6, <3>1, <3>3 DEF Reverting
      <4>2. reverted[c] = {} /\ UNCHANGED reverted[c]
        BY <1>1, <1>2, <2>6 DEF Reverting
      <4>3. /\ Rows(hist)' = Rows(snap[c])' \ reverted'[c]
            /\ \A v \in Rows(hist)' : hist'[v] = snap'[c][v]
        BY <1>1, <1>2, <4>2
      <4> QED
        BY <1>1, <1>2, <3>2, <4>1, <4>3 DEF TakingBack
    <3> QED
      BY <2>1, <2>2, <2>6, <3>4 DEF OnWay, Reverting, Editing
  <2>7. CASE phase[c] = "unmark"
    <3>1. todo'[c] = Rows(snap[c])
      BY <2>7 DEF Plan
    <3>2. Editing(c)'
      BY <1>1, <1>2, <2>1, <2>3, <2>7, <3>1 DEF Editing
    <3> QED
      BY <2>1, <2>2, <2>7, <3>2 DEF OnWay, Reverting
  <2> QED
    BY <1>2, <2>4, <2>5, <2>6, <2>7 DEF Routes, Reverting
<1> QED
  BY <1>3, <1>4

\* What a step inside a loop leaves to show: it keeps the command and its loop.
LEMMA LoopDeliver ==
  ASSUME TypeInv, DeliverInv, NEW c \in Callers, pc[c] \in Loops \ {"ok"},
         pc'[c] \in Loops \ {"ok"}, UNCHANGED <<cmd, phase, snap>>,
         Writing(c) => OnWay(c)'
  PROVE  Deliver(c)'
<1>1. Deliver(c) /\ (Writing(c)' <=> Writing(c)) /\ UNCHANGED Routes(cmd[c])
  BY DEF DeliverInv, Writing, Routes
<1>2. ASSUME Writing(c) PROVE Routed(c)' /\ Prepared(c)' /\ OnWay(c)'
  BY <1>1, <1>2 DEF Deliver, Routed, Prepared, Reads, Loops
<1> QED
  BY <1>1, <1>2 DEF Deliver, Loops

\* What was to be done stays the same while a loop runs.
LEMMA SameLoop ==
  ASSUME NEW c \in Callers, UNCHANGED <<cmd, phase, snap>>,
         phase[c] = "apply" => UNCHANGED reverted
  PROVE  /\ UNCHANGED <<Rows(snap[c]), Reverting(c)>>
         /\ phase[c] = "apply" => UNCHANGED ToApply(c)
         /\ Reverting(c) => UNCHANGED ToRevert(c)
<1>1. UNCHANGED <<Rows(snap[c]), Reverting(c)>>
  BY DEF Rows, Reverting
<1>2. phase[c] = "apply" => UNCHANGED Limit(c)
  BY DEF Limit
<1>3. Reverting(c) => UNCHANGED Limit(c)
  BY DEF Limit, Reverting
<1>4. phase[c] = "apply" => UNCHANGED ToApply(c)
  BY <1>1, <1>2 DEF ToApply
<1>5. Reverting(c) => UNCHANGED ToRevert(c)
  BY <1>1, <1>3 DEF ToRevert, LimitApplied, Newer, Rows
<1> QED
  BY <1>1, <1>4, <1>5

\* A step inside a loop that keeps the rows, and takes nothing from what is left.
LEMMA SameLeft ==
  ASSUME TypeInv, DeliverInv, NEW c \in Callers, pc[c] \in Loops \ {"ok"},
         pc'[c] \in Loops \ {"ok"}, UNCHANGED <<hist, cmd, phase, snap, applied, reverted>>,
         Left(c)' = Left(c), phase[c] = "unmark" => InHand(c)' \cap todo'[c] = {}
  PROVE  Deliver(c)'
<1>1. Writing(c) => OnWay(c)
  BY DEF DeliverInv, Deliver
<1>2. UNCHANGED Rows(hist)
  BY DEF Rows
<1>3. /\ UNCHANGED <<Rows(snap[c]), Reverting(c)>>
      /\ phase[c] = "apply" => UNCHANGED ToApply(c)
      /\ Reverting(c) => UNCHANGED ToRevert(c)
  BY SameLoop
<1>4. ASSUME OnWay(c) PROVE OnWay(c)'
  <2>1. phase[c] = "apply" => Applying(c)'
    BY <1>2, <1>3, <1>4 DEF OnWay, Applying
  <2>2. Reverting(c) => TakingBack(c)'
    BY <1>2, <1>3, <1>4 DEF OnWay, TakingBack
  <2>3. Editing(c)'
    BY <1>2, <1>3, <1>4 DEF OnWay, Editing
  <2> QED
    BY <1>3, <2>1, <2>2, <2>3 DEF OnWay
<1> QED
  BY <1>1, <1>4, LoopDeliver

LEMMA VisitDeliver ==
  ASSUME TypeInv, DeliverInv, NEW c \in Callers, Visit(c)
  PROVE  Deliver(c)'
<1> USE DEF TypeInv, TypeOK
<1>1. PICK v \in Front(c) : /\ cur' = [cur EXCEPT ![c] = v]
                            /\ todo' = [todo EXCEPT ![c] = @ \ {v}]
  BY DEF Visit
<1>2. v \in todo[c]
  BY Selection
<1>3. /\ pc[c] = "next" /\ pc'[c] \in {"record", "body"}
      /\ UNCHANGED <<hist, cmd, phase, snap, applied, reverted>>
  BY DEF Visit, database, results
<1>4. InHand(c) = {} /\ InHand(c)' = {v} /\ todo'[c] = todo[c] \ {v}
  BY <1>1, <1>3 DEF InHand
<1>5. Left(c)' = Left(c) /\ InHand(c)' \cap todo'[c] = {}
  BY <1>2, <1>4 DEF Left
<1> QED
  BY <1>3, <1>5, SameLeft DEF Loops

LEMMA BodyDeliver ==
  ASSUME TypeInv, LockInv, DeliverInv, NEW c \in Callers, Body(c)
  PROVE  Deliver(c)'
<1> USE DEF TypeInv, TypeOK
<1>1. /\ pc[c] = "body" /\ pc'[c] \in {"record", "body"}
      /\ UNCHANGED <<hist, cmd, phase, snap, todo, cur, applied, reverted>>
  BY DEF Body, results
<1>2. Deliver(c) /\ WellPlaced(c)
  BY DEF DeliverInv, LockInv
<1>3. Left(c)' = Left(c) /\ InHand(c)' = InHand(c)
  BY <1>1 DEF Left, InHand
<1> QED
  BY <1>1, <1>2, <1>3, SameLeft DEF Loops, WellPlaced

\* The INSERT or DELETE of the row: Mark's is committed at once.
LEMMA RecordDeliver ==
  ASSUME TypeInv, LockInv, DeliverInv, Transactional, NEW c \in Callers, Record(c)
  PROVE  Deliver(c)'
<1> USE DEF TypeInv, TypeOK
<1>0. /\ Deliver(c) /\ WellPlaced(c) /\ KnownInHand(c)
      /\ pc[c] = "record" /\ cur[c] \in Versions /\ InHand(c) = {cur[c]}
      /\ UNCHANGED <<cmd, phase, snap, todo, cur, applied, reverted>>
      /\ pc'[c] = AfterRecord(c)
  BY DEF DeliverInv, LockInv, Record, results, KnownInHand, InHand
<1>1. CASE Refused(c)
  <2>1. pc'[c] = "failed"
    BY <1>0, <1>1 DEF AfterRecord
  <2> QED
    BY <2>1, FailingDeliver
<1>2. CASE ~Refused(c) /\ ~Marking(c)
  <2>1. pc'[c] = "commit" /\ UNCHANGED hist
    BY <1>0, <1>2 DEF Record, AfterRecord, Autocommit
  <2>2. phase[c] \in {"apply", "revert", "back"}
    BY <1>0, <1>2 DEF WellPlaced, Marking
  <2>3. UNCHANGED Left(c)
    BY <1>0, <2>1 DEF Left, InHand
  <2> QED
    BY <1>0, <2>1, <2>2, <2>3, SameLeft DEF Loops
<1>3. CASE ~Refused(c) /\ Marking(c)
  <2>1. /\ pc'[c] = "next" /\ hist' = [hist EXCEPT ![cur[c]] = stamp'[c]]
        /\ stamp'[c] = IF phase[c] = "mark" THEN clock ELSE 0
    BY <1>0, <1>3 DEF Record, AfterRecord, Autocommit, Marking, Inserting
  <2>2. clock # 0
    BY BoundsAssumption
  <2>3. Rows(hist)' = IF phase[c] = "mark" THEN Rows(hist) \cup {cur[c]} ELSE Rows(hist) \ {cur[c]}
    BY <1>0, <2>1, <2>2 DEF Rows
  <2>4. InHand(c)' = {} /\ Left(c)' = todo[c] /\ Left(c) = todo[c] \cup {cur[c]}
    BY <1>0, <2>1 DEF InHand, Left
  <2>5. OnWay(c) => Editing(c)'
    BY <1>0, <2>3, <2>4 DEF OnWay, Editing, Loops
  <2>6. OnWay(c) => OnWay(c)'
    BY <1>0, <1>3, <2>5 DEF OnWay, Marking, Reverting
  <2> QED
    BY <1>0, <2>1, <2>6, LoopDeliver DEF Loops, Deliver
<1> QED
  BY <1>1, <1>2, <1>3

\* COMMIT: what was in hand is done, and the rows show it.
LEMMA CommitDeliver ==
  ASSUME TypeInv, LockInv, RecordedInv, DeliverInv, Transactional, NEW c \in Callers, Commit(c)
  PROVE  Deliver(c)'
<1> USE DEF TypeInv, TypeOK
<1>0. /\ Deliver(c) /\ WellPlaced(c) /\ KnownInHand(c) /\ ReadyToCommit(c)
      /\ pc[c] = "commit" /\ pc'[c] = "next" /\ cur[c] \in Versions
      /\ UNCHANGED <<cmd, phase, snap, todo, cur>>
      /\ hist' = [hist EXCEPT ![cur[c]] = stamp[c]]
      /\ Report(c, cur[c])
  BY DEF DeliverInv, LockInv, RecordedInv, CommitInv, Commit, Publish, loop, KnownInHand
<1>1. Left(c)' = todo[c] /\ Left(c) = todo[c] \cup {cur[c]}
  BY <1>0 DEF InHand, Left
<1>2. CASE phase[c] = "apply"
  <2>1. /\ Rows(hist)' = Rows(hist) \cup {cur[c]}
        /\ applied'[c] = applied[c] \cup {cur[c]} /\ UNCHANGED reverted[c]
    BY <1>0, <1>2 DEF Rows, ReadyToCommit, Inserting, Report, Reverting
  <2>2. UNCHANGED <<Rows(snap[c]), ToApply(c)>>
    <3>1. UNCHANGED <<Rows(snap[c]), Limit(c)>>
      BY <1>0, <2>1 DEF Rows, Limit
    <3> QED
      BY <1>0, <3>1 DEF ToApply
  <2>3. OnWay(c) => Applying(c)'
    BY <1>0, <1>1, <1>2, <2>1, <2>2 DEF OnWay, Applying, Loops
  <2>4. OnWay(c) => OnWay(c)'
    BY <1>0, <1>2, <2>3 DEF OnWay, Reverting, Editing
  <2> QED
    BY <1>0, <2>4, LoopDeliver DEF Loops, Deliver
<1>3. CASE Reverting(c)
  <2>1. /\ Rows(hist)' = Rows(hist) \ {cur[c]} /\ \A v \in Rows(hist)' : hist'[v] = hist[v]
        /\ reverted'[c] = reverted[c] \cup {cur[c]} /\ UNCHANGED applied[c]
    BY <1>0, <1>3 DEF Rows, ReadyToCommit, Inserting, Report, Reverting
  <2>2. UNCHANGED <<Rows(snap[c]), ToRevert(c), Reverting(c)>>
    BY <1>0, <1>3, SameLoop DEF Reverting
  <2>3. OnWay(c) => TakingBack(c)'
    <3> SUFFICES ASSUME TakingBack(c) PROVE TakingBack(c)'
      BY <1>0, <1>3 DEF OnWay, Loops
    <3>1. ToRevert(c)' = reverted'[c] \cup Left(c)'
      BY <1>0, <1>1, <2>1, <2>2 DEF TakingBack
    <3>2. /\ Rows(hist)' = Rows(snap[c])' \ reverted'[c]
          /\ \A v \in Rows(hist)' : hist'[v] = snap'[c][v]
      BY <1>0, <2>1, <2>2 DEF TakingBack
    <3> QED
      BY <1>0, <2>1, <2>2, <3>1, <3>2 DEF TakingBack
  <2>4. OnWay(c) => OnWay(c)'
    BY <1>0, <1>3, <2>2, <2>3 DEF OnWay, Reverting, Editing
  <2> QED
    BY <1>0, <2>4, LoopDeliver DEF Loops, Deliver
<1> QED
  BY <1>0, <1>2, <1>3 DEF WellPlaced, Reverting

\* The end of a loop: Redo goes on with up(), Mark with its INSERTs, the others return.
LEMMA EndLoopDeliver ==
  ASSUME TypeInv, LockInv, DeliverInv, NEW c \in Callers, EndLoop(c)
  PROVE  Deliver(c)'
<1> USE DEF TypeInv, TypeOK
<1>0. /\ Deliver(c) /\ WellPlaced(c) /\ pc[c] = "next" /\ todo[c] = {} /\ Left(c) = {}
      /\ cmd[c] \in Command /\ UNCHANGED <<hist, cmd, lock, applied, reverted>>
      /\ UNCHANGED <<Rows(hist), Routes(cmd[c])>> /\ (Writing(c)' <=> Writing(c))
  BY DEF DeliverInv, LockInv, EndLoop, Left, InHand, results, database, Rows, Routes, Writing
<1>1. CASE cmd[c].op = "redo" /\ phase[c] = "revert"
  <2>1. phase'[c] = "apply" /\ pc'[c] = Applied(cmd[c])
    BY <1>1 DEF EndLoop
  <2>2. CASE cmd[c].dry
    BY <1>0, <2>1, <2>2 DEF Deliver, Writing, Applied
  <2>3. CASE ~cmd[c].dry
    <3>1. pc'[c] = "ensure"
      BY <2>1, <2>3 DEF Applied
    <3>2. Writing(c) => applied[c] = {} /\ reverted[c] \cap Rows(hist) = {}
      BY <1>0, <1>1 DEF Deliver, OnWay, TakingBack, Reverting, Loops
    <3>3. Routed(c)'
      BY <1>0, <1>1, <2>1, <3>1 DEF Routed, Routes, Reads, Loops
    <3>4. Writing(c) => Prepared(c)'
      BY <1>0, <1>1, <2>1, <3>1, <3>2 DEF Prepared
    <3> QED
      BY <1>0, <3>1, <3>3, <3>4 DEF Deliver, OnWay, Loops
  <2> QED
    BY <2>2, <2>3
<1>2. CASE phase[c] = "unmark" /\ cmd[c].arg # 0
  <2>1. /\ phase'[c] = "mark" /\ UNCHANGED <<snap, pc>>
        /\ todo'[c] = {v \in Registered[c] : v <= cmd[c].arg}
    BY <1>2 DEF EndLoop
  <2>2. Left(c)' = todo'[c]
    BY <1>0, <2>1 DEF Left, InHand
  <2>3. Writing(c) => Routed(c)'
    BY <1>0, <1>2, <2>1 DEF Deliver, Routed, Routes, Reads, Loops
  <2>4. Writing(c) => OnWay(c)'
    BY <1>0, <1>2, <2>1, <2>2 DEF Deliver, OnWay, Editing, Reverting, Loops
  <2> QED
    BY <1>0, <2>1, <2>3, <2>4 DEF Deliver, Prepared, Reads
<1>3. CASE ~(cmd[c].op = "redo" /\ phase[c] = "revert") /\ ~(phase[c] = "unmark" /\ cmd[c].arg # 0)
  <2>1. pc'[c] = "ok" /\ UNCHANGED <<phase, snap, todo>>
    BY <1>3 DEF EndLoop
  <2>2. Left(c)' = {} /\ InHand(c)' = {} /\ UNCHANGED <<Rows(snap[c]), Reverting(c)>>
    BY <1>0, <2>1, SameLoop DEF Left, InHand
  <2>3. /\ phase[c] = "apply" => UNCHANGED ToApply(c)
        /\ Reverting(c) => UNCHANGED ToRevert(c)
    BY <1>0, <2>1, SameLoop
  <2>4. ASSUME Writing(c) PROVE Exclusive(c)' /\ Routed(c)' /\ Prepared(c)' /\ OnWay(c)'
    <3>0. Routed(c) /\ OnWay(c) /\ Working(c)
      BY <1>0, <2>4 DEF Deliver, Working, Writing
    <3>1. Exclusive(c)'
      BY <1>0, <3>0 DEF LockInv, Exclusive, Alone
    <3>2. Routed(c)'
      BY <1>0, <1>3, <2>1, <3>0 DEF Routed, Reads, Loops
    <3>3. phase[c] = "apply" => Applying(c)'
      BY <1>0, <2>1, <2>2, <2>3, <3>0 DEF OnWay, Applying, Loops
    <3>4. Reverting(c) => TakingBack(c)'
      BY <1>0, <2>1, <2>2, <2>3, <3>0 DEF OnWay, TakingBack, Loops
    <3>5. Editing(c)'
      BY <1>0, <2>1, <2>2, <3>0 DEF OnWay, Editing, Loops
    <3> QED
      BY <2>1, <2>2, <3>1, <3>2, <3>3, <3>4, <3>5 DEF OnWay, Prepared, Reads
  <2> QED
    BY <1>0, <2>1, <2>4 DEF Deliver
<1> QED
  BY <1>1, <1>2, <1>3
LEMMA OwnDeliver ==
  ASSUME TypeInv, LockInv, RecordedInv, DeliverInv, Transactional, NEW c \in Callers,
         \/ \E k \in Commands : Invoke(c, k)
         \/ Step(c) \/ CommitFails(c) \/ StatementFails(c) \/ Crash(c)
  PROVE  Deliver(c)'
<1>1. CASE Unregistered(c) \/ CommitFails(c) \/ StatementFails(c)
  <2>1. pc'[c] \in {"failed", "panicked"}
    BY <1>1 DEF Unregistered, CommitFails, StatementFails, AfterError, TypeInv, TypeOK
  <2> QED
    BY <2>1, FailingDeliver
<1>2. CASE \/ Plan(c) \/ EndLoop(c) \/ DryRun(c) \/ Visit(c) \/ Body(c) \/ Record(c) \/ Commit(c)
  BY <1>2, PlanDeliver, EndLoopDeliver, DryDeliver, VisitDeliver, BodyDeliver, RecordDeliver,
     CommitDeliver
<1>3. CASE \/ \E k \in Commands : Invoke(c, k)
           \/ AcquireLock(c) \/ LockTimeout(c) \/ Start(c) \/ EnsureMigrationTable(c)
           \/ loadApplied(c) \/ Return(c) \/ Exit(c) \/ Crash(c)
  BY <1>3, ReadingDeliver
<1> QED
  BY <1>1, <1>2, <1>3 DEF Step

\* Nobody steps for another, and only who works writes rows.
LEMMA OnlyItsOwn ==
  ASSUME TypeInv, LockInv, Transactional, NEW c \in Callers,
         \/ \E k \in Commands : Invoke(c, k)
         \/ Step(c) \/ CommitFails(c) \/ StatementFails(c) \/ Crash(c)
  PROVE  /\ UNCHANGED hist \/ Working(c)
         /\ \A d \in Callers \ {c} :
              /\ lock = d => lock' = d
              /\ pc'[d] = pc[d] /\ cmd'[d] = cmd[d] /\ phase'[d] = phase[d] /\ snap'[d] = snap[d]
              /\ todo'[d] = todo[d] /\ cur'[d] = cur[d]
              /\ applied'[d] = applied[d] /\ reverted'[d] = reverted[d]
<1> USE DEF TypeInv, TypeOK, database, loop, results
<1>0. c # NoOne /\ WellPlaced(c) /\ cmd[c] \in Command
  BY NoOneAssumption DEF LockInv
<1>1. CASE \E k \in Commands : Invoke(c, k)
  BY <1>1 DEF Invoke
<1>10. CASE AcquireLock(c) \/ LockTimeout(c)
  BY <1>10, NoOneAssumption DEF AcquireLock, LockTimeout
<1>11. CASE EnsureMigrationTable(c) \/ loadApplied(c)
  BY <1>11 DEF EnsureMigrationTable, loadApplied
<1>2. CASE Start(c)
  BY <1>2 DEF Start, Applied, History
<1>3. CASE Plan(c)
  BY <1>3 DEF Plan
<1>4. CASE EndLoop(c)
  BY <1>4 DEF EndLoop, Applied
<1>5. CASE Unregistered(c) \/ StatementFails(c)
  BY <1>5 DEF Unregistered, StatementFails, AfterError
<1>6. CASE DryRun(c)
  BY <1>6 DEF DryRun, Report
<1>7. CASE Visit(c) \/ Body(c)
  BY <1>7 DEF Visit, Body
<1>8. CASE Return(c) \/ Exit(c) \/ Crash(c)
  BY <1>0, <1>8 DEF Return, Exit, Crash, Forget
<1>9. CASE Record(c) \/ Commit(c) \/ CommitFails(c)
  <2>1. pc[c] \in {"record", "commit"}
    BY <1>9 DEF Record, Commit, CommitFails
  <2>2. Working(c)
    BY <1>0, <2>1 DEF Working, WellPlaced, Command
  <2>3. CASE Record(c)
    BY <2>2, <2>3 DEF Record
  <2>4. CASE Commit(c) \/ CommitFails(c)
    BY <2>2, <2>4 DEF Commit, CommitFails, Report
  <2> QED
    BY <1>9, <2>3, <2>4
<1> QED
  BY <1>1, <1>2, <1>3, <1>4, <1>5, <1>6, <1>7, <1>8, <1>9, <1>10, <1>11 DEF Step

LEMMA NextDeliver ==
  ASSUME TypeInv, LockInv, RecordedInv, DeliverInv, Transactional, [Next]_vars
  PROVE  DeliverInv'
<1>1. CASE UNCHANGED vars \/ Tick
  <2>1. UNCHANGED <<hist, lock, pc, cmd, phase, snap, todo, cur, applied, reverted>>
    BY <1>1 DEF vars, database, loop, results, Tick
  <2>2. ASSUME NEW c \in Callers PROVE Deliver(c)'
    <3>0. Deliver(c)
      BY DEF DeliverInv
    <3>1. UNCHANGED <<Rows(hist), Rows(snap[c]), Left(c), InHand(c), Limit(c), Reverting(c),
                      Exclusive(c), Writing(c), Routes(cmd[c])>>
      BY <2>1 DEF Rows, Left, InHand, Limit, Reverting, Exclusive, Writing, Routes
    <3>2. UNCHANGED <<ToApply(c), ToRevert(c)>>
      BY <2>1, <3>1 DEF ToApply, ToRevert, LimitApplied, Newer
    <3>3. Writing(c) => Routed(c)' /\ Prepared(c)'
      BY <2>1, <3>0, <3>1 DEF Deliver, Routed, Prepared
    <3>4. Writing(c) => OnWay(c)'
      BY <2>1, <3>0, <3>1, <3>2 DEF Deliver, OnWay, Applying, TakingBack, Editing
    <3> QED
      BY <2>1, <3>0, <3>1, <3>3, <3>4 DEF Deliver
  <2> QED
    BY <2>2 DEF DeliverInv
<1>2. ASSUME NEW c \in Callers,
             \/ \E k \in Commands : Invoke(c, k)
             \/ Step(c) \/ CommitFails(c) \/ StatementFails(c) \/ Crash(c)
      PROVE  DeliverInv'
  <2>1. Deliver(c)'
    BY <1>2, OwnDeliver
  <2>2. ASSUME NEW d \in Callers \ {c} PROVE Deliver(d)'
    BY <1>2, OnlyItsOwn, OthersDeliver
  <2> QED
    BY <2>1, <2>2 DEF DeliverInv
<1> QED
  BY <1>1, <1>2 DEF Next, Finished

-----------------------------------------------------------------------------
(* What a command that returns nil has done *)

LEMMA AppliedAsAsked ==
  ASSUME TypeInv, NEW c \in Callers, pc[c] = "ok", Writing(c), Routed(c), OnWay(c),
         phase[c] = "apply"
  PROVE  Delivered(c)
<1> DEFINE rows == Rows(hist)
           P == Registered[c] \ Rows(snap[c])
           n == Limit(c)
<1>1. /\ ToApply(c) = applied[c] /\ rows = Rows(snap[c]) \cup applied[c]
      /\ reverted[c] \cap Rows(snap[c]) = {}
      /\ cmd[c].op = "to" => cmd[c].arg \notin Rows(snap[c])
      /\ cmd[c].op # "redo" => reverted[c] = {}
      /\ cmd[c].op \in {"up", "redo", "to"}
      /\ cmd[c].op = "to" => cmd[c].arg # 0 /\ cmd[c].arg \in Registered[c]
  BY DEF OnWay, Applying, Routed, Routes, Left, InHand, Loops, Writing, WriteOps
<1>2. P \in SUBSET Versions /\ cmd[c].arg \in Nat /\ Registered[c] \ rows = P \ applied[c]
  BY <1>1, RegisteredAssumption DEF TypeInv, TypeOK, Command
<1>3. CASE cmd[c].op = "to"
  <2>1. applied[c] = {v \in P : v <= cmd[c].arg}
    BY <1>1, <1>3 DEF ToApply
  <2>2. cmd[c].arg \in rows
    BY <1>1, <1>2, <1>3, <2>1
  <2>3. \A v \in Registered[c] \ rows : v > cmd[c].arg
    <3>1. \A v \in P : v \in Nat
      BY <1>2, VersionsAssumption
    <3> QED
      BY <1>2, <2>1, <3>1
  <2> QED
    BY <1>1, <1>3, <2>2, <2>3 DEF Delivered
<1>4. CASE cmd[c].op # "to"
  <2>1. applied[c] = LimitMigrations(P, n)
    BY <1>1, <1>4 DEF ToApply
  <2>2. n \in Nat
    BY LimitType
  <2>3. n = 0 => applied[c] = P
    BY <2>1 DEF LimitMigrations
  <2>4. n # 0 => /\ IsFiniteSet(applied[c]) /\ Cardinality(applied[c]) <= n
                 /\ applied[c] # P => Cardinality(applied[c]) = n
                 /\ \A v \in applied[c], w \in P \ applied[c] : v < w
    <3> HIDE DEF P, n
    <3> QED
      BY <1>2, <2>1, <2>2, LimitedPending
  <2>5. CASE cmd[c].op = "up"
    <3>1. n = cmd[c].arg
      BY <2>5 DEF Limit
    <3>2. applied[c] \subseteq P
      BY <2>1 DEF LimitMigrations
    <3>3. cmd[c].arg > 0 /\ Registered[c] \ rows # {} => Cardinality(applied[c]) = cmd[c].arg
      BY <1>2, <2>4, <3>1
    <3>4. \A v \in applied[c], w \in Registered[c] \ rows : v < w
      BY <1>2, <2>3, <2>4, <3>1
    <3> QED
      BY <1>1, <1>2, <2>3, <2>5, <3>1, <3>3, <3>4 DEF Delivered
  <2>6. CASE cmd[c].op = "redo"
    <3> SUFFICES ASSUME reverted[c] # {} PROVE Cardinality(applied[c]) = Cardinality(reverted[c])
      BY <2>6 DEF Delivered
    <3>1. n = Cardinality(reverted[c])
      BY <2>6 DEF Limit
    <3>2. IsFiniteSet(P) /\ reverted[c] \in SUBSET P
      BY <1>1, <1>2, VersionsAssumption, FS_Subset DEF TypeInv, TypeOK
    <3>3. /\ IsFiniteSet(reverted[c]) /\ n <= Cardinality(P) /\ Cardinality(P) \in Nat
      <4> HIDE DEF P, n
      <4> QED
        BY <3>1, <3>2, FS_Subset, FS_CardinalityType
    <3>4. n # 0
      BY <3>1, <3>3, FS_EmptySet
    <3>5. CASE applied[c] = P
      BY <2>2, <2>4, <3>1, <3>3, <3>4, <3>5
    <3>6. CASE applied[c] # P
      BY <2>4, <3>1, <3>4, <3>6
    <3> QED
      BY <3>5, <3>6
  <2> QED
    BY <1>1, <1>4, <2>5, <2>6
<1> QED
  BY <1>3, <1>4

LEMMA RevertedAsAsked ==
  ASSUME TypeInv, NEW c \in Callers, pc[c] = "ok", Writing(c), Routed(c), OnWay(c),
         Reverting(c)
  PROVE  Delivered(c)
<1> DEFINE rows == Rows(hist)
<1>1. /\ ToRevert(c) = reverted[c] /\ rows = Rows(snap[c]) \ reverted[c]
      /\ \A v \in rows : hist[v] = snap[c][v]
      /\ applied[c] = {}
      /\ phase[c] = "back" => /\ cmd[c].arg \in Rows(snap[c])
                              /\ cmd[c].op = "to" /\ cmd[c].arg # 0
      /\ phase[c] = "revert" => \/ cmd[c].op = "down"
                                \/ cmd[c].op = "to" /\ cmd[c].arg = 0
      /\ cmd[c] \in Command /\ snap[c] \in [Versions -> Nat] /\ hist \in [Versions -> Nat]
      /\ rows \subseteq Versions
  BY Selection
  DEF OnWay, TakingBack, Routed, Routes, Left, InHand, Loops, Writing, WriteOps, Reverting,
      TypeInv, TypeOK
<1>2. CASE phase[c] = "back"
  <2> DEFINE t == cmd[c].arg
  <2>1. reverted[c] = {v \in Rows(snap[c]) : Newer(snap[c], v, t)} /\ t \in Versions
    BY <1>1, <1>2 DEF ToRevert, Rows
  <2>2. t \in rows
    BY <1>1, <1>2, <2>1, NewerOrder
  <2>3. ASSUME NEW v \in rows \ {t} PROVE Newer(hist, t, v)
    <3>1. v \in Versions /\ v \in Rows(snap[c]) /\ ~Newer(snap[c], v, t)
      BY <1>1, <2>1
    <3>2. Newer(snap[c], t, v)
      BY <1>1, <2>1, <3>1, NewerOrder
    <3> QED
      BY <1>1, <2>2, <3>2 DEF Newer
  <2> QED
    BY <1>1, <1>2, <2>2, <2>3 DEF Delivered
<1>3. CASE phase[c] = "revert"
  <2>1. reverted[c] = LimitApplied(snap[c], Limit(c)) /\ reverted[c] \subseteq Rows(snap[c])
    BY <1>1, <1>3, Selection DEF ToRevert
  <2>2. Limit(c) = cmd[c].arg /\ Limit(c) \in Nat
    BY <1>1, <1>3, LimitType DEF Limit
  <2>3. Limit(c) = 0 => rows = {}
    BY <1>1, <2>1 DEF LimitApplied
  <2>4. Limit(c) # 0 /\ rows # {} => Cardinality(reverted[c]) = Limit(c)
    BY <1>1, <2>1, <2>2, LimitedRows
  <2> QED
    BY <1>1, <1>3, <2>2, <2>3, <2>4 DEF Delivered
<1> QED
  BY <1>2, <1>3 DEF Reverting

LEMMA MarkedAsAsked ==
  ASSUME TypeInv, NEW c \in Callers, pc[c] = "ok", Writing(c), Routed(c), OnWay(c),
         phase[c] \in {"unmark", "mark"}
  PROVE  Delivered(c)
<1>1. /\ cmd[c].op = "mark" /\ Left(c) = {} /\ cmd[c].arg \in Nat
      /\ phase[c] = "unmark" => cmd[c].arg = 0 /\ Rows(hist) = {}
      /\ phase[c] = "mark" => Rows(hist) = {v \in Registered[c] : v <= cmd[c].arg}
  BY DEF OnWay, Editing, Routed, Routes, Left, InHand, Loops, Writing, WriteOps, TypeInv, TypeOK, Command
<1>2. Rows(hist) = {v \in Registered[c] : v <= cmd[c].arg}
  <2>1. \A v \in Registered[c] : v \in Nat /\ v # 0
    BY RegisteredAssumption, VersionsAssumption
  <2>2. cmd[c].arg = 0 => {v \in Registered[c] : v <= cmd[c].arg} = {}
    BY <2>1
  <2> QED
    BY <1>1, <2>2
<1> QED
  BY <1>1, <1>2 DEF Delivered

\* Under the lock, or with one process, and with transactional DDL: a command that
\* returns nil has done what its argument asks, for any registries, limits, targets and
\* ties of apply_time, and whatever other commands ran, failed or died before or beside it.
THEOREM CommandsDoWhatTheyAsk ==
  ASSUME UseLock \/ Alone, Transactional
  PROVE  Spec => []CommandsDeliver
<1>1. Init => DeliverInv
  BY DEF Init, DeliverInv, Deliver, Writing, NoCommand, WriteOps
<1>2. LedgerIInv /\ DeliverInv /\ [Next]_vars => DeliverInv'
  BY NextDeliver DEF LedgerIInv
<1>3. LedgerIInv /\ DeliverInv => CommandsDeliver
  <2> SUFFICES ASSUME LedgerIInv, DeliverInv, NEW c \in Callers, pc[c] = "ok", ~cmd[c].dry
               PROVE  Delivered(c)
    BY DEF CommandsDeliver
  <2>1. CASE Writing(c)
    <3>1. Routed(c) /\ OnWay(c) /\ phase[c] \in Routes(cmd[c]) /\ phase[c] # "to"
      BY <2>1 DEF DeliverInv, Deliver, Routed, Loops
    <3>2. phase[c] \in {"apply", "unmark", "mark"} \/ Reverting(c)
      BY <3>1 DEF Routes, Reverting
    <3> QED
      BY <2>1, <3>1, <3>2, AppliedAsAsked, RevertedAsAsked, MarkedAsAsked DEF LedgerIInv
  <2>2. CASE ~Writing(c)
    BY <2>2 DEF Writing, WriteOps, Delivered
  <2> QED
    BY <2>1, <2>2
<1> QED
  BY <1>1, <1>2, <1>3, LedgerInvariant, PTL DEF Spec

-----------------------------------------------------------------------------
(* Where Mark may stop *)

\* What MarkStopsBetween says of one caller.
Between(c) ==
  LET rows == Rows(hist)
      read == Rows(snap[c])
      asked == {v \in Registered[c] : v <= cmd[c].arg}
  IN  IF phase[c] = "unmark"
      THEN /\ rows \subseteq read
           /\ \A v \in rows : /\ hist[v] = snap[c][v]
                             /\ \A w \in read \ rows : Newer(snap[c], v, w)
      ELSE /\ rows \subseteq asked
           /\ \A v \in rows, w \in asked \ rows : v < w

\* A Mark keeps the lock until it returns, also when it has failed, and visits the
\* versions in their order: what it has left comes after the one in hand.
MarkedSoFar(c) ==
  /\ pc[c] \in {"idle", "acquire", "start"} => cur[c] = 0 /\ ~Marking(c)
  /\ Marking(c) =>
       /\ cmd[c].op = "mark"
       /\ pc[c] \in Reads => cur[c] = 0
       /\ cmd[c].dry => cur[c] = 0 /\ pc[c] \in {"ok", "failed"}
       /\ ~cmd[c].dry => Exclusive(c)
       /\ pc[c] = "record" => \A v \in todo[c] : IF phase[c] = "unmark"
                                                 THEN Newer(snap[c], v, cur[c]) ELSE cur[c] < v
       /\ pc[c] \in {"next", "record"} \/ cur[c] # 0 => Between(c)

MarkInv == \A c \in Callers : MarkedSoFar(c)

\* A step of c that keeps the rows, and its reading of them.
LEMMA SameBetween ==
  ASSUME NEW c \in Callers, UNCHANGED <<hist, cmd, phase, snap>>
  PROVE  /\ Between(c)' <=> Between(c)
         /\ Marking(c)' <=> Marking(c)
<1>1. UNCHANGED <<Rows(hist), Rows(snap[c])>>
  BY DEF Rows
<1> QED
  BY <1>1 DEF Between, Marking, Newer

LEMMA PlanMarks ==
  ASSUME TypeInv, DeliverInv, MarkInv, NEW c \in Callers, Plan(c)
  PROVE  MarkedSoFar(c)'
<1> USE DEF TypeInv, TypeOK
<1>1. /\ MarkedSoFar(c) /\ Deliver(c) /\ pc[c] = "plan" /\ pc'[c] \in {"next", "ensure", "ok"}
      /\ UNCHANGED <<hist, cmd, snap, cur, lock>>
  BY DEF MarkInv, DeliverInv, Plan, database
<1>2. CASE ~Marking(c)
  <2>1. ~Marking(c)'
    BY <1>2 DEF Plan, Marking
  <2> QED
    BY <1>1, <2>1 DEF MarkedSoFar
<1>3. CASE Marking(c)
  <2>1. /\ Writing(c) /\ cur[c] = 0 /\ cmd[c].op = "mark" /\ ~cmd[c].dry /\ Exclusive(c)
    BY <1>1, <1>3 DEF MarkedSoFar, Reads, Writing, WriteOps
  <2>2. phase[c] = "unmark" /\ snap[c] = hist
    BY <1>1, <1>3, <2>1 DEF Deliver, Routed, Prepared, Reads, Marking
  <2>3. phase'[c] = "unmark" /\ pc'[c] = "next"
    BY <2>2 DEF Plan
  <2>4. Between(c)'
    BY <1>1, <2>2, <2>3 DEF Between, Rows
  <2> QED
    BY <1>1, <2>1, <2>3, <2>4 DEF MarkedSoFar, Marking, Exclusive, Alone
<1> QED
  BY <1>2, <1>3

LEMMA EndLoopMarks ==
  ASSUME TypeInv, DeliverInv, MarkInv, NEW c \in Callers, EndLoop(c)
  PROVE  MarkedSoFar(c)'
<1> USE DEF TypeInv, TypeOK
<1>1. /\ MarkedSoFar(c) /\ Deliver(c) /\ pc[c] = "next" /\ todo[c] = {}
      /\ UNCHANGED <<hist, cmd, cur, lock>>
  BY DEF MarkInv, DeliverInv, EndLoop, database
<1>2. CASE cmd[c].op = "redo" /\ phase[c] = "revert"
  <2>1. phase'[c] = "apply" /\ pc'[c] \in {"plan", "ensure"}
    BY <1>2 DEF EndLoop, Applied
  <2> QED
    BY <2>1 DEF MarkedSoFar, Marking
<1>3. CASE phase[c] = "unmark" /\ cmd[c].arg # 0
  <2>1. phase'[c] = "mark" /\ UNCHANGED <<snap, pc>>
    BY <1>3 DEF EndLoop
  <2>2. Writing(c) /\ cmd[c].op = "mark" /\ ~cmd[c].dry /\ Exclusive(c)
    BY <1>1, <1>3 DEF MarkedSoFar, Marking, Writing, WriteOps
  <2>3. Rows(hist) = {}
    BY <1>1, <1>3, <2>2 DEF Deliver, OnWay, Editing, Loops, Left, InHand
  <2>4. Between(c)'
    BY <1>1, <2>1, <2>3 DEF Between, Rows
  <2> QED
    BY <1>1, <2>1, <2>2, <2>4 DEF MarkedSoFar, Marking, Exclusive, Alone, Reads
<1>4. CASE ~(cmd[c].op = "redo" /\ phase[c] = "revert") /\ ~(phase[c] = "unmark" /\ cmd[c].arg # 0)
  <2>1. pc'[c] = "ok" /\ UNCHANGED <<phase, snap, todo>>
    BY <1>4 DEF EndLoop
  <2>2. (Between(c)' <=> Between(c)) /\ (Marking(c)' <=> Marking(c))
    BY <1>1, <2>1, SameBetween
  <2> QED
    BY <1>1, <2>1, <2>2 DEF MarkedSoFar, Exclusive, Alone, Reads
<1> QED
  BY <1>2, <1>3, <1>4

LEMMA VisitMarks ==
  ASSUME TypeInv, MarkInv, NEW c \in Callers, Visit(c)
  PROVE  MarkedSoFar(c)'
<1> USE DEF TypeInv, TypeOK
<1>1. /\ MarkedSoFar(c) /\ pc[c] = "next" /\ pc'[c] \in {"record", "body"}
      /\ UNCHANGED <<hist, cmd, phase, snap, lock>>
  BY DEF MarkInv, Visit, database
<1>2. PICK v \in Front(c) : /\ cur' = [cur EXCEPT ![c] = v]
                            /\ todo' = [todo EXCEPT ![c] = @ \ {v}]
  BY DEF Visit
<1>3. (Between(c)' <=> Between(c)) /\ (Marking(c)' <=> Marking(c))
  BY <1>1, SameBetween
<1>4. ASSUME Marking(c), NEW w \in todo'[c]
      PROVE  IF phase[c] = "unmark" THEN Newer(snap[c], w, cur'[c]) ELSE cur'[c] < w
  BY <1>2, <1>4 DEF Front, Marking, Inserting, Reverting
<1>5. (\A w \in todo[c] : IF phase[c] = "unmark" THEN Newer(snap[c], w, cur[c]) ELSE cur[c] < w)'
        <=> \A w \in todo'[c] : IF phase[c] = "unmark" THEN Newer(snap[c], w, cur'[c]) ELSE cur'[c] < w
  BY <1>1 DEF Newer
<1>6. Marking(c) => ~cmd[c].dry
  BY <1>1 DEF MarkedSoFar
<1> QED
  BY <1>1, <1>3, <1>4, <1>5, <1>6 DEF MarkedSoFar, Exclusive, Alone, Reads

LEMMA RecordMarks ==
  ASSUME TypeInv, LockInv, DeliverInv, MarkInv, NEW c \in Callers, Record(c)
  PROVE  MarkedSoFar(c)'
<1> USE DEF TypeInv, TypeOK
<1>1. /\ MarkedSoFar(c) /\ Deliver(c) /\ pc[c] = "record" /\ cur[c] \in Versions
      /\ InHand(c) = {cur[c]} /\ UNCHANGED <<cmd, phase, snap, todo, cur, lock>>
      /\ pc'[c] = AfterRecord(c) /\ pc'[c] \in {"failed", "next", "commit"}
  BY DEF MarkInv, DeliverInv, Record, KnownInHand, InHand, AfterRecord
<1>2. CASE ~Marking(c)
  BY <1>1, <1>2 DEF MarkedSoFar, Marking
<1>3. CASE Marking(c)
  <2>1. /\ ~cmd[c].dry /\ cmd[c].op = "mark" /\ Exclusive(c) /\ Between(c)
        /\ \A v \in todo[c] : IF phase[c] = "unmark"
                              THEN Newer(snap[c], v, cur[c]) ELSE cur[c] < v
    BY <1>1, <1>3 DEF MarkedSoFar
  <2>2. Between(c)' => MarkedSoFar(c)'
    BY <1>1, <1>3, <2>1 DEF MarkedSoFar, Marking, Exclusive, Alone, Reads
  <2>3. CASE Refused(c)
    <3>1. UNCHANGED hist
      BY <2>3 DEF Record
    <3> QED
      BY <1>1, <2>1, <2>2, <3>1, SameBetween
  <2>4. CASE ~Refused(c)
    <3>1. /\ hist' = [hist EXCEPT ![cur[c]] = stamp'[c]]
          /\ stamp'[c] = IF phase[c] = "mark" THEN clock ELSE 0
      BY <1>1, <1>3, <2>4 DEF Record, Autocommit, Marking, Inserting
    <3>2. /\ clock # 0
          /\ Rows(hist)' = IF phase[c] = "mark" THEN Rows(hist) \cup {cur[c]}
                           ELSE Rows(hist) \ {cur[c]}
          /\ \A v \in Rows(hist) \ {cur[c]} : hist'[v] = hist[v]
      BY <1>1, <3>1, BoundsAssumption DEF Rows
    <3>3. Rows(snap[c])' = Rows(snap[c])
      BY <1>1 DEF Rows
    <3>4. Editing(c)
      BY <1>1, <2>1 DEF Deliver, OnWay, Writing, WriteOps, Loops
    <3>5. CASE phase[c] = "unmark"
      <4> DEFINE rows == Rows(hist)
                 read == Rows(snap[c])
      <4>1. rows = todo[c] \cup {cur[c]} /\ cur[c] \notin todo[c] /\ Rows(hist)' = todo[c]
        BY <1>1, <3>2, <3>4, <3>5 DEF Editing, Left
      <4>2. /\ rows \subseteq read
            /\ \A v \in rows : /\ hist[v] = snap[c][v]
                              /\ \A w \in read \ rows : Newer(snap[c], v, w)
        BY <2>1, <3>5 DEF Between
      <4>3. ASSUME NEW v \in todo[c]
            PROVE  /\ hist'[v] = snap[c][v]
                   /\ \A w \in read \ todo[c] : Newer(snap[c], v, w)
        <5>1. hist'[v] = snap[c][v]
          BY <3>2, <4>1, <4>2
        <5>2. \A w \in read \ todo[c] : w = cur[c] \/ w \in read \ rows
          BY <4>1
        <5> QED
          BY <2>1, <3>5, <4>1, <4>2, <5>1, <5>2
      <4>4. todo[c] \subseteq read
        BY <4>1, <4>2
      <4> HIDE DEF rows, read
      <4>5. Between(c)'
        BY <1>1, <3>3, <3>5, <4>1, <4>3, <4>4 DEF Between, Newer, read
      <4> QED
        BY <2>2, <4>5
    <3>6. CASE phase[c] = "mark"
      <4> DEFINE rows == Rows(hist)
                 asked == {v \in Registered[c] : v <= cmd[c].arg}
      <4>1. rows \cup todo[c] \cup {cur[c]} = asked
        BY <1>1, <3>4, <3>6 DEF Editing, Left
      <4>2. rows \subseteq asked /\ \A v \in rows, w \in asked \ rows : v < w
        BY <2>1, <3>6 DEF Between
      <4>3. \A v \in rows \cup {cur[c]}, w \in asked \ (rows \cup {cur[c]}) : v < w
        BY <2>1, <3>6, <4>1, <4>2
      <4>4. Rows(hist)' = rows \cup {cur[c]} /\ asked' = asked
        BY <1>1, <3>2, <3>6
      <4>5. Between(c)'
        BY <1>1, <3>6, <4>1, <4>3, <4>4 DEF Between
      <4> QED
        BY <2>2, <4>5
    <3> QED
      BY <1>3, <3>5, <3>6 DEF Marking
  <2> QED
    BY <2>3, <2>4
<1> QED
  BY <1>2, <1>3

LEMMA RestMarks ==
  ASSUME TypeInv, LockInv, MarkInv, NEW c \in Callers,
         \/ \E k \in Commands : Invoke(c, k)
         \/ AcquireLock(c) \/ LockTimeout(c) \/ Start(c) \/ EnsureMigrationTable(c)
         \/ loadApplied(c) \/ Unregistered(c) \/ DryRun(c) \/ Body(c) \/ Commit(c)
         \/ CommitFails(c) \/ StatementFails(c) \/ Return(c) \/ Exit(c) \/ Crash(c)
  PROVE  MarkedSoFar(c)'
<1> USE DEF TypeInv, TypeOK
<1>0. MarkedSoFar(c) /\ WellPlaced(c) /\ (Working(c) => Exclusive(c))
  BY DEF MarkInv, LockInv
<1>1. CASE (\E k \in Commands : Invoke(c, k)) \/ AcquireLock(c) \/ LockTimeout(c)
  BY <1>0, <1>1 DEF Invoke, AcquireLock, LockTimeout, MarkedSoFar, Marking, Locking, loop
<1>2. CASE Start(c)
  <2>1. ~cmd[c].dry /\ cmd[c].op = "mark" => Exclusive(c)
    BY <1>0, <1>2 DEF Start, Working, WriteOps
  <2>2. cur[c] = 0 /\ UNCHANGED <<cur, cmd, lock>>
    BY <1>0, <1>2 DEF Start, MarkedSoFar
  <2>3. phase'[c] \in {"unmark", "mark"} =>
          /\ cmd[c].op = "mark" /\ pc'[c] \in {"ensure", "ok", "failed"}
          /\ cmd[c].dry => pc'[c] \in {"ok", "failed"}
    BY <1>2 DEF Start
  <2>4. pc'[c] \notin {"idle", "acquire", "start"}
    BY <1>2 DEF Start, Applied, History
  <2> QED
    BY <2>1, <2>2, <2>3, <2>4 DEF MarkedSoFar, Marking, Exclusive, Alone, Reads
<1>3. CASE EnsureMigrationTable(c) \/ loadApplied(c)
  <2>1. pc[c] \in Reads /\ pc'[c] \in {"failed", "load", "plan"}
        /\ UNCHANGED <<cmd, phase, cur, lock>>
    BY <1>3 DEF EnsureMigrationTable, loadApplied, Reads, loop
  <2> QED
    BY <1>0, <2>1 DEF MarkedSoFar, Marking, Exclusive, Alone, Reads
<1>4. CASE Unregistered(c) \/ StatementFails(c)
  <2>1. /\ pc[c] \in {"acquire", "ensure", "load", "body", "record", "next"}
        /\ pc'[c] \in {"failed", "panicked"} /\ (Marking(c) => pc'[c] = "failed")
        /\ UNCHANGED <<hist, cmd, phase, snap, todo, cur, lock>>
    BY <1>4 DEF Unregistered, StatementFails, AfterError, database, loop, Marking
  <2>2. (Between(c)' <=> Between(c)) /\ (Marking(c)' <=> Marking(c))
    BY <2>1, SameBetween
  <2> QED
    BY <1>0, <2>1, <2>2 DEF MarkedSoFar, Exclusive, Alone, Reads
<1>5. CASE DryRun(c)
  BY <1>0, <1>5 DEF DryRun, MarkedSoFar, Marking
<1>6. CASE Body(c)
  BY <1>0, <1>6 DEF Body, WellPlaced, MarkedSoFar, Marking
<1>7. CASE Commit(c) \/ CommitFails(c)
  BY <1>0, <1>7 DEF Commit, CommitFails, WellPlaced, MarkedSoFar, Marking, loop
<1>8. CASE Return(c) \/ Exit(c) \/ Crash(c)
  BY <1>8 DEF Return, Exit, Crash, Forget, MarkedSoFar, Marking
<1> QED
  BY <1>1, <1>2, <1>3, <1>4, <1>5, <1>6, <1>7, <1>8

\* Nobody else writes rows while a Mark has the lock.
LEMMA OthersMark ==
  ASSUME LockInv, MarkInv, NEW c \in Callers, NEW d \in Callers \ {c},
         UNCHANGED hist \/ Working(c), lock = d => lock' = d,
         pc'[d] = pc[d], cmd'[d] = cmd[d], phase'[d] = phase[d], snap'[d] = snap[d],
         todo'[d] = todo[d], cur'[d] = cur[d]
  PROVE  MarkedSoFar(d)'
<1>0. MarkedSoFar(d) /\ (Marking(d)' <=> Marking(d))
  BY DEF MarkInv, Marking
<1>1. CASE Marking(d) /\ ~cmd[d].dry
  <2>1. Exclusive(d) /\ ~Alone
    BY <1>0, <1>1 DEF MarkedSoFar, Alone
  <2>2. UNCHANGED hist
    BY <2>1 DEF LockInv, Exclusive
  <2>3. Between(d)' <=> Between(d)
    <3>1. UNCHANGED <<Rows(hist), Rows(snap[d])>>
      BY <2>2 DEF Rows
    <3> QED
      BY <2>2, <3>1 DEF Between, Newer
  <2>4. Exclusive(d)'
    BY <2>1 DEF Exclusive
  <2> QED
    BY <1>0, <1>1, <2>3, <2>4 DEF MarkedSoFar, Newer
<1>2. CASE Marking(d) /\ cmd[d].dry
  BY <1>0, <1>2 DEF MarkedSoFar
<1>3. CASE ~Marking(d)
  BY <1>0, <1>3 DEF MarkedSoFar
<1> QED
  BY <1>1, <1>2, <1>3

LEMMA NextMarks ==
  ASSUME TypeInv, LockInv, DeliverInv, MarkInv, Transactional, [Next]_vars
  PROVE  MarkInv'
<1>1. CASE UNCHANGED vars \/ Tick
  <2>1. UNCHANGED <<hist, lock, pc, cmd, phase, snap, todo, cur>>
    BY <1>1 DEF vars, database, loop, Tick
  <2>2. ASSUME NEW c \in Callers PROVE MarkedSoFar(c)'
    <3>1. (Between(c)' <=> Between(c)) /\ (Marking(c)' <=> Marking(c)) /\ (Exclusive(c)' <=> Exclusive(c))
      BY <2>1, SameBetween DEF Exclusive
    <3> QED
      BY <2>1, <3>1 DEF MarkInv, MarkedSoFar, Newer
  <2> QED
    BY <2>2 DEF MarkInv
<1>2. ASSUME NEW c \in Callers,
             \/ \E k \in Commands : Invoke(c, k)
             \/ Step(c) \/ CommitFails(c) \/ StatementFails(c) \/ Crash(c)
      PROVE  MarkInv'
  <2>1. MarkedSoFar(c)'
    BY <1>2, PlanMarks, EndLoopMarks, VisitMarks, RecordMarks, RestMarks DEF Step
  <2>2. ASSUME NEW d \in Callers \ {c} PROVE MarkedSoFar(d)'
    BY <1>2, OnlyItsOwn, OthersMark
  <2> QED
    BY <2>1, <2>2 DEF MarkInv
<1> QED
  BY <1>1, <1>2 DEF Next, Finished

\* Under the lock, or with one process: wherever Mark stops, the history is the rows it
\* has read without the oldest ones, or the first of the versions it was to leave.
THEOREM MarkStopsOnItsWay ==
  ASSUME UseLock \/ Alone, Transactional
  PROVE  Spec => []MarkStopsBetween
<1>1. Init => DeliverInv /\ MarkInv
  BY DEF Init, DeliverInv, Deliver, Writing, NoCommand, WriteOps, MarkInv, MarkedSoFar, Marking
<1>2. LedgerIInv /\ DeliverInv /\ MarkInv /\ [Next]_vars => DeliverInv' /\ MarkInv'
  BY NextDeliver, NextMarks DEF LedgerIInv
<1>3. MarkInv => MarkStopsBetween
  BY DEF MarkInv, MarkedSoFar, MarkStopsBetween, Between
<1> QED
  BY <1>1, <1>2, <1>3, LedgerInvariant, PTL DEF Spec
=============================================================================
