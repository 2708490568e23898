------------------------------ MODULE LockProofs ------------------------------
(***************************************************************************)
(* What TLAPS proves of MigrationLock, for every set of callers, of pools, *)
(* of connections, of dialects and of faults.                              *)
(***************************************************************************)
EXTENDS MigrationLock, FiniteSetTheorems, TLAPS

-----------------------------------------------------------------------------
(* Typing *)

\* A caller has a connection while its query is under way: an open one of its own
\* pool, within a context that is not done.
Placed ==
  \A c \in Callers :
    /\ at[c] # NoConn <=> pc[c] \in {"asking", "working", "releasing"}
    /\ at[c] # NoConn => at[c] \in open /\ PoolOf[at[c]] = PoolOf[c] /\ c \notin cancelled

PoolType ==
  /\ open \subseteq Conns
  /\ user \in [Conns -> Callers \cup {NoConn}]
  /\ at \in [Callers -> Conns \cup {NoConn}]
  /\ \A c \in Callers, s \in Conns : user[s] = c <=> at[c] = s

ServerType ==
  /\ owner \in Conns \cup {NoConn} /\ depth \in Nat
  /\ owner = NoConn <=> depth = 0
  /\ owner # NoConn => owner \in open
  /\ broken \in BOOLEAN

CallType ==
  /\ pc \in [Callers -> {"idle", "acquire", "asking", "fn", "working", "release",
                         "releasing", "refused", "done"}]
  /\ dialect \in Dialects /\ cancelled \subseteq Callers /\ calls \in Nat

LEMMA TypeParts == TypeOK <=> PoolType /\ ServerType /\ CallType
  BY DEF TypeOK, PoolType, ServerType, CallType

\* A query takes a free connection of the caller's own pool.
LEMMA BorrowKeeps ==
  ASSUME PoolType, ServerType, NEW c \in Callers, at[c] = NoConn, NEW s \in Conns, Borrow(c, s)
  PROVE  /\ PoolType' /\ open \subseteq open'
         /\ at'[c] = s /\ s \in open' /\ PoolOf[s] = PoolOf[c] /\ s # NoConn
         /\ \A d \in Callers \ {c} : at'[d] = at[d]
<1>1. s \notin Callers /\ s # NoConn /\ c # NoConn
  BY PoolsAssumption
<1>2. user[s] = NoConn /\ PoolOf[s] = PoolOf[c]
  BY DEF Borrow, Available
<1>3. user' = [user EXCEPT ![s] = c] /\ at' = [at EXCEPT ![c] = s] /\ open' = open \cup {s}
  BY DEF Borrow
<1>4. \A d \in Callers, t \in Conns : user'[t] = d <=> at'[d] = t
  BY <1>1, <1>2, <1>3, PoolsAssumption DEF PoolType
<1> QED
  BY <1>1, <1>2, <1>3, <1>4 DEF PoolType

LEMMA GiveBackKeeps ==
  ASSUME PoolType, NEW c \in Callers, at[c] # NoConn,
         user' = [user EXCEPT ![at[c]] = NoConn], at' = [at EXCEPT ![c] = NoConn],
         open' \subseteq Conns
  PROVE  /\ PoolType' /\ at'[c] = NoConn
         /\ \A d \in Callers \ {c} : at'[d] = at[d]
<1>1. NoConn \notin Conns /\ NoConn \notin Callers
  BY PoolsAssumption
<1>2. at[c] \in Conns
  BY DEF PoolType
<1>3. \A d \in Callers, t \in Conns : user'[t] = d <=> at'[d] = t
  BY <1>1, <1>2 DEF PoolType
<1> QED
  BY <1>1, <1>2, <1>3 DEF PoolType

LEMMA EndSessionsKeeps ==
  ASSUME ServerType, NEW S, NEW c, EndSessions(S, c)
  PROVE  ServerType'
<1>1. CASE owner \in S
  BY <1>1 DEF EndSessions, ServerType
<1>2. CASE owner \notin S
  BY <1>2 DEF EndSessions, ServerType, server
<1> QED
  BY <1>1, <1>2

LEMMA InitType == Init => TypeOK /\ Placed
<1> SUFFICES ASSUME Init PROVE TypeOK /\ Placed
  OBVIOUS
<1>1. PoolType
  BY PoolsAssumption DEF Init, PoolType
<1>2. ServerType /\ CallType
  BY DEF Init, ServerType, CallType
<1>3. Placed
  BY DEF Init, Placed
<1> QED
  BY <1>1, <1>2, <1>3, TypeParts

LEMMA StepType == TypeOK /\ Placed /\ [Next]_vars => TypeOK' /\ Placed'
<1> SUFFICES ASSUME TypeOK, Placed, [Next]_vars
             PROVE  PoolType' /\ ServerType' /\ CallType' /\ Placed'
  BY TypeParts DEF TypeOK, PoolType, ServerType, CallType
<1>0. PoolType /\ ServerType /\ CallType
  BY TypeParts
<1> USE DEF pool, server
<1>1. ASSUME NEW c \in Callers, Call(c) PROVE PoolType' /\ ServerType' /\ CallType' /\ Placed'
  BY <1>0, <1>1 DEF Call, PoolType, ServerType, CallType, Placed
<1>2. ASSUME NEW c \in Callers, Acquire(c) PROVE PoolType' /\ ServerType' /\ CallType' /\ Placed'
  <2>1. CASE dialect = "sqlite" \/ c \in cancelled
    BY <1>0, <1>2, <2>1 DEF Acquire, PoolType, ServerType, CallType, Placed
  <2>2. CASE ~(dialect = "sqlite" \/ c \in cancelled)
    <3>1. PICK s \in Conns : Borrow(c, s)
      BY <1>2, <2>2 DEF Acquire
    <3>2. at[c] = NoConn
      BY <1>2 DEF Acquire, Placed
    <3>3. /\ PoolType' /\ open \subseteq open'
          /\ at'[c] = s /\ s \in open' /\ PoolOf[s] = PoolOf[c] /\ s # NoConn
      BY <1>0, <3>1, <3>2, BorrowKeeps
    <3>4. \A d \in Callers \ {c} : at'[d] = at[d]
      BY <1>0, <3>1, <3>2, BorrowKeeps
    <3>5. ServerType' /\ CallType'
      BY <1>0, <1>2, <2>2, <3>3 DEF Acquire, ServerType, CallType
    <3>6. Placed'
      BY <1>0, <1>2, <2>2, <3>3, <3>4 DEF Acquire, Placed, CallType
    <3> QED
      BY <3>3, <3>5, <3>6
  <2> QED
    BY <2>1, <2>2
<1>3. ASSUME NEW c \in Callers, Granted(c) \/ NotGranted(c) \/ EndWork(c) \/ Released(c)
      PROVE  PoolType' /\ ServerType' /\ CallType' /\ Placed'
  <2>1. at[c] # NoConn /\ GiveBack(c)
    BY <1>3 DEF Granted, NotGranted, EndWork, Released, Placed
  <2>2. PoolType' /\ at'[c] = NoConn /\ \A d \in Callers \ {c} : at'[d] = at[d]
    BY <1>0, <2>1, GiveBackKeeps DEF GiveBack, PoolType
  <2>3. ServerType'
    <3>1. at[c] \in Conns /\ at[c] # NoConn
      BY <1>0, <2>1 DEF PoolType
    <3>2. CASE Granted(c)
      <4>1. owner' = at[c] /\ depth' = depth + 1 /\ broken' = broken /\ open' = open
        BY <3>2 DEF Granted, GiveBack
      <4>2. at[c] \in open'
        BY <2>1, <4>1 DEF Placed
      <4> QED
        BY <1>0, <3>1, <4>1, <4>2 DEF ServerType
    <3>3. CASE NotGranted(c) \/ EndWork(c)
      BY <1>0, <3>3 DEF NotGranted, EndWork, GiveBack, ServerType
    <3>4. CASE Released(c)
      BY <1>0, <3>1, <3>4 DEF Released, GiveBack, ServerType
    <3> QED
      BY <1>3, <3>2, <3>3, <3>4
  <2>4. CallType'
    BY <1>0, <1>3 DEF Granted, NotGranted, EndWork, Released, CallType
  <2>5. Placed'
    <3>1. open' = open /\ cancelled' = cancelled
      BY <1>3 DEF Granted, NotGranted, EndWork, Released, GiveBack
    <3>2. pc' = [pc EXCEPT ![c] = pc'[c]] /\ pc'[c] \notin {"asking", "working", "releasing"}
      BY <1>0, <1>3 DEF Granted, NotGranted, EndWork, Released, CallType
    <3> QED
      BY <1>0, <2>2, <3>1, <3>2 DEF Placed, CallType
  <2> QED
    BY <2>2, <2>3, <2>4, <2>5
<1>4. ASSUME NEW c \in Callers, Work(c) \/ Release(c) PROVE PoolType' /\ ServerType' /\ CallType' /\ Placed'
  <2>1. CASE pc[c] = "release" /\ c \in cancelled
    BY <1>0, <1>4, <2>1 DEF Work, Release, PoolType, ServerType, CallType, Placed
  <2>2. CASE ~(pc[c] = "release" /\ c \in cancelled)
    <3>1. PICK s \in Conns : Borrow(c, s)
      BY <1>4, <2>2 DEF Work, Release
    <3>2. at[c] = NoConn /\ c \notin cancelled
      BY <1>4, <2>2 DEF Work, Release, Placed
    <3>3. /\ PoolType' /\ open \subseteq open'
          /\ at'[c] = s /\ s \in open' /\ PoolOf[s] = PoolOf[c] /\ s # NoConn
      BY <1>0, <3>1, <3>2, BorrowKeeps
    <3>4. \A d \in Callers \ {c} : at'[d] = at[d]
      BY <1>0, <3>1, <3>2, BorrowKeeps
    <3>5. ServerType' /\ CallType'
      BY <1>0, <1>4, <2>2, <3>3 DEF Work, Release, ServerType, CallType
    <3>6. Placed'
      BY <1>0, <1>4, <2>2, <3>2, <3>3, <3>4 DEF Work, Release, Placed, CallType
    <3> QED
      BY <3>3, <3>5, <3>6
  <2> QED
    BY <2>1, <2>2
<1>5. ASSUME NEW c \in Callers, SkipWork(c) \/ Panic(c) PROVE PoolType' /\ ServerType' /\ CallType' /\ Placed'
  BY <1>0, <1>5 DEF SkipWork, Panic, PoolType, ServerType, CallType, Placed
<1>6. ASSUME NEW c \in Callers, Return(c) PROVE PoolType' /\ ServerType' /\ CallType' /\ Placed'
  <2>1. CallType'
    BY <1>0, <1>6 DEF Return, CallType
  <2>2. CASE PoolOf[c] \in Cli
    <3> DEFINE S == {s \in Conns : PoolOf[s] = PoolOf[c]}
    <3>1. EndSessions(S, c) /\ user' = user /\ at' = at
      BY <1>6, <2>2 DEF Return
    <3>2. ServerType'
      BY <1>0, <3>1, EndSessionsKeeps
    <3>3. open' = open \ S
      BY <3>1 DEF EndSessions
    <3>4. PoolType'
      BY <1>0, <3>1, <3>3 DEF PoolType
    <3>5. \A d \in Callers : at[d] # NoConn => at[d] \notin S
      BY <1>6, <2>2, CliAssumption DEF Return, Placed
    <3>6. Placed'
      BY <1>0, <1>6, <3>1, <3>3, <3>5 DEF Return, Placed, CallType
    <3> QED
      BY <2>1, <3>2, <3>4, <3>6
  <2>3. CASE PoolOf[c] \notin Cli
    BY <1>0, <1>6, <2>3 DEF Return, PoolType, ServerType, CallType, Placed
  <2> QED
    BY <2>2, <2>3
<1>7. ASSUME NEW c \in Callers, Cancel(c) PROVE PoolType' /\ ServerType' /\ CallType' /\ Placed'
  <2>1. CallType'
    BY <1>0, <1>7 DEF Cancel, CallType
  <2>2. CASE at[c] = NoConn
    BY <1>0, <1>7, <2>1, <2>2 DEF Cancel, PoolType, ServerType, Placed
  <2>3. CASE at[c] # NoConn
    <3>1. /\ EndSessions({at[c]}, c)
          /\ user' = [user EXCEPT ![at[c]] = NoConn] /\ at' = [at EXCEPT ![c] = NoConn]
      BY <1>7, <2>3 DEF Cancel
    <3>2. ServerType'
      BY <1>0, <3>1, EndSessionsKeeps
    <3>3. open' = open \ {at[c]} /\ open' \subseteq Conns
      BY <1>0, <3>1 DEF EndSessions, PoolType
    <3>4. PoolType' /\ at'[c] = NoConn /\ \A d \in Callers \ {c} : at'[d] = at[d]
      BY <1>0, <2>3, <3>1, <3>3, GiveBackKeeps
    <3>5. \A d \in Callers \ {c} : at[d] # at[c]
      BY <1>0, <2>3 DEF PoolType
    <3>6. Placed'
      BY <1>0, <1>7, <2>3, <3>3, <3>4, <3>5 DEF Cancel, Placed, CallType
    <3> QED
      BY <2>1, <3>2, <3>4, <3>6
  <2> QED
    BY <2>2, <2>3
<1>8. ASSUME NEW s \in Conns, Lose(s) PROVE PoolType' /\ ServerType' /\ CallType' /\ Placed'
  <2>1. EndSessions({s}, NoConn)
    BY <1>8 DEF Lose
  <2>2. ServerType'
    BY <1>0, <2>1, EndSessionsKeeps
  <2>3. open' = open \ {s}
    BY <2>1 DEF EndSessions
  <2>4. PoolType' /\ CallType'
    BY <1>0, <1>8, <2>3 DEF Lose, PoolType, CallType
  <2>5. \A d \in Callers : at[d] # s
    BY <1>0, <1>8, PoolsAssumption DEF Lose, PoolType
  <2>6. Placed'
    BY <1>8, <2>3, <2>5 DEF Lose, Placed
  <2> QED
    BY <2>2, <2>4, <2>6
<1>9. ASSUME UNCHANGED vars PROVE PoolType' /\ ServerType' /\ CallType' /\ Placed'
  BY <1>0, <1>9 DEF vars, PoolType, ServerType, CallType, Placed
<1> QED
  BY <1>1, <1>2, <1>3, <1>4, <1>5, <1>6, <1>7, <1>8, <1>9 DEF Next, Step, Finished

\* TypeOK holds for every set of callers, pools, connections, dialects and faults:
\* two queries never share a connection, and the lock's owner is an open session.
THEOREM LockTypeCorrect == Spec => []TypeOK
<1> QED
  BY InitType, StepType, PTL DEF Spec

-----------------------------------------------------------------------------
(* Exclusion *)

Holders == {c \in Callers : Holding(c)}

\* While the lock is not broken its owner is of the process of every holder, and
\* has been granted the lock at least once for each.
Kept ==
  ~broken => /\ \A c \in Holders : owner # NoConn /\ PoolOf[owner] = PoolOf[c]
             /\ Cardinality(Holders) \in Nat /\ Cardinality(Holders) <= depth

LEMMA HoldersFinite == IsFiniteSet(Holders)
  BY PoolsAssumption, FS_Subset DEF Holders

\* Fewer holders and the same owner.
LEMMA KeptByFewer ==
  ASSUME Kept, ServerType, UNCHANGED server, Holders' \subseteq Holders
  PROVE  Kept'
<1>1. /\ Cardinality(Holders') \in Nat /\ Cardinality(Holders) \in Nat
      /\ Cardinality(Holders') <= Cardinality(Holders)
  BY HoldersFinite, FS_Subset, FS_CardinalityType
<1> QED
  BY <1>1 DEF Kept, ServerType, server

\* The owner's session ends: either nobody but c was a holder, or it is broken.
LEMMA KeptWhenSessionsEnd ==
  ASSUME Kept, ServerType, NEW S, NEW c, EndSessions(S, c),
         Holders' \subseteq Holders \ {c}
  PROVE  Kept'
<1>1. CASE owner \notin S
  BY <1>1, KeptByFewer DEF EndSessions
<1>2. CASE owner \in S
  <2> SUFFICES ASSUME ~broken' PROVE Kept'
    BY DEF Kept
  <2>1. /\ owner' = NoConn /\ depth' = 0 /\ ~broken
        /\ \A d \in Callers \ {c} : ~(PoolOf[d] = PoolOf[owner] /\ Holding(d))
    BY <1>2 DEF EndSessions, ServerType
  <2>2. Holders' = {}
    BY <2>1 DEF Kept, Holders
  <2> QED
    BY <2>1, <2>2, FS_EmptySet DEF Kept
<1> QED
  BY <1>1, <1>2

LEMMA InitKept == Init => Kept
<1> SUFFICES ASSUME Init PROVE Kept
  OBVIOUS
<1>1. Holders = {}
  BY DEF Init, Holders, Holding
<1> QED
  BY <1>1, FS_EmptySet DEF Kept, Init

\* What each step does to the holders: one is granted the lock, one leaves.
LEMMA HoldersChange ==
  ASSUME TypeOK, Placed, [Next]_vars
  PROVE  \/ \E c \in Callers : Granted(c) /\ c \notin Holders /\ Holders' \in {Holders, Holders \cup {c}}
         \/ \E c \in Callers : Released(c) /\ c \in Holders /\ Holders' = Holders \ {c}
         \/ \E S \in SUBSET Conns, c \in Callers \cup {NoConn} : EndSessions(S, c) /\ Holders' = Holders \ {c}
         \/ \E c \in Callers : UNCHANGED server /\ Holders' = Holders \ {c}
         \/ UNCHANGED server /\ Holders' = Holders
<1> USE DEF Holders
<1>0. PoolType /\ ServerType /\ CallType
  BY TypeParts
<1>1. ASSUME NEW c \in Callers, Granted(c)
      PROVE  c \notin Holders /\ Holders' \in {Holders, Holders \cup {c}}
  <2>1. CASE dialect = "mysql"
    BY <1>0, <1>1, <2>1 DEF Granted, Holding, CallType
  <2>2. CASE dialect # "mysql"
    BY <1>0, <1>1, <2>2 DEF Granted, Holding, CallType
  <2> QED
    BY <2>1, <2>2
<1>2. ASSUME NEW c \in Callers, Released(c) PROVE c \in Holders /\ Holders' = Holders \ {c}
  BY <1>0, <1>2 DEF Released, Holding, CallType
<1>3. ASSUME NEW c \in Callers,
             \/ Call(c) \/ Acquire(c) \/ NotGranted(c) \/ Work(c) \/ EndWork(c)
             \/ SkipWork(c) \/ Release(c) \/ Panic(c)
      PROVE  UNCHANGED server /\ Holders' \in {Holders, Holders \ {c}}
  <2>1. UNCHANGED server /\ cancelled' = cancelled
    BY <1>3 DEF Call, Acquire, NotGranted, Work, EndWork, SkipWork, Release, Panic
  <2>2. CASE Call(c) \/ Acquire(c) \/ NotGranted(c) \/ Work(c)
    BY <1>0, <2>1, <2>2 DEF Call, Acquire, NotGranted, Work, Holding, CallType
  <2>3. CASE EndWork(c) \/ SkipWork(c) \/ Release(c) \/ Panic(c)
    BY <1>0, <2>1, <2>3 DEF EndWork, SkipWork, Release, Panic, Holding, CallType
  <2> QED
    BY <1>3, <2>1, <2>2, <2>3
<1>4. ASSUME NEW c \in Callers, Return(c)
      PROVE  /\ Holders' = Holders \ {c} /\ Holders \ {c} = Holders
             /\ UNCHANGED server \/ \E S \in SUBSET Conns : EndSessions(S, c)
  <2>1. Holders' = Holders \ {c} /\ Holders \ {c} = Holders
    BY <1>0, <1>4 DEF Return, Holding, CallType
  <2>2. \/ EndSessions({s \in Conns : PoolOf[s] = PoolOf[c]}, c)
        \/ UNCHANGED server
    BY <1>4 DEF Return
  <2> QED
    BY <2>1, <2>2
<1>5. ASSUME NEW c \in Callers, Cancel(c)
      PROVE  \/ \E S \in SUBSET Conns : EndSessions(S, c) /\ Holders' = Holders \ {c}
             \/ UNCHANGED server /\ Holders' \in {Holders, Holders \ {c}}
  <2>1. CASE at[c] = NoConn
    BY <1>0, <1>5, <2>1 DEF Cancel, Holding, CallType
  <2>2. CASE at[c] # NoConn
    <3>1. EndSessions({at[c]}, c) /\ at[c] \in Conns
      BY <1>0, <1>5, <2>2 DEF Cancel, PoolType
    <3>2. pc[c] \in {"asking", "working", "releasing"}
      BY <2>2 DEF Placed
    <3>3. Holders' = Holders \ {c}
      BY <1>0, <1>5, <2>2, <3>2 DEF Cancel, Holding, CallType
    <3> QED
      BY <3>1, <3>3
  <2> QED
    BY <2>1, <2>2
<1>6. ASSUME NEW s \in Conns, Lose(s)
      PROVE  EndSessions({s}, NoConn) /\ Holders' = Holders \ {NoConn}
  BY <1>6, PoolsAssumption DEF Lose, Holding
<1>7. ASSUME UNCHANGED vars PROVE UNCHANGED server /\ Holders' = Holders
  BY <1>7 DEF vars, Holding
<1> QED
  BY <1>1, <1>2, <1>3, <1>4, <1>5, <1>6, <1>7 DEF Next, Step, Finished

\* The grant that a release undoes is the last only if nobody else holds the lock.
LEMMA LastGrant ==
  ASSUME Kept, ServerType, ~broken, NEW c \in Holders, Holders' = Holders \ {c}, depth = 1
  PROVE  Holders' = {}
<1>1. Cardinality(Holders \ {c}) = Cardinality(Holders) - 1 /\ IsFiniteSet(Holders \ {c})
  BY HoldersFinite, FS_RemoveElement
<1>2. Cardinality(Holders \ {c}) = 0
  BY <1>1, FS_CardinalityType DEF Kept
<1> QED
  BY <1>1, <1>2, FS_EmptySet

LEMMA StepKept == TypeOK /\ Placed /\ Kept /\ [Next]_vars => Kept'
<1> SUFFICES ASSUME TypeOK, Placed, Kept, [Next]_vars PROVE Kept'
  OBVIOUS
<1>0. PoolType /\ ServerType /\ CallType
  BY TypeParts
<1>1. ASSUME NEW c \in Callers, Granted(c), Holders' \in {Holders, Holders \cup {c}} PROVE Kept'
  <2> SUFFICES ASSUME ~broken' PROVE Kept'
    BY DEF Kept
  <2>1. /\ owner \in {NoConn, at[c]} /\ owner' = at[c] /\ depth' = depth + 1 /\ ~broken
        /\ at[c] # NoConn /\ PoolOf[at[c]] = PoolOf[c]
    BY <1>0, <1>1 DEF Granted, Placed, ServerType
  <2>2. IsFiniteSet(Holders \cup {c}) /\ Cardinality(Holders \cup {c}) <= Cardinality(Holders) + 1
    BY HoldersFinite, FS_AddElement, FS_CardinalityType
  <2>3. /\ Cardinality(Holders') \in Nat /\ Cardinality(Holders) \in Nat
        /\ Cardinality(Holders') <= Cardinality(Holders) + 1
    BY <1>1, <2>2, HoldersFinite, FS_Subset, FS_CardinalityType
  <2>4. Cardinality(Holders') <= depth'
    BY <1>0, <2>1, <2>3 DEF Kept, ServerType
  <2>5. \A d \in Holders' : owner' # NoConn /\ PoolOf[owner'] = PoolOf[d]
    BY <1>1, <2>1 DEF Kept
  <2> QED
    BY <2>3, <2>4, <2>5 DEF Kept
<1>2. ASSUME NEW c \in Callers, Released(c), c \in Holders, Holders' = Holders \ {c} PROVE Kept'
  <2> SUFFICES ASSUME ~broken' PROVE Kept'
    BY DEF Kept
  <2>1. ~broken
    BY <1>2 DEF Released
  <2>2. /\ Cardinality(Holders') = Cardinality(Holders) - 1
        /\ Cardinality(Holders) \in Nat /\ Cardinality(Holders') \in Nat
    BY <1>2, HoldersFinite, FS_RemoveElement, FS_CardinalityType
  <2>3. CASE owner = at[c]
    <3>1. depth' = depth - 1 /\ owner' = IF depth = 1 THEN NoConn ELSE owner
      BY <1>2, <2>3 DEF Released
    <3>2. Cardinality(Holders') <= depth' /\ depth' \in Int
      BY <1>0, <2>1, <2>2, <3>1 DEF Kept, ServerType
    <3>3. CASE depth = 1
      <4>1. Holders' = {}
        BY <1>0, <1>2, <2>1, <3>3, LastGrant
      <4> QED
        BY <2>2, <3>2, <4>1 DEF Kept
    <3>4. CASE depth # 1
      BY <1>2, <2>1, <2>2, <3>1, <3>2, <3>4 DEF Kept
    <3> QED
      BY <3>3, <3>4
  <2>4. CASE owner # at[c]
    <3>1. owner' = owner /\ depth' = depth
      BY <1>2, <2>4 DEF Released
    <3> QED
      BY <1>0, <1>2, <2>1, <2>2, <3>1 DEF Kept, ServerType
  <2> QED
    BY <2>3, <2>4
<1>3. ASSUME NEW S, NEW c, EndSessions(S, c), Holders' = Holders \ {c} PROVE Kept'
  BY <1>0, <1>3, KeptWhenSessionsEnd
<1>4. ASSUME UNCHANGED server, Holders' \subseteq Holders PROVE Kept'
  BY <1>0, <1>4, KeptByFewer
<1> QED
  BY <1>1, <1>2, <1>3, <1>4, HoldersChange

\* ProcessesExclude holds for any number of processes, of callers and connections
\* in each, of calls, lost sessions, ended contexts and panics: the reentrant grants
\* of a session are never fewer than the callers that rely on them.
THEOREM LockExcludes == Spec => []ProcessesExclude
<1>1. Kept => ProcessesExclude
  BY DEF Kept, Holders, ProcessesExclude, Holding, Inside
<1> QED
  BY InitType, StepType, InitKept, StepKept, <1>1, PTL DEF Spec

-----------------------------------------------------------------------------
(* Implementation of LossyLock *)

Holder == IF owner = NoConn THEN NoConn ELSE PoolOf[owner]

LEMMA HolderType == ServerType => (owner # NoConn => Holder \in Pools /\ Holder # NoConn)
  BY PoolsAssumption DEF ServerType, Holder

LEMMA InitLock == Init => Lock!Init
  BY DEF Init, Lock!Init, Holding

LEMMA StepLock == TypeOK /\ Placed /\ Kept /\ [Next]_vars => [Lock!Next]_(Lock!vars)
<1> SUFFICES ASSUME TypeOK, Placed, Kept, [Next]_vars PROVE [Lock!Next]_(Lock!vars)
  OBVIOUS
<1>0. PoolType /\ ServerType /\ CallType /\ ServerType'
  BY TypeParts, StepType DEF TypeOK, ServerType
<1>1. ASSUME NEW c \in Callers, Granted(c), c \notin Holders, Holders' \in {Holders, Holders \cup {c}}
      PROVE  Lock!Grant(c) \/ Lock!GrantUnseen(c)
  <2>1. /\ owner \in {NoConn, at[c]} /\ owner' = at[c] /\ broken' = broken
        /\ at[c] # NoConn /\ PoolOf[at[c]] = PoolOf[c]
    BY <1>1 DEF Granted, Placed
  <2> QED
    BY <1>1, <2>1 DEF Lock!Grant, Lock!GrantUnseen, Holders
<1>2. ASSUME NEW c \in Callers, Released(c), c \in Holders, Holders' = Holders \ {c}
      PROVE  Lock!Leave(c)
  <2>1. broken' = broken
    BY <1>2 DEF Released
  <2>2. CASE owner' = owner
    BY <1>2, <2>1, <2>2 DEF Lock!Leave, Holders
  <2>3. CASE owner' # owner
    <3>1. owner = at[c] /\ owner' = NoConn /\ depth = 1
      BY <1>2, <2>3 DEF Released
    <3>2. at[c] # NoConn /\ PoolOf[at[c]] = PoolOf[c]
      BY <1>2 DEF Released, Placed
    <3>3. ~broken => Holders' = {}
      BY <1>0, <1>2, <3>1, LastGrant
    <3> QED
      BY <1>2, <2>1, <3>1, <3>2, <3>3 DEF Lock!Leave, Lock!Needed, Holders
  <2> QED
    BY <2>2, <2>3
<1>3. ASSUME NEW S \in SUBSET Conns, NEW c \in Callers \cup {NoConn}, EndSessions(S, c), Holders' = Holders \ {c}
      PROVE  Lock!Lose(c) \/ (UNCHANGED server /\ Holders' = Holders \ {c})
  <2>1. CASE owner \notin S
    BY <1>3, <2>1 DEF EndSessions
  <2>2. owner \in S => owner # NoConn
    BY PoolsAssumption
  <2>3. CASE owner # NoConn /\ owner \in S
    <3>1. owner' = NoConn /\ PoolOf[owner] # NoConn
      BY <1>0, <1>3, <2>3, HolderType DEF EndSessions, Holder
    <3>2. broken' = (broken \/ \E d \in Holders' : PoolOf[d] = PoolOf[owner])
      BY <1>3, <2>3 DEF EndSessions, Holders
    <3> QED
      BY <1>3, <2>3, <3>1, <3>2 DEF Lock!Lose, Lock!Needed, Holders
  <2> QED
    BY <2>1, <2>2, <2>3
<1>4. ASSUME NEW c \in Callers \cup {NoConn}, UNCHANGED server, Holders' = Holders \ {c}
      PROVE  [Lock!Next]_(Lock!vars)
  <2>1. CASE c \in Holders
    <3>1. c \in Callers
      BY <2>1 DEF Holders
    <3>2. Lock!Leave(c)
      BY <1>4, <2>1 DEF Lock!Leave, Holders, server
    <3> QED
      BY <3>1, <3>2 DEF Lock!Next
  <2>2. CASE c \notin Holders
    BY <1>4, <2>2 DEF Lock!vars, Holders, server
  <2> QED
    BY <2>1, <2>2
<1>5. ASSUME UNCHANGED server, Holders' = Holders PROVE UNCHANGED Lock!vars
  BY <1>5 DEF Lock!vars, Holders, server
<1> QED
  BY <1>1, <1>2, <1>3, <1>4, <1>5, HoldersChange DEF Lock!Next

\* ImplementsLossyLock: the queries on pooled sessions implement one lock that
\* processes hold, which nothing but the end of a session takes from under a caller.
THEOREM LockImplementsLossyLock == Spec => ImplementsLossyLock
<1> QED
  BY InitType, StepType, InitKept, StepKept, InitLock, StepLock, PTL
  DEF Spec, ImplementsLossyLock, Lock!Spec

-----------------------------------------------------------------------------
(* The CLI *)

LEMMA StepCliLeaves == TypeOK /\ Placed /\ CliLeavesNoLock /\ [Next]_vars => CliLeavesNoLock'
<1> SUFFICES ASSUME TypeOK, Placed, CliLeavesNoLock, [Next]_vars,
                    owner' # NoConn, PoolOf[owner'] \in Cli
             PROVE  \E c \in Callers : PoolOf[c] = PoolOf[owner'] /\ pc'[c] # "idle"
  BY DEF CliLeavesNoLock
<1>0. PoolType /\ ServerType /\ CallType
  BY TypeParts
<1>1. CASE \E c \in Callers : Granted(c)
  BY <1>0, <1>1 DEF Granted, Placed, CallType
<1>2. CASE \E c \in Callers : Return(c)
  <2>1. PICK c \in Callers : Return(c)
    BY <1>2
  <2>2. pc' = [pc EXCEPT ![c] = "idle"]
    BY <2>1 DEF Return
  <2>3. owner' = owner /\ (PoolOf[c] \in Cli => PoolOf[owner] # PoolOf[c])
    BY <1>0, <2>1 DEF Return, EndSessions, server, ServerType
  <2>4. PICK d \in Callers : PoolOf[d] = PoolOf[owner] /\ pc[d] # "idle"
    BY <2>3 DEF CliLeavesNoLock
  <2>5. d # c
    BY <2>3, <2>4
  <2> QED
    BY <1>0, <2>2, <2>3, <2>4, <2>5 DEF CallType
<1>3. CASE ~(\E c \in Callers : Granted(c) \/ Return(c))
  <2>1. owner' = owner /\ \A c \in Callers : pc[c] # "idle" => pc'[c] # "idle"
    <3>1. ASSUME NEW c \in Callers, Call(c) \/ Acquire(c) \/ NotGranted(c) \/ Work(c) \/ EndWork(c)
          PROVE  owner' = owner /\ \A d \in Callers : pc[d] # "idle" => pc'[d] # "idle"
      BY <1>0, <3>1 DEF Call, Acquire, NotGranted, Work, EndWork, CallType, server
    <3>2. ASSUME NEW c \in Callers, SkipWork(c) \/ Release(c) \/ Released(c) \/ Panic(c) \/ Cancel(c)
          PROVE  owner' = owner /\ \A d \in Callers : pc[d] # "idle" => pc'[d] # "idle"
      <4>1. owner' = owner
        BY <3>2 DEF SkipWork, Release, Released, Panic, Cancel, EndSessions, server
      <4>2. pc' = [pc EXCEPT ![c] = pc'[c]] /\ pc'[c] # "idle"
        BY <1>0, <3>2 DEF SkipWork, Release, Released, Panic, Cancel, CallType
      <4> QED
        BY <1>0, <4>1, <4>2 DEF CallType
    <3>3. ASSUME NEW s \in Conns, Lose(s)
          PROVE  owner' = owner /\ \A d \in Callers : pc[d] # "idle" => pc'[d] # "idle"
      BY <3>3 DEF Lose, EndSessions, server
    <3>4. CASE UNCHANGED vars
      BY <3>4 DEF vars, server
    <3> QED
      BY <1>3, <3>1, <3>2, <3>3, <3>4 DEF Next, Step, Finished
  <2> QED
    BY <2>1 DEF CliLeavesNoLock
<1> QED
  BY <1>1, <1>2, <1>3

\* CliLeavesNoLock: whatever is lost, cancelled or refused, a CLI process holds the
\* lock only while its command is in progress.
THEOREM CliLeavesNoLockBehind == Spec => []CliLeavesNoLock
<1>1. Init => CliLeavesNoLock
  BY DEF Init, CliLeavesNoLock
<1> QED
  BY InitType, StepType, <1>1, StepCliLeaves, PTL DEF Spec
=============================================================================
