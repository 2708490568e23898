---------------------------- MODULE MigrationLock ----------------------------
(***************************************************************************)
(* withLock, acquireLock and releaseLock of migrate/migrator.go with the   *)
(* lock statements of the four dialects.  The lock belongs to a database   *)
(* session; the code asks for it and gives it back with two queries of a   *)
(* database/sql pool, each on whatever connection the pool hands out.      *)
(*                                                                         *)
(* A pool is one process.  The CLI runs one command in it and closes it;   *)
(* an application that embeds the library keeps the pool, may run several  *)
(* Migrators on it, may cancel their contexts and may recover a panic.     *)
(***************************************************************************)
EXTENDS Integers, FiniteSets

CONSTANTS
  Callers,      \* the goroutines that call a method under withLock
  Conns,        \* the connection slots of all pools; an open one is a session
  Pools,        \* the processes
  PoolOf,       \* PoolOf[x]: the pool of a caller or of a connection
  Cli,          \* the pools of CLI processes
  NoConn,       \* the owner of the lock when it is free, and no connection
  Dialects,     \* the dialects the behaviours range over
  Faults,       \* "loss": a session ends; "cancel": a context ends; "panic"
  MaxCalls      \* bound: calls in a behaviour

ASSUME PoolsAssumption ==
  /\ PoolOf \in [Callers \cup Conns -> Pools] /\ Cli \subseteq Pools
  /\ Callers \cap Conns = {} /\ NoConn \notin Conns \cup Callers \cup Pools
  /\ IsFiniteSet(Callers) /\ IsFiniteSet(Conns)
ASSUME CliAssumption ==
  \A c, d \in Callers : PoolOf[c] = PoolOf[d] /\ PoolOf[c] \in Cli => c = d
ASSUME LockConstantsAssumption ==
  /\ Dialects \subseteq {"mysql", "postgres", "sqlserver", "sqlite"}
  /\ Faults \subseteq {"loss", "cancel", "panic"} /\ MaxCalls \in Nat

VARIABLES
  dialect,    \* the dialect of the database
  owner,      \* the session that holds the lock, or NoConn
  depth,      \* how many times it has been granted to that session
  open,       \* the connections that are open
  user,       \* user[s]: the caller that has borrowed s, or NoConn
  pc,         \* pc[c]: where caller c is in withLock
  at,         \* at[c]: the connection c has borrowed, or NoConn
  cancelled,  \* the callers whose context is done
  calls,      \* calls made so far
  broken      \* the lock's session ended before a caller granted the lock returned

server == <<owner, depth, broken>>
pool == <<open, user, at>>
vars == <<dialect, server, pool, pc, cancelled, calls>>

\* fn is running.
Inside(c) == pc[c] \in {"fn", "working"}
\* The caller was granted the lock and has still to release it.
Holding(c) ==
  \/ pc[c] \in {"fn", "working", "releasing"}
  \/ pc[c] = "release" /\ c \notin cancelled

TypeOK ==
  /\ dialect \in Dialects
  /\ owner \in Conns \cup {NoConn} /\ depth \in Nat
  /\ owner = NoConn <=> depth = 0
  /\ open \subseteq Conns /\ (owner # NoConn => owner \in open)
  /\ user \in [Conns -> Callers \cup {NoConn}]
  /\ pc \in [Callers -> {"idle", "acquire", "asking", "fn", "working", "release",
                         "releasing", "refused", "done"}]
  /\ at \in [Callers -> Conns \cup {NoConn}]
  /\ \A c \in Callers, s \in Conns :
       user[s] = c <=> at[c] = s
  /\ cancelled \subseteq Callers /\ calls \in Nat /\ broken \in BOOLEAN

Init ==
  /\ dialect \in Dialects
  /\ owner = NoConn /\ depth = 0 /\ broken = FALSE
  /\ open = {} /\ user = [s \in Conns |-> NoConn]
  /\ pc = [c \in Callers |-> "idle"]
  /\ at = [c \in Callers |-> NoConn]
  /\ cancelled = {} /\ calls = 0

-----------------------------------------------------------------------------
(* The pool, database/sql, and the sessions of the server *)

\* An idle connection of the pool or, when there is none, a new one.
Available(c) ==
  LET own == {s \in Conns : PoolOf[s] = PoolOf[c] /\ user[s] = NoConn}
  IN IF own \cap open # {} THEN own \cap open ELSE own

Borrow(c, s) ==
  /\ s \in Available(c)
  /\ open' = open \cup {s}
  /\ user' = [user EXCEPT ![s] = c]
  /\ at' = [at EXCEPT ![c] = s]

GiveBack_RowsLeftOpen(c) ==
  at' = [at EXCEPT ![c] = NoConn] /\ UNCHANGED <<open, user>>

GiveBack(c) ==
  /\ user' = [user EXCEPT ![at[c]] = NoConn]
  /\ at' = [at EXCEPT ![c] = NoConn]
  /\ UNCHANGED open

\* The sessions of S end, and with them the lock one of them may own.  Those who
\* lose it that way are the callers of the pool but c that were granted it: even
\* one that is about to release it does harm, when its RELEASE_LOCK reaches the
\* session to which a sibling has been granted the lock in the meantime.
EndSessions(S, c) ==
  /\ open' = open \ S
  /\ IF owner \in S
     THEN /\ owner' = NoConn /\ depth' = 0
          /\ broken' = (broken \/ \E d \in Callers \ {c} :
                                    PoolOf[d] = PoolOf[owner] /\ Holding(d))
     ELSE UNCHANGED server

-----------------------------------------------------------------------------
(* withLock *)

Call(c) ==
  /\ pc[c] = "idle" /\ calls < MaxCalls
  /\ calls' = calls + 1
  /\ pc' = [pc EXCEPT ![c] = "acquire"]
  /\ UNCHANGED <<dialect, server, pool, cancelled>>

\* acquireLock: AcquireLockSQL, which SQLite does not have, and the query; a
\* context that is done gets no connection.
Acquire(c) ==
  /\ pc[c] = "acquire"
  /\ IF dialect = "sqlite" \/ c \in cancelled
     THEN /\ pc' = [pc EXCEPT ![c] = "refused"]
          /\ UNCHANGED pool
     ELSE /\ pc' = [pc EXCEPT ![c] = "asking"]
          /\ \E s \in Conns : Borrow(c, s)
  /\ UNCHANGED <<dialect, server, cancelled, calls>>

\* GET_LOCK and pg_advisory_lock grant the lock to a session that finds it free
\* or owns it already.  GET_LOCK then answers 1.  pg_advisory_lock answers with
\* a void, which Scan cannot store in an int64: acquireLock returns that error.
Granted(c) ==
  /\ pc[c] = "asking" /\ dialect \in {"mysql", "postgres"}
  /\ owner \in {NoConn, at[c]}
  /\ owner' = at[c] /\ depth' = depth + 1
  /\ pc' = [pc EXCEPT ![c] = IF dialect = "mysql" THEN "fn" ELSE "refused"]
  /\ GiveBack(c)
  /\ UNCHANGED <<dialect, broken, cancelled, calls>>

NotGranted_NoTimeout(c) ==
  /\ pc[c] = "asking" /\ dialect = "sqlserver"
  /\ pc' = [pc EXCEPT ![c] = "refused"]
  /\ GiveBack(c)
  /\ UNCHANGED <<dialect, server, cancelled, calls>>

\* got # 1, ErrMigrationLockTimeout: GET_LOCK waited long enough.
\* sp_getapplock without @LockOwner wants a transaction, and there is none: it
\* fails or answers -999, and its success would be 0.
NotGranted(c) ==
  /\ pc[c] = "asking"
  /\ \/ dialect = "mysql" /\ owner \notin {NoConn, at[c]}
     \/ dialect = "sqlserver"
  /\ pc' = [pc EXCEPT ![c] = "refused"]
  /\ GiveBack(c)
  /\ UNCHANGED <<dialect, server, cancelled, calls>>

\* fn works on a connection of the pool: the transaction of a migration.
Work(c) ==
  /\ pc[c] = "fn" /\ c \notin cancelled
  /\ \E s \in Conns : Borrow(c, s)
  /\ pc' = [pc EXCEPT ![c] = "working"]
  /\ UNCHANGED <<dialect, server, cancelled, calls>>

\* fn is done, or failed.
EndWork(c) ==
  /\ pc[c] = "working"
  /\ GiveBack(c)
  /\ pc' = [pc EXCEPT ![c] = "release"]
  /\ UNCHANGED <<dialect, server, cancelled, calls>>

\* fn returns before it uses a connection, as on a context that is done.
SkipWork(c) ==
  /\ pc[c] = "fn"
  /\ pc' = [pc EXCEPT ![c] = "release"]
  /\ UNCHANGED <<dialect, server, pool, cancelled, calls>>

\* releaseLock: on any connection, and on none once the context is done.
Release(c) ==
  /\ pc[c] = "release"
  /\ IF c \in cancelled
     THEN /\ pc' = [pc EXCEPT ![c] = "done"]
          /\ UNCHANGED pool
     ELSE /\ pc' = [pc EXCEPT ![c] = "releasing"]
          /\ \E s \in Conns : Borrow(c, s)
  /\ UNCHANGED <<dialect, server, cancelled, calls>>

Released_AllGrants(c) ==
  /\ pc[c] = "releasing"
  /\ IF owner = at[c] THEN owner' = NoConn /\ depth' = 0 ELSE UNCHANGED <<owner, depth>>
  /\ pc' = [pc EXCEPT ![c] = "done"]
  /\ GiveBack(c)
  /\ UNCHANGED <<dialect, broken, cancelled, calls>>

Released_ByAnySession(c) ==
  /\ pc[c] = "releasing"
  /\ owner' = NoConn /\ depth' = 0
  /\ pc' = [pc EXCEPT ![c] = "done"]
  /\ GiveBack(c)
  /\ UNCHANGED <<dialect, broken, cancelled, calls>>

\* RELEASE_LOCK undoes one grant of its own session.  On another session it
\* answers 0 or NULL, which releaseLock does not look at.
Released(c) ==
  /\ pc[c] = "releasing"
  /\ IF owner = at[c]
     THEN /\ depth' = depth - 1
          /\ owner' = IF depth = 1 THEN NoConn ELSE owner
     ELSE UNCHANGED <<owner, depth>>
  /\ pc' = [pc EXCEPT ![c] = "done"]
  /\ GiveBack(c)
  /\ UNCHANGED <<dialect, broken, cancelled, calls>>

Return_PoolLeftOpen(c) ==
  /\ pc[c] \in {"refused", "done"}
  /\ pc' = [pc EXCEPT ![c] = "idle"]
  /\ cancelled' = cancelled \ {c}
  /\ UNCHANGED <<dialect, server, pool, calls>>

\* The command returns; runDBCommand then closes its database.
Return(c) ==
  /\ pc[c] \in {"refused", "done"}
  /\ pc' = [pc EXCEPT ![c] = "idle"]
  /\ cancelled' = cancelled \ {c}
  /\ IF PoolOf[c] \in Cli
     THEN EndSessions({s \in Conns : PoolOf[s] = PoolOf[c]}, c) /\ UNCHANGED <<user, at>>
     ELSE UNCHANGED <<server, pool>>
  /\ UNCHANGED <<dialect, calls>>

-----------------------------------------------------------------------------
(* What goes wrong *)

\* A panic in fn (To on a missing migration) skips releaseLock: nothing defers it.
Panic(c) ==
  /\ "panic" \in Faults /\ pc[c] = "fn"
  /\ pc' = [pc EXCEPT ![c] = "done"]
  /\ UNCHANGED <<dialect, server, pool, cancelled, calls>>

\* The context of an embedded call ends.  A query in flight is abandoned, and the
\* driver closes its connection.
Cancel(c) ==
  /\ "cancel" \in Faults /\ PoolOf[c] \notin Cli
  /\ pc[c] \notin {"idle", "refused", "done"} /\ c \notin cancelled
  /\ cancelled' = cancelled \cup {c}
  /\ \/ /\ at[c] = NoConn
        /\ UNCHANGED <<server, pool, pc>>
     \/ /\ at[c] # NoConn
        /\ EndSessions({at[c]}, c)
        /\ user' = [user EXCEPT ![at[c]] = NoConn]
        /\ at' = [at EXCEPT ![c] = NoConn]
        /\ pc' = [pc EXCEPT ![c] = CASE pc[c] = "asking"  -> "refused"
                                     [] pc[c] = "working" -> "release"
                                     [] OTHER             -> "done"]
  /\ UNCHANGED <<dialect, calls>>

\* An idle session ends: the server's timeout, or the pool's ConnMaxLifetime.
Lose(s) ==
  /\ "loss" \in Faults /\ s \in open /\ user[s] = NoConn
  /\ EndSessions({s}, NoConn)
  /\ UNCHANGED <<dialect, user, at, pc, cancelled, calls>>

Finished ==
  /\ calls = MaxCalls /\ \A c \in Callers : pc[c] = "idle"
  /\ UNCHANGED vars

Step(c) ==
  \/ Acquire(c) \/ Granted(c) \/ NotGranted(c) \/ Work(c) \/ EndWork(c) \/ SkipWork(c)
  \/ Release(c) \/ Released(c) \/ Return(c)

Next ==
  \/ \E c \in Callers : Call(c) \/ Step(c) \/ Panic(c) \/ Cancel(c)
  \/ \E s \in Conns : Lose(s)
  \/ Finished

Spec == Init /\ [][Next]_vars

FairSpec == Spec /\ \A c \in Callers : WF_vars(Step(c))

-----------------------------------------------------------------------------
(* Properties *)

\* The lock keeps processes apart: no two commands of different processes run at
\* once, however pools shuffle their connections, releases go astray, contexts end
\* and fn panics; unless the lock's session has ended under a command that was
\* granted the lock and had not released it.
ProcessesExclude ==
  ~broken => \A c, d \in Callers : Inside(c) /\ Inside(d) => PoolOf[c] = PoolOf[d]

\* A CLI process leaves no lock behind: one of its sessions owns the lock only
\* while its command is in progress.
CliLeavesNoLock ==
  owner # NoConn /\ PoolOf[owner] \in Cli
    => \E c \in Callers : PoolOf[c] = PoolOf[owner] /\ pc[c] # "idle"

\* A call always returns, whatever the others do to the lock and the pool, except
\* on PostgreSQL, where pg_advisory_lock waits for ever for a lock left behind.
CallsReturn ==
  \A c \in Callers : pc[c] # "idle" /\ dialect # "postgres" ~> pc[c] = "idle"

\* The sessions, the pools and the calls implement a lock that processes hold:
\* it is granted when it is free or at home, given back by the last that needs it,
\* and lost to no caller but by the end of a session.
Lock == INSTANCE LossyLock WITH
  None <- NoConn,
  holder <- IF owner = NoConn THEN NoConn ELSE PoolOf[owner],
  inside <- {c \in Callers : Holding(c)}
ImplementsLossyLock == Lock!Spec

\* docs/cli.md:227: migration lock timeout is reported when the lock cannot be
\* had in time: a command is not refused a lock that nobody holds.
RefusedOnlyWhenHeld ==
  [][\A c \in Callers : pc[c] = "asking" /\ pc'[c] = "refused" /\ c \notin cancelled'
       => owner # NoConn]_vars
=============================================================================
