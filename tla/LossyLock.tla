------------------------------ MODULE LossyLock ------------------------------
(***************************************************************************)
(* What withLock of migrate/migrator.go promises: a lock that one process  *)
(* holds at a time, on behalf of any number of its callers, and that is    *)
(* taken from under a caller by nothing but the end of a session, which    *)
(* breaks the promise for good.                                            *)
(***************************************************************************)
CONSTANTS Callers, Pools, PoolOf, None

VARIABLES
  holder,   \* the process that holds the lock, or None
  inside,   \* the callers that were granted the lock and have not left
  broken    \* the lock was lost under one of them

vars == <<holder, inside, broken>>

Init == holder = None /\ inside = {} /\ broken = FALSE

Needed(p, callers) == \E c \in callers : PoolOf[c] = p

Grant(c) ==
  /\ c \notin inside /\ holder \in {None, PoolOf[c]}
  /\ holder' = PoolOf[c] /\ inside' = inside \cup {c}
  /\ UNCHANGED broken

\* The lock is granted, and the caller is told that it is not.
GrantUnseen(c) ==
  /\ holder \in {None, PoolOf[c]}
  /\ holder' = PoolOf[c]
  /\ UNCHANGED <<inside, broken>>

\* A caller leaves, and gives the lock back unless a sibling needs it.  It may
\* fail to: then the process keeps the lock.
Leave(c) ==
  /\ c \in inside /\ inside' = inside \ {c}
  /\ \/ UNCHANGED holder
     \/ /\ holder = PoolOf[c] /\ (broken \/ ~Needed(holder, inside'))
        /\ holder' = None
  /\ UNCHANGED broken

\* The session that owns the lock ends, possibly with the call of c on it.
Lose(c) ==
  /\ holder # None /\ holder' = None
  /\ inside' = inside \ {c}
  /\ broken' = (broken \/ Needed(holder, inside'))

Next ==
  \/ \E c \in Callers : Grant(c) \/ GrantUnseen(c) \/ Leave(c)
  \/ \E c \in Callers \cup {None} : Lose(c)

Spec == Init /\ [][Next]_vars
=============================================================================
