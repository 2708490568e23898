----------------------------- MODULE OrderProofs -----------------------------
(***************************************************************************)
(* Facts about finite sets of numbers in their order, sequences and        *)
(* counting up, for the proofs about statements and about the parser.      *)
(***************************************************************************)
EXTENDS Ordered, FiniteSetTheorems, SequenceTheorems, TLAPS

(* Sequences *)

LEMMA SeqMembers ==
  ASSUME NEW X, NEW s \in Seq(X)
  PROVE  /\ Len(s) \in Nat /\ DOMAIN s = 1..Len(s) /\ s \in [1..Len(s) -> X]
         /\ \A i \in 1..Len(s) : s[i] \in X
  OBVIOUS

LEMMA SeqJoined ==
  ASSUME NEW X, NEW s \in Seq(X), NEW t \in Seq(X)
  PROVE  /\ s \o t \in Seq(X) /\ Len(s \o t) = Len(s) + Len(t)
         /\ DOMAIN (s \o t) = 1..(Len(s) + Len(t))
         /\ Len(s) \in Nat /\ Len(t) \in Nat
         /\ \A i \in 1..Len(s) : (s \o t)[i] = s[i]
         /\ \A j \in 1..Len(t) : (s \o t)[Len(s) + j] = t[j]
  OBVIOUS

LEMMA SeqMade ==
  ASSUME NEW X, NEW n \in Nat, NEW s \in [1..n -> X]
  PROVE  s \in Seq(X) /\ Len(s) = n
  OBVIOUS

-----------------------------------------------------------------------------
(* Counting *)

LEMMA RankRange ==
  ASSUME NEW S, IsFiniteSet(S), NEW n
  PROVE  /\ Rank(S, n) \in Nat /\ Rank(S, n) <= Cardinality(S)
         /\ Cardinality(S) \in Nat
<1>1. {k \in S : k <= n} \in SUBSET S
  OBVIOUS
<1> QED BY <1>1, FS_Subset, FS_CardinalityType DEF Rank

LEMMA RankOfMember ==
  ASSUME NEW S \in SUBSET Nat, IsFiniteSet(S), NEW n \in S
  PROVE  Rank(S, n) \in 1..Cardinality(S)
<1> DEFINE B == {k \in S : k <= n}
<1>1. B \in SUBSET S /\ n \in B
  OBVIOUS
<1> HIDE DEF B
<1>2. IsFiniteSet(B) /\ B # {}
  BY <1>1, FS_Subset
<1>3. Cardinality(B) # 0
  BY <1>2, FS_EmptySet
<1>4. Rank(S, n) = Cardinality(B)
  BY DEF Rank, B
<1> QED BY <1>3, <1>4, RankRange

LEMMA RankRises ==
  ASSUME NEW S \in SUBSET Nat, IsFiniteSet(S), NEW m \in S, NEW n \in S, m < n
  PROVE  Rank(S, m) < Rank(S, n)
<1> DEFINE A == {k \in S : k <= m}
           B == {k \in S : k <= n}
<1>1. A \in SUBSET B /\ B \in SUBSET S /\ n \in B /\ n \notin A
  <2>1. m \in Int /\ n \in Int /\ ~(n <= m) /\ \A k \in S : k \in Int
    OBVIOUS
  <2>2. \A k \in S : k <= m => k <= n
    BY <2>1
  <2>3. n <= n
    BY <2>1
  <2> QED BY <2>1, <2>2, <2>3
<1> HIDE DEF A, B
<1>2. IsFiniteSet(B)
  BY <1>1, FS_Subset
<1>3. /\ Cardinality(A) <= Cardinality(B) /\ Cardinality(A) # Cardinality(B)
      /\ Cardinality(B) \in Nat
  BY <1>1, <1>2, FS_Subset, FS_CardinalityType
<1>4. Rank(S, m) = Cardinality(A) /\ Rank(S, n) = Cardinality(B)
  BY DEF Rank, A, B
<1>5. Rank(S, m) \in Nat
  BY RankRange
<1> QED BY <1>3, <1>4, <1>5

\* The ranks of the members of a finite set are the numbers up to its size, each once.
LEMMA RankOneToOne ==
  ASSUME NEW S \in SUBSET Nat, IsFiniteSet(S)
  PROVE  /\ \A m, n \in S : Rank(S, m) = Rank(S, n) => m = n
         /\ \A k \in 1..Cardinality(S) : \E n \in S : Rank(S, n) = k
<1> DEFINE f == [n \in S |-> Rank(S, n)]
           K == 1..Cardinality(S)
<1>1. \A m, n \in S : Rank(S, m) = Rank(S, n) => m = n
  <2> SUFFICES ASSUME NEW m \in S, NEW n \in S, m < n  PROVE Rank(S, m) # Rank(S, n)
    OBVIOUS
  <2> QED BY RankRises, RankRange
<1>2. f \in Injection(S, K)
  BY <1>1, RankOfMember DEF Injection, IsInjective
<1>3. Cardinality(S) \in Nat
  BY FS_CardinalityType
<1>4. IsFiniteSet(K) /\ Cardinality(K) = Cardinality(S)
  BY <1>3, FS_Interval
<1>5. f \in Surjection(S, K)
  <2> HIDE DEF f, K
  <2> QED BY <1>2, <1>4, FS_Injection
<1>6. \A k \in K : \E n \in S : f[n] = k
  BY <1>5 DEF Surjection
<1> QED BY <1>1, <1>6

LEMMA InOrderAt ==
  ASSUME NEW S \in SUBSET Nat, IsFiniteSet(S)
  PROVE  /\ InOrder(S) \in [1..Cardinality(S) -> S] /\ Len(InOrder(S)) = Cardinality(S)
         /\ InOrder(S) \in Seq(S)
         /\ \A k \in 1..Cardinality(S) : Rank(S, InOrder(S)[k]) = k
         /\ \A n \in S : Rank(S, n) \in 1..Cardinality(S) /\ InOrder(S)[Rank(S, n)] = n
<1>1. Cardinality(S) \in Nat
  BY FS_CardinalityType
<1>2. ASSUME NEW k \in 1..Cardinality(S)
      PROVE  InOrder(S)[k] \in S /\ Rank(S, InOrder(S)[k]) = k
  <2>1. InOrder(S)[k] = CHOOSE n \in S : Rank(S, n) = k
    BY DEF InOrder
  <2>2. \E n \in S : Rank(S, n) = k
    BY RankOneToOne
  <2> QED BY <2>1, <2>2
<1>3. InOrder(S) \in [1..Cardinality(S) -> S]
  BY <1>2 DEF InOrder
<1>4. ASSUME NEW n \in S
      PROVE  Rank(S, n) \in 1..Cardinality(S) /\ InOrder(S)[Rank(S, n)] = n
  <2>1. Rank(S, n) \in 1..Cardinality(S)
    BY RankOfMember
  <2>2. PICK r \in 1..Cardinality(S) : r = Rank(S, n)
    BY <2>1
  <2>3. InOrder(S)[r] \in S /\ Rank(S, InOrder(S)[r]) = Rank(S, n)
    BY <1>2, <2>2
  <2>4. InOrder(S)[r] = n
    <3>1. \A i, j \in S : Rank(S, i) = Rank(S, j) => i = j
      BY RankOneToOne
    <3> QED BY <2>3, <3>1, Zenon
  <2> QED BY <2>1, <2>2, <2>4
<1>5. Len(InOrder(S)) = Cardinality(S) /\ InOrder(S) \in Seq(S)
  <2> DEFINE q == InOrder(S)
             c == Cardinality(S)
  <2>1. q \in [1..c -> S] /\ c \in Nat
    BY <1>1, <1>3
  <2> HIDE DEF q, c
  <2>2. q \in Seq(S) /\ Len(q) = c
    BY <2>1
  <2> QED BY <2>2 DEF q, c
<1> QED BY <1>2, <1>3, <1>4, <1>5

LEMMA PickType ==
  ASSUME NEW X, NEW s \in Seq(X), NEW S \in SUBSET DOMAIN s
  PROVE  /\ IsFiniteSet(S) /\ S \in SUBSET Nat /\ Cardinality(S) \in Nat
         /\ Pick(s, S) \in Seq(X) /\ Len(Pick(s, S)) = Cardinality(S)
         /\ \A n \in S : Pick(s, S)[Rank(S, n)] = s[n]
<1>1. S \in SUBSET (1..Len(s)) /\ Len(s) \in Nat
  OBVIOUS
<1>2. IsFiniteSet(S) /\ S \in SUBSET Nat /\ Cardinality(S) \in Nat
  <2>1. IsFiniteSet(1..Len(s))
    BY <1>1, FS_Interval
  <2> QED BY <1>1, <2>1, FS_Subset, FS_CardinalityType
<1>3. \A k \in 1..Cardinality(S) : InOrder(S)[k] \in S
  BY <1>2, InOrderAt
<1>4. \A k \in 1..Cardinality(S) : s[InOrder(S)[k]] \in X
  BY <1>3
<1>5. Pick(s, S) \in [1..Cardinality(S) -> X]
  BY <1>4 DEF Pick
<1>6. Pick(s, S) \in Seq(X) /\ Len(Pick(s, S)) = Cardinality(S)
  BY <1>2, <1>5
<1>7. ASSUME NEW n \in S  PROVE Pick(s, S)[Rank(S, n)] = s[n]
  BY <1>2, InOrderAt DEF Pick
<1> QED BY <1>2, <1>6, <1>7

\* P counts up to n, and O goes on from n.
LEMMA ShiftedSet ==
  ASSUME NEW n \in Nat, NEW O \in SUBSET Nat, IsFiniteSet(O)
  PROVE  /\ IsFiniteSet({n + j : j \in O})
         /\ Cardinality({n + j : j \in O}) = Cardinality(O)
<1> DEFINE T == {n + j : j \in O}
           f == [j \in O |-> n + j]
<1>1. f \in Bijection(O, T)
  <2>1. f \in [O -> T] /\ \A t \in T : \E j \in O : f[j] = t
    OBVIOUS
  <2>2. \A i, j \in O : f[i] = f[j] => i = j
    OBVIOUS
  <2> HIDE DEF f, T
  <2> QED BY <2>1, <2>2 DEF Bijection, Injection, Surjection, IsInjective
<1> HIDE DEF T, f
<1>2. ExistsBijection(O, T)
  BY <1>1 DEF ExistsBijection
<1>3. IsFiniteSet(T) /\ Cardinality(T) = Cardinality(O)
  BY <1>2, FS_Bijection
<1> QED BY <1>3 DEF T

Onward(n, P, O) == P \cup {n + j : j \in O}

LEMMA CountingOn ==
  ASSUME NEW n \in Nat, NEW P \in SUBSET (1..n), NEW O \in SUBSET (Nat \ {0}), IsFiniteSet(O)
  PROVE  /\ IsFiniteSet(P) /\ IsFiniteSet(Onward(n, P, O))
         /\ Cardinality(Onward(n, P, O)) = Cardinality(P) + Cardinality(O)
         /\ \A i \in 1..n : Rank(Onward(n, P, O), i) = Rank(P, i)
         /\ \A j \in Nat : Rank(Onward(n, P, O), n + j) = Cardinality(P) + Rank(O, j)
<1> DEFINE M == Onward(n, P, O)
<1>0. M = P \cup {n + j : j \in O}
  BY DEF Onward
<1> HIDE DEF M
<1>1. IsFiniteSet(P) /\ P \in SUBSET Nat
  <2>1. IsFiniteSet(1..n)
    BY FS_Interval
  <2>2. IsFiniteSet(P)
    BY <2>1, FS_Subset
  <2>3. \A k \in 1..n : k \in Nat
    OBVIOUS
  <2> QED BY <2>2, <2>3
<1>2. ASSUME NEW Q \in SUBSET O
      PROVE  /\ IsFiniteSet(P \cup {n + j : j \in Q})
             /\ Cardinality(P \cup {n + j : j \in Q}) = Cardinality(P) + Cardinality(Q)
  <2> DEFINE T == {n + j : j \in Q}
  <2>1. IsFiniteSet(Q) /\ Q \in SUBSET Nat /\ Q \in SUBSET O
    BY FS_Subset
  <2>2. IsFiniteSet(T) /\ Cardinality(T) = Cardinality(Q)
    BY <2>1, ShiftedSet
  <2>3. P \cap T = {}
    BY <2>1
  <2> HIDE DEF T
  <2>4. Cardinality(P \cap T) = 0
    BY <2>3, FS_EmptySet
  <2>5. /\ IsFiniteSet(P \cup T)
        /\ Cardinality(P \cup T) = Cardinality(P) + Cardinality(T) - Cardinality(P \cap T)
    BY <1>1, <2>2, FS_Union
  <2>6. Cardinality(P) \in Nat /\ Cardinality(T) \in Nat
    BY <1>1, <2>2, FS_CardinalityType
  <2>7. IsFiniteSet(P \cup T) /\ Cardinality(P \cup T) = Cardinality(P) + Cardinality(Q)
    BY <2>2, <2>4, <2>5, <2>6
  <2> QED BY <2>7 DEF T
<1>3. IsFiniteSet(M) /\ Cardinality(M) = Cardinality(P) + Cardinality(O)
  BY <1>0, <1>2
<1>4. ASSUME NEW i \in 1..n  PROVE Rank(M, i) = Rank(P, i)
  <2>1. {k \in M : k <= i} = {k \in P : k <= i}
    BY <1>0
  <2> QED BY <2>1 DEF Rank
<1>5. ASSUME NEW j \in Nat  PROVE Rank(M, n + j) = Cardinality(P) + Rank(O, j)
  <2> DEFINE Q == {k \in O : k <= j}
  <2>1. {k \in M : k <= n + j} = P \cup {n + k : k \in Q}
    <3>1. \A k \in Nat : n + k <= n + j <=> k <= j
      OBVIOUS
    <3>2. \A k \in 1..n : k <= n + j
      OBVIOUS
    <3>3. \A k \in O : k \in Nat
      OBVIOUS
    <3> QED BY <1>0, <3>1, <3>2, <3>3
  <2>2. Q \in SUBSET O
    OBVIOUS
  <2>3. Cardinality(P \cup {n + k : k \in Q}) = Cardinality(P) + Cardinality(Q)
    <3> HIDE DEF Q
    <3> QED BY <1>2, <2>2
  <2>4. Rank(M, n + j) = Cardinality({k \in M : k <= n + j}) /\ Rank(O, j) = Cardinality(Q)
    BY DEF Rank
  <2> QED BY <2>1, <2>3, <2>4
<1> QED BY <1>1, <1>3, <1>4, <1>5 DEF M

-----------------------------------------------------------------------------
(* Up to a number *)

LEMMA LeastOf ==
  ASSUME NEW T \in SUBSET Nat, T # {}
  PROVE  \E m \in T : \A n \in T : m <= n
<1> DEFINE Less == OpToRel(<, Nat)
<1>1. IsWellFoundedOn(Less, Nat)
  BY NatLessThanWellFounded
<1>2. \A x, y \in Nat : <<x, y>> \in Less <=> x < y
  BY DEF OpToRel
<1> HIDE DEF Less
<1>3. PICK m \in T : \A n \in T : <<n, m>> \notin Less
  BY <1>1, WFMin
<1>4. \A n \in T : m <= n
  <2> TAKE n \in T
  <2>1. m \in Nat /\ n \in Nat
    OBVIOUS
  <2>2. ~(n < m)
    BY <1>2, <1>3, <2>1
  <2> QED BY <2>1, <2>2
<1> QED BY <1>4

LEMMA CountedUp ==
  ASSUME NEW L \in Nat, NEW T, 0 \in T, \A n \in 0..(L - 1) : n \in T => n + 1 \in T
  PROVE  0..L \subseteq T
<1> DEFINE B == {n \in 0..L : n \notin T}
<1> SUFFICES ASSUME B # {}  PROVE FALSE
  OBVIOUS
<1>1. B \in SUBSET Nat
  OBVIOUS
<1> HIDE DEF B
<1>2. PICK m \in B : \A n \in B : m <= n
  BY <1>1, LeastOf
<1>3. m \in 0..L /\ m \notin T
  BY DEF B
<1>4. m - 1 \in 0..(L - 1) /\ m - 1 \in 0..L /\ (m - 1) + 1 = m
  BY <1>3
<1>5. m - 1 \in T
  BY <1>2, <1>4 DEF B
<1> QED BY <1>3, <1>4, <1>5

\* Recursion on a number: y to begin with, G of what was there and of the place after it.
Stepping(L, Y, y, G) == {f \in [0..L -> Y] : f[0] = y /\ \A n \in 1..L : f[n] = G[<<f[n - 1], n>>]}

LEMMA StepByStep ==
  ASSUME NEW L \in Nat, NEW Y, NEW y \in Y, NEW G \in [Y \X (1..L) -> Y]
  PROVE  Stepping(L, Y, y, G) # {}
<1> SUFFICES \E f \in [0..L -> Y] : f[0] = y /\ \A n \in 1..L : f[n] = G[<<f[n - 1], n>>]
  BY DEF Stepping
<1> DEFINE Upto(n, f) == f[0] = y /\ \A k \in 1..n : f[k] = G[<<f[k - 1], k>>]
           T == {n \in 0..L : \E f \in [0..n -> Y] : Upto(n, f)}
<1>1. 0 \in T
  <2> DEFINE f == [k \in 0..0 |-> y]
  <2>1. 0..0 = {0} /\ 1..0 = {} /\ 0 \in 0..L
    OBVIOUS
  <2>2. f \in [0..0 -> Y] /\ Upto(0, f)
    BY <2>1
  <2> QED BY <2>1, <2>2
<1>2. ASSUME NEW n \in 0..(L - 1), n \in T  PROVE n + 1 \in T
  <2>1. PICK f \in [0..n -> Y] : Upto(n, f)
    BY <1>2
  <2> DEFINE g == [k \in 0..(n + 1) |-> IF k = n + 1 THEN G[<<f[n], n + 1>>] ELSE f[k]]
  <2>2. n \in Nat /\ n \in 0..n /\ n + 1 \in 1..L /\ n + 1 \in 0..L /\ n + 1 \in 0..(n + 1)
    OBVIOUS
  <2>3. <<f[n], n + 1>> \in Y \X (1..L)
    BY <2>2
  <2>4. \A k \in 0..n : k \in 0..(n + 1) /\ k # n + 1 /\ g[k] = f[k]
    BY <2>2
  <2>5. g[n + 1] = G[<<f[n], n + 1>>]
    BY <2>2
  <2>6. g \in [0..(n + 1) -> Y]
    <3>1. G[<<f[n], n + 1>>] \in Y
      BY <2>3
    <3>2. \A k \in 0..(n + 1) : k # n + 1 => k \in 0..n
      BY <2>2
    <3> QED BY <3>1, <3>2
  <2>7. Upto(n + 1, g)
    <3>1. 0 \in 0..n /\ n \in 0..n
      BY <2>2
    <3>2. \A k \in 1..n : k \in 0..n /\ k - 1 \in 0..n
      BY <2>2
    <3>3. \A k \in 1..(n + 1) : k \in 1..n \/ k = n + 1
      BY <2>2
    <3>4. (n + 1) - 1 = n
      BY <2>2
    <3> HIDE DEF g
    <3>5. \A k \in 1..n : g[k] = G[<<g[k - 1], k>>]
      BY <2>1, <2>4, <3>2
    <3>6. g[n + 1] = G[<<g[(n + 1) - 1], n + 1>>]
      BY <2>4, <2>5, <3>1, <3>4
    <3>7. g[0] = y
      BY <2>1, <2>4, <3>1
    <3> QED BY <3>3, <3>5, <3>6, <3>7
  <2> HIDE DEF g
  <2> QED BY <2>2, <2>6, <2>7
<1> HIDE DEF T
<1>3. L \in T
  BY <1>1, <1>2, CountedUp
<1> QED BY <1>3 DEF T

-----------------------------------------------------------------------------
(* Places in a sequence *)

\* One more number behind the others comes last.
LEMMA InOrderOn ==
  ASSUME NEW n \in Nat, NEW S \in SUBSET (1..n)
  PROVE  LET M == S \cup {n + 1}
         IN  /\ IsFiniteSet(S) /\ Cardinality(S) \in Nat /\ Cardinality(M) = Cardinality(S) + 1
             /\ \A k \in 1..Cardinality(S) : InOrder(M)[k] = InOrder(S)[k]
             /\ InOrder(M)[Cardinality(S) + 1] = n + 1
<1> DEFINE M == S \cup {n + 1}
<1>1. IsFiniteSet({1}) /\ {1} \in SUBSET (Nat \ {0}) /\ Cardinality({1}) = 1
  <2>1. IsFiniteSet({1}) /\ Cardinality({1}) = 1
    BY FS_Singleton, Zenon
  <2> QED BY <2>1
<1>2. M = Onward(n, S, {1})
  BY DEF Onward
<1>3. /\ IsFiniteSet(S) /\ IsFiniteSet(M) /\ Cardinality(M) = Cardinality(S) + 1
      /\ \A i \in 1..n : Rank(M, i) = Rank(S, i)
  <2> HIDE DEF M
  <2> QED BY <1>1, <1>2, CountingOn
<1>4. S \in SUBSET Nat /\ M \in SUBSET Nat /\ n + 1 \in M
  OBVIOUS
<1>5. Cardinality(S) \in Nat
  BY <1>3, FS_CardinalityType
<1>6. \A m \in M : InOrder(M)[Rank(M, m)] = m
  BY <1>3, <1>4, InOrderAt
<1>7. \A k \in 1..Cardinality(S) : InOrder(S)[k] \in S /\ Rank(S, InOrder(S)[k]) = k
  BY <1>3, <1>4, InOrderAt
<1>8. Rank(M, n + 1) = Cardinality(M)
  <2>1. \A k \in M : k <= n + 1
    <3>1. \A k \in S : k \in 1..n
      OBVIOUS
    <3> QED BY <3>1
  <2> HIDE DEF M
  <2> QED BY <2>1 DEF Rank
<1>9. \A k \in 1..Cardinality(S) : InOrder(M)[k] = InOrder(S)[k]
  <2> TAKE k \in 1..Cardinality(S)
  <2>1. InOrder(S)[k] \in S /\ InOrder(S)[k] \in M /\ InOrder(S)[k] \in 1..n
    BY <1>7
  <2>2. Rank(M, InOrder(S)[k]) = k
    BY <1>3, <1>7, <2>1
  <2> HIDE DEF M
  <2> QED BY <1>6, <2>1, <2>2
<1> HIDE DEF M
<1>10. InOrder(M)[Cardinality(S) + 1] = n + 1
  BY <1>3, <1>4, <1>6, <1>8
<1> QED BY <1>3, <1>5, <1>9, <1>10 DEF M

\* Where a sequence has a member of X.
Places(s, X) == {i \in DOMAIN s : s[i] \in X}

LEMMA PlacesJoined ==
  ASSUME NEW Y, NEW s \in Seq(Y), NEW t \in Seq(Y), NEW X
  PROVE  /\ Places(s \o t, X) = Onward(Len(s), Places(s, X), Places(t, X))
         /\ Places(s, X) \in SUBSET (1..Len(s)) /\ Places(t, X) \in SUBSET (1..Len(t))
         /\ IsFiniteSet(Places(s, X)) /\ IsFiniteSet(Places(t, X))
         /\ Cardinality(Places(s \o t, X)) = Cardinality(Places(s, X)) + Cardinality(Places(t, X))
<1> DEFINE u == s \o t
           n == Len(s)
           A == Places(s, X)
           B == Places(t, X)
<1>1. /\ n \in Nat /\ Len(t) \in Nat /\ DOMAIN s = 1..n /\ DOMAIN t = 1..Len(t)
      /\ DOMAIN u = 1..(n + Len(t)) /\ \A i \in 1..n : u[i] = s[i]
      /\ \A j \in 1..Len(t) : u[n + j] = t[j]
  BY SeqJoined, SeqMembers
<1> HIDE DEF u, n
<1>2. A \in SUBSET (1..n) /\ B \in SUBSET (1..Len(t))
  BY <1>1 DEF Places
<1>3. IsFiniteSet(A) /\ IsFiniteSet(B)
  <2>1. 1 \in Int /\ n \in Int /\ Len(t) \in Int
    BY <1>1
  <2>2. IsFiniteSet(1..n) /\ IsFiniteSet(1..Len(t))
    BY <2>1, FS_Interval, Zenon
  <2> QED BY <1>2, <2>2, FS_Subset, Zenon
<1>4. Places(u, X) = Onward(n, A, B)
  <2>1. \A i : i \in Places(u, X) => i \in Onward(n, A, B)
    <3> TAKE i
    <3> SUFFICES ASSUME i \in Places(u, X)  PROVE i \in Onward(n, A, B)
      OBVIOUS
    <3>1. i \in 1..(n + Len(t)) /\ u[i] \in X
      BY <1>1 DEF Places
    <3>2. CASE i \in 1..n
      BY <1>1, <3>1, <3>2 DEF Places, Onward
    <3>3. CASE i \notin 1..n
      <4>1. i - n \in 1..Len(t) /\ i = n + (i - n)
        BY <1>1, <3>1, <3>3
      <4>2. PICK j \in 1..Len(t) : i = n + j
        BY <4>1
      <4>3. j \in B
        BY <1>1, <3>1, <4>2 DEF Places
      <4> QED BY <4>2, <4>3 DEF Onward
    <3> QED BY <3>2, <3>3
  <2>2. \A i \in A : i \in Places(u, X)
    <3> TAKE i \in A
    <3>1. i \in 1..n /\ i \in 1..(n + Len(t)) /\ s[i] \in X
      BY <1>1, <1>2 DEF Places
    <3> QED BY <1>1, <3>1 DEF Places
  <2>3. \A j \in B : n + j \in Places(u, X)
    <3> TAKE j \in B
    <3>1. j \in 1..Len(t) /\ n + j \in 1..(n + Len(t)) /\ t[j] \in X
      BY <1>1, <1>2 DEF Places
    <3> QED BY <1>1, <3>1 DEF Places
  <2> HIDE DEF A, B
  <2> QED BY <2>1, <2>2, <2>3 DEF Onward
<1>5. B \in SUBSET (Nat \ {0})
  <2>1. \A j \in 1..Len(t) : j \in Nat \ {0}
    BY <1>1
  <2> QED BY <1>2, <2>1
<1> HIDE DEF A, B
<1>6. Cardinality(Onward(n, A, B)) = Cardinality(A) + Cardinality(B)
  BY <1>1, <1>2, <1>3, <1>5, CountingOn
<1> QED BY <1>2, <1>3, <1>4, <1>6 DEF u, n, A, B


LEMMA GreatestOf ==
  ASSUME NEW n \in Nat, NEW T \in SUBSET (0..n), T # {}
  PROVE  \E m \in T : \A k \in T : k <= m
<1> DEFINE U == {n - k : k \in T}
<1>1. U \in SUBSET Nat /\ U # {}
  <2>1. \A k \in 0..n : n - k \in Nat
    OBVIOUS
  <2>2. PICK k \in T : TRUE
    OBVIOUS
  <2>3. n - k \in U
    BY <2>2
  <2>4. \A u \in U : u \in Nat
    BY <2>1
  <2> QED BY <2>3, <2>4
<1>2. PICK u \in U : \A w \in U : u <= w
  <2> HIDE DEF U
  <2> QED BY <1>1, LeastOf
<1>3. PICK m \in T : u = n - m
  OBVIOUS
<1>4. ASSUME NEW k \in T  PROVE k <= m
  <2>1. n - k \in U /\ k \in Int /\ m \in Int
    OBVIOUS
  <2>2. u <= n - k
    BY <1>2, <2>1
  <2> QED BY <1>3, <2>1, <2>2
<1> QED BY <1>4
=============================================================================
