----------------------------- MODULE DataProofs -----------------------------
(***************************************************************************)
(* Proofs about DataStatements, for any columns, tables, faults and        *)
(* migrations: every placeholder of a statement gets the argument that was *)
(* meant for it, on each dialect, so each statement does what its call     *)
(* asks, a run all of it or nothing, and a seed is inserted once.          *)
(***************************************************************************)
EXTENDS DataStatements, OrderProofs

(* What a statement is made of *)

Piece == [mark : Nat \cup {-1}, lit : Nat]

\* st is written by the code: values, then a condition of the author's, each with its
\* arguments.
Writes(st, d, values, cond, extra) ==
  /\ values \in Seq(Value) /\ cond \in Condition /\ extra \in Seq(Nat)
  /\ st.set = Pieces(d, values) /\ st.where = Where(cond)
  /\ st.args = Args(values) \o extra

LEMMA ArgsOfValues ==
  ASSUME NEW values \in Seq(Value)
  PROVE  /\ Plain(values) \in SUBSET (1..Len(values)) /\ IsFiniteSet(Plain(values))
         /\ Args(values) \in Seq(Nat) /\ Len(Args(values)) = Cardinality(Plain(values))
         /\ \A i \in Plain(values) : /\ Rank(Plain(values), i) \in 1..Len(Args(values))
                                     /\ Args(values)[Rank(Plain(values), i)] = values[i].v
         /\ \A k \in 1..Len(Args(values)) : \E i \in Plain(values) : Rank(Plain(values), i) = k
<1> DEFINE s == [i \in DOMAIN values |-> values[i].v]
           P == Plain(values)
<1>1. s \in Seq(Nat) /\ DOMAIN s = DOMAIN values /\ DOMAIN values = 1..Len(values)
  <2>1. /\ Len(values) \in Nat /\ DOMAIN values = 1..Len(values)
        /\ \A i \in 1..Len(values) : values[i] \in Value
    BY SeqMembers
  <2>2. s \in [1..Len(values) -> Nat]
    BY <2>1 DEF Value
  <2> HIDE DEF s
  <2> QED BY <2>1, <2>2, SeqMade
<1>2. P \in SUBSET DOMAIN values
  BY DEF Plain
<1> HIDE DEF s, P
<1>3. /\ IsFiniteSet(P) /\ P \in SUBSET Nat /\ Pick(s, P) \in Seq(Nat)
      /\ Len(Pick(s, P)) = Cardinality(P)
      /\ \A i \in P : Pick(s, P)[Rank(P, i)] = s[i]
  BY <1>1, <1>2, PickType
<1>4. Args(values) = Pick(s, P)
  BY DEF Args, s, P
<1>5. \A i \in P : Rank(P, i) \in 1..Cardinality(P)
  BY <1>3, RankOfMember
<1>6. \A k \in 1..Cardinality(P) : \E i \in P : Rank(P, i) = k
  BY <1>3, RankOneToOne
<1>7. \A i \in P : s[i] = values[i].v
  BY <1>2 DEF s
<1> QED BY <1>1, <1>2, <1>3, <1>4, <1>5, <1>6, <1>7 DEF P

LEMMA OpenTests ==
  ASSUME NEW cond \in Condition
  PROVE  /\ Open(cond) \in SUBSET (1..Len(cond.tests)) /\ IsFiniteSet(Open(cond))
         /\ Open(cond) \in SUBSET (Nat \ {0}) /\ Cardinality(Open(cond)) \in Nat
         /\ \A j \in Open(cond) : Rank(Open(cond), j) \in 1..Cardinality(Open(cond))
         /\ \A k \in 1..Cardinality(Open(cond)) : \E j \in Open(cond) : Rank(Open(cond), j) = k
<1> DEFINE O == Open(cond)
<1>1. O \in SUBSET (1..Len(cond.tests)) /\ Len(cond.tests) \in Nat
  BY DEF Open, Condition
<1> HIDE DEF O
<1>2. IsFiniteSet(1..Len(cond.tests))
  BY <1>1, FS_Interval
<1>3. IsFiniteSet(O)
  BY <1>1, <1>2, FS_Subset
<1>4. O \in SUBSET (Nat \ {0}) /\ O \in SUBSET Nat
  <2>1. \A k \in 1..Len(cond.tests) : k \in Nat \ {0}
    BY <1>1
  <2> QED BY <1>1, <2>1
<1> QED BY <1>1, <1>3, <1>4, RankOfMember, RankOneToOne, FS_CardinalityType DEF O

\* The text of such a statement, and the places of its placeholders.
LEMMA TextOfWritten ==
  ASSUME NEW d, NEW values, NEW cond, NEW extra, NEW st, Writes(st, d, values, cond, extra)
  PROVE  /\ Len(values) \in Nat /\ Len(st.set) = Len(values)
         /\ DOMAIN st.where = 1..Len(cond.tests) /\ Len(cond.tests) \in Nat
         /\ Text(st) \in Seq(Piece) /\ Len(Text(st)) = Len(values) + Len(cond.tests)
         /\ \A i \in 1..Len(values) :
              Text(st)[i] = IF values[i].expr THEN Literal(values[i].v)
                            ELSE Placeholder(d, Rank(Plain(values), i))
         /\ \A j \in 1..Len(cond.tests) :
              /\ st.where[j].col = cond.tests[j].col
              /\ Text(st)[Len(values) + j] =
                   IF cond.tests[j].lit # 0 THEN Literal(cond.tests[j].lit)
                   ELSE Mark(IF cond.first = 0 THEN 0 ELSE cond.first + Rank(Open(cond), j) - 1)
         /\ MarksOf(st) = Plain(values) \cup {Len(values) + j : j \in Open(cond)}
<1> DEFINE n == Len(values)
           m == Len(cond.tests)
           A == Pieces(d, values)
           B == [j \in DOMAIN Where(cond) |-> Where(cond)[j].piece]
<1>0. /\ values \in Seq(Value) /\ cond \in Condition /\ cond.tests \in Seq([col : Columns, lit : Nat])
      /\ cond.first \in Nat /\ st.set = A /\ st.where = Where(cond)
      /\ DOMAIN values = 1..n /\ DOMAIN cond.tests = 1..m /\ n \in Nat /\ m \in Nat
  BY DEF Writes, Condition
<1>1. ASSUME NEW i \in 1..n
      PROVE  /\ A[i] = IF values[i].expr THEN Literal(values[i].v)
                       ELSE Placeholder(d, Rank(Plain(values), i))
             /\ A[i] \in Piece
             /\ A[i].mark # -1 <=> i \in Plain(values)
  <2>1. A[i] = IF values[i].expr THEN Literal(values[i].v)
               ELSE Placeholder(d, Rank(Plain(values), i))
    BY <1>0 DEF Pieces
  <2>2. Rank(Plain(values), i) \in Nat
    BY <1>0, ArgsOfValues, RankRange
  <2>3. values[i] \in Value
    BY <1>0
  <2> QED BY <1>0, <2>1, <2>2, <2>3 DEF Literal, Placeholder, Mark, Piece, Plain, Value
<1>2. ASSUME NEW j \in 1..m
      PROVE  /\ Where(cond)[j].col = cond.tests[j].col
             /\ B[j] = IF cond.tests[j].lit # 0 THEN Literal(cond.tests[j].lit)
                       ELSE Mark(IF cond.first = 0 THEN 0
                                 ELSE cond.first + Rank(Open(cond), j) - 1)
             /\ B[j] \in Piece
             /\ B[j].mark # -1 <=> j \in Open(cond)
  <2>1. /\ Where(cond)[j].col = cond.tests[j].col
        /\ B[j] = IF cond.tests[j].lit # 0 THEN Literal(cond.tests[j].lit)
                  ELSE Mark(IF cond.first = 0 THEN 0 ELSE cond.first + Rank(Open(cond), j) - 1)
    BY <1>0 DEF Where
  <2>2. Rank(Open(cond), j) \in Nat
    BY <1>0, OpenTests, RankRange
  <2>3. cond.tests[j].lit \in Nat
    <3>1. cond.tests[j] \in [col : Columns, lit : Nat]
      BY <1>0, SeqMembers
    <3> QED BY <3>1
  <2>4. cond.first # 0 => cond.first + Rank(Open(cond), j) - 1 \in Nat
    BY <1>0, <2>2
  <2> QED BY <1>0, <2>1, <2>3, <2>4 DEF Literal, Mark, Piece, Open
<1>3. A \in Seq(Piece) /\ Len(A) = n
  <2>1. A \in [1..n -> Piece]
    BY <1>0, <1>1 DEF Pieces
  <2> HIDE DEF A
  <2> QED BY <1>0, <2>1
<1>4. B \in Seq(Piece) /\ Len(B) = m
  <2>1. DOMAIN Where(cond) = 1..m
    BY <1>0 DEF Where
  <2>2. B \in [1..m -> Piece]
    BY <1>2, <2>1
  <2> HIDE DEF B
  <2> QED BY <1>0, <2>2
<1>5. Text(st) = A \o B
  BY <1>0 DEF Text
<1>6. DOMAIN st.where = 1..m
  BY <1>0 DEF Where
<1> HIDE DEF A, B
<1>7. /\ Text(st) \in Seq(Piece) /\ Len(Text(st)) = n + m
      /\ \A i \in 1..n : Text(st)[i] = A[i]
      /\ \A j \in 1..m : Text(st)[n + j] = B[j]
  <2>1. /\ A \o B \in Seq(Piece) /\ Len(A \o B) = Len(A) + Len(B)
        /\ \A i \in 1..Len(A) : (A \o B)[i] = A[i]
        /\ \A j \in 1..Len(B) : (A \o B)[Len(A) + j] = B[j]
    BY <1>3, <1>4
  <2> QED BY <2>1, <1>3, <1>4, <1>5
<1>8. MarksOf(st) = Plain(values) \cup {n + j : j \in Open(cond)}
  <2> DEFINE M == Plain(values) \cup {n + j : j \in Open(cond)}
  <2>1. DOMAIN Text(st) = 1..(n + m)
    BY <1>0, <1>7
  <2>2. \A i \in 1..n : Text(st)[i].mark # -1 <=> i \in M
    <3>1. \A j \in Open(cond) : j \in Nat /\ j >= 1
      BY <1>0, OpenTests
    <3> QED BY <1>0, <1>1, <1>7, <3>1
  <2>3. \A j \in 1..m : Text(st)[n + j].mark # -1 <=> n + j \in M
    <3>1. \A i \in Plain(values) : i \in 1..n
      BY <1>0, ArgsOfValues
    <3>2. \A j \in Open(cond) : j \in Nat
      BY <1>0, OpenTests
    <3>3. \A j \in 1..m : n + j \in M <=> j \in Open(cond)
      BY <1>0, <3>1, <3>2
    <3> QED BY <1>2, <1>7, <3>3
  <2>4. \A i \in 1..(n + m) : i \in 1..n \/ \E j \in 1..m : i = n + j
    <3> TAKE i \in 1..(n + m)
    <3>1. CASE i <= n
      BY <1>0, <3>1
    <3>2. CASE i > n
      <4>1. i - n \in 1..m /\ i = n + (i - n)
        BY <1>0, <3>2
      <4> QED BY <4>1
    <3> QED BY <1>0, <3>1, <3>2
  <2>5. \A i \in M : i \in 1..(n + m)
    <3>1. \A i \in Plain(values) : i \in 1..n
      BY <1>0, ArgsOfValues
    <3>2. \A j \in Open(cond) : j \in 1..m
      BY <1>0, OpenTests
    <3> QED BY <1>0, <3>1, <3>2
  <2>6. \A i \in 1..(n + m) : Text(st)[i].mark # -1 <=> i \in M
    BY <2>2, <2>3, <2>4
  <2> HIDE DEF M
  <2>7. MarksOf(st) = M
    BY <2>1, <2>5, <2>6 DEF MarksOf
  <2> QED BY <2>7 DEF M
<1> QED BY <1>0, <1>1, <1>2, <1>3, <1>6, <1>7, <1>8

-----------------------------------------------------------------------------
(* Every placeholder gets its argument *)

\* The places of the placeholders are counted as the arguments are.
LEMMA MarksCounted ==
  ASSUME NEW d, NEW values, NEW cond, NEW extra, NEW st, Writes(st, d, values, cond, extra)
  PROVE  /\ IsFiniteSet(MarksOf(st))
         /\ Cardinality(MarksOf(st)) = Cardinality(Plain(values)) + Cardinality(Open(cond))
         /\ \A i \in 1..Len(values) : Rank(MarksOf(st), i) = Rank(Plain(values), i)
         /\ \A j \in 1..Len(cond.tests) :
              Rank(MarksOf(st), Len(values) + j) = Cardinality(Plain(values)) + Rank(Open(cond), j)
<1> DEFINE P == Plain(values)
           O == Open(cond)
           n == Len(values)
           M == MarksOf(st)
<1>1. n \in Nat /\ P \in SUBSET (1..n)
  BY ArgsOfValues, TextOfWritten DEF Writes
<1>2. O \in SUBSET (Nat \ {0}) /\ IsFiniteSet(O)
  BY OpenTests DEF Writes
<1>3. M = Onward(n, P, O)
  BY TextOfWritten DEF Onward
<1> HIDE DEF P, O, n, M
<1>4. /\ IsFiniteSet(M) /\ Cardinality(M) = Cardinality(P) + Cardinality(O)
      /\ \A i \in 1..n : Rank(M, i) = Rank(P, i)
      /\ \A j \in Nat : Rank(M, n + j) = Cardinality(P) + Rank(O, j)
  BY <1>1, <1>2, <1>3, CountingOn
<1>5. \A j \in 1..Len(cond.tests) : j \in Nat
  BY TextOfWritten
<1> QED BY <1>4, <1>5 DEF P, O, n, M

\* The i-th value of a statement is the i-th of the values it was built from, and the
\* placeholders of the condition get its own arguments.
LEMMA ValuesServed ==
  ASSUME NEW d \in Dialects, NEW values, NEW cond, NEW extra, NEW st,
         Writes(st, d, values, cond, extra),
         Numbered(d, cond, extra, Cardinality(Plain(values)))
  PROVE  /\ \A i \in 1..Len(values) : ValueAt(st, i) = values[i].v
         /\ \A j \in 1..Len(cond.tests) :
              ValueAt(st, Len(values) + j) =
                IF cond.tests[j].lit # 0 THEN cond.tests[j].lit ELSE extra[Rank(Open(cond), j)]
<1> DEFINE P == Plain(values)
           O == Open(cond)
           n == Len(values)
           b == Cardinality(P)
           A == Args(values)
<1>1. /\ A \in Seq(Nat) /\ Len(A) = b /\ b \in Nat
      /\ \A i \in P : Rank(P, i) \in 1..b /\ A[Rank(P, i)] = values[i].v
  BY ArgsOfValues, FS_CardinalityType DEF Writes
<1>2. extra \in Seq(Nat) /\ st.args = A \o extra /\ Cardinality(O) = Len(extra)
  BY DEF Writes, Numbered
<1>3. \A j \in O : Rank(O, j) \in 1..Len(extra)
  BY <1>2, OpenTests DEF Writes
<1>4. /\ \A k \in 1..b : st.args[k] = A[k]
      /\ \A k \in 1..Len(extra) : st.args[b + k] = extra[k]
  <2> HIDE DEF A
  <2> QED BY <1>1, <1>2
<1>5. ASSUME NEW i \in 1..n  PROVE ValueAt(st, i) = values[i].v
  <2>1. Text(st)[i] = IF values[i].expr THEN Literal(values[i].v)
                      ELSE Placeholder(d, Rank(P, i))
    BY TextOfWritten
  <2>2. Rank(MarksOf(st), i) = Rank(P, i)
    BY MarksCounted
  <2>3. CASE values[i].expr
    BY <2>1, <2>3 DEF ValueAt, Literal
  <2>4. CASE ~values[i].expr
    <3>1. i \in P
      BY <2>4 DEF Plain, Writes
    <3>2. Rank(P, i) \in 1..b /\ A[Rank(P, i)] = values[i].v
      BY <1>1, <3>1
    <3>3. st.args[Rank(P, i)] = values[i].v
      BY <1>4, <3>2
    <3>4. Text(st)[i].mark \in {0, Rank(P, i)} /\ Text(st)[i].mark # -1
      BY <1>1, <2>1, <2>4, <3>2 DEF Placeholder, Mark
    <3> HIDE DEF P, A, n, b
    <3>5. ValueAt(st, i) = st.args[Rank(P, i)]
      BY <2>2, <3>4 DEF ValueAt
    <3> QED BY <3>3, <3>5
  <2> QED BY <2>3, <2>4
<1>6. ASSUME NEW j \in 1..Len(cond.tests)
      PROVE  ValueAt(st, n + j) = IF cond.tests[j].lit # 0 THEN cond.tests[j].lit
                                  ELSE extra[Rank(O, j)]
  <2>1. Text(st)[n + j] = IF cond.tests[j].lit # 0 THEN Literal(cond.tests[j].lit)
                          ELSE Mark(IF cond.first = 0 THEN 0 ELSE cond.first + Rank(O, j) - 1)
    BY TextOfWritten
  <2>2. Rank(MarksOf(st), n + j) = b + Rank(O, j)
    BY MarksCounted
  <2>3. CASE cond.tests[j].lit # 0
    BY <2>1, <2>3 DEF ValueAt, Literal
  <2>4. CASE cond.tests[j].lit = 0
    <3>1. j \in O
      BY <2>4 DEF Open, Writes, Condition
    <3>2. Rank(O, j) \in 1..Len(extra) /\ Len(extra) \in Nat
      BY <1>2, <1>3, <3>1
    <3>3. st.args[b + Rank(O, j)] = extra[Rank(O, j)]
      BY <1>4, <3>2
    <3>4. cond.first = IF d \in ByPlace THEN 0 ELSE b + 1
      BY <3>1 DEF Numbered
    <3>5. Text(st)[n + j].mark \in {0, b + Rank(O, j)} /\ Text(st)[n + j].mark # -1
      BY <1>1, <2>1, <2>4, <3>2, <3>4 DEF Mark
    <3> HIDE DEF P, O, A, n, b
    <3>6. ValueAt(st, n + j) = st.args[b + Rank(O, j)]
      BY <2>2, <3>5 DEF ValueAt
    <3> QED BY <2>4, <3>3, <3>6
  <2> QED BY <2>3, <2>4
<1> QED BY <1>5, <1>6

\* The databases take the statement: as many arguments as placeholders, of their kind.
LEMMA StatementAccepted ==
  ASSUME NEW d \in Dialects, NEW values, NEW cond, NEW extra, NEW st,
         Writes(st, d, values, cond, extra),
         Numbered(d, cond, extra, Cardinality(Plain(values)))
  PROVE  Accepts(d, st)
<1> DEFINE P == Plain(values)
           O == Open(cond)
           n == Len(values)
           b == Cardinality(P)
           A == Args(values)
           N == {Text(st)[i].mark : i \in MarksOf(st)}
<1>1. /\ A \in Seq(Nat) /\ Len(A) = b /\ b \in Nat /\ P \in SUBSET (1..n)
      /\ \A i \in P : Rank(P, i) \in 1..b
      /\ \A k \in 1..b : \E i \in P : Rank(P, i) = k
  BY ArgsOfValues, FS_CardinalityType DEF Writes
<1>2. /\ extra \in Seq(Nat) /\ st.args = A \o extra /\ Cardinality(O) = Len(extra)
      /\ Len(extra) \in Nat
  BY DEF Writes, Numbered
<1>3. /\ \A j \in O : Rank(O, j) \in 1..Len(extra)
      /\ \A k \in 1..Len(extra) : \E j \in O : Rank(O, j) = k
      /\ O \in SUBSET (1..Len(cond.tests))
  BY <1>2, OpenTests DEF Writes
<1>4. Len(st.args) = b + Len(extra) /\ DOMAIN st.args = 1..(b + Len(extra))
  <2>1. A \in Seq(Nat) /\ Len(A) = b /\ b \in Nat /\ extra \in Seq(Nat) /\ st.args = A \o extra
    BY <1>1, <1>2
  <2> HIDE DEF A, b
  <2> QED BY <2>1, SeqJoined
<1>5. Cardinality(MarksOf(st)) = Len(st.args)
  BY <1>2, <1>4, MarksCounted
<1>6. /\ n \in Nat /\ MarksOf(st) = P \cup {n + j : j \in O}
      /\ \A i \in P : Text(st)[i].mark = Placeholder(d, Rank(P, i)).mark
      /\ \A j \in O : Text(st)[n + j].mark =
           IF cond.first = 0 THEN 0 ELSE cond.first + Rank(O, j) - 1
  <2>1. \A i \in P : i \in 1..n /\ ~values[i].expr
    BY <1>1 DEF Plain
  <2>2. \A j \in O : j \in 1..Len(cond.tests) /\ cond.tests[j].lit = 0
    BY <1>3 DEF Open
  <2>3. \A j \in O : Text(st)[n + j].mark =
          IF cond.first = 0 THEN 0 ELSE cond.first + Rank(O, j) - 1
    <3> TAKE j \in O
    <3>1. j \in 1..Len(cond.tests) /\ cond.tests[j].lit = 0
      BY <2>2
    <3>2. Text(st)[n + j] = Mark(IF cond.first = 0 THEN 0 ELSE cond.first + Rank(O, j) - 1)
      BY <3>1, TextOfWritten
    <3> HIDE DEF O, n
    <3> QED BY <3>2 DEF Mark
  <2>4. \A i \in P : Text(st)[i].mark = Placeholder(d, Rank(P, i)).mark
    BY <2>1, TextOfWritten
  <2> QED BY <2>3, <2>4, TextOfWritten
<1>7. O # {} => cond.first = IF d \in ByPlace THEN 0 ELSE b + 1
  BY DEF Numbered
<1> HIDE DEF P, O, A, n, b
<1>8. CASE d \in ByPlace
  <2>1. N \subseteq {0}
    BY <1>6, <1>7, <1>8 DEF Placeholder, Mark
  <2> HIDE DEF N
  <2>2. Accepts(d, st) <=> CASE d = "mysql"  -> N \subseteq {0} /\ Cardinality(MarksOf(st)) = Len(st.args)
                             [] d = "sqlite" -> N \subseteq {0} /\ Cardinality(MarksOf(st)) <= Len(st.args)
                             [] OTHER -> Accepts(d, st)
    BY <1>8 DEF Accepts, ByPlace, N
  <2> QED BY <1>1, <1>2, <1>4, <1>5, <1>8, <2>1, <2>2 DEF ByPlace
<1>9. CASE d \notin ByPlace
  <2>1. \A i \in P : Text(st)[i].mark = Rank(P, i)
    BY <1>6, <1>9 DEF Placeholder, Mark
  <2>2. \A j \in O : Text(st)[n + j].mark = b + Rank(O, j)
    <3>1. \A j \in O : cond.first = b + 1 /\ Rank(O, j) \in Nat
      BY <1>2, <1>3, <1>7, <1>9
    <3> QED BY <1>1, <1>6, <3>1
  <2>3. ASSUME NEW k \in N  PROVE k \in 1..(b + Len(extra))
    <3>1. PICK i \in MarksOf(st) : k = Text(st)[i].mark
      OBVIOUS
    <3>2. CASE i \in P
      <4>1. k = Rank(P, i) /\ Rank(P, i) \in 1..b
        BY <1>1, <2>1, <3>1, <3>2
      <4> QED BY <1>1, <1>2, <4>1
    <3>3. CASE i \in {n + j : j \in O}
      BY <1>1, <1>2, <1>3, <2>2, <3>1, <3>3
    <3> QED BY <1>6, <3>2, <3>3
  <2>4. ASSUME NEW k \in 1..(b + Len(extra))  PROVE k \in N
    <3>1. CASE k <= b
      <4>1. PICK i \in P : Rank(P, i) = k
        BY <1>1, <1>2, <3>1
      <4>2. i \in MarksOf(st) /\ Text(st)[i].mark = k
        BY <1>6, <2>1, <4>1
      <4> QED BY <4>2
    <3>2. CASE k > b
      <4>1. k - b \in 1..Len(extra) /\ k = b + (k - b)
        BY <1>1, <1>2, <3>2
      <4>2. PICK j \in O : Rank(O, j) = k - b
        BY <1>3, <4>1
      <4>3. n + j \in MarksOf(st) /\ Text(st)[n + j].mark = k
        BY <1>6, <2>2, <4>1, <4>2
      <4> QED BY <4>3
    <3> QED BY <1>1, <1>2, <3>1, <3>2
  <2>5. N = DOMAIN st.args
    <3> HIDE DEF N
    <3> QED BY <1>4, <2>3, <2>4
  <2> HIDE DEF N
  <2>6. d = "postgres" => (Accepts(d, st) <=> N = DOMAIN st.args)
    BY DEF Accepts, N
  <2>7. d = "sqlserver" => (Accepts(d, st) <=> N \subseteq DOMAIN st.args)
    BY DEF Accepts, N
  <2> QED BY <1>9, <2>5, <2>6, <2>7 DEF Dialects, ByPlace
<1> QED BY <1>8, <1>9

-----------------------------------------------------------------------------
(* Rows *)

Rows == [Columns -> Nat]

\* Where the values of several rows are, one row after the other.
Place(w, i, j) == (i - 1) * w + j

LEMMA RowPlaces ==
  ASSUME NEW w \in Nat \ {0}, NEW R \in Nat, NEW i \in 1..R, NEW j \in 1..w
  PROVE  /\ Place(w, i, j) \in 1..(R * w)
         /\ (Place(w, i, j) - 1) \div w = i - 1 /\ (Place(w, i, j) - 1) % w = j - 1
<1> USE DEF Place
<1> DEFINE q == i - 1
           r == j - 1
<1>1. q \in Nat /\ r \in 0..(w - 1) /\ (i - 1) * w + j - 1 = q * w + r
  OBVIOUS
<1>2. (q * w + r) \div w = q /\ (q * w + r) % w = r
  <2> HIDE DEF q, r
  <2> QED BY <1>1
<1>3. (i - 1) * w \in Nat /\ (R - i) * w \in Nat
  OBVIOUS
<1>4. R * w = (R - i) * w + ((i - 1) * w + w)
  OBVIOUS
<1> QED BY <1>1, <1>2, <1>3, <1>4

LEMMA WholeRows ==
  ASSUME NEW w \in Nat \ {0}, NEW R \in Nat
  PROVE  R * w \in Nat /\ (R * w) \div w = R
<1>1. R * w = R * w + 0 /\ 0 \in 0..(w - 1)
  OBVIOUS
<1> QED BY <1>1

LEMMA PlaceOfValue ==
  ASSUME NEW w \in Nat \ {0}, NEW R \in Nat, NEW n \in 1..(R * w)
  PROVE  ((n - 1) \div w) + 1 \in 1..R /\ ((n - 1) % w) + 1 \in 1..w
<1> DEFINE q == (n - 1) \div w
           r == (n - 1) % w
<1>1. n - 1 \in Nat /\ R * w \in Nat /\ n - 1 < R * w
  OBVIOUS
<1>2. q \in Int /\ r \in 0..(w - 1) /\ n - 1 = w * q + r
  BY <1>1
<1> HIDE DEF q, r
<1>3. q >= 0
  <2> SUFFICES ASSUME q <= -1 PROVE FALSE
    BY <1>2
  <2>1. w * q <= w * (-1)
    BY <1>2
  <2> QED BY <1>1, <1>2, <2>1
<1>4. q < R
  <2> SUFFICES ASSUME q >= R PROVE FALSE
    BY <1>2
  <2>1. w * q >= w * R
    BY <1>2
  <2> QED BY <1>1, <1>2, <2>1
<1>5. q + 1 \in 1..R /\ r + 1 \in 1..w
  BY <1>2, <1>3, <1>4
<1> QED BY <1>5 DEF q, r

LEMMA RowsOneByOne ==
  ASSUME NEW rows \in Seq(Seq(Value)), NEW w \in Nat \ {0}, \A i \in DOMAIN rows : Len(rows[i]) = w
  PROVE  /\ RowByRow(rows, w) \in Seq(Value) /\ Len(RowByRow(rows, w)) = Len(rows) * w
         /\ \A i \in 1..Len(rows), j \in 1..w : RowByRow(rows, w)[Place(w, i, j)] = rows[i][j]
<1> DEFINE R == Len(rows)
           V == RowByRow(rows, w)
<1>1. R \in Nat /\ DOMAIN rows = 1..R /\ \A i \in 1..R : rows[i] \in Seq(Value) /\ Len(rows[i]) = w
  OBVIOUS
<1>2. \A i \in 1..R, j \in 1..w : rows[i][j] \in Value
  BY <1>1
<1> HIDE DEF R
<1>3. V = [n \in 1..(R * w) |-> rows[((n - 1) \div w) + 1][((n - 1) % w) + 1]]
  BY DEF RowByRow, R
<1>4. V \in [1..(R * w) -> Value]
  <2>1. \A n \in 1..(R * w) : rows[((n - 1) \div w) + 1][((n - 1) % w) + 1] \in Value
    <3> TAKE n \in 1..(R * w)
    <3>1. ((n - 1) \div w) + 1 \in 1..R /\ ((n - 1) % w) + 1 \in 1..w
      BY <1>1, PlaceOfValue
    <3> DEFINE a == ((n - 1) \div w) + 1
               b == ((n - 1) % w) + 1
    <3> HIDE DEF a, b
    <3>2. rows[a][b] \in Value
      BY <1>2, <3>1 DEF a, b
    <3> QED BY <3>2 DEF a, b
  <2> QED BY <1>3, <2>1
<1>5. R * w \in Nat
  BY <1>1
<1>6. V \in Seq(Value) /\ Len(V) = R * w
  BY <1>4, <1>5, SeqMade
<1>7. ASSUME NEW i \in 1..R, NEW j \in 1..w  PROVE V[Place(w, i, j)] = rows[i][j]
  <2> DEFINE n == Place(w, i, j)
  <2>1. n \in 1..(R * w) /\ (n - 1) \div w = i - 1 /\ (n - 1) % w = j - 1
    BY <1>1, RowPlaces
  <2>2. V[n] = rows[((n - 1) \div w) + 1][((n - 1) % w) + 1]
    BY <1>3, <2>1
  <2> HIDE DEF n, V
  <2>3. (i - 1) + 1 = i /\ (j - 1) + 1 = j
    BY <1>1
  <2>4. V[n] = rows[i][j]
    BY <2>1, <2>2, <2>3
  <2> QED BY <2>4 DEF n
<1> QED BY <1>6, <1>7 DEF R

-----------------------------------------------------------------------------
(* The columns of a call *)

LEMMA CallType ==
  ASSUME NEW c \in Call
  PROVE  /\ c.op \in {"insert", "batch", "update", "delete"}
         /\ c.cols \in Seq(Columns) /\ IsInjective(c.cols)
         /\ Len(c.cols) \in Nat /\ DOMAIN c.cols = 1..Len(c.cols)
         /\ \A j \in 1..Len(c.cols) : c.cols[j] \in Columns
         /\ c.rows \in Seq(Seq(Value)) /\ c.cond \in Condition /\ c.args \in Seq(Nat)
         /\ c.op \in {"insert", "update"} => IsRow(c)
<1>1. c.cols \in Seq(Columns)
  BY DEF Call
<1>2. /\ Len(c.cols) \in Nat /\ DOMAIN c.cols = 1..Len(c.cols)
      /\ \A j \in 1..Len(c.cols) : c.cols[j] \in Columns
  BY <1>1, SeqMembers
<1> QED BY <1>1, <1>2 DEF Call

\* Where a column is among those of a call.
PlaceOf(cols, col) == CHOOSE j \in DOMAIN cols : cols[j] = col

LEMMA PlaceOfColumn ==
  ASSUME NEW cols \in Seq(Columns), IsInjective(cols), NEW j \in 1..Len(cols)
  PROVE  PlaceOf(cols, cols[j]) = j
  BY DEF PlaceOf, IsInjective

\* The Row of an insert or an update in the order of its keys: the same columns, the
\* same values, and as many of them plain.
LEMMA RowByKey ==
  ASSUME NEW c \in Call, IsRow(c)
  PROVE  /\ sortedRowKeys(c) \in Seq(Columns) /\ Len(sortedRowKeys(c)) = Len(c.cols)
         /\ IsInjective(sortedRowKeys(c))
         /\ \A col : (\E i \in 1..Len(c.cols) : sortedRowKeys(c)[i] = col)
                      <=> (\E j \in 1..Len(c.cols) : c.cols[j] = col)
         /\ ValuesByKey(c) \in Seq(Value) /\ Len(ValuesByKey(c)) = Len(c.cols)
         /\ \A i \in 1..Len(c.cols) :
              ValuesByKey(c)[i] = c.rows[1][PlaceOf(c.cols, sortedRowKeys(c)[i])]
         /\ Cardinality(Plain(ValuesByKey(c))) = Cardinality(Plain(c.rows[1]))
<1> DEFINE w == Len(c.cols)
           S == Range(c.cols)
           K == sortedRowKeys(c)
           V == ValuesByKey(c)
           row == c.rows[1]
           at(i) == PlaceOf(c.cols, K[i])
<1>0. /\ w \in Nat /\ c.cols \in [1..w -> Columns] /\ IsInjective(c.cols) /\ DOMAIN c.cols = 1..w
      /\ c.cols \in Seq(Columns)
  BY CallType, SeqMembers
<1>1. row \in Seq(Value) /\ Len(row) = w
  BY CallType DEF IsRow
<1>2. S \in SUBSET Columns /\ Columns \in SUBSET Nat
  BY <1>0, DataAssumption DEF Range
<1>3. IsFiniteSet(S) /\ Cardinality(S) = w
  <2> DEFINE D == 1..w
             f == c.cols
  <2>1. IsFiniteSet(D) /\ Cardinality(D) = w
    BY <1>0, FS_Interval
  <2>2. f \in Bijection(D, S)
    BY <1>0 DEF Bijection, Injection, Surjection, Range, IsInjective
  <2> HIDE DEF D, f, S, w
  <2>3. ExistsBijection(D, S)
    BY <2>2 DEF ExistsBijection
  <2> QED BY <2>1, <2>3, FS_Bijection
<1>4. /\ K \in [1..w -> S] /\ Len(K) = w /\ K \in Seq(S)
      /\ \A k \in 1..w : Rank(S, K[k]) = k
      /\ \A n \in S : Rank(S, n) \in 1..w /\ K[Rank(S, n)] = n
  <2>1. S \in SUBSET Nat
    BY <1>2
  <2>2. K = InOrder(S)
    BY DEF sortedRowKeys
  <2> HIDE DEF S, K, w
  <2>3. /\ InOrder(S) \in [1..Cardinality(S) -> S] /\ Len(InOrder(S)) = Cardinality(S)
        /\ InOrder(S) \in Seq(S)
        /\ \A k \in 1..Cardinality(S) : Rank(S, InOrder(S)[k]) = k
        /\ \A n \in S : Rank(S, n) \in 1..Cardinality(S) /\ InOrder(S)[Rank(S, n)] = n
    BY <1>3, <2>1, InOrderAt
  <2> QED BY <1>3, <2>2, <2>3
<1>5. K \in Seq(Columns) /\ DOMAIN K = 1..w
  <2> HIDE DEF S, K, w
  <2>1. K \in [1..w -> Columns] /\ w \in Nat
    BY <1>0, <1>2, <1>4
  <2> QED BY <2>1, SeqMade
<1>6. IsInjective(K)
  <2> HIDE DEF S, K, w
  <2> QED BY <1>4, <1>5 DEF IsInjective
<1>7. \A col : (\E i \in 1..w : K[i] = col) <=> (\E j \in 1..w : c.cols[j] = col)
  <2>1. \A col : col \in S <=> \E j \in 1..w : c.cols[j] = col
    BY <1>0 DEF Range
  <2> HIDE DEF S, K, w
  <2>2. \A col : col \in S <=> \E i \in 1..w : K[i] = col
    BY <1>4
  <2> QED BY <2>1, <2>2
<1>8. \A i \in 1..w : at(i) \in 1..w /\ c.cols[at(i)] = K[i]
  <2> TAKE i \in 1..w
  <2>1. \E j \in DOMAIN c.cols : c.cols[j] = K[i]
    BY <1>0, <1>7
  <2> QED BY <1>0, <2>1 DEF PlaceOf
<1>9. V = [i \in 1..w |-> row[at(i)]]
  BY <1>5 DEF ValuesByKey, PlaceOf
<1>10. V \in Seq(Value) /\ Len(V) = w /\ \A i \in 1..w : V[i] = row[at(i)]
  <2>1. \A i \in 1..w : row[i] \in Value
    BY <1>1, SeqMembers
  <2>2. V \in [1..w -> Value]
    BY <1>8, <1>9, <2>1
  <2>3. V \in Seq(Value) /\ Len(V) = w
    <3> HIDE DEF V, w
    <3> QED BY <1>0, <2>2, SeqMade
  <2>4. \A i \in 1..w : V[i] = row[at(i)]
    <3> HIDE DEF at, w, row
    <3> QED BY <1>9
  <2> QED BY <2>3, <2>4
<1>11. Cardinality(Plain(V)) = Cardinality(Plain(row))
  <2> DEFINE A == Plain(V)
             B == Plain(row)
             f == [i \in A |-> at(i)]
  <2>1. \A i \in 1..w : i \in A <=> at(i) \in B
    BY <1>1, <1>8, <1>10 DEF Plain
  <2>2. A \in SUBSET (1..w) /\ B \in SUBSET (1..w) /\ IsFiniteSet(A)
    BY <1>1, <1>10, ArgsOfValues
  <2>3. \A i, k \in 1..w : at(i) = at(k) => i = k
    <3> SUFFICES ASSUME NEW i \in 1..w, NEW k \in 1..w, at(i) = at(k)  PROVE i = k
      OBVIOUS
    <3>1. K[i] = K[k]
      BY <1>8
    <3> QED BY <1>5, <1>6, <3>1 DEF IsInjective
  <2>4. \A j \in 1..w : \E i \in 1..w : at(i) = j
    <3> TAKE j \in 1..w
    <3>1. PICK i \in 1..w : K[i] = c.cols[j]
      BY <1>7
    <3>2. at(i) = j
      BY <1>0, <3>1, PlaceOfColumn
    <3> QED BY <3>2
  <2> HIDE DEF A, B, at, w
  <2>5. f \in [A -> B] /\ \A b \in B : \E i \in A : f[i] = b
    BY <2>1, <2>2, <2>4
  <2>6. \A i, k \in A : f[i] = f[k] => i = k
    BY <2>2, <2>3
  <2> HIDE DEF f
  <2>7. f \in Bijection(A, B)
    BY <2>5, <2>6 DEF Bijection, Injection, Surjection, IsInjective
  <2>8. ExistsBijection(A, B)
    BY <2>7 DEF ExistsBijection
  <2>9. Cardinality(B) = Cardinality(A)
    BY <2>2, <2>8, FS_Bijection
  <2> QED BY <2>9 DEF A, B
<1> QED BY <1>4, <1>5, <1>6, <1>7, <1>10, <1>11

-----------------------------------------------------------------------------
(* What a statement does *)

NoTest == [tests |-> <<>>, first |-> 0]

LEMMA NoTests ==
  ASSUME NEW d, NEW b
  PROVE  /\ NoTest \in Condition /\ Where(NoTest) = <<>> /\ <<>> \in Seq(Nat)
         /\ Numbered(d, NoTest, <<>>, b)
<1>1. NoTest \in Condition
  BY DEF NoTest, Condition
<1>2. Where(NoTest) = <<>>
  BY DEF NoTest, Where
<1>3. Open(NoTest) = {}
  BY DEF NoTest, Open
<1>4. Cardinality(Open(NoTest)) = Len(<<>>)
  BY <1>3, FS_EmptySet
<1> QED BY <1>1, <1>2, <1>3, <1>4 DEF Numbered

LEMMA NoValues ==
  ASSUME NEW d, NEW extra \in Seq(Nat)
  PROVE  /\ <<>> \in Seq(Value) /\ Pieces(d, <<>>) = <<>>
         /\ Plain(<<>>) = {} /\ Cardinality(Plain(<<>>)) = 0 /\ Args(<<>>) \o extra = extra
<1>1. <<>> \in Seq(Value) /\ Pieces(d, <<>>) = <<>>
  BY DEF Pieces
<1>2. Plain(<<>>) = {}
  BY DEF Plain
<1>3. Cardinality(Plain(<<>>)) = 0
  BY <1>2, FS_EmptySet
<1>4. Args(<<>>) \in Seq(Nat) /\ Len(Args(<<>>)) = 0
  BY <1>1, <1>3, ArgsOfValues
<1>5. Args(<<>>) = <<>>
  BY <1>4, EmptySeq
<1> QED BY <1>1, <1>2, <1>3, <1>5

\* A condition holds of a row where its author meant it to.
LEMMA MatchesAsMeant ==
  ASSUME NEW d \in Dialects, NEW values, NEW cond, NEW extra, NEW st,
         Writes(st, d, values, cond, extra),
         Numbered(d, cond, extra, Cardinality(Plain(values))), NEW row
  PROVE  Matches(st, row) <=> Meant(cond, extra, row)
<1>1. /\ Len(st.set) = Len(values) /\ DOMAIN st.where = 1..Len(cond.tests)
      /\ DOMAIN cond.tests = 1..Len(cond.tests)
      /\ \A j \in 1..Len(cond.tests) : st.where[j].col = cond.tests[j].col
  <2>1. cond.tests \in Seq([col : Columns, lit : Nat])
    BY DEF Writes, Condition
  <2>2. DOMAIN cond.tests = 1..Len(cond.tests)
    BY <2>1, SeqMembers
  <2> QED BY <2>2, TextOfWritten
<1>2. \A j \in 1..Len(cond.tests) :
        ValueAt(st, Len(values) + j) =
          IF cond.tests[j].lit # 0 THEN cond.tests[j].lit ELSE extra[Rank(Open(cond), j)]
  BY ValuesServed
<1> QED BY <1>1, <1>2 DEF Matches, Meant

\* The row a call asks for.
Changed(c, row, values) ==
  [col \in Columns |-> IF \E j \in DOMAIN c.cols : c.cols[j] = col
                       THEN values[PlaceOf(c.cols, col)].v ELSE row[col]]

Added(t, c) == t \o [i \in DOMAIN c.rows |-> Changed(c, EmptyRow, c.rows[i])]

LEMMA AskedForms ==
  ASSUME NEW t, NEW c
  PROVE  /\ c.op \in {"insert", "batch"} => Asked(t, c) = Added(t, c)
         /\ c.op = "update" =>
              Asked(t, c) = [i \in DOMAIN t |-> IF Meant(c.cond, c.args, t[i])
                                                THEN Changed(c, t[i], c.rows[1]) ELSE t[i]]
         /\ c.op = "delete" =>
              Asked(t, c) = Pick(t, {i \in DOMAIN t : ~Meant(c.cond, c.args, t[i])})
  BY DEF Asked, Added, Changed, PlaceOf

LEMMA AssignedAsAsked ==
  ASSUME NEW c, NEW st, NEW k, NEW row, NEW values,
         \A col : (\E i \in DOMAIN st.cols : st.cols[i] = col)
                    <=> (\E j \in DOMAIN c.cols : c.cols[j] = col),
         \A i \in DOMAIN st.cols :
           ValueAt(st, k - 1 + i) = values[PlaceOf(c.cols, st.cols[i])].v
  PROVE  Assigned(st, k, row) = Changed(c, row, values)
<1>1. ASSUME NEW col, \E i \in DOMAIN st.cols : st.cols[i] = col
      PROVE  ValueAt(st, k - 1 + PlaceOf(st.cols, col)) = values[PlaceOf(c.cols, col)].v
  <2>1. PlaceOf(st.cols, col) \in DOMAIN st.cols /\ st.cols[PlaceOf(st.cols, col)] = col
    BY <1>1 DEF PlaceOf
  <2> QED BY <2>1
<1>2. Assigned(st, k, row) =
        [col \in Columns |-> IF \E i \in DOMAIN st.cols : st.cols[i] = col
                             THEN ValueAt(st, k - 1 + PlaceOf(st.cols, col)) ELSE row[col]]
  BY DEF Assigned, PlaceOf
<1> QED BY <1>1, <1>2 DEF Changed

\* What the code builds of a call that is not malformed.
LEMMA WellFormed ==
  ASSUME NEW c \in Call, ~Malformed(c), c.op # "delete"
  PROVE  /\ Len(c.cols) \in Nat \ {0} /\ Len(c.rows) \in Nat \ {0}
         /\ DOMAIN c.rows = 1..Len(c.rows)
         /\ \A i \in DOMAIN c.rows : c.rows[i] \in Seq(Value) /\ Len(c.rows[i]) = Len(c.cols)
<1>1. c.cols \in Seq(Columns) /\ c.rows \in Seq(Seq(Value))
  BY CallType
<1>2. /\ Len(c.cols) \in Nat /\ Len(c.rows) \in Nat /\ DOMAIN c.rows = 1..Len(c.rows)
      /\ \A i \in 1..Len(c.rows) : c.rows[i] \in Seq(Value)
  BY <1>1, SeqMembers
<1>3. /\ c.cols # <<>> /\ c.rows # <<>>
      /\ \A i \in DOMAIN c.rows : Len(c.rows[i]) = Len(c.cols)
  BY DEF Malformed
<1>4. Len(c.cols) # 0 /\ Len(c.rows) # 0
  BY <1>1, <1>3, EmptySeq
<1> QED BY <1>2, <1>3, <1>4

\* The arguments of the condition that an update takes along.
Own(c) == IF Always(c.cond) THEN <<>> ELSE c.args

LEMMA BuiltWrites ==
  ASSUME NEW d \in Dialects, NEW c \in Call, ~Malformed(c)
  PROVE  LET st == Built(d, c)
             one == ValuesByKey(c)
             all == RowByRow(c.rows, Len(c.cols))
         IN  /\ c.op = "insert" => /\ Writes(st, d, one, NoTest, <<>>)
                                   /\ st.op = "insert" /\ st.cols = sortedRowKeys(c)
             /\ c.op = "batch"  => /\ Writes(st, d, all, NoTest, <<>>)
                                   /\ st.op = "insert" /\ st.cols = c.cols
             /\ c.op = "update" => /\ Writes(st, d, one, c.cond, Own(c))
                                   /\ st.op = "update" /\ st.cols = sortedRowKeys(c)
             /\ c.op = "delete" => /\ Writes(st, d, <<>>, c.cond, c.args)
                                   /\ st.op = "delete" /\ st.cols = <<>>
<1> DEFINE st == Built(d, c)
           one == ValuesByKey(c)
           all == RowByRow(c.rows, Len(c.cols))
<1>1. c.cond \in Condition /\ c.args \in Seq(Nat) /\ Own(c) \in Seq(Nat)
  BY CallType DEF Own
<1>2. ASSUME NEW values \in Seq(Value)
      PROVE  Args(values) \in Seq(Nat) /\ Args(values) \o <<>> = Args(values)
  BY ArgsOfValues, ConcatEmptySeq
<1>3. c.op \in {"insert", "update"} => one \in Seq(Value)
  BY CallType, RowByKey
<1>4. c.op = "batch" => all \in Seq(Value)
  BY CallType, WellFormed, RowsOneByOne
<1>5. NoTest \in Condition /\ Where(NoTest) = <<>> /\ <<>> \in Seq(Nat)
  BY NoTests
<1> HIDE DEF one, all
<1>6. CASE c.op = "insert"
  <2>1. st = Statement("insert", sortedRowKeys(c), Pieces(d, one), <<>>, Args(one))
    BY <1>6 DEF Built, buildInsert, one
  <2>2. /\ st.op = "insert" /\ st.cols = sortedRowKeys(c) /\ st.set = Pieces(d, one)
        /\ st.where = <<>> /\ st.args = Args(one)
    BY <2>1 DEF Statement
  <2>3. Writes(st, d, one, NoTest, <<>>)
    BY <1>2, <1>3, <1>5, <1>6, <2>2 DEF Writes
  <2> QED BY <1>6, <2>2, <2>3 DEF one
<1>7. CASE c.op = "batch"
  <2>1. st = Statement("insert", c.cols, Pieces(d, all), <<>>, Args(all))
    BY <1>7 DEF Built, buildBatchInsert, all
  <2>2. /\ st.op = "insert" /\ st.cols = c.cols /\ st.set = Pieces(d, all)
        /\ st.where = <<>> /\ st.args = Args(all)
    BY <2>1 DEF Statement
  <2>3. Writes(st, d, all, NoTest, <<>>)
    BY <1>2, <1>4, <1>5, <1>7, <2>2 DEF Writes
  <2> QED BY <1>7, <2>2, <2>3 DEF all
<1>8. CASE c.op = "update"
  <2>1. st = Statement("update", sortedRowKeys(c), Pieces(d, one), Where(c.cond),
                       Args(one) \o Own(c))
    BY <1>8 DEF Built, buildUpdate, one, Own
  <2>2. /\ st.op = "update" /\ st.cols = sortedRowKeys(c) /\ st.set = Pieces(d, one)
        /\ st.where = Where(c.cond) /\ st.args = Args(one) \o Own(c)
    BY <2>1 DEF Statement
  <2>3. Writes(st, d, one, c.cond, Own(c))
    BY <1>1, <1>3, <1>8, <2>2 DEF Writes
  <2> QED BY <1>8, <2>2, <2>3 DEF one
<1>9. CASE c.op = "delete"
  <2>1. st = Statement("delete", <<>>, <<>>, Where(c.cond), c.args)
    BY <1>9 DEF Built, buildDelete
  <2>2. /\ st.op = "delete" /\ st.cols = <<>> /\ st.set = <<>>
        /\ st.where = Where(c.cond) /\ st.args = c.args
    BY <2>1 DEF Statement
  <2>3. Writes(st, d, <<>>, c.cond, c.args)
    BY <1>1, <2>2, NoValues DEF Writes
  <2> QED BY <1>9, <2>2, <2>3
<1> QED BY <1>6, <1>7, <1>8, <1>9, CallType

\* The author has numbered the placeholders of one call in the dialect's way.
WellCalled(d, c) ==
  LET bound == IF Malformed(c) THEN 0 ELSE Cardinality(Plain(c.rows[1]))
  IN  CASE c.op = "update" -> Always(c.cond) \/ Numbered(d, c.cond, c.args, bound)
        [] c.op = "delete" -> Numbered(d, c.cond, c.args, 0)
        [] OTHER           -> TRUE

\* The statement of an insert or an update gives each column the value its Row has.
LEMMA RowAssigned ==
  ASSUME NEW d \in Dialects, NEW c \in Call, IsRow(c), NEW cond, NEW extra, NEW st,
         Writes(st, d, ValuesByKey(c), cond, extra), st.cols = sortedRowKeys(c),
         Numbered(d, cond, extra, Cardinality(Plain(ValuesByKey(c))))
  PROVE  /\ Len(st.cols) = Len(c.cols) /\ Len(st.set) = Len(c.cols)
         /\ \A row : Assigned(st, 1, row) = Changed(c, row, c.rows[1])
<1> DEFINE V == ValuesByKey(c)
           K == sortedRowKeys(c)
           w == Len(c.cols)
<1>1. w \in Nat /\ DOMAIN c.cols = 1..w
  BY CallType
<1>2. /\ K \in Seq(Columns) /\ Len(K) = w /\ Len(V) = w
      /\ \A i \in 1..w : V[i] = c.rows[1][PlaceOf(c.cols, K[i])]
      /\ \A col : (\E i \in 1..w : K[i] = col) <=> (\E j \in 1..w : c.cols[j] = col)
  BY RowByKey
<1>3. \A i \in 1..Len(V) : ValueAt(st, i) = V[i].v
  BY ValuesServed
<1>4. Len(st.set) = Len(V)
  BY TextOfWritten
<1> HIDE DEF V, K, w
<1>5. DOMAIN K = 1..w
  BY <1>2, SeqMembers
<1>6. \A i \in 1..w : ValueAt(st, 1 - 1 + i) = c.rows[1][PlaceOf(c.cols, K[i])].v
  <2> TAKE i \in 1..w
  <2>1. 1 - 1 + i = i
    BY <1>1
  <2>2. ValueAt(st, i) = V[i].v /\ V[i] = c.rows[1][PlaceOf(c.cols, K[i])]
    BY <1>2, <1>3
  <2> QED BY <2>1, <2>2
<1>7. st.cols = K
  BY DEF K
<1>8. ASSUME NEW row  PROVE Assigned(st, 1, row) = Changed(c, row, c.rows[1])
  <2>1. \A i \in DOMAIN st.cols : ValueAt(st, 1 - 1 + i) = c.rows[1][PlaceOf(c.cols, st.cols[i])].v
    BY <1>5, <1>6, <1>7
  <2>2. \A col : (\E i \in DOMAIN st.cols : st.cols[i] = col)
                   <=> (\E j \in DOMAIN c.cols : c.cols[j] = col)
    BY <1>1, <1>2, <1>5, <1>7
  <2> QED BY <2>1, <2>2, AssignedAsAsked
<1> QED BY <1>2, <1>4, <1>7, <1>8 DEF w

LEMMA InsertDoes ==
  ASSUME NEW d \in Dialects, NEW c \in Call, ~Malformed(c), c.op = "insert", NEW t
  PROVE  Accepts(d, Built(d, c)) /\ After(Built(d, c), t) = Asked(t, c)
<1> DEFINE st == Built(d, c)
           V == ValuesByKey(c)
           w == Len(c.cols)
<1>1. Writes(st, d, V, NoTest, <<>>) /\ st.op = "insert" /\ st.cols = sortedRowKeys(c)
  BY BuiltWrites
<1>2. Numbered(d, NoTest, <<>>, Cardinality(Plain(V)))
  BY NoTests
<1>3. IsRow(c) /\ w \in Nat \ {0} /\ DOMAIN c.rows = 1..Len(c.rows) /\ Len(c.rows) = 1
  BY CallType, WellFormed DEF IsRow
<1>4. Accepts(d, st)
  BY <1>1, <1>2, StatementAccepted
<1> HIDE DEF st
<1>5. /\ Len(st.cols) = w /\ Len(st.set) = w
      /\ Assigned(st, 1, EmptyRow) = Changed(c, EmptyRow, c.rows[1])
  BY <1>1, <1>2, <1>3, RowAssigned
<1>6. After(st, t) = t \o [i \in 1..(Len(st.set) \div Len(st.cols)) |->
                             Assigned(st, (i - 1) * Len(st.cols) + 1, EmptyRow)]
  BY <1>1 DEF After
<1> HIDE DEF V, w
<1>7. [i \in 1..(Len(st.set) \div Len(st.cols)) |-> Assigned(st, (i - 1) * Len(st.cols) + 1, EmptyRow)]
        = [i \in DOMAIN c.rows |-> Changed(c, EmptyRow, c.rows[i])]
  <2>1. w \div w = 1 /\ (1 - 1) * w + 1 = 1
    BY <1>3
  <2>2. 1..(Len(st.set) \div Len(st.cols)) = {1} /\ DOMAIN c.rows = {1}
    BY <1>3, <1>5, <2>1
  <2>3. (1 - 1) * Len(st.cols) + 1 = 1
    BY <1>5, <2>1
  <2> QED BY <1>5, <2>2, <2>3
<1>8. Asked(t, c) = Added(t, c)
  BY AskedForms
<1>9. After(st, t) = Asked(t, c)
  BY <1>6, <1>7, <1>8, Zenon DEF Added
<1> QED BY <1>4, <1>9 DEF st

LEMMA BatchDoes ==
  ASSUME NEW d \in Dialects, NEW c \in Call, ~Malformed(c), c.op = "batch", NEW t
  PROVE  Accepts(d, Built(d, c)) /\ After(Built(d, c), t) = Asked(t, c)
<1> DEFINE st == Built(d, c)
           w == Len(c.cols)
           R == Len(c.rows)
           V == RowByRow(c.rows, w)
<1>1. Writes(st, d, V, NoTest, <<>>) /\ st.op = "insert" /\ st.cols = c.cols
  BY BuiltWrites
<1>2. Numbered(d, NoTest, <<>>, Cardinality(Plain(V)))
  BY NoTests
<1>3. /\ w \in Nat \ {0} /\ R \in Nat \ {0} /\ DOMAIN c.rows = 1..R
      /\ DOMAIN c.cols = 1..w /\ c.cols \in Seq(Columns) /\ IsInjective(c.cols)
      /\ c.rows \in Seq(Seq(Value)) /\ \A i \in DOMAIN c.rows : Len(c.rows[i]) = w
  BY CallType, WellFormed
<1>4. Len(V) = R * w /\ \A i \in 1..R, j \in 1..w : V[Place(w, i, j)] = c.rows[i][j]
  BY <1>3, RowsOneByOne
<1>5. Len(st.set) = Len(V) /\ \A i \in 1..Len(V) : ValueAt(st, i) = V[i].v
  BY <1>1, <1>2, TextOfWritten, ValuesServed
<1>6. Accepts(d, st)
  BY <1>1, <1>2, StatementAccepted
<1>7. (R * w) \div w = R
  BY <1>3, WholeRows
<1> HIDE DEF st, V, w, R
<1>8. \A i \in 1..(R * w) : ValueAt(st, i) = V[i].v
  BY <1>4, <1>5, Zenon
<1>9. Len(st.set) = R * w
  BY <1>4, <1>5
<1>10. ASSUME NEW i \in 1..R
      PROVE  Assigned(st, (i - 1) * w + 1, EmptyRow) = Changed(c, EmptyRow, c.rows[i])
  <2> DEFINE k == (i - 1) * w + 1
  <2>1. ASSUME NEW j \in 1..w
        PROVE  ValueAt(st, k - 1 + j) = c.rows[i][PlaceOf(c.cols, st.cols[j])].v
    <3>1. k - 1 + j = Place(w, i, j)
      BY <1>3 DEF Place
    <3>2. Place(w, i, j) \in 1..(R * w)
      BY <1>3, RowPlaces
    <3>3. PlaceOf(c.cols, st.cols[j]) = j
      BY <1>1, <1>3, PlaceOfColumn DEF w
    <3> HIDE DEF k
    <3> QED BY <1>4, <1>8, <3>1, <3>2, <3>3
  <2> HIDE DEF k
  <2>2. \A j \in DOMAIN st.cols : ValueAt(st, k - 1 + j) = c.rows[i][PlaceOf(c.cols, st.cols[j])].v
    BY <1>1, <1>3, <2>1
  <2>3. Assigned(st, k, EmptyRow) = Changed(c, EmptyRow, c.rows[i])
    BY <1>1, <2>2, AssignedAsAsked
  <2> QED BY <2>3 DEF k
<1>11. After(st, t) = t \o [i \in 1..(Len(st.set) \div Len(st.cols)) |->
                             Assigned(st, (i - 1) * Len(st.cols) + 1, EmptyRow)]
  BY <1>1 DEF After
<1>12. Len(st.cols) = w /\ Len(st.set) \div Len(st.cols) = R
  BY <1>1, <1>9, <1>7 DEF w
<1>13. [i \in 1..R |-> Assigned(st, (i - 1) * w + 1, EmptyRow)]
         = [i \in DOMAIN c.rows |-> Changed(c, EmptyRow, c.rows[i])]
  BY <1>3, <1>10
<1>14. After(st, t) = Asked(t, c)
  <2>1. After(st, t) = t \o [i \in 1..R |-> Assigned(st, (i - 1) * w + 1, EmptyRow)]
    BY <1>11, <1>12, Zenon
  <2>2. Asked(t, c) = Added(t, c)
    BY AskedForms
  <2> QED BY <1>13, <2>1, <2>2, Zenon DEF Added
<1> QED BY <1>6, <1>14 DEF st

LEMMA UpdateDoes ==
  ASSUME NEW d \in Dialects, NEW c \in Call, ~Malformed(c), c.op = "update", WellCalled(d, c), NEW t
  PROVE  Accepts(d, Built(d, c)) /\ After(Built(d, c), t) = Asked(t, c)
<1> DEFINE st == Built(d, c)
           V == ValuesByKey(c)
<1>1. Writes(st, d, V, c.cond, Own(c)) /\ st.op = "update" /\ st.cols = sortedRowKeys(c)
  BY BuiltWrites
<1>2. IsRow(c)
  BY CallType
<1>3. Cardinality(Plain(V)) = Cardinality(Plain(c.rows[1]))
  BY <1>2, RowByKey
<1>4. /\ Numbered(d, c.cond, Own(c), Cardinality(Plain(V)))
      /\ \A row : Meant(c.cond, Own(c), row) <=> Meant(c.cond, c.args, row)
  <2>1. CASE Always(c.cond)
    <3>1. c.cond.tests = <<>> /\ Own(c) = <<>>
      BY <2>1 DEF Always, Own
    <3>2. Open(c.cond) = {} /\ DOMAIN c.cond.tests = {}
      BY <3>1 DEF Open
    <3>3. Cardinality(Open(c.cond)) = Len(Own(c))
      BY <3>1, <3>2, FS_EmptySet
    <3> QED BY <3>2, <3>3 DEF Numbered, Meant
  <2>2. CASE ~Always(c.cond)
    BY <1>3, <2>2 DEF WellCalled, Own
  <2> QED BY <2>1, <2>2
<1>5. Accepts(d, st)
  BY <1>1, <1>4, StatementAccepted
<1> HIDE DEF st
<1>6. \A row : Matches(st, row) <=> Meant(c.cond, c.args, row)
  BY <1>1, <1>4, MatchesAsMeant
<1>7. \A row : Assigned(st, 1, row) = Changed(c, row, c.rows[1])
  BY <1>1, <1>2, <1>4, RowAssigned
<1>8. After(st, t) = [i \in DOMAIN t |-> IF Matches(st, t[i]) THEN Assigned(st, 1, t[i]) ELSE t[i]]
  BY <1>1 DEF After
<1>9. Asked(t, c) = [i \in DOMAIN t |-> IF Meant(c.cond, c.args, t[i])
                                         THEN Changed(c, t[i], c.rows[1]) ELSE t[i]]
  BY AskedForms
<1>10. After(st, t) = Asked(t, c)
  BY <1>6, <1>7, <1>8, <1>9
<1> QED BY <1>5, <1>10 DEF st

LEMMA DeleteDoes ==
  ASSUME NEW d \in Dialects, NEW c \in Call, ~Malformed(c), c.op = "delete", WellCalled(d, c), NEW t
  PROVE  Accepts(d, Built(d, c)) /\ After(Built(d, c), t) = Asked(t, c)
<1> DEFINE st == Built(d, c)
<1>1. Writes(st, d, <<>>, c.cond, c.args) /\ st.op = "delete"
  BY BuiltWrites
<1>2. Numbered(d, c.cond, c.args, Cardinality(Plain(<<>>)))
  BY CallType, NoValues DEF WellCalled
<1>3. Accepts(d, st)
  BY <1>1, <1>2, StatementAccepted
<1>4. \A row : Matches(st, row) <=> Meant(c.cond, c.args, row)
  BY <1>1, <1>2, MatchesAsMeant
<1> HIDE DEF st
<1>5. After(st, t) = Pick(t, {i \in DOMAIN t : ~Matches(st, t[i])})
  BY <1>1 DEF After
<1>6. {i \in DOMAIN t : ~Matches(st, t[i])} = {i \in DOMAIN t : ~Meant(c.cond, c.args, t[i])}
  BY <1>4
<1>7. Asked(t, c) = Pick(t, {i \in DOMAIN t : ~Meant(c.cond, c.args, t[i])})
  BY AskedForms
<1>8. After(st, t) = Asked(t, c)
  BY <1>5, <1>6, <1>7
<1> QED BY <1>3, <1>8 DEF st

\* On each dialect, a statement does what its call asks for.
LEMMA CallDoes ==
  ASSUME NEW d \in Dialects, NEW c \in Call, ~Malformed(c), WellCalled(d, c), NEW t
  PROVE  Accepts(d, Built(d, c)) /\ After(Built(d, c), t) = Asked(t, c)
  BY CallType, InsertDoes, BatchDoes, UpdateDoes, DeleteDoes

-----------------------------------------------------------------------------
(* One call after the other *)

\* Those who have come to the k-th call have come through the one before.
Through(t, cs, n, f) ==
  f = [k \in 0..n |-> IF k = 0 THEN t ELSE Asked(f[k - 1], cs[k])]

LEMMA ThroughAll ==
  ASSUME NEW t, NEW cs, NEW L \in Nat
  PROVE  \E f : Through(t, cs, L, f)
<1> DEFINE T == {n \in Nat : ~\E f : Through(t, cs, n, f)}
<1>1. 0 \notin T
  <2> DEFINE f == [k \in 0..0 |-> t]
  <2>1. 0..0 = {0}
    OBVIOUS
  <2>2. f = [k \in 0..0 |-> IF k = 0 THEN t ELSE Asked(f[k - 1], cs[k])]
    BY <2>1
  <2> QED BY <2>2 DEF Through
<1>2. ASSUME NEW n \in Nat, n \notin T  PROVE n + 1 \notin T
  <2>1. PICK f : Through(t, cs, n, f)
    BY <1>2
  <2> DEFINE g == [k \in 0..(n + 1) |-> IF k = n + 1 THEN Asked(f[n], cs[n + 1]) ELSE f[k]]
  <2>2. ASSUME NEW k \in 0..(n + 1)
        PROVE  g[k] = IF k = 0 THEN t ELSE Asked(g[k - 1], cs[k])
    <3>1. CASE k = n + 1
      <4>1. g[k] = Asked(f[n], cs[k]) /\ k - 1 = n /\ k # 0 /\ g[n] = f[n]
        BY <3>1
      <4> HIDE DEF g
      <4> QED BY <4>1
    <3>2. CASE k # n + 1
      <4>1. k \in 0..n /\ g[k] = f[k] /\ (k # 0 => k - 1 \in 0..n /\ g[k - 1] = f[k - 1])
        BY <3>2
      <4>2. f[k] = IF k = 0 THEN t ELSE Asked(f[k - 1], cs[k])
        BY <2>1, <4>1 DEF Through
      <4> HIDE DEF g
      <4> QED BY <4>1, <4>2
    <3> QED BY <3>1, <3>2
  <2>3. g = [k \in 0..(n + 1) |-> g[k]]
    OBVIOUS
  <2> HIDE DEF g
  <2>4. Through(t, cs, n + 1, g)
    BY <2>2, <2>3 DEF Through
  <2> QED BY <2>4
<1> HIDE DEF T
<1>3. T = {}
  <2> SUFFICES ASSUME T # {}  PROVE FALSE
    OBVIOUS
  <2>1. T \in SUBSET Nat
    BY DEF T
  <2>2. PICK m \in T : \A n \in T : m <= n
    BY <2>1, LeastOf
  <2>3. m # 0 /\ m \in Nat
    BY <1>1, <2>1
  <2>4. m - 1 \in Nat /\ m - 1 \notin T /\ (m - 1) + 1 = m
    BY <2>2, <2>3
  <2> QED BY <1>2, <2>2, <2>4
<1> QED BY <1>3 DEF T

LEMMA AskedInTurn ==
  ASSUME NEW t, NEW cs, Len(cs) \in Nat
  PROVE  /\ AskedBy(t, cs, 0) = t
         /\ \A n \in 0..(Len(cs) - 1) :
              AskedBy(t, cs, n + 1) = Asked(AskedBy(t, cs, n), cs[n + 1])
<1> DEFINE f == CHOOSE f : Through(t, cs, Len(cs), f)
<1>1. Through(t, cs, Len(cs), f)
  BY ThroughAll
<1>2. \A n : AskedBy(t, cs, n) = f[n]
  BY DEF AskedBy, Through
<1> HIDE DEF f
<1>3. \A k \in 0..Len(cs) : f[k] = IF k = 0 THEN t ELSE Asked(f[k - 1], cs[k])
  BY <1>1 DEF Through
<1>4. f[0] = t
  BY <1>3
<1>5. \A n \in 0..(Len(cs) - 1) : f[n + 1] = Asked(f[n], cs[n + 1])
  <2> TAKE n \in 0..(Len(cs) - 1)
  <2>1. n + 1 \in 0..Len(cs) /\ n + 1 # 0 /\ (n + 1) - 1 = n
    OBVIOUS
  <2> QED BY <1>3, <2>1
<1> QED BY <1>2, <1>4, <1>5

-----------------------------------------------------------------------------
(* What a statement leaves are rows *)

\* An accepted statement has a value for each piece of its text, whoever numbered it.
LEMMA ValuesAreNumbers ==
  ASSUME NEW d \in Dialects, NEW values, NEW cond, NEW extra, NEW st,
         Writes(st, d, values, cond, extra), Accepts(d, st)
  PROVE  /\ \A i \in 1..Len(values) : ValueAt(st, i) \in Nat
         /\ \A j \in 1..Len(cond.tests) : ValueAt(st, Len(values) + j) \in Nat
<1> DEFINE L == Len(values) + Len(cond.tests)
           M == MarksOf(st)
           N == {Text(st)[i].mark : i \in M}
           p == Cardinality(M)
<1>1. /\ Len(values) \in Nat /\ Len(cond.tests) \in Nat
      /\ Text(st) \in Seq(Piece) /\ Len(Text(st)) = L
  BY TextOfWritten
<1>2. \A i \in 1..L : Text(st)[i] \in Piece
  BY <1>1, SeqMembers
<1>3. \A i \in 1..L : i \in M <=> Text(st)[i].mark # -1
  BY <1>1 DEF MarksOf
<1>4. /\ st.args \in Seq(Nat) /\ Len(st.args) \in Nat /\ DOMAIN st.args = 1..Len(st.args)
      /\ \A k \in 1..Len(st.args) : st.args[k] \in Nat
  <2>1. /\ Args(values) \in Seq(Nat) /\ extra \in Seq(Nat) /\ st.args = Args(values) \o extra
    BY ArgsOfValues DEF Writes
  <2>2. st.args \in Seq(Nat)
    BY <2>1
  <2> QED BY <2>2, SeqMembers
<1>5. IsFiniteSet(M) /\ p \in Nat /\ \A i \in M : Rank(M, i) \in 1..p
  <2>1. IsFiniteSet(M)
    BY MarksCounted
  <2>2. M \in SUBSET Nat
    BY <1>1 DEF MarksOf
  <2> QED BY <2>1, <2>2, RankOfMember, FS_CardinalityType
<1>6. \/ N \subseteq {0} /\ p <= Len(st.args)
      \/ N \subseteq DOMAIN st.args
  <2>1. Accepts(d, st) /\ d \in {"mysql", "postgres", "sqlserver", "sqlite"}
    BY DEF Dialects
  <2>2. d = "mysql" => N \subseteq {0} /\ p = Len(st.args)
    BY <2>1 DEF Accepts
  <2>3. d = "sqlite" => N \subseteq {0} /\ p <= Len(st.args)
    BY <2>1 DEF Accepts
  <2>4. d = "postgres" => N = DOMAIN st.args
    BY <2>1 DEF Accepts
  <2>5. d = "sqlserver" => N \subseteq DOMAIN st.args
    BY <2>1 DEF Accepts
  <2> HIDE DEF N, p
  <2> QED BY <1>4, <1>5, <2>1, <2>2, <2>3, <2>4, <2>5
<1>7. \A i \in M : Text(st)[i].mark \in N
  OBVIOUS
<1> HIDE DEF M, N, p, L
<1>8. ASSUME NEW i \in 1..L  PROVE ValueAt(st, i) \in Nat
  <2>1. CASE Text(st)[i].mark = -1
    BY <1>2, <2>1 DEF ValueAt, Piece
  <2>2. CASE Text(st)[i].mark = 0
    <3>1. i \in M /\ 0 \in N
      BY <1>3, <1>7, <2>2
    <3>2. p <= Len(st.args)
      BY <1>4, <1>6, <3>1
    <3>3. Rank(M, i) \in 1..Len(st.args)
      BY <1>4, <1>5, <3>1, <3>2
    <3>4. ValueAt(st, i) = st.args[Rank(M, i)]
      BY <2>2 DEF ValueAt, M
    <3> QED BY <1>4, <3>3, <3>4
  <2>3. CASE Text(st)[i].mark \notin {-1, 0}
    <3>1. Text(st)[i].mark \in N
      BY <1>3, <1>7, <2>3
    <3>2. Text(st)[i].mark \in 1..Len(st.args)
      BY <1>4, <1>6, <2>3, <3>1
    <3>3. ValueAt(st, i) = st.args[Text(st)[i].mark]
      BY <2>3 DEF ValueAt
    <3> QED BY <1>4, <3>2, <3>3
  <2> QED BY <2>1, <2>2, <2>3
<1>9. \A j \in 1..Len(cond.tests) : Len(values) + j \in 1..L
  BY <1>1 DEF L
<1>10. \A i \in 1..Len(values) : i \in 1..L
  BY <1>1 DEF L
<1> QED BY <1>8, <1>9, <1>10

LEMMA AssignedIsRow ==
  ASSUME NEW st, NEW k, NEW row \in Rows,
         \A i \in DOMAIN st.cols : ValueAt(st, k - 1 + i) \in Nat
  PROVE  Assigned(st, k, row) \in Rows
<1>1. ASSUME NEW col, \E i \in DOMAIN st.cols : st.cols[i] = col
      PROVE  ValueAt(st, k - 1 + PlaceOf(st.cols, col)) \in Nat
  <2>1. PlaceOf(st.cols, col) \in DOMAIN st.cols
    BY <1>1 DEF PlaceOf
  <2> QED BY <2>1
<1>2. Assigned(st, k, row) =
        [col \in Columns |-> IF \E i \in DOMAIN st.cols : st.cols[i] = col
                             THEN ValueAt(st, k - 1 + PlaceOf(st.cols, col)) ELSE row[col]]
  BY DEF Assigned, PlaceOf
<1>3. \A col \in Columns : row[col] \in Nat
  BY DEF Rows
<1> QED BY <1>1, <1>2, <1>3 DEF Rows

\* The values of an insert are whole rows, one or several, those of an update one.
LEMMA ValuesInRows ==
  ASSUME NEW d \in Dialects, NEW c \in Call, ~Malformed(c), c.op # "delete"
  PROVE  LET st == Built(d, c)
             w == Len(st.cols)
         IN  \E R \in Nat \ {0} : \E values, cond, extra :
               /\ Writes(st, d, values, cond, extra)
               /\ w \in Nat \ {0} /\ DOMAIN st.cols = 1..w /\ Len(st.set) = R * w
               /\ Len(values) = R * w
<1> DEFINE st == Built(d, c)
           one == ValuesByKey(c)
           all == RowByRow(c.rows, Len(c.cols))
<1>1. CASE c.op \in {"insert", "update"}
  <2>1. PICK cond, extra : Writes(st, d, one, cond, extra)
    BY <1>1, BuiltWrites
  <2>2. st.cols = sortedRowKeys(c)
    BY <1>1, BuiltWrites
  <2>3. IsRow(c) /\ Len(c.cols) \in Nat \ {0}
    BY <1>1, CallType, WellFormed
  <2>4. sortedRowKeys(c) \in Seq(Columns) /\ Len(sortedRowKeys(c)) = Len(c.cols) /\ Len(one) = Len(c.cols)
    BY <2>3, RowByKey
  <2>5. DOMAIN sortedRowKeys(c) = 1..Len(c.cols)
    BY <2>4, SeqMembers
  <2>6. Len(st.set) = Len(one)
    BY <2>1, TextOfWritten
  <2>7. 1 \in Nat \ {0} /\ 1 * Len(c.cols) = Len(c.cols)
    BY <2>3
  <2> HIDE DEF st, one
  <2>8. Len(st.cols) \in Nat \ {0} /\ DOMAIN st.cols = 1..Len(st.cols)
        /\ Len(st.set) = 1 * Len(st.cols) /\ Len(one) = 1 * Len(st.cols)
    BY <2>2, <2>3, <2>4, <2>5, <2>6, <2>7
  <2> QED BY <2>1, <2>7, <2>8 DEF st
<1>2. CASE c.op = "batch"
  <2>1. Writes(st, d, all, NoTest, <<>>) /\ st.cols = c.cols
    BY <1>2, BuiltWrites
  <2>2. /\ c.rows \in Seq(Seq(Value)) /\ DOMAIN c.cols = 1..Len(c.cols)
        /\ Len(c.cols) \in Nat \ {0} /\ Len(c.rows) \in Nat \ {0}
        /\ \A i \in DOMAIN c.rows : Len(c.rows[i]) = Len(c.cols)
    BY <1>2, CallType, WellFormed
  <2>3. Len(all) = Len(c.rows) * Len(c.cols)
    BY <2>2, RowsOneByOne
  <2>4. Len(st.set) = Len(all)
    BY <2>1, TextOfWritten
  <2> HIDE DEF st, all
  <2> QED BY <2>1, <2>2, <2>3, <2>4 DEF st
<1> QED BY <1>1, <1>2, CallType

LEMMA EmptyRowIsRow == EmptyRow \in Rows
  BY DEF EmptyRow, Rows

LEMMA RowsStayRows ==
  ASSUME NEW d \in Dialects, NEW c \in Call, ~Malformed(c), Accepts(d, Built(d, c)),
         NEW t \in Seq(Rows)
  PROVE  After(Built(d, c), t) \in Seq(Rows)
<1> DEFINE st == Built(d, c)
           w == Len(st.cols)
<1>1. CASE c.op = "delete"
  <2>1. st.op = "delete"
    BY <1>1, BuiltWrites
  <2>2. After(st, t) = Pick(t, {i \in DOMAIN t : ~Matches(st, t[i])})
    BY <2>1 DEF After
  <2>3. {i \in DOMAIN t : ~Matches(st, t[i])} \in SUBSET DOMAIN t
    OBVIOUS
  <2> HIDE DEF st
  <2>4. Pick(t, {i \in DOMAIN t : ~Matches(st, t[i])}) \in Seq(Rows)
    BY <2>3, PickType
  <2> QED BY <2>2, <2>4 DEF st
<1>2. CASE c.op # "delete"
  <2>0. PICK R \in Nat \ {0} : \E values, cond, extra :
          /\ Writes(st, d, values, cond, extra)
          /\ w \in Nat \ {0} /\ DOMAIN st.cols = 1..w /\ Len(st.set) = R * w
          /\ Len(values) = R * w
    BY <1>2, ValuesInRows
  <2>1. PICK values, cond, extra :
          /\ Writes(st, d, values, cond, extra)
          /\ w \in Nat \ {0} /\ DOMAIN st.cols = 1..w /\ Len(st.set) = R * w
          /\ Len(values) = R * w
    BY <2>0
  <2>2. \A i \in 1..(R * w) : ValueAt(st, i) \in Nat
    BY <2>1, ValuesAreNumbers
  <2>3. st.op = IF c.op = "update" THEN "update" ELSE "insert"
    BY <1>2, CallType, BuiltWrites
  <2>4. (R * w) \div w = R
    BY <2>1, WholeRows
  <2> HIDE DEF st, w
  <2>5. ASSUME NEW i \in 1..R, NEW row \in Rows  PROVE Assigned(st, (i - 1) * w + 1, row) \in Rows
    <3> DEFINE k == (i - 1) * w + 1
    <3>1. ASSUME NEW j \in 1..w  PROVE ValueAt(st, k - 1 + j) \in Nat
      <4>1. k - 1 + j = Place(w, i, j)
        BY <2>1 DEF Place
      <4>2. Place(w, i, j) \in 1..(R * w)
        BY <2>1, RowPlaces
      <4> HIDE DEF k
      <4> QED BY <2>2, <4>1, <4>2
    <3> HIDE DEF k
    <3>2. Assigned(st, k, row) \in Rows
      BY <2>1, <3>1, AssignedIsRow
    <3> QED BY <3>2 DEF k
  <2>6. CASE c.op = "update"
    <3>1. (1 - 1) * w + 1 = 1
      BY <2>1
    <3>2. \A row \in Rows : Assigned(st, 1, row) \in Rows
      <4> TAKE row \in Rows
      <4>1. Assigned(st, (1 - 1) * w + 1, row) \in Rows
        BY <2>1, <2>5
      <4> QED BY <3>1, <4>1
    <3>3. After(st, t) = [i \in DOMAIN t |-> IF Matches(st, t[i]) THEN Assigned(st, 1, t[i]) ELSE t[i]]
      BY <2>3, <2>6 DEF After
    <3>4. \A i \in 1..Len(t) : t[i] \in Rows
      OBVIOUS
    <3>5. After(st, t) \in [1..Len(t) -> Rows]
      BY <3>2, <3>3, <3>4
    <3> HIDE DEF Rows
    <3>6. After(st, t) \in Seq(Rows)
      BY <3>5, SeqMembers, SeqMade
    <3> QED BY <3>6 DEF st
  <2>7. CASE c.op # "update"
    <3> DEFINE new == [i \in 1..R |-> Assigned(st, (i - 1) * w + 1, EmptyRow)]
    <3>1. After(st, t) = t \o [i \in 1..(Len(st.set) \div w) |-> Assigned(st, (i - 1) * w + 1, EmptyRow)]
      BY <2>3, <2>7 DEF After, w
    <3>2. After(st, t) = t \o new
      BY <2>1, <2>4, <3>1, Zenon
    <3>3. new \in [1..R -> Rows]
      BY <2>5, EmptyRowIsRow
    <3> HIDE DEF new
    <3>4. new \in Seq(Rows)
      BY <2>1, <3>3, SeqMade
    <3>5. After(st, t) \in Seq(Rows)
      BY <3>2, <3>4
    <3> QED BY <3>5 DEF st
  <2> QED BY <2>6, <2>7
<1> QED BY <1>1, <1>2

-----------------------------------------------------------------------------
(* The run of a migration *)

LEMMA MigrationType ==
  ASSUME NEW m \in Migrations
  PROVE  /\ m.ask \in {"exists", "count", "nothing"} /\ m.cond \in Condition /\ m.args \in Seq(Nat)
         /\ m.calls \in Seq(Call) /\ Len(m.calls) \in Nat /\ DOMAIN m.calls = 1..Len(m.calls)
         /\ \A i \in 1..Len(m.calls) : m.calls[i] \in Call
<1>1. m.calls \in Seq(Call)
  BY DataAssumption
<1>2. /\ Len(m.calls) \in Nat /\ DOMAIN m.calls = 1..Len(m.calls)
      /\ \A i \in 1..Len(m.calls) : m.calls[i] \in Call
  BY <1>1, SeqMembers
<1> QED BY <1>1, <1>2, DataAssumption

LEMMA WellNumberedCalls ==
  ASSUME NEW d, NEW m, WellNumbered(d, m), NEW i \in DOMAIN m.calls
  PROVE  WellCalled(d, m.calls[i])
  BY DEF WellNumbered, WellCalled

\* The query of RowExists and CountRows has the condition's placeholders and arguments.
LEMMA QueryWrites ==
  ASSUME NEW d \in Dialects, NEW m \in Migrations, WellNumbered(d, m), m.ask # "nothing"
  PROVE  /\ Accepts(d, Query(m))
         /\ \A row : Matches(Query(m), row) <=> Meant(m.cond, m.args, row)
<1> DEFINE st == Query(m)
<1>1. m.cond \in Condition /\ m.args \in Seq(Nat)
  BY MigrationType
<1>2. st.set = <<>> /\ st.where = Where(m.cond) /\ st.args = m.args
  BY DEF Query, Statement
<1> HIDE DEF st
<1>3. /\ <<>> \in Seq(Value) /\ Pieces(d, <<>>) = <<>> /\ Cardinality(Plain(<<>>)) = 0
      /\ Args(<<>>) \o m.args = m.args
  BY <1>1, NoValues
<1>4. Writes(st, d, <<>>, m.cond, m.args)
  BY <1>1, <1>2, <1>3 DEF Writes
<1>5. Numbered(d, m.cond, m.args, Cardinality(Plain(<<>>)))
  BY <1>3 DEF WellNumbered
<1>6. Accepts(d, st)
  BY <1>4, <1>5, StatementAccepted
<1>7. \A row : Matches(st, row) <=> Meant(m.cond, m.args, row)
  BY <1>4, <1>5, MatchesAsMeant
<1> QED BY <1>6, <1>7 DEF st

\* The statements are those of the calls made, up to the first that cannot be built.
PlanIsBuilt ==
  /\ statements \in Seq({Built(dialect, c) : c \in Call})
  /\ Len(statements) <= called /\ (~err => Len(statements) = called)
  /\ \A i \in 1..Len(statements) : /\ ~Malformed(migration.calls[i])
                                   /\ statements[i] = Built(dialect, migration.calls[i])
  /\ err => \E i \in 1..called : Malformed(migration.calls[i])

\* Only a run that executes has changed the table, after all its calls were built.
RunIsPlaced ==
  /\ pc = "ask" => migration.ask # "nothing"
  /\ pc \in {"ask", "chain"} => ran = 0
  /\ pc \in {"exec", "done"} => ~err /\ called = Len(migration.calls)
  /\ pc = "exec" => ~dry
  /\ pc = "done" /\ ~dry => ran = Len(statements)
  /\ (pc \in {"exec", "done"} /\ ~dry) \/ table = before

RunInv ==
  /\ dialect \in Dialects /\ migration \in Migrations
  /\ pc \in {"ask", "chain", "exec", "done", "skipped", "failed"}
  /\ dry \in BOOLEAN /\ err \in BOOLEAN /\ faulty \in BOOLEAN
  /\ called \in 0..Len(migration.calls) /\ ran \in 0..Len(statements) /\ runs \in 1..MaxRuns
  /\ table \in Seq(Rows) /\ before \in Seq(Rows)
  /\ PlanIsBuilt /\ RunIsPlaced

LEMMA RunBegins == Init => RunInv
<1> SUFFICES ASSUME Init  PROVE RunInv
  OBVIOUS
<1>1. Len(migration.calls) \in Nat /\ migration.ask \in {"exists", "count", "nothing"}
  BY MigrationType DEF Init
<1>2. table \in Seq(Rows)
  BY DataAssumption DEF Init, Rows
<1>3. MaxRuns \in Nat \ {0}
  BY DataAssumption
<1>4. PlanIsBuilt
  BY DEF Init, PlanIsBuilt
<1>5. RunIsPlaced
  BY <1>1 DEF Init, RunIsPlaced
<1>6. called = 0 /\ ran = 0 /\ Len(statements) = 0 /\ runs = 1 /\ 1 \in 1..MaxRuns
  BY <1>3 DEF Init
<1>7. err \in BOOLEAN /\ faulty \in BOOLEAN
  BY DEF Init
<1> QED BY <1>1, <1>2, <1>4, <1>5, <1>6, <1>7 DEF Init, RunInv

\* A step that fails rolls the table back.
LEMMA RunFails ==
  ASSUME RunInv, Fail, UNCHANGED <<world, dry, plan, ran, before, runs>>, faulty' \in BOOLEAN
  PROVE  RunInv'
<1>1. PlanIsBuilt'
  BY DEF RunInv, PlanIsBuilt, world, plan
<1>2. RunIsPlaced'
  BY DEF RunInv, RunIsPlaced, Fail, world, plan
<1> QED BY <1>1, <1>2 DEF RunInv, Fail, world, plan

LEMMA CallIsMade == RunInv /\ ChainCall => RunInv'
<1> SUFFICES ASSUME RunInv, ChainCall  PROVE RunInv'
  OBVIOUS
<1> DEFINE c == migration.calls[called + 1]
           X == {Built(dialect, a) : a \in Call}
<1>1. /\ Len(migration.calls) \in Nat /\ called \in Nat /\ called < Len(migration.calls)
      /\ called' = called + 1 /\ pc = "chain"
      /\ \A i \in 1..Len(migration.calls) : migration.calls[i] \in Call
  BY MigrationType DEF RunInv, ChainCall
<1>2. c \in Call /\ Built(dialect, c) \in X
  BY <1>1
<1>3. /\ err' = (err \/ Malformed(c))
      /\ statements' = IF err' THEN statements ELSE Append(statements, Built(dialect, c))
      /\ UNCHANGED <<world, pc, dry, ran, table, before, runs, faulty>>
  BY DEF ChainCall
<1>4. dialect' = dialect /\ migration' = migration
  BY <1>3 DEF world
<1> HIDE DEF c, X
<1>5. /\ statements \in Seq(X) /\ Len(statements) <= called /\ (~err => Len(statements) = called)
      /\ \A i \in 1..Len(statements) : /\ ~Malformed(migration.calls[i])
                                       /\ statements[i] = Built(dialect, migration.calls[i])
      /\ err => \E i \in 1..called : Malformed(migration.calls[i])
  BY DEF RunInv, PlanIsBuilt, X
<1>6. CASE err'
  <2>1. statements' = statements /\ Len(statements) <= called + 1
    BY <1>1, <1>3, <1>5, <1>6
  <2>2. \E i \in 1..(called + 1) : Malformed(migration.calls[i])
    <3>1. CASE err
      BY <1>1, <1>5, <3>1
    <3>2. CASE Malformed(c)
      <4>1. called + 1 \in 1..(called + 1)
        BY <1>1
      <4> QED BY <3>2, <4>1 DEF c
    <3> QED BY <1>3, <1>6, <3>1, <3>2
  <2>3. PlanIsBuilt'
    BY <1>1, <1>4, <1>5, <1>6, <2>1, <2>2 DEF PlanIsBuilt, X
  <2>4. RunIsPlaced'
    BY <1>1, <1>3, <1>4, <2>1 DEF RunInv, RunIsPlaced
  <2> QED BY <1>1, <1>3, <1>4, <1>6, <2>1, <2>3, <2>4 DEF RunInv
<1>7. CASE ~err'
  <2>1. statements' = Append(statements, Built(dialect, c)) /\ ~err /\ ~Malformed(c)
    BY <1>3, <1>7
  <2>2. /\ statements' \in Seq(X) /\ Len(statements') = called + 1 /\ Len(statements) = called
        /\ \A i \in 1..called : statements'[i] = statements[i]
        /\ statements'[called + 1] = Built(dialect, c)
    BY <1>2, <1>5, <2>1
  <2>3. \A i \in 1..(called + 1) : i \in 1..called \/ i = called + 1
    BY <1>1
  <2>4. \A i \in 1..(called + 1) : /\ ~Malformed(migration.calls[i])
                                   /\ statements'[i] = Built(dialect, migration.calls[i])
    BY <1>5, <2>1, <2>2, <2>3 DEF c
  <2>5. PlanIsBuilt'
    BY <1>1, <1>4, <1>7, <2>2, <2>4 DEF PlanIsBuilt, X
  <2>6. RunIsPlaced'
    BY <1>1, <1>3, <1>4 DEF RunInv, RunIsPlaced
  <2>7. ran' \in 0..Len(statements') /\ called' \in 0..Len(migration'.calls)
    BY <1>1, <1>3, <1>4, <2>2 DEF RunInv
  <2>8. err' \in BOOLEAN
    BY <1>3, Zenon
  <2> QED BY <1>3, <1>4, <2>5, <2>6, <2>7, <2>8 DEF RunInv
<1> QED BY <1>6, <1>7

\* A statement is one that the code built, so rows stay rows whether or not the author
\* numbered its placeholders well.
LEMMA StatementIsExecuted == RunInv /\ ExecStatement => RunInv'
<1> SUFFICES ASSUME RunInv, ExecStatement  PROVE RunInv'
  OBVIOUS
<1>1. CASE Accepts(dialect, statements[ran + 1])
  <2>1. /\ pc = "exec" /\ ran \in Nat /\ ran < Len(statements) /\ Len(statements) \in Nat
        /\ table' = After(statements[ran + 1], table) /\ ran' = ran + 1 /\ pc' = pc
        /\ UNCHANGED <<world, dry, plan, before, runs, faulty>>
    BY <1>1 DEF RunInv, PlanIsBuilt, ExecStatement
  <2>2. ran + 1 \in 1..Len(statements) /\ Len(statements) <= Len(migration.calls)
    BY <2>1, MigrationType DEF RunInv, PlanIsBuilt
  <2>3. /\ migration.calls[ran + 1] \in Call /\ ~Malformed(migration.calls[ran + 1])
        /\ statements[ran + 1] = Built(dialect, migration.calls[ran + 1])
    BY <2>1, <2>2, MigrationType DEF RunInv, PlanIsBuilt
  <2>4. table' \in Seq(Rows)
    BY <1>1, <2>1, <2>3, RowsStayRows DEF RunInv
  <2>5. PlanIsBuilt'
    BY <2>1 DEF RunInv, PlanIsBuilt, world, plan
  <2>6. RunIsPlaced'
    BY <2>1 DEF RunInv, RunIsPlaced, world, plan
  <2> QED BY <2>1, <2>2, <2>4, <2>5, <2>6 DEF RunInv, world, plan
<1>2. CASE ~Accepts(dialect, statements[ran + 1])
  BY <1>2, RunFails DEF ExecStatement, RunInv
<1> QED BY <1>1, <1>2

LEMMA RunGoesOn == RunInv /\ [Next]_vars => RunInv'
<1> SUFFICES ASSUME RunInv, [Next]_vars  PROVE RunInv'
  OBVIOUS
<1>0. /\ Len(migration.calls) \in Nat /\ migration.ask \in {"exists", "count", "nothing"}
      /\ Len(statements) \in Nat /\ MaxRuns \in Nat \ {0}
  BY MigrationType, DataAssumption DEF RunInv, PlanIsBuilt
<1>1. CASE Ask
  <2>1. CASE Accepts(dialect, Query(migration))
    <3>1. pc \in {"ask"} /\ pc' \in {"chain", "skipped"} /\ UNCHANGED <<world, dry, plan, ran, table, before, runs, faulty>>
      BY <1>1, <2>1 DEF Ask
    <3>2. PlanIsBuilt'
      BY <3>1 DEF RunInv, PlanIsBuilt, world, plan
    <3>3. RunIsPlaced'
      BY <3>1 DEF RunInv, RunIsPlaced, world, plan
    <3> QED BY <3>1, <3>2, <3>3 DEF RunInv, world, plan
  <2>2. CASE ~Accepts(dialect, Query(migration))
    BY <1>1, <2>2, RunFails DEF Ask, RunInv
  <2> QED BY <2>1, <2>2
<1>2. CASE QueryFails \/ StatementFails \/ Crash
  BY <1>2, RunFails DEF QueryFails, StatementFails, Crash
<1>3. CASE ChainCall
  BY <1>3, CallIsMade
<1>4. CASE Exec
  <2>1. CASE err
    BY <1>4, <2>1, RunFails DEF Exec, RunInv
  <2>2. CASE ~err
    <3>1. /\ pc = "chain" /\ called = Len(migration.calls) /\ pc' = IF dry THEN "done" ELSE "exec"
          /\ UNCHANGED <<world, dry, plan, ran, table, before, runs, faulty>>
      BY <1>4, <2>2 DEF Exec
    <3>2. PlanIsBuilt'
      BY <3>1 DEF RunInv, PlanIsBuilt, world, plan
    <3>3. RunIsPlaced'
      BY <2>2, <3>1 DEF RunInv, RunIsPlaced, world, plan
    <3> QED BY <3>1, <3>2, <3>3 DEF RunInv, world, plan
  <2> QED BY <2>1, <2>2
<1>5. CASE ExecStatement
  BY <1>5, StatementIsExecuted
<1>6. CASE ExecReturns
  <2>1. /\ pc = "exec" /\ ran = Len(statements) /\ pc' = "done"
        /\ UNCHANGED <<world, dry, plan, ran, table, before, runs, faulty>>
    BY <1>6 DEF ExecReturns
  <2>2. PlanIsBuilt'
    BY <2>1 DEF RunInv, PlanIsBuilt, world, plan
  <2>3. RunIsPlaced'
    BY <2>1 DEF RunInv, RunIsPlaced, world, plan
  <2> QED BY <2>1, <2>2, <2>3 DEF RunInv, world, plan
<1>7. CASE Rerun
  <2>1. /\ runs < MaxRuns /\ runs' = runs + 1 /\ dry' \in BOOLEAN
        /\ pc' = IF migration.ask = "nothing" THEN "chain" ELSE "ask"
        /\ called' = 0 /\ statements' = <<>> /\ err' = FALSE /\ ran' = 0
        /\ before' = table /\ faulty' = FALSE /\ table' = table
        /\ dialect' = dialect /\ migration' = migration
    BY <1>7 DEF Rerun, world
  <2>2. PlanIsBuilt'
    BY <2>1 DEF PlanIsBuilt
  <2>3. RunIsPlaced'
    BY <1>0, <2>1 DEF RunIsPlaced
  <2>4. Len(statements') = 0 /\ runs' \in 1..MaxRuns /\ called' \in 0..Len(migration'.calls)
    BY <1>0, <2>1 DEF RunInv
  <2>5. err' \in BOOLEAN /\ faulty' \in BOOLEAN
    BY <2>1
  <2>6. pc' \in {"ask", "chain"} /\ ran' \in 0..Len(statements')
    BY <2>1, <2>4
  <2> QED BY <2>1, <2>2, <2>3, <2>4, <2>5, <2>6 DEF RunInv
<1>8. CASE UNCHANGED vars
  <2>1. UNCHANGED <<dialect, migration, pc, dry, called, statements, err, ran, table, before, runs, faulty>>
    BY <1>8 DEF vars, world, plan
  <2> QED BY <2>1 DEF RunInv, PlanIsBuilt, RunIsPlaced
<1> QED BY <1>1, <1>2, <1>3, <1>4, <1>5, <1>6, <1>7, <1>8 DEF Next, Finished

LEMMA RunInvariant == Spec => []RunInv
<1> QED BY RunBegins, RunGoesOn, PTL DEF Spec

\* The run of a migration keeps its types: the table and the statements above all, which
\* the database and the builders make, not the migration.
THEOREM DataTypeCorrect == Spec => []TypeOK
<1>1. RunInv => TypeOK
  <2> SUFFICES ASSUME RunInv  PROVE TypeOK
    OBVIOUS
  <2>1. MaxRuns \in Nat
    BY DataAssumption
  <2> QED BY <2>1 DEF RunInv, PlanIsBuilt, TypeOK, Rows
<1> QED BY <1>1, RunInvariant, PTL

-----------------------------------------------------------------------------
(* A run does what its calls ask, all of it or nothing *)

AskedInv ==
  WellNumbered(dialect, migration) =>
    /\ pc \in {"exec", "done"} /\ ~dry => table = AskedBy(before, migration.calls, ran)
    /\ pc = "failed" => faulty \/ \E i \in DOMAIN migration.calls : Malformed(migration.calls[i])

LEMMA NothingAsked ==
  ASSUME RunInv, NEW t
  PROVE  AskedBy(t, migration.calls, 0) = t
<1>1. Len(migration.calls) \in Nat
  BY MigrationType DEF RunInv
<1> QED BY <1>1, AskedInTurn

\* A statement that is executed asks the database for what its call asked for.
LEMMA StatementDoesItsCall ==
  ASSUME RunInv, WellNumbered(dialect, migration), ran < Len(statements)
  PROVE  /\ Accepts(dialect, statements[ran + 1])
         /\ After(statements[ran + 1], AskedBy(before, migration.calls, ran))
              = AskedBy(before, migration.calls, ran + 1)
<1> DEFINE c == migration.calls[ran + 1]
           t == AskedBy(before, migration.calls, ran)
<1>1. /\ ran \in 0..Len(statements) /\ Len(statements) \in Nat
      /\ Len(statements) <= Len(migration.calls) /\ Len(migration.calls) \in Nat
      /\ DOMAIN migration.calls = 1..Len(migration.calls)
  BY MigrationType DEF RunInv, PlanIsBuilt
<1>2. ran + 1 \in 1..Len(statements) /\ ran + 1 \in DOMAIN migration.calls
      /\ ran \in 0..(Len(migration.calls) - 1)
  BY <1>1
<1>3. c \in Call /\ ~Malformed(c) /\ statements[ran + 1] = Built(dialect, c)
  BY <1>1, <1>2, MigrationType DEF RunInv, PlanIsBuilt
<1>4. WellCalled(dialect, c)
  BY <1>2, WellNumberedCalls
<1>5. Accepts(dialect, Built(dialect, c)) /\ After(Built(dialect, c), t) = Asked(t, c)
  BY <1>3, <1>4, CallDoes DEF RunInv
<1>6. AskedBy(before, migration.calls, ran + 1) = Asked(t, c)
  BY <1>1, <1>2, AskedInTurn
<1> QED BY <1>3, <1>5, <1>6

LEMMA AskedBegins == Init => AskedInv
  BY DEF Init, AskedInv

LEMMA AskedGoesOn == RunInv /\ AskedInv /\ [Next]_vars => AskedInv'
<1> SUFFICES ASSUME RunInv, AskedInv, [Next]_vars, WellNumbered(dialect, migration)'
             PROVE  /\ pc' \in {"exec", "done"} /\ ~dry' =>
                         table' = AskedBy(before', migration'.calls, ran')
                    /\ pc' = "failed" => faulty' \/ \E i \in DOMAIN migration'.calls :
                                                       Malformed(migration'.calls[i])
  BY DEF AskedInv
<1>0. dialect' = dialect /\ migration' = migration
  BY DEF Next, world, vars, Ask, QueryFails, ChainCall, Exec, ExecStatement, StatementFails,
         ExecReturns, Crash, Rerun, Finished
<1>1. WellNumbered(dialect, migration)
  BY <1>0
<1>2. /\ pc \in {"exec", "done"} /\ ~dry => table = AskedBy(before, migration.calls, ran)
      /\ pc = "failed" => faulty \/ \E i \in DOMAIN migration.calls : Malformed(migration.calls[i])
  BY <1>1 DEF AskedInv
<1>3. CASE Ask
  <2>1. Accepts(dialect, Query(migration))
    BY <1>1, <1>3, QueryWrites DEF Ask, RunInv, RunIsPlaced
  <2> QED BY <1>3, <2>1 DEF Ask
<1>4. CASE QueryFails \/ StatementFails \/ Crash
  BY <1>4 DEF QueryFails, StatementFails, Crash, Fail
<1>5. CASE ChainCall
  BY <1>5 DEF ChainCall
<1>6. CASE Exec
  <2>1. CASE err
    <3>1. \E i \in DOMAIN migration.calls : Malformed(migration.calls[i])
      <4>1. PICK i \in 1..called : Malformed(migration.calls[i])
        BY <2>1 DEF RunInv, PlanIsBuilt
      <4>2. i \in DOMAIN migration.calls
        BY MigrationType DEF RunInv
      <4> QED BY <4>1, <4>2
    <3> QED BY <1>0, <1>6, <2>1, <3>1 DEF Exec, Fail
  <2>2. CASE ~err
    <3>1. ran = 0 /\ table = before
      BY <1>6 DEF Exec, RunInv, RunIsPlaced
    <3>2. table = AskedBy(before, migration.calls, ran)
      BY <3>1, NothingAsked
    <3> QED BY <1>0, <1>6, <2>2, <3>2 DEF Exec
  <2> QED BY <2>1, <2>2
<1>7. CASE ExecStatement
  <2>1. /\ Accepts(dialect, statements[ran + 1])
        /\ After(statements[ran + 1], AskedBy(before, migration.calls, ran))
             = AskedBy(before, migration.calls, ran + 1)
    BY <1>1, <1>7, StatementDoesItsCall DEF ExecStatement
  <2>2. /\ pc = "exec" /\ pc' = "exec" /\ ran' = ran + 1 /\ before' = before /\ dry' = dry
        /\ table' = After(statements[ran + 1], table)
    BY <1>7, <2>1 DEF ExecStatement
  <2>3. table = AskedBy(before, migration.calls, ran)
    BY <1>2, <2>2 DEF RunInv, RunIsPlaced
  <2> QED BY <1>0, <2>1, <2>2, <2>3
<1>8. CASE ExecReturns
  BY <1>0, <1>2, <1>8 DEF ExecReturns, RunInv, RunIsPlaced
<1>9. CASE Rerun
  BY <1>9 DEF Rerun
<1>10. CASE UNCHANGED vars
  BY <1>0, <1>2, <1>10 DEF vars
<1> QED BY <1>3, <1>4, <1>5, <1>6, <1>7, <1>8, <1>9, <1>10 DEF Next, Finished

LEMMA AskedInvariant == Spec => [](RunInv /\ AskedInv)
<1> QED BY RunBegins, RunGoesOn, AskedBegins, AskedGoesOn, PTL DEF Spec

\* The statements executed so far have done what the calls they come from ask for, a run
\* that returned nil all of it and one that failed or was a preview nothing: whatever the
\* calls write, bind and compare, every placeholder of each dialect gets its own argument.
THEOREM DataDoesAsAsked == Spec => []DataAsAsked
<1>1. RunInv /\ AskedInv => DataAsAsked
  <2> SUFFICES ASSUME RunInv, AskedInv, WellNumbered(dialect, migration),
                      NEW did, did = IF pc \in {"exec", "done"} /\ ~dry THEN ran ELSE 0
               PROVE  /\ table = AskedBy(before, migration.calls, did)
                      /\ (pc = "done" /\ ~dry) => did = Len(migration.calls)
                      /\ pc = "done" => \A i \in DOMAIN migration.calls : ~Malformed(migration.calls[i])
    BY DEF DataAsAsked
  <2>1. table = AskedBy(before, migration.calls, did)
    <3>1. CASE pc \in {"exec", "done"} /\ ~dry
      BY <3>1 DEF AskedInv
    <3>2. CASE ~(pc \in {"exec", "done"} /\ ~dry)
      <4>1. table = before /\ did = 0
        BY <3>2 DEF RunInv, RunIsPlaced
      <4> QED BY <4>1, NothingAsked
    <3> QED BY <3>1, <3>2
  <2>2. pc = "done" => ~err /\ called = Len(migration.calls) /\ Len(statements) = called
    BY DEF RunInv, RunIsPlaced, PlanIsBuilt
  <2>3. (pc = "done" /\ ~dry) => did = Len(migration.calls)
    BY <2>2 DEF RunInv, RunIsPlaced
  <2>4. DOMAIN migration.calls = 1..Len(migration.calls)
    BY MigrationType DEF RunInv
  <2>5. pc = "done" => \A i \in DOMAIN migration.calls : ~Malformed(migration.calls[i])
    BY <2>2, <2>4 DEF RunInv, PlanIsBuilt
  <2> QED BY <2>1, <2>3, <2>5
<1> QED BY <1>1, AskedInvariant, PTL

\* Nothing but a fault or a call that cannot be built stops a migration whose conditions
\* are numbered in the dialect's way: each statement the code builds is one that the
\* database accepts.
THEOREM FaultsAloneStopData == Spec => []OnlyFaultsStopIt
<1>1. RunInv /\ AskedInv => OnlyFaultsStopIt
  BY DEF AskedInv, OnlyFaultsStopIt
<1> QED BY <1>1, AskedInvariant, PTL

-----------------------------------------------------------------------------
(* A seed is inserted once *)

\* The rows that the condition of a migration's query is about.
Met(m, t) == {i \in DOMAIN t : Meant(m.cond, m.args, t[i])}

LEMMA MetCounted ==
  ASSUME NEW m, NEW t \in Seq(Rows)
  PROVE  /\ Met(m, t) \in SUBSET (1..Len(t)) /\ IsFiniteSet(Met(m, t))
         /\ Cardinality(Met(m, t)) \in Nat
<1>1. Met(m, t) \in SUBSET (1..Len(t)) /\ Len(t) \in Nat
  BY DEF Met
<1>2. IsFiniteSet(1..Len(t))
  BY <1>1, FS_Interval
<1> QED BY <1>1, <1>2, FS_Subset, FS_CardinalityType

LEMMA MetAdds ==
  ASSUME NEW m, NEW s \in Seq(Rows), NEW t \in Seq(Rows)
  PROVE  Cardinality(Met(m, s \o t)) = Cardinality(Met(m, s)) + Cardinality(Met(m, t))
<1> DEFINE n == Len(s)
           A == Met(m, s)
           B == Met(m, t)
           u == s \o t
<1>1. n \in Nat /\ A \in SUBSET (1..n) /\ B \in SUBSET (1..Len(t)) /\ Len(t) \in Nat /\ IsFiniteSet(B)
  BY MetCounted
<1>2. /\ DOMAIN u = 1..(n + Len(t)) /\ \A i \in 1..n : u[i] = s[i]
      /\ \A j \in 1..Len(t) : u[n + j] = t[j]
  OBVIOUS
<1>3. /\ \A i \in 1..n : i \in Met(m, u) <=> i \in A
      /\ \A j \in 1..Len(t) : n + j \in Met(m, u) <=> j \in B
  BY <1>1, <1>2 DEF Met
<1>4. \A i \in 1..(n + Len(t)) : i \in 1..n \/ (i - n \in 1..Len(t) /\ i = n + (i - n))
  BY <1>1
<1>5. Met(m, u) \in SUBSET (1..(n + Len(t)))
  BY <1>2 DEF Met
<1> HIDE DEF n, A, B, u
<1>6. \A i : i \in Met(m, u) <=> i \in Onward(n, A, B)
  <2> TAKE i
  <2>1. i \in Met(m, u) => i \in Onward(n, A, B)
    <3> SUFFICES ASSUME i \in Met(m, u)  PROVE i \in Onward(n, A, B)
      OBVIOUS
    <3>1. CASE i \in 1..n
      BY <1>3, <3>1 DEF Onward
    <3>2. CASE i - n \in 1..Len(t) /\ i = n + (i - n)
      <4>1. PICK j \in 1..Len(t) : i = n + j
        BY <3>2
      <4> QED BY <1>3, <4>1 DEF Onward
    <3> QED BY <1>4, <1>5, <3>1, <3>2
  <2>2. i \in Onward(n, A, B) => i \in Met(m, u)
    BY <1>1, <1>3 DEF Onward
  <2> QED BY <2>1, <2>2
<1>7. Met(m, u) = Onward(n, A, B)
  BY <1>6
<1>8. B \in SUBSET (Nat \ {0})
  <2>1. \A k \in 1..Len(t) : k \in Nat \ {0}
    BY <1>1
  <2> QED BY <1>1, <2>1
<1>9. Cardinality(Onward(n, A, B)) = Cardinality(A) + Cardinality(B)
  BY <1>1, <1>8, CountingOn
<1> QED BY <1>7, <1>9 DEF A, B, u

LEMMA NoneMet ==
  ASSUME NEW m
  PROVE  <<>> \in Seq(Rows) /\ Cardinality(Met(m, <<>>)) = 0
<1>1. Met(m, <<>>) = {}
  BY DEF Met
<1> QED BY <1>1, FS_EmptySet

\* What an insert adds does not depend on the rows that are there.
New(c) == [i \in DOMAIN c.rows |-> Changed(c, EmptyRow, c.rows[i])]

LEMMA InsertAdds ==
  ASSUME NEW c \in Call, c.op = "insert", ~Malformed(c)
  PROVE  New(c) \in Seq(Rows) /\ \A t : Asked(t, c) = t \o New(c)
<1>1. \A t : Asked(t, c) = t \o New(c)
  <2> TAKE t
  <2>1. Asked(t, c) = Added(t, c)
    BY AskedForms
  <2> QED BY <2>1 DEF Added, New
<1>2. /\ Len(c.rows) \in Nat /\ DOMAIN c.rows = 1..Len(c.rows)
      /\ \A i \in DOMAIN c.rows : c.rows[i] \in Seq(Value) /\ Len(c.rows[i]) = Len(c.cols)
      /\ DOMAIN c.cols = 1..Len(c.cols)
  BY CallType, WellFormed
<1>3. ASSUME NEW i \in 1..Len(c.rows)  PROVE Changed(c, EmptyRow, c.rows[i]) \in Rows
  <2>1. \A j \in 1..Len(c.cols) : c.rows[i][j] \in Value
    BY <1>2, <1>3, SeqMembers
  <2>2. \A j \in DOMAIN c.cols : c.rows[i][j].v \in Nat
    BY <1>2, <2>1 DEF Value
  <2>3. \A col : (\E j \in DOMAIN c.cols : c.cols[j] = col) => PlaceOf(c.cols, col) \in DOMAIN c.cols
    BY DEF PlaceOf
  <2>4. \A col \in Columns : EmptyRow[col] \in Nat
    BY DEF EmptyRow
  <2> QED BY <2>2, <2>3, <2>4 DEF Changed, Rows
<1>4. New(c) \in [1..Len(c.rows) -> Rows]
  BY <1>2, <1>3 DEF New
<1>5. New(c) \in Seq(Rows)
  BY <1>2, <1>4, SeqMade
<1> QED BY <1>1, <1>5

\* The rows that the first n calls of a seed add to an empty table.
Sown(m, n) == AskedBy(<<>>, m.calls, n)

LEMMA SownInTurn ==
  ASSUME NEW m \in Migrations, Seeds(m)
  PROVE  /\ Sown(m, 0) = <<>>
         /\ \A n \in 0..(Len(m.calls) - 1) :
              /\ New(m.calls[n + 1]) \in Seq(Rows)
              /\ \A t : Asked(t, m.calls[n + 1]) = t \o New(m.calls[n + 1])
              /\ Sown(m, n + 1) = Sown(m, n) \o New(m.calls[n + 1])
<1>1. /\ Len(m.calls) \in Nat /\ DOMAIN m.calls = 1..Len(m.calls)
      /\ \A i \in 1..Len(m.calls) : m.calls[i] \in Call
  BY MigrationType
<1>2. \A i \in DOMAIN m.calls : m.calls[i].op = "insert" /\ ~Malformed(m.calls[i])
  BY DEF Seeds
<1>3. Sown(m, 0) = <<>>
  BY <1>1, AskedInTurn DEF Sown
<1>4. ASSUME NEW n \in 0..(Len(m.calls) - 1)
      PROVE  /\ New(m.calls[n + 1]) \in Seq(Rows)
             /\ \A t : Asked(t, m.calls[n + 1]) = t \o New(m.calls[n + 1])
             /\ Sown(m, n + 1) = Sown(m, n) \o New(m.calls[n + 1])
  <2>1. n + 1 \in 1..Len(m.calls)
    BY <1>1
  <2>2. /\ New(m.calls[n + 1]) \in Seq(Rows)
        /\ \A t : Asked(t, m.calls[n + 1]) = t \o New(m.calls[n + 1])
    BY <1>1, <1>2, <2>1, InsertAdds
  <2>3. Sown(m, n + 1) = Asked(Sown(m, n), m.calls[n + 1])
    BY <1>1, AskedInTurn DEF Sown
  <2> QED BY <2>2, <2>3
<1> QED BY <1>3, <1>4

LEMMA SownIsCounted ==
  ASSUME NEW m \in Migrations, Seeds(m), NEW n \in 0..Len(m.calls)
  PROVE  /\ Sown(m, n) \in Seq(Rows) /\ Cardinality(Met(m, Sown(m, n))) \in Nat
         /\ Cardinality(Met(m, Sown(m, n))) <= 1
         /\ n = Len(m.calls) => Cardinality(Met(m, Sown(m, n))) = 1
<1> DEFINE L == Len(m.calls)
           Count(k) == Cardinality(Met(m, Sown(m, k)))
<1>0. /\ Sown(m, 0) = <<>>
      /\ \A k \in 0..(L - 1) : /\ New(m.calls[k + 1]) \in Seq(Rows)
                               /\ Sown(m, k + 1) = Sown(m, k) \o New(m.calls[k + 1])
  BY SownInTurn, Zenon
<1>1. L \in Nat /\ n \in 0..L
  BY MigrationType
<1> HIDE DEF L
<1>2. 0..L \subseteq {k \in 0..L : Sown(m, k) \in Seq(Rows)}
  <2> DEFINE T == {k \in 0..L : Sown(m, k) \in Seq(Rows)}
  <2>1. 0 \in T
    <3>1. Sown(m, 0) \in Seq(Rows)
      BY <1>0, NoneMet
    <3>2. 0 \in 0..L
      BY <1>1
    <3> QED BY <3>1, <3>2
  <2>2. \A k \in 0..(L - 1) : k \in T => k + 1 \in T
    <3> SUFFICES ASSUME NEW k \in 0..(L - 1), k \in T  PROVE k + 1 \in T
      OBVIOUS
    <3>1. /\ Sown(m, k) \in Seq(Rows) /\ New(m.calls[k + 1]) \in Seq(Rows)
          /\ Sown(m, k + 1) = Sown(m, k) \o New(m.calls[k + 1])
      BY <1>0
    <3> DEFINE s == Sown(m, k)
               u == New(m.calls[k + 1])
               v == Sown(m, k + 1)
    <3>2. s \in Seq(Rows) /\ u \in Seq(Rows) /\ v = s \o u
      BY <3>1
    <3> HIDE DEF s, u, v
    <3>3. s \o u \in Seq(Rows)
      BY <3>2
    <3>4. k + 1 \in 0..L
      BY <1>1
    <3> QED BY <3>2, <3>3, <3>4 DEF v
  <2> HIDE DEF T
  <2>3. 0..L \subseteq T
    BY <1>1, <2>1, <2>2, CountedUp
  <2> QED BY <2>3 DEF T
<1>3. \A k \in 0..L : Sown(m, k) \in Seq(Rows) /\ Count(k) \in Nat
  BY <1>2, MetCounted
<1>4. \A k \in 0..(L - 1) : Count(k) <= Count(k + 1)
  <2> TAKE k \in 0..(L - 1)
  <2>1. k \in 0..L /\ New(m.calls[k + 1]) \in Seq(Rows)
        /\ Sown(m, k + 1) = Sown(m, k) \o New(m.calls[k + 1])
    BY <1>0, <1>1
  <2>2. Count(k + 1) = Count(k) + Cardinality(Met(m, New(m.calls[k + 1])))
    BY <1>3, <2>1, MetAdds
  <2>3. Cardinality(Met(m, New(m.calls[k + 1]))) \in Nat
    BY <2>1, MetCounted
  <2> QED BY <1>3, <2>1, <2>2, <2>3
<1>5. Count(L) = 1
  BY DEF Seeds, Met, Sown, L
<1> HIDE DEF Count
<1>6. ASSUME NEW a \in 0..L  PROVE Count(a) <= 1
  <2> DEFINE T == {b \in Nat : b < a \/ (b \in 0..L /\ Count(a) <= Count(b))}
  <2>1. \A b \in 0..(L - 1) : b \in T => b + 1 \in T
    <3> SUFFICES ASSUME NEW b \in 0..(L - 1), b \in T  PROVE b + 1 \in T
      OBVIOUS
    <3>1. b \in 0..L /\ b + 1 \in 0..L /\ a \in Nat /\ Count(b) <= Count(b + 1)
          /\ Count(a) \in Nat /\ Count(b) \in Nat /\ Count(b + 1) \in Nat
      BY <1>1, <1>3, <1>4
    <3>2. CASE b + 1 < a
      BY <3>1, <3>2
    <3>3. CASE b + 1 = a
      BY <3>1, <3>3
    <3>4. CASE b >= a
      BY <3>1, <3>4
    <3> QED BY <3>1, <3>2, <3>3, <3>4
  <2>2. 0 \in T
    <3>1. CASE a = 0
      BY <1>1, <1>3, <3>1
    <3>2. CASE a # 0
      BY <3>2
    <3> QED BY <3>1, <3>2
  <2>3. L \in T
    <3> HIDE DEF T
    <3>1. 0..L \subseteq T
      BY <1>1, <2>1, <2>2, CountedUp
    <3> QED BY <1>1, <3>1
  <2> QED BY <1>1, <1>5, <2>3
<1> QED BY <1>1, <1>3, <1>5, <1>6 DEF L, Count

\* RowExists and CountRows find what is there, whatever type the driver answers with.
LEMMA FoundIfMet ==
  ASSUME NEW d \in Dialects, NEW m \in Migrations, WellNumbered(d, m), m.ask # "nothing",
         NEW t \in Seq(Rows)
  PROVE  Found(d, m, t) <=> Cardinality(Met(m, t)) # 0
<1> DEFINE n == Cardinality({i \in DOMAIN t : Matches(Query(m), t[i])})
<1>1. \A row : Matches(Query(m), row) <=> Meant(m.cond, m.args, row)
  BY QueryWrites
<1>2. {i \in DOMAIN t : Matches(Query(m), t[i])} = Met(m, t)
  BY <1>1 DEF Met
<1>3. n = Cardinality(Met(m, t))
  BY <1>2, Zenon
<1>4. n \in Nat
  BY <1>3, MetCounted
<1>5. Found(d, m, t) <=> toInt64(Answer(d, m.ask, n)) # 0
  BY DEF Found
<1> HIDE DEF n
<1>6. toInt64(Answer(d, m.ask, n)) # 0 <=> n # 0
  BY <1>4, MigrationType DEF Answer, toInt64
<1> QED BY <1>3, <1>5, <1>6

\* A run that has got past its query has found none and adds what its calls have sown.
Sowing ==
  LET met(t) == Cardinality(Met(migration, t))
  IN  /\ met(before) <= 1
      /\ pc \in {"chain", "exec", "done"} => met(before) = 0
      /\ pc = "skipped" => met(before) = 1
      /\ pc \in {"exec", "done"} /\ ~dry => met(table) = met(Sown(migration, ran))

SeedInv == Seeds(migration) /\ WellNumbered(dialect, migration) => Sowing

LEMMA SowingIsSeeding ==
  ASSUME RunInv, Seeds(migration), Sowing
  PROVE  /\ Cardinality(Met(migration, table)) <= 1
         /\ pc = "skipped" \/ (pc = "done" /\ ~dry) => Cardinality(Met(migration, table)) = 1
<1> DEFINE met(t) == Cardinality(Met(migration, t))
<1>1. /\ migration \in Migrations /\ Len(migration.calls) \in Nat
      /\ ran \in 0..Len(statements) /\ Len(statements) <= Len(migration.calls)
      /\ Len(statements) \in Nat
  BY MigrationType DEF RunInv, PlanIsBuilt
<1>2. CASE pc \in {"exec", "done"} /\ ~dry
  <2>1. met(table) = met(Sown(migration, ran))
    BY <1>2 DEF Sowing
  <2>2. ran \in 0..Len(migration.calls)
    BY <1>1
  <2>3. /\ met(Sown(migration, ran)) <= 1
        /\ ran = Len(migration.calls) => met(Sown(migration, ran)) = 1
    BY <1>1, <2>2, SownIsCounted
  <2>4. pc = "done" => ran = Len(migration.calls)
    BY <1>2 DEF RunInv, RunIsPlaced, PlanIsBuilt
  <2> QED BY <1>2, <2>1, <2>3, <2>4
<1>3. CASE ~(pc \in {"exec", "done"} /\ ~dry)
  <2>1. table = before
    BY <1>3 DEF RunInv, RunIsPlaced
  <2> QED BY <1>3, <2>1 DEF Sowing
<1> QED BY <1>2, <1>3

\* The table holds a seed's row at most once to begin with.
TablesHoldSeedsOnce ==
  \A t \in Tables, m \in Migrations : Seeds(m) => Cardinality(Met(m, t)) <= 1

LEMMA SeedBegins ==
  ASSUME TablesHoldSeedsOnce, Init
  PROVE  SeedInv
<1> SUFFICES ASSUME Seeds(migration)  PROVE Sowing
  BY DEF SeedInv
<1>1. migration.ask # "nothing"
  BY DEF Seeds
<1>2. Cardinality(Met(migration, before)) <= 1
  BY DEF TablesHoldSeedsOnce, Init
<1>3. pc = "ask"
  BY <1>1 DEF Init
<1> QED BY <1>2, <1>3 DEF Sowing

LEMMA SeedGoesOn == RunInv /\ SeedInv /\ [Next]_vars => SeedInv'
<1> SUFFICES ASSUME RunInv, SeedInv, [Next]_vars,
                    Seeds(migration)', WellNumbered(dialect, migration)'
             PROVE  Sowing'
  BY DEF SeedInv
<1> DEFINE met(t) == Cardinality(Met(migration, t))
<1>0. dialect' = dialect /\ migration' = migration
  BY DEF Next, world, vars, Ask, QueryFails, ChainCall, Exec, ExecStatement, StatementFails,
         ExecReturns, Crash, Rerun, Finished
<1>1. Seeds(migration) /\ WellNumbered(dialect, migration)
  BY <1>0
<1>2. /\ met(before) <= 1 /\ (pc \in {"chain", "exec", "done"} => met(before) = 0)
      /\ (pc = "skipped" => met(before) = 1)
      /\ (pc \in {"exec", "done"} /\ ~dry => met(table) = met(Sown(migration, ran)))
  BY <1>1 DEF SeedInv, Sowing
<1>3. /\ migration \in Migrations /\ Len(migration.calls) \in Nat /\ migration.ask # "nothing"
      /\ before \in Seq(Rows) /\ table \in Seq(Rows) /\ met(before) \in Nat /\ met(table) \in Nat
  BY <1>1, MigrationType, MetCounted DEF RunInv, Seeds
<1> DEFINE SowingNext == /\ met(before') <= 1
                         /\ pc' \in {"chain", "exec", "done"} => met(before') = 0
                         /\ pc' = "skipped" => met(before') = 1
                         /\ pc' \in {"exec", "done"} /\ ~dry' => met(table') = met(Sown(migration, ran'))
<1>4. SowingNext => Sowing'
  BY <1>0 DEF Sowing
<1>5. ASSUME before' = before, pc' = "failed"  PROVE SowingNext
  BY <1>2, <1>5
<1>6. CASE Ask
  <2>1. Accepts(dialect, Query(migration))
    BY <1>1, <1>3, QueryWrites DEF RunInv
  <2>2. /\ pc' = IF Found(dialect, migration, table) THEN "skipped" ELSE "chain"
        /\ before' = before /\ table = before
    BY <1>6, <2>1 DEF Ask, RunInv, RunIsPlaced
  <2>3. Found(dialect, migration, table) <=> met(table) # 0
    BY <1>1, <1>3, FoundIfMet DEF RunInv
  <2> HIDE DEF met
  <2> QED BY <1>2, <1>3, <1>4, <2>2, <2>3
<1>7. CASE QueryFails \/ StatementFails \/ Crash
  BY <1>4, <1>5, <1>7 DEF QueryFails, StatementFails, Crash, Fail
<1>8. CASE ChainCall
  <2>1. pc = "chain" /\ pc' = "chain" /\ before' = before
    BY <1>8 DEF ChainCall
  <2> QED BY <1>2, <1>4, <2>1
<1>9. CASE Exec
  <2>1. CASE err
    BY <1>4, <1>5, <1>9, <2>1 DEF Exec, Fail
  <2>2. CASE ~err
    <3>1. /\ pc = "chain" /\ pc' \in {"exec", "done"} /\ before' = before /\ table' = table
          /\ ran' = 0 /\ table = before
      BY <1>9, <2>2 DEF Exec, RunInv, RunIsPlaced
    <3>2. met(Sown(migration, 0)) = 0
      BY <1>1, <1>3, SownInTurn, NoneMet
    <3>3. met(table') = met(Sown(migration, ran'))
      BY <1>2, <3>1, <3>2
    <3> QED BY <1>2, <1>4, <3>1, <3>3
  <2> QED BY <2>1, <2>2
<1>10. CASE ExecStatement
  <2> DEFINE n == New(migration.calls[ran + 1])
             s == Sown(migration, ran)
  <2>1. /\ ran \in 0..Len(statements) /\ Len(statements) \in Nat /\ ran < Len(statements)
        /\ Len(statements) <= Len(migration.calls) /\ pc = "exec" /\ ~dry
    BY <1>10, <1>3 DEF RunInv, RunIsPlaced, PlanIsBuilt, ExecStatement
  <2>2. /\ ran \in 0..(Len(migration.calls) - 1) /\ ran + 1 \in DOMAIN migration.calls
        /\ ran \in 0..Len(migration.calls) /\ ran + 1 \in 1..Len(statements)
    BY <1>3, <2>1, MigrationType
  <2>3. /\ migration.calls[ran + 1] \in Call /\ ~Malformed(migration.calls[ran + 1])
        /\ statements[ran + 1] = Built(dialect, migration.calls[ran + 1])
    BY <1>3, <2>2, MigrationType DEF RunInv, PlanIsBuilt
  <2>4. WellCalled(dialect, migration.calls[ran + 1])
    BY <1>1, <2>2, WellNumberedCalls
  <2>5. /\ Accepts(dialect, statements[ran + 1])
        /\ After(statements[ran + 1], table) = Asked(table, migration.calls[ran + 1])
    BY <2>3, <2>4, CallDoes DEF RunInv
  <2>6. /\ n \in Seq(Rows) /\ Asked(table, migration.calls[ran + 1]) = table \o n
        /\ Sown(migration, ran + 1) = s \o n /\ s \in Seq(Rows)
    BY <1>1, <1>3, <2>2, SownInTurn, SownIsCounted
  <2>7. /\ pc' = "exec" /\ before' = before /\ dry' = dry /\ ran' = ran + 1 /\ table' = table \o n
    BY <1>10, <2>1, <2>5, <2>6 DEF ExecStatement
  <2> HIDE DEF n, s
  <2>8. met(table \o n) = met(table) + met(n)
    BY <1>3, <2>6, MetAdds
  <2>9. met(s \o n) = met(s) + met(n)
    BY <2>6, MetAdds
  <2>10. met(table) = met(s)
    BY <1>2, <2>1 DEF s
  <2>11. met(table') = met(Sown(migration, ran'))
    BY <2>6, <2>7, <2>8, <2>9, <2>10
  <2> QED BY <1>2, <1>4, <2>1, <2>7, <2>11
<1>11. CASE ExecReturns
  <2>1. /\ pc = "exec" /\ pc' = "done" /\ before' = before /\ table' = table /\ dry' = dry /\ ran' = ran
    BY <1>11 DEF ExecReturns
  <2> QED BY <1>2, <1>4, <2>1
<1>12. CASE Rerun
  <2>1. before' = table /\ pc' = "ask"
    BY <1>3, <1>12 DEF Rerun
  <2>2. met(table) <= 1
    BY <1>1, SowingIsSeeding DEF SeedInv
  <2> QED BY <1>4, <2>1, <2>2
<1>13. CASE UNCHANGED vars
  BY <1>2, <1>4, <1>13 DEF vars
<1> QED BY <1>6, <1>7, <1>8, <1>9, <1>10, <1>11, <1>12, <1>13 DEF Next, Finished

\* A migration that inserts a row only when its query finds none has it inserted once it
\* has returned and never twice, however often it is run again after failures, previews
\* and runs that went through, on a table that held it at most once to begin with.
THEOREM SeedsOnce ==
  ASSUME TablesHoldSeedsOnce
  PROVE  Spec => []SeededOnce
<1>1. Init => RunInv /\ SeedInv
  BY RunBegins, SeedBegins
<1>2. RunInv /\ SeedInv /\ [Next]_vars => RunInv' /\ SeedInv'
  BY RunGoesOn, SeedGoesOn
<1>3. RunInv /\ SeedInv => SeededOnce
  <2> SUFFICES ASSUME RunInv, SeedInv, Seeds(migration), WellNumbered(dialect, migration)
               PROVE  LET there == Cardinality(Met(migration, table))
                      IN  there <= 1 /\ (pc = "skipped" \/ (pc = "done" /\ ~dry) => there = 1)
    BY DEF SeededOnce, Met
  <2>1. Sowing
    BY DEF SeedInv
  <2> QED BY <2>1, SowingIsSeeding
<1> QED BY <1>1, <1>2, <1>3, PTL DEF Spec
=============================================================================
