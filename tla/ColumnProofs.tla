---------------------------- MODULE ColumnProofs ----------------------------
(***************************************************************************)
(* Proofs about ColumnDefinition, for any constructors and any number of   *)
(* builders: the fields of a builder say what the calls on the way to it   *)
(* ask for (ColumnInv), and from the fields each dialect writes just that. *)
(***************************************************************************)
EXTENDS ColumnDefinition, FiniteSetTheorems, SequenceTheorems, TLAPS

(* What one call does to what a chain of calls asks for *)

As(m) == IF m = "PrimaryKey" THEN {"NotNull", "PrimaryKey"} ELSE {m}

Replaces(m, a) == \E alt \in Alternatives : a \in alt /\ As(m) \cap (alt \ {a}) # {}

LEMMA AskedMember ==
  ASSUME NEW p, NEW a
  PROVE  a \in Asked(p) <=>
           /\ a \in Modifiers
           /\ \E i \in DOMAIN p : a \in As(p[i]) /\ \A j \in (i + 1)..Len(p) : ~Replaces(p[j], a)
  BY DEF Asked, As, Replaces

LEMMA AskedOfNothing == Asked(<<>>) = {}
  BY AskedMember

\* A call does not replace what it asks for itself.
LEMMA NotItself == \A m \in Modifiers : \A a \in As(m) : a \in Modifiers /\ ~Replaces(m, a)
  BY DEF Modifiers, As, Replaces, Alternatives

\* One more call: it asks for its own and withdraws what it replaces.
LEMMA AskedOfMore ==
  ASSUME NEW p \in Seq(Modifiers), NEW m \in Modifiers
  PROVE  Asked(Append(p, m)) = {a \in Asked(p) : ~Replaces(m, a)} \cup As(m)
<1> DEFINE q == Append(p, m)
<1>1. Len(q) = Len(p) + 1 /\ q[Len(p) + 1] = m /\ \A i \in 1..Len(p) : q[i] = p[i]
  OBVIOUS
<1>2. DOMAIN p = 1..Len(p) /\ DOMAIN q = 1..(Len(p) + 1) /\ Len(p) \in Nat
  OBVIOUS
<1> HIDE DEF q
<1>3. ASSUME NEW a \in Asked(q)  PROVE (a \in Asked(p) /\ ~Replaces(m, a)) \/ a \in As(m)
  <2>1. PICK i \in DOMAIN q : /\ a \in As(q[i])
                              /\ \A j \in (i + 1)..Len(q) : ~Replaces(q[j], a)
    BY <1>3, AskedMember
  <2>2. CASE i = Len(p) + 1
    BY <2>1, <2>2, <1>1
  <2>3. CASE i \in 1..Len(p)
    <3>1. ~Replaces(m, a)
      BY <2>1, <2>3, <1>1, <1>2
    <3>2. \A j \in (i + 1)..Len(p) : ~Replaces(p[j], a)
      BY <2>1, <2>3, <1>1, <1>2
    <3>3. a \in Asked(p)
      BY <2>1, <2>3, <3>2, <1>1, <1>2, <1>3, AskedMember
    <3> QED BY <3>1, <3>3
  <2> QED BY <2>2, <2>3, <1>2
<1>4. ASSUME NEW a \in Asked(p), ~Replaces(m, a)  PROVE a \in Asked(q)
  <2>1. PICK i \in DOMAIN p : /\ a \in As(p[i])
                              /\ \A j \in (i + 1)..Len(p) : ~Replaces(p[j], a)
    BY <1>4, AskedMember
  <2>2. \A j \in (i + 1)..Len(q) : ~Replaces(q[j], a)
    BY <2>1, <1>4, <1>1, <1>2
  <2>3. i \in DOMAIN q /\ a \in As(q[i])
    BY <2>1, <1>1, <1>2
  <2>4. a \in Modifiers
    BY <1>4, AskedMember
  <2> QED BY <2>2, <2>3, <2>4, AskedMember
<1>5. ASSUME NEW a \in As(m)  PROVE a \in Asked(q)
  <2>1. a \in Modifiers
    BY <1>5, NotItself
  <2>2. Len(p) + 1 \in DOMAIN q /\ a \in As(q[Len(p) + 1])
    BY <1>5, <1>1, <1>2
  <2>3. ((Len(p) + 1) + 1)..Len(q) = {}
    BY <1>1, <1>2
  <2> QED BY <2>1, <2>2, <2>3, AskedMember
<1>6. Asked(q) = {a \in Asked(p) : ~Replaces(m, a)} \cup As(m)
  BY <1>3, <1>4, <1>5
<1> QED BY <1>6 DEF q

-----------------------------------------------------------------------------
(* The fields of a builder *)

\* The fields is of a builder say that the modifiers A were asked for.
Reads(is, A) ==
  /\ is \subseteq Fields /\ A \subseteq Modifiers
  /\ \A m \in Modifiers \ {"NotNull", "Null"} : m \in A <=> m \in is
  /\ "NotNull" \in A <=> "nullSet" \in is /\ "nullable" \notin is
  /\ "Null" \in A <=> "nullSet" \in is /\ "nullable" \in is
  /\ \A alt \in Alternatives : \A a, b \in A : {a, b} \subseteq alt => a = b

LEMMA NewReads == Reads({"nullable"}, {})
  BY DEF Reads, Fields, Modifiers

\* A modifier assigns and resets the fields that its call asks for and replaces.
LEMMA ModifiedReads ==
  ASSUME NEW is, NEW A, NEW m \in Modifiers, Reads(is, A)
  PROVE  Reads((is \ Cleared(m)) \cup Assigned(m), {a \in A : ~Replaces(m, a)} \cup As(m))
<1> DEFINE new == (is \ Cleared(m)) \cup Assigned(m)
           B == {a \in A : ~Replaces(m, a)} \cup As(m)
<1>0. /\ is \subseteq Fields /\ A \subseteq Modifiers
      /\ Assigned(m) \subseteq Fields
  BY DEF Reads, Assigned, Fields, Modifiers
<1>1. new \subseteq Fields /\ B \subseteq Modifiers
  BY <1>0, NotItself
<1>2. \A a \in Modifiers \ {"NotNull", "Null"} : a \in B <=> a \in new
  BY DEF Reads, Cleared, Assigned, Replaces, Alternatives, As, Modifiers
<1>3. "NotNull" \in B <=> "nullSet" \in new /\ "nullable" \notin new
  BY DEF Reads, Cleared, Assigned, Replaces, Alternatives, As, Modifiers
<1>4. "Null" \in B <=> "nullSet" \in new /\ "nullable" \in new
  BY DEF Reads, Cleared, Assigned, Replaces, Alternatives, As, Modifiers
<1>5. ASSUME NEW alt \in Alternatives, NEW a \in B, NEW b \in B, {a, b} \subseteq alt
      PROVE  a = b
  BY <1>5 DEF Reads, Replaces, Alternatives, As, Modifiers
<1> QED BY <1>1, <1>2, <1>3, <1>4, <1>5 DEF Reads

-----------------------------------------------------------------------------
(* Constructors *)

\* The builder b says what the calls p on the way to it ask for, with the type and the
\* size or values of the constructor that was called first.
Follows(b, p) ==
  /\ b = [type |-> b.type, given |-> b.given, is |-> b.is]
  /\ \E s \in Starts : b.type = s.type /\ b.given = s.given
  /\ p \in Seq(Modifiers)
  /\ Reads(b.is, Asked(p))

LEMMA ModifiedFollows ==
  ASSUME NEW b, NEW p, Follows(b, p), NEW m \in Modifiers
  PROVE  Follows(Modified(b, m), Append(p, m))
<1>1. Reads((b.is \ Cleared(m)) \cup Assigned(m), {a \in Asked(p) : ~Replaces(m, a)} \cup As(m))
  BY ModifiedReads DEF Follows
<1>2. Asked(Append(p, m)) = {a \in Asked(p) : ~Replaces(m, a)} \cup As(m)
  BY AskedOfMore DEF Follows
<1>3. Modified(b, m) = [type |-> b.type, given |-> b.given,
                        is |-> (b.is \ Cleared(m)) \cup Assigned(m)]
  <2>1. PICK t, g, f : b = [type |-> t, given |-> g, is |-> f]
    BY DEF Follows
  <2> QED BY <2>1 DEF Modified
<1>4. Append(p, m) \in Seq(Modifiers)
  BY DEF Follows
<1> QED BY <1>1, <1>2, <1>3, <1>4 DEF Follows

LEMMA AppendToOne ==
  ASSUME NEW a, NEW b
  PROVE  Append(Append(<<>>, a), b) = <<a, b>>
<1> DEFINE s == Append(Append(<<>>, a), b)
           t == <<a, b>>
<1>1. Append(<<>>, a) = <<a>>
  OBVIOUS
<1>2. s \in Seq({a, b}) /\ Len(s) = 2 /\ s[1] = a /\ s[2] = b
  BY <1>1
<1>3. t \in Seq({a, b}) /\ Len(t) = 2 /\ t[1] = a /\ t[2] = b
  OBVIOUS
<1> HIDE DEF s, t
<1>4. s = t
  BY <1>2, <1>3, SeqEqual
<1> QED BY <1>4 DEF s, t

LEMMA AppendToTwo ==
  ASSUME NEW a, NEW b, NEW c
  PROVE  Append(<<a, b>>, c) = <<a, b, c>>
<1> DEFINE s == Append(<<a, b>>, c)
           t == <<a, b, c>>
<1>1. s \in Seq({a, b, c}) /\ Len(s) = 3 /\ s[1] = a /\ s[2] = b /\ s[3] = c
  OBVIOUS
<1>2. t \in Seq({a, b, c}) /\ Len(t) = 3 /\ t[1] = a /\ t[2] = b /\ t[3] = c
  OBVIOUS
<1> HIDE DEF s, t
<1>3. s = t
  BY <1>1, <1>2, SeqEqual
<1> QED BY <1>3 DEF s, t

\* No constructor makes more than three calls, all of them modifiers.
LEMMA ConstructorCalls ==
  ASSUME NEW s \in Constructors
  PROVE  s.calls \in {<<>>, <<"Unsigned">>, <<"PrimaryKey", "AutoIncrement">>,
                      <<"PrimaryKey", "AutoIncrement", "Unsigned">>}
<1> QED BY AppendToTwo DEF Constructors

\* The builder after each call that a constructor makes: the recursion has a solution,
\* and the last of its builders is the one constructed.
LEMMA ConstructedSteps ==
  ASSUME NEW s \in Constructors
  PROVE  \E f : /\ f[0] = newColumnBuilder(s)
                /\ \A n \in 1..Len(s.calls) : f[n] = Modified(f[n - 1], s.calls[n])
                /\ Constructed(s) = f[Len(s.calls)]
<1> DEFINE c == s.calls
           F(g) == [n \in 0..Len(c) |->
                      IF n = 0 THEN newColumnBuilder(s) ELSE Modified(g[n - 1], c[n])]
           b0 == newColumnBuilder(s)
           b1 == Modified(b0, c[1])
           b2 == Modified(b1, c[2])
           b3 == Modified(b2, c[3])
           w == [n \in 0..Len(c) |-> IF n = 0 THEN b0 ELSE IF n = 1 THEN b1
                                     ELSE IF n = 2 THEN b2 ELSE b3]
           f == CHOOSE g : g = F(g)
<1>1. Len(c) \in 0..3
  <2>1. /\ Len(<<>>) = 0 /\ Len(<<"Unsigned">>) = 1
        /\ Len(<<"PrimaryKey", "AutoIncrement">>) = 2
        /\ Len(<<"PrimaryKey", "AutoIncrement", "Unsigned">>) = 3
    OBVIOUS
  <2> QED BY <2>1, ConstructorCalls
<1>2. w = F(w)
  <2> HIDE DEF b0, b1, b2, b3
  <2>1. ASSUME NEW n \in 0..Len(c)
        PROVE  w[n] = IF n = 0 THEN newColumnBuilder(s) ELSE Modified(w[n - 1], c[n])
    <3>1. n \in {0, 1, 2, 3} /\ \A k \in 0..n : k \in 0..Len(c)
      <4> DEFINE l == Len(c)
      <4>1. l \in 0..3
        BY <1>1
      <4> HIDE DEF l
      <4>2. n \in 0..l
        BY DEF l
      <4>3. n \in {0, 1, 2, 3} /\ \A k \in 0..n : k \in 0..l
        BY <4>1, <4>2
      <4> QED BY <4>3 DEF l
    <3>2. CASE n = 0
      BY <3>2 DEF b0
    <3>3. CASE n = 1
      BY <3>1, <3>3 DEF b1
    <3>4. CASE n = 2
      BY <3>1, <3>4 DEF b2
    <3>5. CASE n = 3
      BY <3>1, <3>5 DEF b3
    <3> QED BY <3>1, <3>2, <3>3, <3>4, <3>5
  <2> QED BY <2>1
<1> HIDE DEF w
<1>3. f = F(f)
  BY <1>2
<1>4. Constructed(s) = f[Len(c)]
  BY DEF Constructed
<1> HIDE DEF f
<1>5. f[0] = newColumnBuilder(s)
  BY <1>1, <1>3
<1>6. ASSUME NEW n \in 1..Len(c)  PROVE f[n] = Modified(f[n - 1], c[n])
  BY <1>1, <1>3, <1>6
<1> QED BY <1>4, <1>5, <1>6

LEMMA ConstructedFollows ==
  ASSUME NEW s \in Starts
  PROVE  Follows(Constructed(s), s.calls)
<1>0. s \in Constructors
  BY StartsAssumption
<1>1. PICK f : /\ f[0] = newColumnBuilder(s)
               /\ \A n \in 1..Len(s.calls) : f[n] = Modified(f[n - 1], s.calls[n])
               /\ Constructed(s) = f[Len(s.calls)]
  BY <1>0, ConstructedSteps
<1>2. Follows(f[0], <<>>)
  <2>1. f[0] = [type |-> s.type, given |-> s.given, is |-> {"nullable"}]
    BY <1>1 DEF newColumnBuilder
  <2>2. Reads(f[0].is, Asked(<<>>))
    <3>1. f[0].is = {"nullable"} /\ Asked(<<>>) = {}
      BY <2>1, AskedOfNothing
    <3> QED BY <3>1, NewReads, Zenon
  <2> QED BY <2>1, <2>2 DEF Follows
<1>3. CASE s.calls = <<>>
  BY <1>1, <1>2, <1>3
<1>4. CASE s.calls = <<"Unsigned">>
  <2>1. Append(<<>>, "Unsigned") = <<"Unsigned">> /\ Len(s.calls) = 1 /\ s.calls[1] = "Unsigned"
    BY <1>4
  <2>2. f[1] = Modified(f[0], "Unsigned")
    BY <1>1, <2>1
  <2>3. Follows(Modified(f[0], "Unsigned"), Append(<<>>, "Unsigned"))
    BY <1>2, ModifiedFollows DEF Modifiers
  <2>4. Follows(f[1], s.calls)
    BY <1>4, <2>1, <2>2, <2>3
  <2>5. Constructed(s) = f[1]
    BY <1>1, <2>1
  <2> QED BY <2>4, <2>5
<1>5. ASSUME Len(s.calls) >= 2, s.calls[1] = "PrimaryKey", s.calls[2] = "AutoIncrement",
             Len(s.calls) \in Nat
      PROVE  Follows(f[2], <<"PrimaryKey", "AutoIncrement">>)
  <2>1. f[1] = Modified(f[0], "PrimaryKey") /\ f[2] = Modified(f[1], "AutoIncrement")
    BY <1>1, <1>5
  <2>2. Follows(f[1], Append(<<>>, "PrimaryKey"))
    BY <1>2, <2>1, ModifiedFollows DEF Modifiers
  <2>3. Follows(f[2], Append(Append(<<>>, "PrimaryKey"), "AutoIncrement"))
    BY <2>1, <2>2, ModifiedFollows DEF Modifiers
  <2>4. Append(Append(<<>>, "PrimaryKey"), "AutoIncrement") = <<"PrimaryKey", "AutoIncrement">>
    BY AppendToOne
  <2> QED BY <2>3, <2>4
<1>6. CASE s.calls = <<"PrimaryKey", "AutoIncrement">>
  <2>1. Len(s.calls) = 2 /\ s.calls[1] = "PrimaryKey" /\ s.calls[2] = "AutoIncrement"
    BY <1>6
  <2> QED BY <1>1, <1>5, <1>6, <2>1
<1>7. CASE s.calls = <<"PrimaryKey", "AutoIncrement", "Unsigned">>
  <2>1. /\ Len(s.calls) = 3 /\ s.calls[1] = "PrimaryKey" /\ s.calls[2] = "AutoIncrement"
        /\ s.calls[3] = "Unsigned"
    BY <1>7
  <2>2. Follows(f[2], <<"PrimaryKey", "AutoIncrement">>) /\ f[3] = Modified(f[2], "Unsigned")
    BY <1>1, <1>5, <2>1
  <2>3. Append(<<"PrimaryKey", "AutoIncrement">>, "Unsigned") = s.calls
    BY <1>7, AppendToTwo
  <2>4. Follows(f[3], Append(<<"PrimaryKey", "AutoIncrement">>, "Unsigned"))
    BY <2>2, ModifiedFollows DEF Modifiers
  <2> QED BY <1>1, <2>1, <2>3, <2>4
<1> QED BY <1>0, <1>3, <1>4, <1>6, <1>7, ConstructorCalls

-----------------------------------------------------------------------------
(* The invariant *)

ColumnInv ==
  /\ Len(made) \in 1..MaxBuilders /\ Len(calls) = Len(made)
  /\ made \in Seq({made[i] : i \in DOMAIN made})
  /\ calls \in Seq(Seq(Modifiers))
  /\ \A i \in DOMAIN made : Follows(made[i], calls[i])

LEMMA ColumnInit == Init => ColumnInv
<1> SUFFICES ASSUME Init PROVE ColumnInv
  OBVIOUS
<1>1. PICK s \in Starts : made = <<Constructed(s)>> /\ calls = <<s.calls>>
  BY DEF Init
<1>2. Follows(Constructed(s), s.calls)
  BY ConstructedFollows
<1>3. /\ Len(made) = 1 /\ Len(calls) = 1 /\ DOMAIN made = {1}
      /\ made[1] = Constructed(s) /\ calls[1] = s.calls
  BY <1>1
<1>4. made \in Seq({made[i] : i \in DOMAIN made})
  BY <1>1, <1>3
<1>5. calls \in Seq(Seq(Modifiers))
  BY <1>1, <1>2 DEF Follows
<1> QED BY <1>2, <1>3, <1>4, <1>5, MaxBuildersAssumption DEF ColumnInv

LEMMA ColumnStep == ColumnInv /\ [Next]_vars => ColumnInv'
<1> SUFFICES ASSUME ColumnInv, [Next]_vars PROVE ColumnInv'
  OBVIOUS
<1> USE DEF ColumnInv
<1>1. CASE UNCHANGED vars
  BY <1>1 DEF vars, Follows
<1>2. ASSUME NEW i \in DOMAIN made, NEW m \in Modifiers, Derive(i, m)  PROVE ColumnInv'
  <2> DEFINE b == Modified(made[i], m)
             S == {made[k] : k \in DOMAIN made} \cup {b}
  <2>1. /\ Len(made) < MaxBuilders
        /\ made' = Append(made, b) /\ calls' = Append(calls, Append(calls[i], m))
    BY <1>2 DEF Derive
  <2>2. Follows(b, Append(calls[i], m))
    BY ModifiedFollows
  <2> HIDE DEF b
  <2>3. made \in Seq(S)
    OBVIOUS
  <2>4. /\ Len(made') = Len(made) + 1 /\ DOMAIN made' = 1..(Len(made) + 1)
        /\ made'[Len(made) + 1] = b /\ \A k \in DOMAIN made : made'[k] = made[k]
    BY <2>1, <2>3
  <2>5. /\ Len(calls') = Len(made) + 1 /\ calls' \in Seq(Seq(Modifiers))
        /\ calls'[Len(made) + 1] = Append(calls[i], m)
        /\ \A k \in DOMAIN made : calls'[k] = calls[k]
    BY <2>1, <2>2 DEF Follows
  <2>6. \A k \in DOMAIN made' : Follows(made'[k], calls'[k])
    <3> TAKE k \in DOMAIN made'
    <3>1. CASE k = Len(made) + 1
      BY <2>2, <2>4, <2>5, <3>1
    <3>2. CASE k \in DOMAIN made
      BY <2>4, <2>5, <3>2
    <3> QED BY <2>4, <3>1, <3>2
  <2>7. made' \in Seq({made'[k] : k \in DOMAIN made'})
    <3>1. made' \in Seq(S)
      BY <2>1, <2>3
    <3> QED BY <3>1
  <2>8. Len(made') \in 1..MaxBuilders
    BY <2>1, <2>4, MaxBuildersAssumption
  <2>9. (\A k \in DOMAIN made : Follows(made[k], calls[k]))'
    BY <2>6 DEF Follows
  <2> QED BY <2>4, <2>5, <2>7, <2>8, <2>9
<1>3. CASE Finished
  BY <1>1, <1>3 DEF Finished
<1> QED BY <1>1, <1>2, <1>3 DEF Next

-----------------------------------------------------------------------------
(* What the dialects write *)

Written(clauses) == UNION {Says(c) : c \in clauses}

Meant(d, b, asked) == (asked \cup b.given \cup {"Type"}) \ LeftOut(d, b, asked)

\* The clauses of b say what is asked for, as far as the documentation settles it.
Agrees(d, b, clauses, asked) ==
  Written(clauses) \ Unsettled(d, b, asked) = Meant(d, b, asked) \ Unsettled(d, b, asked)

\* A type has a size only where its constructor takes one.
Sized(b) ==
  /\ b.given \subseteq {"Size", "Values"}
  /\ "Size" \in b.given =>
       b.type \in IntegerTypes \cup TimeTypes
                   \cup {"string", "binary", "float", "double", "char", "decimal", "money"}

LEMMA FollowsSized ==
  ASSUME NEW b, NEW p, Follows(b, p)
  PROVE  Sized(b)
<1>1. PICK s \in Constructors : b.type = s.type /\ b.given = s.given
  BY StartsAssumption DEF Follows
<1> QED BY <1>1 DEF Constructors, Sized

LEMMA WrittenMember ==
  ASSUME NEW S, NEW x
  PROVE  x \in Written(S) <=>
           \/ x \in S /\ x \notin {"Serial", "Identity"}
           \/ "Serial" \in S /\ x \in {"Type", "AutoIncrement"}
           \/ "Identity" \in S /\ x \in {"Type", "AutoIncrement", "PrimaryKey"}
<1>1. x \in Written(S) <=> \E c \in S : x \in Says(c)
  BY DEF Written
<1> QED BY <1>1 DEF Says

LEMMA MySQLWrites ==
  ASSUME NEW b, NEW A, Reads(b.is, A), Sized(b)
  PROVE  Agrees("mysql", b, MySQLColumn(b), A)
<1> SUFFICES ASSUME NEW x, x \notin Unsettled("mysql", b, A)
             PROVE  x \in Written(MySQLColumn(b)) <=> x \in Meant("mysql", b, A)
  BY DEF Agrees
<1> QED
  BY WrittenMember
  DEF MySQLColumn, Meant, LeftOut, Unsettled, Nullability, Generated, Anywhere, Positions,
      supportsMySQLUnsigned, Reads, Sized, Fields, Modifiers

LEMMA PostgreSQLWrites ==
  ASSUME NEW b, NEW A, Reads(b.is, A), Sized(b), ~RefusedBy("postgres", b)
  PROVE  Agrees("postgres", b, PostgreSQLColumn(b), A)
<1> SUFFICES ASSUME NEW x, x \notin Unsettled("postgres", b, A)
             PROVE  x \in Written(PostgreSQLColumn(b)) <=> x \in Meant("postgres", b, A)
  BY DEF Agrees
<1> QED
  BY WrittenMember
  DEF PostgreSQLColumn, pgType, Meant, LeftOut, Unsettled, RefusedBy, Nullability, Generated, Anywhere, Positions,
      pgSerialType, SerialTypes, IntegerTypes, TimeTypes, supportsMySQLUnsigned, Reads, Sized, Fields, Modifiers


LEMMA SQLiteWrites ==
  ASSUME NEW b, NEW A, Reads(b.is, A), Sized(b), ~RefusedBy("sqlite", b)
  PROVE  Agrees("sqlite", b, SQLiteColumn(b), A)
<1> SUFFICES ASSUME NEW x, x \notin Unsettled("sqlite", b, A)
             PROVE  x \in Written(SQLiteColumn(b)) <=> x \in Meant("sqlite", b, A)
  BY DEF Agrees
<1> QED
  BY WrittenMember
  DEF SQLiteColumn, sqliteType, Meant, LeftOut, Unsettled, RefusedBy, Nullability, Generated, Anywhere, Positions,
      SerialTypes, IntegerTypes, TimeTypes, supportsMySQLUnsigned, Reads, Sized, Fields, Modifiers


LEMMA SQLServerWrites ==
  ASSUME NEW b, NEW A, Reads(b.is, A), Sized(b), ~RefusedBy("sqlserver", b)
  PROVE  Agrees("sqlserver", b, SQLServerColumn(b), A)
<1> SUFFICES ASSUME NEW x, x \notin Unsettled("sqlserver", b, A)
             PROVE  x \in Written(SQLServerColumn(b)) <=> x \in Meant("sqlserver", b, A)
  BY DEF Agrees
<1> QED
  BY WrittenMember
  DEF SQLServerColumn, mssqlType, Meant, LeftOut, Unsettled, RefusedBy, Nullability, Generated, Anywhere, Positions,
      mssqlIdentityType, isIdentityColumn, SerialTypes, IntegerTypes, TimeTypes, supportsMySQLUnsigned, Reads, Sized, Fields, Modifiers

LEMMA BuildWrites ==
  ASSUME NEW d \in Dialects, NEW b, NEW A, Reads(b.is, A), Sized(b), ~RefusedBy(d, b)
  PROVE  Agrees(d, b, BuildColumn(d, b), A)
  BY MySQLWrites, PostgreSQLWrites, SQLiteWrites, SQLServerWrites DEF BuildColumn, Dialects

\* PostgreSQL alters the type alone.
LEMMA PostgreSQLAlters ==
  ASSUME NEW b, Sized(b)
  PROVE  Agrees("postgres", b, pgType(b), {})
<1> SUFFICES ASSUME NEW x, x \notin Unsettled("postgres", b, {})
             PROVE  x \in Written(pgType(b)) <=> x \in Meant("postgres", b, {})
  BY DEF Agrees
<1> QED
  BY WrittenMember
  DEF pgType, Meant, LeftOut, Unsettled, IntegerTypes, TimeTypes, Sized

-----------------------------------------------------------------------------
(* The properties of a builder *)

\* Whatever fields that Reads allows are set, the clauses exclude each other.
LEMMA AtMostOne ==
  ASSUME NEW S, NEW alt \in Alternatives, \A a, b \in S : {a, b} \subseteq alt => a = b
  PROVE  Cardinality(alt \cap S) <= 1
<1>1. CASE alt \cap S = {}
  BY <1>1, FS_EmptySet
<1>2. CASE alt \cap S # {}
  <2>1. PICK a \in alt \cap S : TRUE
    BY <1>2
  <2>2. alt \cap S = {a}
    BY <2>1
  <2> QED BY <2>2, FS_Singleton
<1> QED BY <1>1, <1>2

LEMMA BuildOnce ==
  ASSUME NEW d \in Dialects, NEW b, NEW A, Reads(b.is, A), Sized(b), ~RefusedBy(d, b)
  PROVE  /\ \A c1, c2 \in BuildColumn(d, b) : c1 # c2 => Says(c1) \cap Says(c2) = {}
         /\ \A alt \in Alternatives : Cardinality(alt \cap BuildColumn(d, b)) <= 1
<1> DEFINE S == BuildColumn(d, b)
<1>1. ASSUME NEW alt \in Alternatives, NEW c1 \in S, NEW c2 \in S, {c1, c2} \subseteq alt
      PROVE  c1 = c2
  <2>1. CASE d = "mysql"
    BY <1>1, <2>1
    DEF BuildColumn, MySQLColumn, Nullability, Generated, Anywhere, Positions, Alternatives, Reads, Sized, Modifiers
  <2>2. CASE d = "postgres"
    BY <1>1, <2>2
    DEF BuildColumn, PostgreSQLColumn, pgType, Nullability, Generated, Anywhere, Alternatives, Reads, Sized, Modifiers
  <2>3. CASE d = "sqlite"
    BY <1>1, <2>3
    DEF BuildColumn, SQLiteColumn, sqliteType, Nullability, Generated, Anywhere, Alternatives, Reads, Sized, Modifiers
  <2>4. CASE d = "sqlserver"
    BY <1>1, <2>4
    DEF BuildColumn, SQLServerColumn, mssqlType, Nullability, Anywhere, Alternatives, Reads, Sized, Modifiers
  <2> QED BY <2>1, <2>2, <2>3, <2>4 DEF Dialects
<1>2. /\ "Serial" \in S => {"Type", "AutoIncrement"} \cap S = {} /\ "Identity" \notin S
      /\ "Identity" \in S => {"Type", "AutoIncrement", "PrimaryKey"} \cap S = {}
  BY DEF Dialects, BuildColumn, MySQLColumn, PostgreSQLColumn, SQLiteColumn, SQLServerColumn,
         pgType, sqliteType, mssqlType, mssqlIdentityType, isIdentityColumn, Nullability, Generated, Anywhere, Positions, Reads, Sized, Fields, Modifiers
<1> HIDE DEF S
<1>3. ASSUME NEW c1 \in S, NEW c2 \in S, c1 # c2  PROVE Says(c1) \cap Says(c2) = {}
  BY <1>2, <1>3 DEF Says
<1>4. \A alt \in Alternatives : Cardinality(alt \cap S) <= 1
  BY <1>1, AtMostOne
<1> QED BY <1>3, <1>4 DEF S

-----------------------------------------------------------------------------
(* The theorems *)

LEMMA ColumnAlways == Spec => []ColumnInv
  BY ColumnInit, ColumnStep, PTL DEF Spec

\* Every builder made has the type and size of a constructor, fields of the builder and
\* a chain of modifiers, and there are no more than the bound.
THEOREM ColumnTypeCorrect == Spec => []TypeOK
<1>1. ColumnInv => TypeOK
  <2> SUFFICES ASSUME ColumnInv PROVE TypeOK
    OBVIOUS
  <2>1. DOMAIN calls = DOMAIN made
    BY DEF ColumnInv
  <2>2. \A i \in DOMAIN made : /\ \E s \in Starts : made[i].type = s.type /\ made[i].given = s.given
                               /\ made[i].is \subseteq Fields
                               /\ calls[i] \in Seq(Modifiers)
    BY DEF ColumnInv, Follows, Reads
  <2> QED BY <2>1, <2>2 DEF ColumnInv, TypeOK
<1> QED BY <1>1, ColumnAlways, PTL

\* Each dialect writes or alters a column as the calls on the way to its builder ask,
\* less what LeftOut lists and but for what is Unsettled, whatever was called on the
\* builders made from the same one.
THEOREM ColumnsAreAsAsked == Spec => []ColumnIsAsAsked
<1>1. ColumnInv => ColumnIsAsAsked
  <2> SUFFICES ASSUME ColumnInv, NEW i \in DOMAIN made, NEW d \in Dialects
               PROVE  /\ ~RefusedBy(d, made[i]) =>
                           Agrees(d, made[i], BuildColumn(d, made[i]), Asked(calls[i]))
                      /\ ~AlterRefusedBy(d, made[i]) =>
                           Agrees(d, made[i], AlterColumn(d, made[i]),
                                  IF d = "postgres" THEN {} ELSE Asked(calls[i]))
    BY DEF ColumnIsAsAsked, Agrees, Written, Meant
  <2>1. Reads(made[i].is, Asked(calls[i])) /\ Sized(made[i])
    BY FollowsSized DEF ColumnInv, Follows
  <2>2. CASE d = "postgres"
    BY <2>1, <2>2, BuildWrites, PostgreSQLAlters DEF AlterColumn
  <2>3. CASE d # "postgres"
    BY <2>1, <2>3, BuildWrites DEF AlterColumn, AlterRefusedBy
  <2> QED BY <2>2, <2>3
<1> QED BY <1>1, ColumnAlways, PTL

\* No definition says anything twice, or two things of which a column has one.
THEOREM ColumnsHaveOneClauseEach == Spec => []OneClauseEach
<1>1. ColumnInv => OneClauseEach
  <2> SUFFICES ASSUME ColumnInv, NEW i \in DOMAIN made, NEW d \in Dialects,
                      ~RefusedBy(d, made[i])
               PROVE  LET clauses == BuildColumn(d, made[i])
                      IN  /\ \A c1, c2 \in clauses : c1 # c2 => Says(c1) \cap Says(c2) = {}
                          /\ \A alt \in Alternatives : Cardinality(alt \cap clauses) <= 1
    BY DEF OneClauseEach
  <2>1. Reads(made[i].is, Asked(calls[i])) /\ Sized(made[i])
    BY FollowsSized DEF ColumnInv, Follows
  <2> QED BY <2>1, BuildOnce
<1> QED BY <1>1, ColumnAlways, PTL
=============================================================================
