----------------------------- MODULE CommandProofs -----------------------------
(***************************************************************************)
(* What TLAPS proves of CommandLine: for any number of processes, started  *)
(* with any command lines in any environment, however the clock, the       *)
(* faults and the writers of one file interleave.                          *)
(*                                                                         *)
(* The later half is about the text of a --fields value: how deep in       *)
(* parentheses each place of a sequence is, where a sequence is split, and *)
(* that what a list of columns is written as is split and read again.      *)
(***************************************************************************)
EXTENDS CommandLine, OrderProofs

Shape ==
  /\ env \in Environments /\ clock \in 0..MaxClock
  /\ pc \in [Processes -> {"idle", "open", "write", "created", "handed", "refused", "failed", "crashed"}]
  /\ invocation \in [Processes -> Invocations]
  /\ version = [p \in Processes |-> version[p]]
  /\ request = [p \in Processes |-> request[p]]
  /\ \A p \in Processes : (request[p] # Nothing) <=> pc[p] = "handed"
  /\ \A p \in Processes : pc[p] \in {"open", "write", "created", "failed", "crashed"}
                            => version[p][1] \in 0..clock

\* A process owns the file of its version from the moment it has created it; what it is
\* going to write was settled when it read its command line.
Owned ==
  /\ \A v \in DOMAIN files : /\ files[v].by \in Processes /\ version[files[v].by] = v
                             /\ pc[files[v].by] \in {"write", "created", "failed", "crashed"}
                             /\ (pc[files[v].by] = "created" => files[v].whole = TRUE)
                             /\ (pc[files[v].by] # "created" => files[v].whole = FALSE)
  /\ \A p \in Processes : pc[p] \in {"write", "created"} =>
       /\ version[p] \in DOMAIN files
       /\ files[version[p]] = IF pc[p] = "created" THEN Full(p) ELSE Empty(p)

LEMMA InitKeeps == Init => Shape /\ Owned
<1> SUFFICES ASSUME Init PROVE Shape /\ Owned
  OBVIOUS
<1>1. DOMAIN files = {}
  BY DEF Init
<1>2. Shape
  BY CommandLineAssumption DEF Init, Shape
<1> QED
  BY <1>1, <1>2 DEF Init, Owned

LEMMA RequestIsSome == \A p \in Processes : invocation[p].command \in DbCommands => Request(p) # Nothing
  BY DEF Request, Nothing, DbCommands

\* Reading the command line again gives the same file.
LEMMA SameFile ==
  ASSUME UNCHANGED <<env, invocation>>
  PROVE  \A p : Empty(p)' = Empty(p) /\ Full(p)' = Full(p)
  BY DEF Empty, Full, Options, defaultCreateDialect

LEMMA TypeStep == Shape /\ Owned /\ [Next]_vars => Shape'
<1> SUFFICES ASSUME Shape, Owned, [Next]_vars PROVE Shape'
  OBVIOUS
<1> USE CommandLineAssumption
<1>1. ASSUME NEW p \in Processes, runCreate(p) PROVE Shape'
  BY <1>1 DEF runCreate, Ends, Shape
<1>2. ASSUME NEW p \in Processes, OpenFile(p) \/ OpenFails(p) PROVE Shape'
  BY <1>2 DEF OpenFile, OpenFails, Ends, Shape
<1>3. ASSUME NEW p \in Processes, Write(p) \/ WriteFails(p) \/ Crash(p) PROVE Shape'
  BY <1>3 DEF Write, WriteFails, Crash, Ends, Shape
<1>4. ASSUME NEW p \in Processes, runDBCommand(p) PROVE Shape'
  BY <1>4, RequestIsSome DEF runDBCommand, Refuses, Ends, Shape
<1>5. CASE Tick
  BY <1>5 DEF Tick, Shape
<1>6. CASE UNCHANGED vars
  BY <1>6 DEF vars, Shape
<1> QED
  BY <1>1, <1>2, <1>3, <1>4, <1>5, <1>6 DEF Next, Finished

\* A file is created where there was none, so no other process owns it already.
LEMMA OpenKeepsOwned ==
  ASSUME Shape, Owned, NEW p \in Processes, OpenFile(p) PROVE Owned'
<1>1. \A q : Empty(q)' = Empty(q) /\ Full(q)' = Full(q)
  BY SameFile DEF OpenFile
<1>2. CASE version[p] \in DOMAIN files
  <2>1. pc[p] = "open" /\ pc' = [pc EXCEPT ![p] = "refused"] /\ UNCHANGED <<files, version>>
    BY <1>2 DEF OpenFile, Ends
  <2> QED
    BY <1>1, <2>1 DEF Owned, Shape
<1>3. CASE version[p] \notin DOMAIN files
  <2>1. /\ pc[p] = "open" /\ pc' = [pc EXCEPT ![p] = "write"] /\ UNCHANGED version
        /\ DOMAIN files' = DOMAIN files \cup {version[p]} /\ files'[version[p]] = Empty(p)
        /\ \A v \in DOMAIN files : files'[v] = files[v]
    BY <1>3 DEF OpenFile, Created, With, Ends
  <2>2. Empty(p).by = p /\ Empty(p).whole = FALSE
    BY DEF Empty
  <2>3. \A v \in DOMAIN files : files[v].by # p
    BY <2>1 DEF Owned
  <2>4. \A q \in Processes : pc'[q] = IF q = p THEN "write" ELSE pc[q]
    BY <2>1 DEF Shape
  <2>5. \A v \in DOMAIN files' :
          /\ files'[v].by \in Processes /\ version'[files'[v].by] = v
          /\ pc'[files'[v].by] \in {"write", "created", "failed", "crashed"}
          /\ (pc'[files'[v].by] = "created" => files'[v].whole = TRUE)
          /\ (pc'[files'[v].by] # "created" => files'[v].whole = FALSE)
    BY <2>1, <2>2, <2>3, <2>4 DEF Owned
  <2>6. \A q \in Processes : pc'[q] \in {"write", "created"} =>
          /\ version'[q] \in DOMAIN files'
          /\ files'[version'[q]] = IF pc'[q] = "created" THEN Full(q) ELSE Empty(q)
    BY <2>1, <2>4, <1>3 DEF Owned
  <2> QED
    BY <1>1, <2>5, <2>6 DEF Owned
<1> QED
  BY <1>2, <1>3

LEMMA WriteKeepsOwned ==
  ASSUME Shape, Owned, NEW p \in Processes, Write(p) PROVE Owned'
<1>1. \A q : Empty(q)' = Empty(q) /\ Full(q)' = Full(q)
  BY SameFile DEF Write
<1>2. /\ pc[p] = "write" /\ pc' = [pc EXCEPT ![p] = "created"] /\ UNCHANGED version
      /\ version[p] \in DOMAIN files /\ files[version[p]] = Empty(p)
      /\ DOMAIN files' = DOMAIN files /\ files'[version[p]] = Full(p)
      /\ \A v \in DOMAIN files : v # version[p] => files'[v] = files[v]
  BY DEF Write, Ends, Owned, Full
<1>3. \A q : Empty(q).by = q /\ Full(q).by = q /\ Full(q).whole = TRUE
  BY DEF Empty, Full
<1>4. \A v \in DOMAIN files : files[v].by = p => v = version[p]
  BY DEF Owned
<1>5. \A q \in Processes : pc[q] \in {"write", "created"} => files[version[q]].by = q
  BY <1>3 DEF Owned
<1>6. \A q \in Processes : q # p /\ pc[q] \in {"write", "created"} => version[q] # version[p]
  BY <1>5, <1>2
<1>7. \A q \in Processes : pc'[q] = IF q = p THEN "created" ELSE pc[q]
  BY <1>2 DEF Shape
<1>8. \A v \in DOMAIN files' :
        /\ files'[v].by \in Processes /\ version'[files'[v].by] = v
        /\ pc'[files'[v].by] \in {"write", "created", "failed", "crashed"}
        /\ (pc'[files'[v].by] = "created" => files'[v].whole = TRUE)
        /\ (pc'[files'[v].by] # "created" => files'[v].whole = FALSE)
  BY <1>2, <1>3, <1>4, <1>7 DEF Owned
<1>9. \A q \in Processes : pc'[q] \in {"write", "created"} =>
        /\ version'[q] \in DOMAIN files'
        /\ files'[version'[q]] = IF pc'[q] = "created" THEN Full(q) ELSE Empty(q)
  BY <1>2, <1>6, <1>7 DEF Owned
<1> QED
  BY <1>1, <1>8, <1>9 DEF Owned

\* Any other step leaves the files, and the version of every process that owns one.
LEMMA OtherKeepsOwned ==
  ASSUME Shape, Owned, UNCHANGED <<env, invocation, files>>,
         \A q \in Processes : pc[q] \in {"write", "created", "failed", "crashed"} =>
           /\ version'[q] = version[q]
           /\ pc'[q] = pc[q] \/ (pc[q] = "write" /\ pc'[q] \in {"failed", "crashed"}),
         \A q \in Processes : pc'[q] \in {"write", "created"} => pc'[q] = pc[q]
  PROVE  Owned'
<1>1. \A q : Empty(q)' = Empty(q) /\ Full(q)' = Full(q)
  BY SameFile
<1> QED
  BY <1>1 DEF Owned

LEMMA OwnedStep == Shape /\ Owned /\ [Next]_vars => Owned'
<1> SUFFICES ASSUME Shape, Owned, [Next]_vars PROVE Owned'
  OBVIOUS
<1>1. ASSUME NEW p \in Processes, runCreate(p) PROVE Owned'
  <2>1. /\ pc[p] = "idle" /\ pc' = [pc EXCEPT ![p] = pc'[p]] /\ pc'[p] \in {"refused", "open"}
        /\ \A q \in Processes : q # p => version'[q] = version[q]
        /\ UNCHANGED <<env, invocation, files>>
    BY <1>1 DEF runCreate, Ends, Shape
  <2> QED
    BY <2>1, OtherKeepsOwned DEF Shape
<1>2. ASSUME NEW p \in Processes, OpenFails(p) \/ WriteFails(p) \/ Crash(p) PROVE Owned'
  <2>1. /\ pc[p] \in {"open", "write"} /\ pc' = [pc EXCEPT ![p] = pc'[p]]
        /\ pc'[p] \in {"refused", "failed", "crashed"} /\ (pc[p] = "write" => pc'[p] # "refused")
        /\ UNCHANGED <<env, invocation, files, version>>
    BY <1>2 DEF OpenFails, WriteFails, Crash, Ends, Shape
  <2> QED
    BY <2>1, OtherKeepsOwned DEF Shape
<1>3. ASSUME NEW p \in Processes, runDBCommand(p) PROVE Owned'
  <2>1. /\ pc[p] = "idle" /\ pc' = [pc EXCEPT ![p] = pc'[p]] /\ pc'[p] \in {"refused", "handed"}
        /\ UNCHANGED <<env, invocation, files, version>>
    BY <1>3 DEF runDBCommand, Ends, Shape
  <2> QED
    BY <2>1, OtherKeepsOwned DEF Shape
<1>4. CASE Tick \/ UNCHANGED vars
  <2>1. UNCHANGED <<env, invocation, files, version, pc>>
    BY <1>4 DEF Tick, vars
  <2> QED
    BY <2>1, OtherKeepsOwned
<1> QED
  BY <1>1, <1>2, <1>3, <1>4, OpenKeepsOwned, WriteKeepsOwned DEF Next, Finished

LEMMA Types == Shape /\ Owned => TypeOK
<1> SUFFICES ASSUME Shape, Owned PROVE TypeOK
  OBVIOUS
<1>1. \A v \in DOMAIN files : v[1] <= clock /\ files[v].whole \in BOOLEAN /\ version[files[v].by] = v
  <2> SUFFICES ASSUME NEW v \in DOMAIN files
               PROVE  v[1] <= clock /\ files[v].whole \in BOOLEAN /\ version[files[v].by] = v
    OBVIOUS
  <2>1. /\ files[v].by \in Processes /\ version[files[v].by] = v
        /\ pc[files[v].by] \in {"write", "created", "failed", "crashed"}
    BY DEF Owned
  <2>2. v[1] \in 0..clock
    BY <2>1 DEF Shape
  <2>3. files[v].whole \in BOOLEAN
    BY DEF Owned
  <2> QED
    BY <2>1, <2>2, <2>3, CommandLineAssumption DEF Shape
<1> QED
  BY <1>1 DEF Shape, Owned, TypeOK

LEMMA Stay == Shape /\ Owned => CreatedFilesStay
  BY DEF Shape, Owned, CreatedFilesStay

\* Every variable keeps its type, and a file keeps the version it was created under.
THEOREM CommandTypeCorrect == Spec => []TypeOK
<1>1. Init => Shape /\ Owned
  BY InitKeeps
<1>2. Shape /\ Owned /\ [Next]_vars => (Shape /\ Owned)'
  BY TypeStep, OwnedStep
<1> QED
  BY <1>1, <1>2, Types, PTL DEF Spec

\* docs/cli.md:140, for any number of processes that create files of the same name in the
\* same second: what a create has reported stays whole and its own.
THEOREM CreatesDoNotOverwrite == Spec => []CreatedFilesStay
<1>1. Init => Shape /\ Owned
  BY InitKeeps
<1>2. Shape /\ Owned /\ [Next]_vars => (Shape /\ Owned)'
  BY TypeStep, OwnedStep
<1> QED
  BY <1>1, <1>2, Stay, PTL DEF Spec

-----------------------------------------------------------------------------
(* What a process was asked *)

\* A request is what the command line and the environment say, and a create has been
\* accepted for a dialect of the registry.
Heard ==
  \A p \in Processes :
    /\ pc[p] = "handed" => request[p] = Request(p) /\ ~Refuses(p)
    /\ pc[p] \in {"open", "write", "created"} =>
         Options(invocation[p].args).dialect \in dialectRegistry

LEMMA SameReading ==
  ASSUME UNCHANGED <<env, invocation>>
  PROVE  \A p : /\ Request(p)' = Request(p) /\ Refuses(p)' = Refuses(p)
                /\ Options(invocation[p].args)' = Options(invocation[p].args)
  BY DEF Request, Refuses, Options, defaultCreateDialect

LEMMA HeardStep == Shape /\ Heard /\ [Next]_vars => Heard'
<1> SUFFICES ASSUME Shape, Heard, [Next]_vars PROVE Heard'
  OBVIOUS
<1>1. UNCHANGED <<env, invocation>>
  BY DEF Next, Finished, Tick, vars, runCreate, OpenFile, OpenFails, Write, WriteFails, Crash, runDBCommand
<1>2. \A p : /\ Request(p)' = Request(p) /\ Refuses(p)' = Refuses(p)
             /\ Options(invocation[p].args)' = Options(invocation[p].args)
  BY <1>1, SameReading
<1>3. ASSUME NEW p \in Processes, runCreate(p) PROVE Heard'
  <2>1. pc'[p] = "open" => Options(invocation[p].args).dialect \in dialectRegistry
    BY <1>3 DEF runCreate, Ends, Shape, BuildContentFails
  <2> QED
    BY <1>2, <1>3, <2>1 DEF runCreate, Ends, Heard, Shape
<1>4. ASSUME NEW p \in Processes, OpenFile(p) \/ OpenFails(p) \/ Write(p) \/ WriteFails(p) \/ Crash(p)
      PROVE  Heard'
  <2>1. /\ UNCHANGED request /\ pc' = [pc EXCEPT ![p] = pc'[p]]
        /\ pc[p] \in {"open", "write"} /\ pc'[p] # "handed"
    BY <1>4 DEF OpenFile, OpenFails, Write, WriteFails, Crash, Ends, Shape
  <2> QED
    BY <1>2, <2>1 DEF Heard, Shape
<1>5. ASSUME NEW p \in Processes, runDBCommand(p) PROVE Heard'
  BY <1>2, <1>5 DEF runDBCommand, Ends, Heard, Shape
<1>6. CASE Tick \/ UNCHANGED vars
  BY <1>2, <1>6 DEF Tick, vars, Heard
<1> QED
  BY <1>3, <1>4, <1>5, <1>6 DEF Next, Finished

LEMMA InitHeard == Init => Heard
  BY DEF Init, Heard

LEMMA RequestParts ==
  ASSUME NEW p
  PROVE  LET i == invocation[p]
         IN  /\ Request(p).command = i.command
             /\ i.command \in {"mark", "to"} => Request(p).target = i.args[1].word
             /\ i.command \notin {"mark", "to"} =>
                  Request(p).count = optionalInt(i.args, Fallback(i.command))
             /\ Request(p).dialect = driverAliases[env.dialect]
  BY DEF Request

LEMMA ContentDialect == \A options : BuildContent(options).dialect = options.dialect
  BY DEF BuildContent

\* A first argument that is a number is the count, and without one it is the fallback.
LEMMA CountIsSaid ==
  ASSUME NEW args \in Seq(Argument), NEW fallback,
         \A k \in DOMAIN args : \A n, m \in args[k].number : n = m
  PROVE  LET said == IF args = <<>> THEN {} ELSE args[1].number
         IN  \/ said = {} /\ optionalInt(args, fallback) = fallback
             \/ said = {optionalInt(args, fallback)}
<1>1. CASE args = <<>> \/ args[1].number = {}
  BY <1>1 DEF optionalInt
<1>2. CASE args # <<>> /\ args[1].number # {}
  <2>1. 1 \in DOMAIN args
    BY <1>2
  <2>2. PICK n : n \in args[1].number
    BY <1>2
  <2>3. args[1].number = {n}
    BY <2>1, <2>2
  <2> QED
    BY <1>2, <2>3 DEF optionalInt
<1> QED
  BY <1>1, <1>2

LEMMA RequestDocumented == Shape /\ Heard => RequestIsAsDocumented
<1> SUFFICES ASSUME Shape, Heard, NEW p \in Processes, pc[p] = "handed"
             PROVE  LET r == request[p]
                        args == invocation[p].args
                        said == IF args = <<>> THEN {} ELSE args[1].number
                    IN  /\ r.command \in {"down", "redo"} /\ r.count # 1 => said = {r.count}
                        /\ r.command \in {"history", "new"} /\ r.count # 10 => said = {r.count}
                        /\ r.command = "up" => (r.count = 0 /\ said = {}) \/ said = {r.count}
                        /\ r.command \in {"mark", "to"} => args = <<args[1]>> /\ args[1].word = r.target
  BY DEF RequestIsAsDocumented
<1> DEFINE args == invocation[p].args
           command == invocation[p].command
           said == IF args = <<>> THEN {} ELSE args[1].number
<1>1. args \in Seq(Argument) /\ \A k \in DOMAIN args : \A n, m \in args[k].number : n = m
  BY CommandLineAssumption DEF Shape
<1>2. request[p] = Request(p) /\ ~Refuses(p)
  BY DEF Heard
<1>3. request[p].command = command
  BY <1>2, RequestParts
<1>4. CASE command \in {"mark", "to"}
  <2>1. Len(args) = 1 /\ request[p].target = args[1].word
    BY <1>2, <1>4, RequestParts DEF Refuses
  <2>2. args = <<args[1]>>
    BY <1>1, <2>1
  <2> QED
    BY <1>3, <1>4, <2>1, <2>2
<1>5. CASE command \notin {"mark", "to"}
  <2>1. request[p].count = optionalInt(args, Fallback(command))
    BY <1>2, <1>5, RequestParts
  <2>2. \/ said = {} /\ request[p].count = Fallback(command)
        \/ said = {request[p].count}
    BY <1>1, <2>1, CountIsSaid
  <2>3. /\ command = "up" => Fallback(command) = 0
        /\ command \in {"down", "redo"} => Fallback(command) = 1
        /\ command \in {"history", "new"} => Fallback(command) = 10
    BY DEF Fallback
  <2> QED
    BY <1>3, <1>5, <2>2, <2>3
<1> QED
  BY <1>4, <1>5

LEMMA DialectsMatch == Owned /\ Heard => CreateMatchesDatabase
<1> SUFFICES ASSUME Owned, Heard, NEW p \in Processes, NEW q \in Processes,
                    pc[p] = "created", Given(invocation[p].args, "dialect") = {}, pc[q] = "handed"
             PROVE  files[version[p]].content.dialect = request[q].dialect
  BY DEF CreateMatchesDatabase
<1> DEFINE options == Options(invocation[p].args)
<1>1. files[version[p]].content.dialect = options.dialect
  <2>1. files[version[p]] = Full(p)
    BY DEF Owned
  <2>2. Full(p).content = BuildContent(options)
    BY DEF Full, Empty
  <2> QED
    BY <2>1, <2>2, ContentDialect
<1>2. options.dialect \in dialectRegistry
  BY DEF Heard
<1>3. options.dialect = IF env.dialect # "" THEN env.dialect ELSE "mysql"
  BY DEF Options, defaultCreateDialect
<1>4. request[q].dialect = driverAliases[env.dialect]
  BY RequestParts DEF Heard
<1>5. driverAliases[env.dialect] = options.dialect
  BY <1>2, <1>3 DEF driverAliases, dialectRegistry
<1> QED
  BY <1>1, <1>4, <1>5

\* docs/cli.md:27-36, for every command line: a count other than the default is one that was
\* written as a number, and a target is the one argument there is.
THEOREM RequestsSayWhatIsWritten == Spec => []RequestIsAsDocumented
<1>1. Init => Shape /\ Owned /\ Heard
  BY InitKeeps, InitHeard
<1>2. Shape /\ Owned /\ Heard /\ [Next]_vars => (Shape /\ Owned /\ Heard)'
  BY TypeStep, OwnedStep, HeardStep
<1> QED
  BY <1>1, <1>2, RequestDocumented, PTL DEF Spec

\* cmd/migrate/main.go:69, for every environment: a create that was accepted without --dialect
\* has made its file for the dialect that the database commands run on.
THEOREM CreatesForTheDatabase == Spec => []CreateMatchesDatabase
<1>1. Init => Shape /\ Owned /\ Heard
  BY InitKeeps, InitHeard
<1>2. Shape /\ Owned /\ Heard /\ [Next]_vars => (Shape /\ Owned /\ Heard)'
  BY TypeStep, OwnedStep, HeardStep
<1> QED
  BY <1>1, <1>2, DialectsMatch, PTL DEF Spec


-----------------------------------------------------------------------------
(* The builders that a file makes *)

\* The calls that ColumnCode writes, and those that the constructors of a key make.
FileCalls == {"NotNull", "Null", "Unsigned", "DefaultValue", "DefaultExpression"}
KeyCalls == {"PrimaryKey", "AutoIncrement"}

LEMMA CallsAreModifiers == FileCalls \cup KeyCalls \subseteq Builder!Modifiers
  BY DEF FileCalls, KeyCalls, Builder!Modifiers

LEMMA ModifiedFields ==
  ASSUME NEW T, NEW V, NEW b \in [type : {T}, given : {V}, is : SUBSET Builder!Fields],
         NEW m \in Builder!Modifiers
  PROVE  /\ Builder!Modified(b, m) \in [type : {T}, given : {V}, is : SUBSET Builder!Fields]
         /\ Builder!Modified(b, m).is = (b.is \ Builder!Cleared(m)) \cup Builder!Assigned(m)
<1>1. Builder!Assigned(m) \in SUBSET Builder!Fields
  BY DEF Builder!Assigned, Builder!Fields, Builder!Modifiers
<1> QED BY <1>1 DEF Builder!Modified

\* Constructed, call by call.
LEMMA BuilderSteps ==
  ASSUME NEW s, s.calls \in Seq(Builder!Modifiers)
  PROVE  \E f : /\ f[0] = Builder!newColumnBuilder(s)
                /\ \A n \in 1..Len(s.calls) : f[n] = Builder!Modified(f[n - 1], s.calls[n])
                /\ Builder!Constructed(s) = f[Len(s.calls)]
<1> DEFINE c == s.calls
           L == Len(c)
           b0 == Builder!newColumnBuilder(s)
           Y == [type : {s.type}, given : {s.given}, is : SUBSET Builder!Fields]
           G == [w \in Y \X (1..L) |-> Builder!Modified(w[1], c[w[2]])]
           F(g) == [n \in 0..L |-> IF n = 0 THEN b0 ELSE Builder!Modified(g[n - 1], c[n])]
           h == CHOOSE g : g = F(g)
<1>1. L \in Nat /\ \A n \in 1..L : c[n] \in Builder!Modifiers
  BY SeqMembers
<1>2. b0 \in Y
  BY DEF Builder!newColumnBuilder, Builder!Fields
<1>3. \A b \in Y, m \in Builder!Modifiers : Builder!Modified(b, m) \in Y
  BY ModifiedFields
<1>4. Builder!Constructed(s) = h[L]
  BY DEF Builder!Constructed
<1> HIDE DEF L, c, b0, Y
<1>5. G \in [Y \X (1..L) -> Y]
  BY <1>1, <1>3
<1>6. \A b \in Y : \A n \in 1..L : G[<<b, n>>] = Builder!Modified(b, c[n])
  OBVIOUS
<1> HIDE DEF G
<1>7. PICK f \in [0..L -> Y] : f[0] = b0 /\ \A n \in 1..L : f[n] = G[<<f[n - 1], n>>]
  <2> HIDE DEF F, h
  <2>1. L \in Nat
    BY <1>1
  <2>2. Stepping(L, Y, b0, G) # {}
    BY <1>2, <1>5, <2>1, StepByStep
  <2> QED BY <2>2 DEF Stepping
<1>8. f = F(f)
  <2>1. ASSUME NEW n \in 0..L
        PROVE  f[n] = IF n = 0 THEN b0 ELSE Builder!Modified(f[n - 1], c[n])
    <3>1. CASE n = 0
      BY <1>7, <3>1
    <3>2. CASE n # 0
      <4>1. n \in 1..L /\ n - 1 \in 0..L
        BY <1>1, <3>2
      <4>2. f[n - 1] \in Y
        BY <1>7, <4>1
      <4> QED BY <1>6, <1>7, <3>2, <4>1, <4>2
    <3> QED BY <3>1, <3>2
  <2> QED BY <1>7, <2>1
<1>9. h = F(h)
  BY <1>8
<1> HIDE DEF h
<1>10. h[0] = b0 /\ \A n \in 1..L : h[n] = Builder!Modified(h[n - 1], c[n])
  <2>1. 0 \in 0..L /\ \A n \in 1..L : n \in 0..L /\ n # 0
    BY <1>1
  <2> QED BY <1>9, <2>1
<1> QED BY <1>4, <1>10 DEF L, c, b0

\* What such a chain of calls leaves set.
LEMMA BuilderIs ==
  ASSUME NEW s, s.calls \in Seq(FileCalls \cup KeyCalls)
  PROVE  LET b == Builder!Constructed(s)
         IN  /\ b.type = s.type
             /\ b.is \cap (Builder!Positions \cup {"Comment", "GeneratedAs"}) = {}
             /\ \A m \in {"Unsigned", "PrimaryKey", "AutoIncrement"} :
                  m \in b.is <=> \E k \in 1..Len(s.calls) : s.calls[k] = m
<1> DEFINE c == s.calls
           L == Len(c)
           No == Builder!Positions \cup {"Comment", "GeneratedAs"}
           Ms == {"Unsigned", "PrimaryKey", "AutoIncrement"}
           Y == [type : {s.type}, given : {s.given}, is : SUBSET Builder!Fields]
<1>1. s.calls \in Seq(Builder!Modifiers)
  BY CallsAreModifiers
<1>2. L \in Nat /\ \A n \in 1..L : c[n] \in FileCalls \cup KeyCalls
  BY SeqMembers
<1>3. PICK f : /\ f[0] = Builder!newColumnBuilder(s)
               /\ \A n \in 1..L : f[n] = Builder!Modified(f[n - 1], c[n])
               /\ Builder!Constructed(s) = f[L]
  BY <1>1, BuilderSteps
<1> DEFINE Good(n) == /\ f[n] \in Y /\ f[n].is \cap No = {}
                      /\ \A m \in Ms : m \in f[n].is <=> \E k \in 1..n : c[k] = m
           T == {n \in 0..L : Good(n)}
<1>4. 0 \in T
  <2>1. f[0] = [type |-> s.type, given |-> s.given, is |-> {"nullable"}] /\ 0 \in 0..L
    BY <1>2, <1>3 DEF Builder!newColumnBuilder
  <2>2. "nullable" \in Builder!Fields /\ "nullable" \notin No /\ "nullable" \notin Ms
    BY DEF Builder!Fields, Builder!Positions
  <2>3. 1..0 = {}
    OBVIOUS
  <2> QED BY <2>1, <2>2, <2>3
<1>5. ASSUME NEW n \in 0..(L - 1), n \in T  PROVE n + 1 \in T
  <2>1. n + 1 \in 1..L /\ n + 1 \in 0..L /\ (n + 1) - 1 = n /\ \A k \in 1..(n + 1) : k \in 1..n \/ k = n + 1
    BY <1>2
  <2>2. \A k \in 1..n : k \in 1..(n + 1)
    BY <1>2
  <2>3. f[n] \in Y /\ f[n].is \cap No = {} /\ \A m \in Ms : m \in f[n].is <=> \E k \in 1..n : c[k] = m
    BY <1>5
  <2> DEFINE m1 == c[n + 1]
  <2>4. m1 \in FileCalls \cup KeyCalls /\ m1 \in Builder!Modifiers
    BY <1>2, <2>1, CallsAreModifiers
  <2>5. f[n + 1] = Builder!Modified(f[n], m1)
    BY <1>3, <2>1
  <2>6. /\ f[n + 1] \in Y
        /\ f[n + 1].is = (f[n].is \ Builder!Cleared(m1)) \cup Builder!Assigned(m1)
    <3> HIDE DEF m1
    <3> QED BY <2>3, <2>4, <2>5, ModifiedFields
  <2> HIDE DEF m1
  <2>7. /\ Builder!Assigned(m1) \cap No = {}
        /\ Builder!Assigned(m1) \cap Ms = {m1} \cap Ms
        /\ Builder!Cleared(m1) \cap Ms = {}
    BY <2>4 DEF FileCalls, KeyCalls, Builder!Assigned, Builder!Cleared, Builder!Positions
  <2> HIDE DEF Ms, No, Y
  <2>8. f[n + 1].is \cap No = {}
    BY <2>3, <2>6, <2>7
  <2>9. \A m \in Ms : m \in f[n + 1].is <=> m \in f[n].is \/ m = m1
    BY <2>6, <2>7
  <2>10. \A m \in Ms : m \in f[n + 1].is <=> \E k \in 1..(n + 1) : c[k] = m
    <3> TAKE m \in Ms
    <3>1. (\E k \in 1..(n + 1) : c[k] = m) <=> (\E k \in 1..n : c[k] = m) \/ m = m1
      BY <2>1, <2>2 DEF m1
    <3> QED BY <2>3, <2>9, <3>1
  <2> QED BY <2>1, <2>6, <2>8, <2>10
<1> HIDE DEF T
<1>6. L \in T
  <2> HIDE DEF L
  <2>1. 0..L \subseteq T
    BY <1>2, <1>4, <1>5, CountedUp
  <2> QED BY <1>2, <2>1
<1>7. Good(L)
  BY <1>6 DEF T
<1> QED BY <1>3, <1>7


UnsignedNames == {"unsignedPrimaryKey", "unsignedBigPrimaryKey", "unsignedTinyInteger",
                  "unsignedSmallInteger", "unsignedInteger", "unsignedBigInteger"}
IdNames == {"primaryKey", "bigPrimaryKey", "unsignedBigPrimaryKey"}

LEMMA ShorthandCalls ==
  ASSUME NEW k \in DOMAIN Shorthands
  PROVE  /\ Shorthands[k].calls \in Seq(FileCalls \cup KeyCalls)
         /\ (\E i \in 1..Len(Shorthands[k].calls) : Shorthands[k].calls[i] = "Unsigned") <=> k \in UnsignedNames
         /\ Shorthands[k].type \in Builder!IntegerTypes
         /\ k \in IdNames => /\ Shorthands[k].type \in Builder!SerialTypes
                             /\ \A m \in KeyCalls : \E i \in 1..Len(Shorthands[k].calls) :
                                  Shorthands[k].calls[i] = m
<1> DEFINE key == <<"PrimaryKey", "AutoIncrement">>
           kun == Append(key, "Unsigned")
           un == <<"Unsigned">>
<1>2. /\ key \in Seq(FileCalls \cup KeyCalls) /\ Len(key) = 2
      /\ kun \in Seq(FileCalls \cup KeyCalls) /\ Len(kun) = 3
      /\ un \in Seq(FileCalls \cup KeyCalls) /\ Len(un) = 1
  BY DEF FileCalls, KeyCalls
<1>3. /\ 1..2 = {1, 2} /\ 1..3 = {1, 2, 3} /\ 1..1 = {1}
      /\ key[1] = "PrimaryKey" /\ key[2] = "AutoIncrement" /\ un[1] = "Unsigned"
      /\ kun[1] = "PrimaryKey" /\ kun[2] = "AutoIncrement" /\ kun[3] = "Unsigned"
  OBVIOUS
<1>4. /\ ~\E i \in 1..Len(key) : key[i] = "Unsigned"
      /\ \E i \in 1..Len(kun) : kun[i] = "Unsigned"
      /\ \E i \in 1..Len(un) : un[i] = "Unsigned"
      /\ \A m \in KeyCalls : \E i \in 1..Len(key) : key[i] = m
      /\ \A m \in KeyCalls : \E i \in 1..Len(kun) : kun[i] = m
  BY <1>2, <1>3 DEF KeyCalls
<1>5. k \in {"primaryKey", "bigPrimaryKey", "unsignedPrimaryKey", "unsignedBigPrimaryKey", "unsignedTinyInteger",
             "unsignedSmallInteger", "unsignedInteger", "unsignedBigInteger"}
  BY DEF Shorthands
<1>6. /\ k \in {"primaryKey", "bigPrimaryKey"} => Shorthands[k].calls = key
      /\ k \in {"unsignedPrimaryKey", "unsignedBigPrimaryKey"} => Shorthands[k].calls = kun
      /\ k \in {"unsignedTinyInteger", "unsignedSmallInteger", "unsignedInteger", "unsignedBigInteger"}
           => Shorthands[k].calls = un
  BY <1>5 DEF Shorthands
<1>7. /\ Shorthands[k].type \in Builder!IntegerTypes
      /\ k \in IdNames => Shorthands[k].type \in Builder!SerialTypes
  BY <1>5 DEF Shorthands, IdNames, Builder!IntegerTypes, Builder!SerialTypes
<1> HIDE DEF key, kun, un
<1> QED BY <1>2, <1>4, <1>5, <1>6, <1>7 DEF UnsignedNames, IdNames

LEMMA ChainIs ==
  ASSUME NEW k, NEW args, NEW calls \in Seq(FileCalls)
  PROVE  /\ Chain(k, args, calls).is \cap (Builder!Positions \cup {"Comment", "GeneratedAs"}) = {}
         /\ "Unsigned" \in Chain(k, args, calls).is
              <=> (\E i \in 1..Len(calls) : calls[i] = "Unsigned") \/ k \in UnsignedNames
         /\ Chain(k, args, calls).type \in {"enum", "set"} <=> k \in {"enum", "set"}
         /\ k \in IdNames => /\ Chain(k, args, calls).type \in Builder!SerialTypes
                             /\ KeyCalls \subseteq Chain(k, args, calls).is
<1> DEFINE short == k \in DOMAIN Shorthands
           P == IF short THEN Shorthands[k].calls ELSE <<>>
           s == [type  |-> IF short THEN Shorthands[k].type ELSE k,
                 given |-> IF args = <<>> THEN {} ELSE {"Size"},
                 calls |-> P \o calls]
           b == Chain(k, args, calls)
<1>1. b = Builder!Constructed(s)
  BY DEF Chain
<1>2. s.type = IF short THEN Shorthands[k].type ELSE k
  OBVIOUS
<1>3. s.calls = P \o calls
  OBVIOUS
<1>4. P \in Seq(FileCalls \cup KeyCalls) /\ calls \in Seq(FileCalls \cup KeyCalls)
  <2>1. <<>> \in Seq(FileCalls \cup KeyCalls) /\ calls \in Seq(FileCalls \cup KeyCalls)
    OBVIOUS
  <2> QED BY <2>1, ShorthandCalls
<1>5. IdNames \cup UnsignedNames \subseteq DOMAIN Shorthands
  BY DEF IdNames, UnsignedNames, Shorthands
<1>6. (\E i \in 1..Len(P) : P[i] = "Unsigned") <=> k \in UnsignedNames
  <2>1. CASE short
    BY <2>1, ShorthandCalls
  <2>2. CASE ~short
    <3>1. Len(P) = 0
      BY <2>2
    <3> QED BY <1>5, <2>2, <3>1
  <2> QED BY <2>1, <2>2
<1>7. k \in IdNames => /\ s.type \in Builder!SerialTypes
                       /\ \A m \in KeyCalls : \E i \in 1..Len(P) : P[i] = m
  BY <1>2, <1>5, ShorthandCalls
<1>8. s.type \in {"enum", "set"} <=> k \in {"enum", "set"}
  <2>1. CASE short
    <3>1. s.type \notin {"enum", "set"}
      BY <1>2, <2>1, ShorthandCalls DEF Builder!IntegerTypes
    <3>2. k \notin {"enum", "set"}
      BY <2>1 DEF Shorthands
    <3> QED BY <3>1, <3>2
  <2>2. CASE ~short
    BY <1>2, <2>2
  <2> QED BY <2>1, <2>2
<1> HIDE DEF P, s, b
<1> DEFINE q == s.calls
<1>9. /\ q \in Seq(FileCalls \cup KeyCalls) /\ Len(q) = Len(P) + Len(calls)
      /\ Len(P) \in Nat /\ Len(calls) \in Nat
      /\ \A i \in 1..Len(P) : q[i] = P[i]
      /\ \A j \in 1..Len(calls) : q[Len(P) + j] = calls[j]
  BY <1>3, <1>4, SeqJoined
<1>10. \A m : (\E i \in 1..Len(q) : q[i] = m)
                 <=> (\E i \in 1..Len(P) : P[i] = m) \/ (\E j \in 1..Len(calls) : calls[j] = m)
  <2> HIDE DEF q
  <2> TAKE m
  <2>1. ASSUME NEW i \in 1..Len(q), q[i] = m
        PROVE  (\E h \in 1..Len(P) : P[h] = m) \/ (\E j \in 1..Len(calls) : calls[j] = m)
    <3>1. CASE i \in 1..Len(P)
      BY <1>9, <2>1, <3>1
    <3>2. CASE i \notin 1..Len(P)
      <4>1. i - Len(P) \in 1..Len(calls) /\ i = Len(P) + (i - Len(P))
        BY <1>9, <3>2
      <4>2. PICK j \in 1..Len(calls) : i = Len(P) + j
        BY <4>1
      <4> QED BY <1>9, <2>1, <4>2
    <3> QED BY <3>1, <3>2
  <2>2. (\E h \in 1..Len(P) : P[h] = m) => \E i \in 1..Len(q) : q[i] = m
    <3>1. \A h \in 1..Len(P) : h \in 1..Len(q)
      BY <1>9
    <3> QED BY <1>9, <3>1
  <2>3. (\E j \in 1..Len(calls) : calls[j] = m) => \E i \in 1..Len(q) : q[i] = m
    <3>1. \A j \in 1..Len(calls) : Len(P) + j \in 1..Len(q)
      BY <1>9
    <3> QED BY <1>9, <3>1
  <2> QED BY <2>1, <2>2, <2>3
<1>11. /\ b.type = s.type
       /\ b.is \cap (Builder!Positions \cup {"Comment", "GeneratedAs"}) = {}
       /\ \A m \in {"Unsigned", "PrimaryKey", "AutoIncrement"} :
            m \in b.is <=> \E i \in 1..Len(q) : q[i] = m
  BY <1>1, <1>9, BuilderIs
<1>12. /\ "Unsigned" \in b.is <=> \E i \in 1..Len(q) : q[i] = "Unsigned"
       /\ \A m \in KeyCalls : m \in b.is <=> \E i \in 1..Len(q) : q[i] = m
  BY <1>11 DEF KeyCalls
<1> HIDE DEF q
<1>13. "Unsigned" \in b.is <=> (\E j \in 1..Len(calls) : calls[j] = "Unsigned") \/ k \in UnsignedNames
  <2>1. (\E i \in 1..Len(q) : q[i] = "Unsigned")
           <=> (\E i \in 1..Len(P) : P[i] = "Unsigned") \/ (\E j \in 1..Len(calls) : calls[j] = "Unsigned")
    BY <1>10
  <2> QED BY <1>6, <1>12, <2>1
<1>14. k \in IdNames => KeyCalls \subseteq b.is
  BY <1>7, <1>10, <1>12
<1> QED BY <1>7, <1>8, <1>11, <1>13, <1>14 DEF b

LEMMA ListedRefused ==
  ASSUME NEW d \in dialectRegistry, NEW c, c.calls \in Seq([call : FileCalls, value : Seq(STRING)])
  PROVE  Builder!RefusedBy(d, Made(c)) <=> Unsupported(d, c)
<1> DEFINE n == Len(c.calls)
           w == [k \in DOMAIN c.calls |-> c.calls[k].call]
<1>1. n \in Nat /\ DOMAIN c.calls = 1..n /\ \A k \in 1..n : c.calls[k].call \in FileCalls
  <2>1. \A k \in 1..n : c.calls[k] \in [call : FileCalls, value : Seq(STRING)]
    BY SeqMembers
  <2>2. \A r \in [call : FileCalls, value : Seq(STRING)] : r.call \in FileCalls
    OBVIOUS
  <2>3. n \in Nat /\ DOMAIN c.calls = 1..n
    OBVIOUS
  <2> HIDE DEF n
  <2> QED BY <2>1, <2>2, <2>3
<1>2. w \in [1..n -> FileCalls] /\ \A k \in 1..n : w[k] = c.calls[k].call
  BY <1>1
<1>3. Made(c) = Chain(c.builder[1], c.args, w)
  BY DEF Made
<1> HIDE DEF n, w
<1>4. w \in Seq(FileCalls) /\ Len(w) = n
  BY <1>1, <1>2, SeqMade
<1>5. /\ Made(c).is \cap (Builder!Positions \cup {"Comment", "GeneratedAs"}) = {}
      /\ "Unsigned" \in Made(c).is
           <=> (\E i \in 1..Len(w) : w[i] = "Unsigned") \/ c.builder[1] \in UnsignedNames
      /\ Made(c).type \in {"enum", "set"} <=> c.builder[1] \in {"enum", "set"}
  BY <1>3, <1>4, ChainIs
<1>6. (\E i \in 1..Len(w) : w[i] = "Unsigned") <=> \E k \in DOMAIN c.calls : c.calls[k].call = "Unsigned"
  BY <1>1, <1>2, <1>4
<1>7. /\ Made(c).is \cap Builder!Positions = {} /\ "Comment" \notin Made(c).is
      /\ "GeneratedAs" \notin Made(c).is
  BY <1>5
<1>8. d \in {"mysql", "sqlite", "postgres", "sqlserver"}
  BY DEF dialectRegistry
<1> QED BY <1>5, <1>6, <1>7, <1>8 DEF Builder!RefusedBy, Unsupported, UnsignedNames

LEMMA IdCounts ==
  ASSUME NEW d \in dialectRegistry, NEW content, content.profile = dialectProfiles(d)
  PROVE  /\ ~Builder!RefusedBy(d, Id(content))
         /\ {"PrimaryKey", "AutoIncrement"}
              \subseteq UNION {Builder!Says(clause) : clause \in Builder!BuildColumn(d, Id(content))}
<1> DEFINE k == content.profile.primaryKey
           b == Id(content)
<1>1. d \in {"mysql", "sqlite", "postgres", "sqlserver"}
  BY DEF dialectRegistry
<1>2. k \in IdNames /\ (d # "mysql" => k \notin UnsignedNames) /\ k \notin {"enum", "set"}
  <2>1. k = dialectProfiles(d).primaryKey
    OBVIOUS
  <2>2. /\ d = "mysql" => k = "unsignedBigPrimaryKey"
        /\ d = "sqlite" => k = "primaryKey"
        /\ d \in {"postgres", "sqlserver"} => k = "bigPrimaryKey"
    <3> HIDE DEF k
    <3> QED BY <2>1 DEF dialectProfiles
  <2> HIDE DEF k
  <2> QED BY <1>1, <2>2 DEF IdNames, UnsignedNames
<1>3. b = Chain(k, <<>>, <<>>)
  BY DEF Id
<1> HIDE DEF b, k
<1>4. <<>> \in Seq(FileCalls) /\ Len(<<>>) = 0 /\ 1..0 = {}
  OBVIOUS
<1>5. /\ b.is \cap (Builder!Positions \cup {"Comment", "GeneratedAs"}) = {}
      /\ "Unsigned" \in b.is <=> (\E i \in 1..0 : <<>>[i] = "Unsigned") \/ k \in UnsignedNames
      /\ b.type \in {"enum", "set"} <=> k \in {"enum", "set"}
      /\ b.type \in Builder!SerialTypes /\ KeyCalls \subseteq b.is
  BY <1>2, <1>3, <1>4, ChainIs, Zenon
<1>6. /\ b.is \cap Builder!Positions = {} /\ "Comment" \notin b.is /\ "GeneratedAs" \notin b.is
      /\ "Unsigned" \in b.is => k \in UnsignedNames
      /\ "PrimaryKey" \in b.is /\ "AutoIncrement" \in b.is
  BY <1>4, <1>5 DEF KeyCalls
<1>7. ~Builder!RefusedBy(d, b)
  BY <1>1, <1>2, <1>5, <1>6 DEF Builder!RefusedBy
<1>8. Builder!pgSerialType(b) /\ Builder!mssqlIdentityType(b)
  BY <1>5, <1>6 DEF Builder!pgSerialType, Builder!mssqlIdentityType
<1>9. \E c1 \in Builder!BuildColumn(d, b), c2 \in Builder!BuildColumn(d, b) :
        "PrimaryKey" \in Builder!Says(c1) /\ "AutoIncrement" \in Builder!Says(c2)
  <2>1. /\ "PrimaryKey" \in Builder!Says("PrimaryKey")
        /\ "AutoIncrement" \in Builder!Says("AutoIncrement")
        /\ "AutoIncrement" \in Builder!Says("Serial")
        /\ {"PrimaryKey", "AutoIncrement"} \subseteq Builder!Says("Identity")
    BY DEF Builder!Says
  <2>2. CASE d = "mysql"
    <3>1. {"PrimaryKey", "AutoIncrement"} \subseteq Builder!BuildColumn(d, b)
      BY <1>6, <2>2 DEF Builder!BuildColumn, Builder!MySQLColumn
    <3> QED BY <2>1, <3>1
  <2>3. CASE d = "sqlite"
    <3>1. {"PrimaryKey", "AutoIncrement"} \subseteq Builder!BuildColumn(d, b)
      BY <1>6, <2>3 DEF Builder!BuildColumn, Builder!SQLiteColumn
    <3> QED BY <2>1, <3>1
  <2>4. CASE d = "postgres"
    <3>1. {"PrimaryKey", "Serial"} \subseteq Builder!BuildColumn(d, b)
      BY <1>8, <2>4 DEF Builder!BuildColumn, Builder!PostgreSQLColumn
    <3> QED BY <2>1, <3>1
  <2>5. CASE d = "sqlserver"
    <3>1. "Identity" \in Builder!BuildColumn(d, b)
      BY <1>8, <2>5 DEF Builder!BuildColumn, Builder!SQLServerColumn
    <3> QED BY <2>1, <3>1
  <2> QED BY <1>1, <2>2, <2>3, <2>4, <2>5
<1>10. {"PrimaryKey", "AutoIncrement"}
         \subseteq UNION {Builder!Says(clause) : clause \in Builder!BuildColumn(d, b)}
  BY <1>9
<1> QED BY <1>7, <1>10 DEF b


-----------------------------------------------------------------------------
(* The columns of a file *)

\* The places a sequence is cut at, with the one before it and the one behind it.
Cuts(s, cuts) == <<0>> \o InOrder(cuts) \o <<Len(s) + 1>>

LEMMA CutsAt ==
  ASSUME NEW X, NEW s \in Seq(X), NEW cuts \in SUBSET DOMAIN s
  PROVE  /\ IsFiniteSet(cuts) /\ cuts \in SUBSET Nat /\ Cardinality(cuts) \in Nat
         /\ Cuts(s, cuts)[1] = 0 /\ Cuts(s, cuts)[Cardinality(cuts) + 2] = Len(s) + 1
         /\ \A k \in 1..Cardinality(cuts) : /\ Cuts(s, cuts)[k + 1] = InOrder(cuts)[k]
                                            /\ InOrder(cuts)[k] \in cuts
<1> DEFINE n == Cardinality(cuts)
           q == InOrder(cuts)
           e == Len(s) + 1
<1>1. IsFiniteSet(cuts) /\ cuts \in SUBSET Nat /\ n \in Nat
  BY PickType
<1>2. q \in [1..n -> cuts] /\ q \in Seq(cuts) /\ Len(q) = n
  BY <1>1, InOrderAt
<1>3. e \in Nat
  OBVIOUS
<1>4. Cuts(s, cuts) = <<0>> \o q \o <<e>>
  BY DEF Cuts
<1> HIDE DEF q, n, e
<1>5. q \in Seq(Nat)
  BY <1>1, <1>2
<1>6. LET a == <<0>> \o q \o <<e>>
      IN  /\ a[1] = 0 /\ a[n + 2] = e
          /\ \A k \in 1..n : a[k + 1] = q[k]
  BY <1>1, <1>2, <1>3, <1>5
<1>7. \A k \in 1..n : q[k] \in cuts
  BY <1>2
<1> QED BY <1>1, <1>4, <1>6, <1>7 DEF q, n, e

\* Where the pieces begin and end.
LEMMA CutsRange ==
  ASSUME NEW X, NEW s \in Seq(X), NEW cuts \in SUBSET DOMAIN s,
         NEW k \in 1..(Cardinality(cuts) + 1)
  PROVE  /\ Cuts(s, cuts)[k] \in 0..Len(s)
         /\ Cuts(s, cuts)[k + 1] \in 1..(Len(s) + 1)
<1> DEFINE n == Cardinality(cuts)
           a == Cuts(s, cuts)
<1>1. /\ n \in Nat /\ a[1] = 0 /\ a[n + 2] = Len(s) + 1
      /\ \A i \in 1..n : a[i + 1] \in 1..Len(s)
  <2>1. DOMAIN s = 1..Len(s)
    OBVIOUS
  <2> QED BY <2>1, CutsAt
<1>2. Len(s) \in Nat /\ k \in 1..(n + 1)
  OBVIOUS
<1> HIDE DEF n, a
<1>3. a[k] \in 0..Len(s)
  <2>1. CASE k = 1
    BY <1>1, <1>2, <2>1
  <2>2. CASE k # 1
    <3>1. k - 1 \in 1..n /\ (k - 1) + 1 = k
      BY <1>1, <1>2, <2>2
    <3>2. a[k] \in 1..Len(s)
      BY <1>1, <3>1
    <3> QED BY <1>2, <3>2
  <2> QED BY <2>1, <2>2
<1>4. a[k + 1] \in 1..(Len(s) + 1)
  <2>1. CASE k = n + 1
    <3>1. k + 1 = n + 2
      BY <1>1, <2>1
    <3> QED BY <1>1, <1>2, <3>1
  <2>2. CASE k # n + 1
    <3>1. k \in 1..n
      BY <1>1, <1>2, <2>2
    <3>2. a[k + 1] \in 1..Len(s)
      BY <1>1, <3>1
    <3> QED BY <1>2, <3>2
  <2> QED BY <2>1, <2>2
<1> QED BY <1>3, <1>4 DEF a

LEMMA BetweenAt ==
  ASSUME NEW s, NEW cuts, Cardinality(cuts) \in Nat
  PROVE  /\ Len(Between(s, cuts)) = Cardinality(cuts) + 1
         /\ DOMAIN Between(s, cuts) = 1..(Cardinality(cuts) + 1)
         /\ \A k \in 1..(Cardinality(cuts) + 1) :
              Between(s, cuts)[k] = SubSeq(s, Cuts(s, cuts)[k] + 1, Cuts(s, cuts)[k + 1] - 1)
<1> DEFINE n == Cardinality(cuts) + 1
           P(k) == SubSeq(s, Cuts(s, cuts)[k] + 1, Cuts(s, cuts)[k + 1] - 1)
           w == [k \in 1..n |-> P(k)]
<1>1. Between(s, cuts) = w
  BY DEF Between, Cuts
<1>2. n \in Nat
  OBVIOUS
<1> HIDE DEF n, P
<1>3. DOMAIN w = 1..n /\ Len(w) = n /\ \A k \in 1..n : w[k] = P(k)
  BY <1>2
<1> HIDE DEF w
<1> QED BY <1>1, <1>3 DEF n, P

LEMMA BetweenType ==
  ASSUME NEW X, NEW s \in Seq(X), NEW cuts \in SUBSET DOMAIN s
  PROVE  Between(s, cuts) \in Seq(Seq(X)) /\ Len(Between(s, cuts)) = Cardinality(cuts) + 1
<1> DEFINE n == Cardinality(cuts)
           a == Cuts(s, cuts)
           b == Between(s, cuts)
<1>1. n \in Nat
  BY CutsAt
<1>2. /\ Len(b) = n + 1 /\ DOMAIN b = 1..(n + 1)
      /\ \A k \in 1..(n + 1) : b[k] = SubSeq(s, a[k] + 1, a[k + 1] - 1)
  BY <1>1, BetweenAt
<1>3. Len(s) \in Nat
  OBVIOUS
<1>4. b = [k \in 1..(n + 1) |-> b[k]]
  <2>1. b = [k \in 1..(n + 1) |-> SubSeq(s, a[k] + 1, a[k + 1] - 1)]
    BY DEF Between, Cuts
  <2> HIDE DEF b, n, a
  <2> QED BY <2>1
<1> HIDE DEF n, a, b
<1>5. \A k \in 1..(n + 1) : b[k] \in Seq(X)
  <2> TAKE k \in 1..(n + 1)
  <2>1. a[k] \in 0..Len(s) /\ a[k + 1] \in 1..(Len(s) + 1)
    BY CutsRange DEF n, a
  <2>2. a[k] + 1 \in 1..(Len(s) + 1) /\ a[k + 1] - 1 \in 0..Len(s)
    BY <1>3, <2>1
  <2> DEFINE i == a[k] + 1
             j == a[k + 1] - 1
  <2>3. i \in 1..(Len(s) + 1) /\ j \in 0..Len(s) /\ b[k] = SubSeq(s, i, j)
    BY <1>2, <2>1, <2>2
  <2> HIDE DEF i, j
  <2> QED BY <2>3, SubSeqProperties
<1>6. b \in [1..(n + 1) -> Seq(X)] /\ n + 1 \in Nat
  BY <1>1, <1>4, <1>5
<1>7. b \in Seq(Seq(X))
  BY <1>6, SeqMade
<1> QED BY <1>2, <1>7 DEF n, b

LEMMA SplitType ==
  ASSUME NEW X, NEW s \in Seq(X), NEW sep
  PROVE  splitTopLevel(s, sep) \in Seq(Seq(X))
<1> DEFINE cuts == {i \in DOMAIN s : s[i] = sep /\ Depth(s, i) = 0}
<1>1. cuts \in SUBSET DOMAIN s
  OBVIOUS
<1>2. splitTopLevel(s, sep) = Between(s, cuts)
  BY DEF splitTopLevel
<1> HIDE DEF cuts
<1> QED BY <1>1, <1>2, BetweenType

Called == [call : FileCalls, value : Seq(STRING)]

LEMMA CallForType ==
  ASSUME NEW mod \in Seq(STRING), Known(mod)
  PROVE  CallFor(mod) \in Called
<1>1. CASE Len(mod) = 1
  <2>1. mod[1] \in DOMAIN Plain /\ CallFor(mod) = [call |-> Plain[mod[1]], value |-> <<>>]
    BY <1>1 DEF Known, CallFor
  <2>2. \A w \in DOMAIN Plain : Plain[w] \in FileCalls
    BY DEF Plain, FileCalls
  <2>3. <<>> \in Seq(STRING)
    OBVIOUS
  <2> QED BY <2>1, <2>2, <2>3 DEF Called
<1>2. CASE Len(mod) # 1
  <2>1. /\ Len(mod) > 2 /\ mod[1] \in DOMAIN WithValue
        /\ CallFor(mod) = [call |-> WithValue[mod[1]], value |-> SubSeq(mod, 3, Len(mod) - 1)]
    BY <1>2 DEF Known, CallFor
  <2>2. \A w \in DOMAIN WithValue : WithValue[w] \in FileCalls
    BY DEF WithValue, FileCalls
  <2>3. SubSeq(mod, 3, Len(mod) - 1) \in Seq(STRING)
    <3>1. 3 \in 1..(Len(mod) + 1) /\ Len(mod) - 1 \in 0..Len(mod)
      BY <2>1
    <3> QED BY <3>1, SubSeqProperties
  <2> QED BY <2>1, <2>2, <2>3 DEF Called
<1> QED BY <1>1, <1>2

LEMMA ColumnCalls ==
  ASSUME NEW f, f.modifiers \in Seq(Seq(STRING))
  PROVE  ColumnCode(f).calls \in Seq(Called)
<1> DEFINE ms == f.modifiers
           S == {k \in DOMAIN ms : Known(ms[k])}
           known == Pick(ms, S)
           q == [i \in DOMAIN known |-> CallFor(known[i])]
           null == [call |-> "Null", value |-> <<>>]
<1>1. S \in SUBSET DOMAIN ms
  OBVIOUS
<1>2. ColumnCode(f).calls \in {q, Append(q, null)}
  BY DEF ColumnCode
<1>3. \A k \in S : Known(ms[k])
  OBVIOUS
<1> HIDE DEF S
<1>4. /\ IsFiniteSet(S) /\ S \in SUBSET Nat /\ Cardinality(S) \in Nat
      /\ known \in Seq(Seq(STRING)) /\ Len(known) = Cardinality(S)
  BY <1>1, PickType
<1>5. \A k \in 1..Cardinality(S) : known[k] = ms[InOrder(S)[k]] /\ InOrder(S)[k] \in S
  BY <1>4, InOrderAt DEF Pick
<1> HIDE DEF known
<1>6. \A k \in 1..Len(known) : known[k] \in Seq(STRING) /\ Known(known[k])
  <2> TAKE k \in 1..Len(known)
  <2>1. known[k] \in Seq(STRING)
    BY <1>4
  <2>2. PICK j \in S : known[k] = ms[j]
    BY <1>4, <1>5
  <2>3. Known(known[k])
    BY <1>3, <2>2, Zenon
  <2> QED BY <2>1, <2>3
<1>7. Len(known) \in Nat /\ DOMAIN known = 1..Len(known)
  BY <1>4
<1>8. q \in [1..Len(known) -> Called]
  <2>1. \A k \in 1..Len(known) : CallFor(known[k]) \in Called
    BY <1>6, CallForType
  <2> HIDE DEF Called
  <2> QED BY <1>7, <2>1
<1> HIDE DEF q
<1>9. q \in Seq(Called)
  BY <1>7, <1>8, SeqMade
<1>10. null \in Called
  BY DEF Called, FileCalls
<1> HIDE DEF null
<1>11. Append(q, null) \in Seq(Called)
  BY <1>9, <1>10
<1> QED BY <1>2, <1>9, <1>11

LEMMA ListedCalls ==
  ASSUME NEW input \in Seq(STRING), NEW i \in DOMAIN Columns(input)
  PROVE  Columns(input)[i].calls \in Seq(Called)
<1> DEFINE parts == IF input = <<>> THEN <<>> ELSE splitTopLevel(input, ",")
           Tokens(k) == splitTopLevel(parts[k], ":")
           fields == ParseFields(input).fields
<1>1. parts \in Seq(Seq(STRING))
  <2>1. splitTopLevel(input, ",") \in Seq(Seq(STRING))
    BY SplitType
  <2>2. <<>> \in Seq(Seq(STRING))
    OBVIOUS
  <2> QED BY <2>1, <2>2
<1>2. DOMAIN Columns(input) = DOMAIN fields /\ Columns(input)[i] = ColumnCode(fields[i])
  BY DEF Columns
<1>3. CASE \E k \in DOMAIN parts : Len(Tokens(k)) < 2
  <2>1. fields = <<>>
    BY <1>3 DEF ParseFields
  <2> QED BY <1>2, <2>1
<1>4. CASE ~\E k \in DOMAIN parts : Len(Tokens(k)) < 2
  <2>1. fields = [k \in DOMAIN parts |-> Field(Tokens(k))]
    BY <1>4 DEF ParseFields
  <2> DEFINE t == Tokens(i)
  <2>2. i \in DOMAIN parts /\ fields[i] = Field(t)
    BY <1>2, <2>1
  <2>3. parts[i] \in Seq(STRING)
    <3> HIDE DEF parts
    <3> QED BY <1>1, <2>2
  <2>4. t \in Seq(Seq(STRING)) /\ ~(Len(t) < 2)
    BY <1>4, <2>2, <2>3, SplitType
  <2> HIDE DEF t, parts, fields
  <2>5. SubSeq(t, 3, Len(t)) \in Seq(Seq(STRING))
    <3>1. 3 \in 1..(Len(t) + 1) /\ Len(t) \in 0..Len(t)
      BY <2>4
    <3> QED BY <2>4, <3>1, SubSeqProperties
  <2>6. Field(t).modifiers = SubSeq(t, 3, Len(t))
    BY DEF Field
  <2> QED BY <1>2, <2>2, <2>5, <2>6, ColumnCalls
<1> QED BY <1>3, <1>4


-----------------------------------------------------------------------------
(* What a file says from the moment it is there *)

LEMMA OptionsType ==
  ASSUME NEW args \in Seq(Argument)
  PROVE  /\ \A flag : Given(args, flag) \subseteq DOMAIN args
         /\ \A flag : Given(args, flag) # {} => Max(Given(args, flag)) \in DOMAIN args
         /\ Options(args).fields \in Seq(STRING)
<1> DEFINE E == {k \in DOMAIN args : ~IsFlag(args[k])} \cup {Len(args) + 1}
<1>1. Len(args) \in Nat /\ DOMAIN args = 1..Len(args)
  OBVIOUS
<1>2. E \in SUBSET (1..(Len(args) + 1)) /\ E \in SUBSET Nat /\ E # {}
  BY <1>1
<1>3. FlagsEnd(args) = Min(E)
  BY DEF FlagsEnd
<1> HIDE DEF E
<1>4. FlagsEnd(args) \in E
  <2>1. \E m \in E : \A n \in E : m <= n
    BY <1>2, LeastOf
  <2> QED BY <1>3, <2>1 DEF Min
<1>5. FlagsEnd(args) - 1 \in 0..Len(args)
  <2>1. FlagsEnd(args) \in 1..(Len(args) + 1)
    BY <1>2, <1>4
  <2> QED BY <1>1, <2>1
<1>6. \A flag : Given(args, flag) \subseteq DOMAIN args
  <2>1. \A k \in 1..(FlagsEnd(args) - 1) : k \in DOMAIN args
    BY <1>1, <1>5
  <2> QED BY <2>1 DEF Given
<1>7. \A flag : Given(args, flag) # {} => Max(Given(args, flag)) \in DOMAIN args
  <2> TAKE flag
  <2> SUFFICES ASSUME Given(args, flag) # {}  PROVE Max(Given(args, flag)) \in DOMAIN args
    OBVIOUS
  <2> DEFINE T == Given(args, flag)
  <2>1. T \in SUBSET DOMAIN args /\ T # {}
    BY <1>6
  <2> HIDE DEF T
  <2>2. T \in SUBSET (0..Len(args))
    BY <1>1, <2>1
  <2>3. \E m \in T : \A k \in T : k <= m
    BY <1>1, <2>1, <2>2, GreatestOf
  <2>4. \E m \in T : \A k \in T : m >= k
    BY <1>1, <2>2, <2>3
  <2>5. Max(T) \in T
    BY <2>4 DEF Max
  <2> QED BY <2>1, <2>5 DEF T
<1>8. Options(args).fields \in Seq(STRING)
  <2>1. Options(args).fields
          = IF Given(args, "fields") = {} THEN <<>> ELSE args[Max(Given(args, "fields"))].tokens
    BY DEF Options
  <2>2. <<>> \in Seq(STRING)
    OBVIOUS
  <2>3. \A k \in DOMAIN args : args[k] \in Argument
    OBVIOUS
  <2>4. \A a \in Argument : a.tokens \in Seq(STRING)
    BY DEF Argument
  <2> QED BY <1>7, <2>1, <2>2, <2>3, <2>4
<1> QED BY <1>6, <1>7, <1>8

\* A file says what its options say, and a create that has got as far as a version is
\* refused only for its file.
Settled ==
  /\ \A v \in DOMAIN files :
       /\ files[v].content = BuildContent(Options(invocation[files[v].by].args))
       /\ Options(invocation[files[v].by].args).dialect \in dialectRegistry
  /\ \A p \in Processes :
       /\ pc[p] = "open" => version[p] # <<>>
       /\ (pc[p] = "refused" /\ version[p] = <<>> /\ invocation[p].command = "create") =>
            \/ UsageError(invocation[p].args)
            \/ BuildContentFails(Options(invocation[p].args))

LEMMA InitSettled == Init => Settled
  BY DEF Init, Settled

LEMMA SettledStep == Shape /\ Owned /\ Heard /\ Settled /\ [Next]_vars => Settled'
<1> SUFFICES ASSUME Shape, Owned, Heard, Settled, [Next]_vars PROVE Settled'
  OBVIOUS
<1>1. UNCHANGED <<env, invocation>>
  BY DEF Next, Finished, Tick, vars, runCreate, OpenFile, OpenFails, Write, WriteFails, Crash, runDBCommand
<1>2. \A p : /\ Options(invocation[p].args)' = Options(invocation[p].args)
             /\ invocation'[p] = invocation[p]
  BY <1>1, SameReading
<1>3. ASSUME NEW p \in Processes, runCreate(p) PROVE Settled'
  <2>1. /\ pc[p] = "idle" /\ pc' = [pc EXCEPT ![p] = pc'[p]] /\ pc'[p] \in {"refused", "open"}
        /\ UNCHANGED <<files, invocation>>
        /\ \A q \in Processes : q # p => version'[q] = version[q]
    BY <1>3 DEF runCreate, Ends, Shape
  <2>2. pc'[p] = "open" => version'[p] # <<>>
    <3>1. pc'[p] = "open" => version'[p] = <<clock, invocation[p].args[Len(invocation[p].args)].snake>>
      BY <1>3 DEF runCreate, Ends, Shape
    <3>2. \A a, b : <<a, b>> # <<>>
      OBVIOUS
    <3> QED BY <3>1, <3>2, Zenon
  <2>3. pc'[p] = "refused" => \/ UsageError(invocation[p].args)
                              \/ BuildContentFails(Options(invocation[p].args))
    BY <1>3 DEF runCreate, Ends, Shape
  <2>4. \A q \in Processes : q # p => pc'[q] = pc[q]
    <3>1. pc \in [Processes -> {"idle", "open", "write", "created", "handed", "refused", "failed", "crashed"}]
      BY DEF Shape
    <3> QED BY <2>1, <3>1
  <2> QED BY <1>2, <2>1, <2>2, <2>3, <2>4 DEF Settled
<1>4. ASSUME NEW p \in Processes, OpenFile(p)  PROVE Settled'
  <2>1. CASE version[p] \in DOMAIN files
    <3>1. pc[p] = "open" /\ pc' = [pc EXCEPT ![p] = "refused"] /\ UNCHANGED <<files, version>>
      BY <1>4, <2>1 DEF OpenFile, Ends
    <3> QED BY <1>2, <3>1 DEF Settled, Shape
  <2>2. CASE version[p] \notin DOMAIN files
    <3>1. /\ pc[p] = "open" /\ pc' = [pc EXCEPT ![p] = "write"] /\ UNCHANGED version
          /\ DOMAIN files' = DOMAIN files \cup {version[p]} /\ files'[version[p]] = Empty(p)
          /\ \A v \in DOMAIN files : files'[v] = files[v]
      BY <1>4, <2>2 DEF OpenFile, Created, With, Ends
    <3>2. Empty(p).by = p /\ Empty(p).content = BuildContent(Options(invocation[p].args))
      BY DEF Empty
    <3>3. Options(invocation[p].args).dialect \in dialectRegistry
      BY <3>1 DEF Heard
    <3> QED BY <1>2, <3>1, <3>2, <3>3 DEF Settled, Shape
  <2> QED BY <2>1, <2>2
<1>5. ASSUME NEW p \in Processes, Write(p)  PROVE Settled'
  <2>1. /\ pc' = [pc EXCEPT ![p] = "created"] /\ UNCHANGED version
        /\ DOMAIN files' = DOMAIN files
        /\ \A v \in DOMAIN files : files'[v].by = files[v].by /\ files'[v].content = files[v].content
    <3>1. files' = [files EXCEPT ![version[p]].whole = TRUE] /\ version[p] \in DOMAIN files
      BY <1>5 DEF Write, Owned
    <3>2. files[version[p]] = Empty(p)
      BY <1>5 DEF Write, Owned
    <3>3. files'[version[p]].by = Empty(p).by /\ files'[version[p]].content = Empty(p).content
      BY <3>1, <3>2 DEF Empty
    <3> QED BY <1>5, <3>1, <3>2, <3>3 DEF Write, Ends
  <2> QED BY <1>2, <2>1 DEF Settled, Shape
<1>6. ASSUME NEW p \in Processes, OpenFails(p) \/ WriteFails(p) \/ Crash(p) \/ runDBCommand(p)
      PROVE  Settled'
  <2>1. /\ pc' = [pc EXCEPT ![p] = pc'[p]] /\ UNCHANGED <<files, version>> /\ pc'[p] # "open"
        /\ pc'[p] = "refused" => pc[p] = "open" \/ invocation[p].command # "create"
    BY <1>6 DEF OpenFails, WriteFails, Crash, runDBCommand, Ends, Shape
  <2> QED BY <1>2, <2>1 DEF Settled, Shape
<1>7. CASE Tick \/ UNCHANGED vars
  <2>1. UNCHANGED <<env, invocation, files, version, pc>>
    BY <1>7 DEF Tick, vars
  <2> QED BY <1>2, <2>1 DEF Settled
<1> QED BY <1>3, <1>4, <1>5, <1>6, <1>7 DEF Next, Finished

LEMMA RunsOnItsDialect == Shape /\ Owned /\ Settled => FileRunsOnItsDialect
<1> SUFFICES ASSUME Shape, Owned, Settled, NEW v \in DOMAIN files
             PROVE  LET content == files[v].content
                        d == content.dialect
                    IN  /\ CreateTableFails(d, content)
                             <=> \E i \in DOMAIN content.columns : Unsupported(d, content.columns[i])
                        /\ {"PrimaryKey", "AutoIncrement"} \subseteq
                             UNION {Builder!Says(clause) : clause \in Builder!BuildColumn(d, Id(content))}
  BY DEF FileRunsOnItsDialect
<1> DEFINE args == invocation[files[v].by].args
           o == Options(args)
           content == files[v].content
           d == content.dialect
<1>1. args \in Seq(Argument)
  BY CommandLineAssumption DEF Owned, Shape
<1>2. o.fields \in Seq(STRING)
  BY <1>1, OptionsType
<1>3. content = BuildContent(o) /\ o.dialect \in dialectRegistry
  BY DEF Settled
<1> HIDE DEF o, content
<1>4. /\ d = o.dialect /\ content.profile = dialectProfiles(d)
      /\ content.columns = Columns(o.fields)
  BY <1>3 DEF BuildContent
<1>5. d \in dialectRegistry
  BY <1>3, <1>4
<1>6. \A i \in DOMAIN content.columns : content.columns[i].calls \in Seq(Called)
  BY <1>2, <1>4, ListedCalls
<1> HIDE DEF d
<1>7. \A i \in DOMAIN content.columns :
        Builder!RefusedBy(d, Made(content.columns[i])) <=> Unsupported(d, content.columns[i])
  <2> TAKE i \in DOMAIN content.columns
  <2> DEFINE c == content.columns[i]
  <2>1. c.calls \in Seq([call : FileCalls, value : Seq(STRING)])
    BY <1>6 DEF Called
  <2> HIDE DEF c
  <2>2. Builder!RefusedBy(d, Made(c)) <=> Unsupported(d, c)
    BY <1>5, <2>1, ListedRefused
  <2> QED BY <2>2 DEF c
<1>8. /\ ~Builder!RefusedBy(d, Id(content))
      /\ {"PrimaryKey", "AutoIncrement"}
           \subseteq UNION {Builder!Says(clause) : clause \in Builder!BuildColumn(d, Id(content))}
  BY <1>4, <1>5, IdCounts
<1>9. ~(content.profile.options # "" /\ d \notin {"mysql", "postgres"})
  <2>1. dialectProfiles(d).options = IF d = "mysql" THEN "engine" ELSE ""
    BY DEF dialectProfiles
  <2> QED BY <1>4, <2>1
<1>10. CreateTableFails(d, content)
         <=> \E i \in DOMAIN content.columns : Unsupported(d, content.columns[i])
  <2>1. CreateTableFails(d, content)
          <=> \E i \in DOMAIN content.columns : Builder!RefusedBy(d, Made(content.columns[i]))
    BY <1>8, <1>9, Zenon DEF CreateTableFails
  <2> QED BY <1>7, <2>1, Zenon
<1> QED BY <1>8, <1>10 DEF d, content

\* internal/generator/generator_test.go:140, for every command line: a file that was created
\* makes its table on the dialect it was made for, with an id that the database counts,
\* unless it lists an unsigned column or an enum that this dialect does not have.
THEOREM FilesRunOnTheirDialect == Spec => []FileRunsOnItsDialect
<1>1. Init => Shape /\ Owned /\ Heard /\ Settled
  BY InitKeeps, InitHeard, InitSettled
<1>2. Shape /\ Owned /\ Heard /\ Settled /\ [Next]_vars => (Shape /\ Owned /\ Heard /\ Settled)'
  BY TypeStep, OwnedStep, HeardStep, SettledStep
<1> QED
  BY <1>1, <1>2, RunsOnItsDialect, PTL DEF Spec


-----------------------------------------------------------------------------
(* How deep a sequence of tokens is *)

\* What a --fields value consists of: strings, with those that the parser knows named.
Token == STRING \cup Symbols \cup Valued \cup {"notNull", "null", "unsigned"}

LEMMA Tokens ==
  /\ Symbols \subseteq Token /\ Ordinary \subseteq Token
  /\ Valued \cup {"notNull", "null", "unsigned"} \subseteq Token
  /\ "(" \in Token /\ ")" \in Token /\ "," \in Token /\ ":" \in Token
  /\ \A s \in Seq(STRING) : s \in Seq(Token)
<1>1. Symbols \subseteq Token /\ Valued \cup {"notNull", "null", "unsigned"} \subseteq Token
  BY DEF Token
<1>2. STRING \subseteq Token
  BY DEF Token
<1>3. Ordinary \subseteq Token
  BY <1>2 DEF Ordinary
<1>4. "(" \in Token /\ ")" \in Token /\ "," \in Token /\ ":" \in Token
  BY <1>1 DEF Symbols
<1>5. \A X, Y : X \subseteq Y => \A s \in Seq(X) : s \in Seq(Y)
  <2> TAKE X, Y
  <2> HAVE X \subseteq Y
  <2> TAKE s \in Seq(X)
  <2>1. Len(s) \in Nat /\ s \in [1..Len(s) -> X]
    BY SeqMembers
  <2>2. s \in [1..Len(s) -> Y]
    BY <2>1
  <2> QED BY <2>1, <2>2, SeqMade
<1> QED BY <1>1, <1>2, <1>3, <1>4, <1>5

LEMMA OccursAsRank ==
  ASSUME NEW s \in Seq(Token), NEW symbol, NEW n \in 0..Len(s)
  PROVE  Occurrences(s, symbol, n) = Rank(Places(s, {symbol}), n)
<1>1. {i \in 1..n : s[i] = symbol} = {k \in Places(s, {symbol}) : k <= n}
  <2>1. DOMAIN s = 1..Len(s) /\ Len(s) \in Nat
    OBVIOUS
  <2>2. \A i : i \in 1..n <=> i \in 1..Len(s) /\ i <= n
    BY <2>1
  <2> QED BY <2>1, <2>2 DEF Places
<1> QED BY <1>1 DEF Occurrences, Rank

LEMMA OccursJoined ==
  ASSUME NEW s \in Seq(Token), NEW t \in Seq(Token), NEW symbol
  PROVE  /\ \A i \in 0..Len(s) : /\ Occurrences(s, symbol, i) \in Nat
                                 /\ Occurrences(s \o t, symbol, i) = Occurrences(s, symbol, i)
         /\ \A j \in 0..Len(t) : Occurrences(s \o t, symbol, Len(s) + j)
                                   = Occurrences(s, symbol, Len(s)) + Occurrences(t, symbol, j)
<1> DEFINE n == Len(s)
           u == s \o t
           A == Places(s, {symbol})
           B == Places(t, {symbol})
           M == Places(u, {symbol})
<1>1. n \in Nat /\ Len(t) \in Nat /\ u \in Seq(Token) /\ Len(u) = n + Len(t)
  BY SeqJoined
<1>2. /\ M = Onward(n, A, B) /\ A \in SUBSET (1..n) /\ B \in SUBSET (1..Len(t))
      /\ IsFiniteSet(A) /\ IsFiniteSet(B)
  BY PlacesJoined
<1>3. B \in SUBSET (Nat \ {0})
  <2>1. \A j \in 1..Len(t) : j \in Nat \ {0}
    BY <1>1
  <2> HIDE DEF B
  <2> QED BY <1>2, <2>1
<1>4. \A i \in 0..n : Occurrences(s, symbol, i) = Rank(A, i)
  BY OccursAsRank
<1>5. \A j \in 0..Len(t) : Occurrences(t, symbol, j) = Rank(B, j)
  BY OccursAsRank
<1>6. \A i \in 0..(n + Len(t)) : Occurrences(u, symbol, i) = Rank(M, i)
  <2> HIDE DEF u, n
  <2> QED BY <1>1, OccursAsRank
<1> HIDE DEF n, u, A, B, M
<1>7. /\ \A i \in 1..n : Rank(M, i) = Rank(A, i)
      /\ \A j \in Nat : Rank(M, n + j) = Cardinality(A) + Rank(B, j)
  BY <1>1, <1>2, <1>3, CountingOn
<1>8. Rank(A, n) = Cardinality(A)
  <2>1. \A k \in 1..n : k <= n
    BY <1>1
  <2>2. {k \in A : k <= n} = A
    BY <1>2, <2>1
  <2> QED BY <2>2 DEF Rank
<1>9. Rank(M, 0) = Rank(A, 0)
  <2>1. \A k \in 1..n : ~(k <= 0)
    BY <1>1
  <2>2. \A k \in B : ~(n + k <= 0)
    BY <1>1, <1>3
  <2>3. {k \in A : k <= 0} = {} /\ {k \in M : k <= 0} = {}
    BY <1>2, <2>1, <2>2 DEF Onward
  <2> QED BY <2>3 DEF Rank
<1>10. \A i \in 0..n : Rank(A, i) \in Nat
  BY <1>2, RankRange
<1>11. \A i \in 0..n : i \in 0..(n + Len(t)) /\ (i = 0 \/ i \in 1..n)
  BY <1>1
<1>12. \A j \in 0..Len(t) : n + j \in 0..(n + Len(t)) /\ j \in Nat
  BY <1>1
<1>13. n \in 0..n
  BY <1>1
<1>14. \A i \in 0..n : /\ Occurrences(s, symbol, i) \in Nat
                       /\ Occurrences(u, symbol, i) = Occurrences(s, symbol, i)
  BY <1>4, <1>6, <1>7, <1>9, <1>10, <1>11
<1>15. \A j \in 0..Len(t) : Occurrences(u, symbol, n + j)
                              = Occurrences(s, symbol, n) + Occurrences(t, symbol, j)
  <2> TAKE j \in 0..Len(t)
  <2>1. Occurrences(u, symbol, n + j) = Rank(M, n + j)
    BY <1>6, <1>12
  <2>2. Rank(M, n + j) = Cardinality(A) + Rank(B, j)
    BY <1>7, <1>12
  <2>3. Occurrences(s, symbol, n) = Cardinality(A) /\ Occurrences(t, symbol, j) = Rank(B, j)
    BY <1>4, <1>5, <1>8, <1>13
  <2> QED BY <2>1, <2>2, <2>3
<1> QED BY <1>14, <1>15 DEF u, n

LEMMA DepthJoined ==
  ASSUME NEW s \in Seq(Token), NEW t \in Seq(Token)
  PROVE  /\ \A i \in 0..Len(s) : Depth(s, i) \in Int /\ Depth(s \o t, i) = Depth(s, i)
         /\ \A j \in 0..Len(t) : /\ Depth(t, j) \in Int
                                 /\ Depth(s \o t, Len(s) + j) = Depth(s, Len(s)) + Depth(t, j)
<1>1. Len(s) \in 0..Len(s)
  OBVIOUS
<1>2. \A symbol : /\ \A i \in 0..Len(s) : /\ Occurrences(s, symbol, i) \in Nat
                                          /\ Occurrences(s \o t, symbol, i) = Occurrences(s, symbol, i)
                  /\ \A j \in 0..Len(t) : Occurrences(s \o t, symbol, Len(s) + j)
                                            = Occurrences(s, symbol, Len(s)) + Occurrences(t, symbol, j)
  BY OccursJoined
<1>3. \A symbol : \A j \in 0..Len(t) : Occurrences(t, symbol, j) \in Nat
  BY OccursJoined
<1>4. ASSUME NEW i \in 0..Len(s)  PROVE Depth(s, i) \in Int /\ Depth(s \o t, i) = Depth(s, i)
  <2>1. \A symbol : /\ Occurrences(s, symbol, i) \in Nat
                    /\ Occurrences(s \o t, symbol, i) = Occurrences(s, symbol, i)
    BY <1>2
  <2> QED BY <2>1 DEF Depth
<1>5. ASSUME NEW j \in 0..Len(t)
      PROVE  /\ Depth(t, j) \in Int
             /\ Depth(s \o t, Len(s) + j) = Depth(s, Len(s)) + Depth(t, j)
  <2>1. \A symbol : /\ Occurrences(t, symbol, j) \in Nat /\ Occurrences(s, symbol, Len(s)) \in Nat
                    /\ Occurrences(s \o t, symbol, Len(s) + j)
                         = Occurrences(s, symbol, Len(s)) + Occurrences(t, symbol, j)
    BY <1>1, <1>2, <1>3
  <2> QED BY <2>1 DEF Depth
<1> QED BY <1>4, <1>5

LEMMA OneToken == \A x \in Token : <<x>> \in Seq(Token) /\ Len(<<x>>) = 1 /\ <<x>>[1] = x
  OBVIOUS

LEMMA DepthOfOne ==
  ASSUME NEW x \in Token
  PROVE  /\ Depth(<<x>>, 0) = 0
         /\ Depth(<<x>>, 1) = IF x = "(" THEN 1 ELSE IF x = ")" THEN 0 - 1 ELSE 0
<1>1. 1..0 = {} /\ 1..1 = {1} /\ <<x>>[1] = x
  OBVIOUS
<1>2. Cardinality({}) = 0 /\ Cardinality({1}) = 1
  BY FS_EmptySet, FS_Singleton, Zenon
<1>3. \A symbol : /\ Occurrences(<<x>>, symbol, 0) = 0
                  /\ Occurrences(<<x>>, symbol, 1) = IF x = symbol THEN 1 ELSE 0
  <2> TAKE symbol
  <2> DEFINE w == <<x>>
  <2>1. w[1] = x
    BY <1>1
  <2> HIDE DEF w
  <2>2. {i \in 1..0 : w[i] = symbol} = {} /\ {i \in 1..1 : w[i] = symbol} = IF x = symbol THEN {1} ELSE {}
    BY <1>1, <2>1
  <2>3. Occurrences(w, symbol, 0) = 0 /\ Occurrences(w, symbol, 1) = IF x = symbol THEN 1 ELSE 0
    BY <1>2, <2>2 DEF Occurrences
  <2> QED BY <2>3 DEF w
<1> QED BY <1>3 DEF Depth

-----------------------------------------------------------------------------
(* Sequences that parentheses are closed in *)

LEMMA BalancedDepth ==
  ASSUME NEW s \in Seq(Token)
  PROVE  /\ Depth(s, 0) = 0
         /\ Balanced(s) => \A i \in 0..Len(s) : Depth(s, i) \in Int /\ Depth(s, i) >= 0
<1>1. \A symbol : Occurrences(s, symbol, 0) = 0
  <2>1. \A symbol : {i \in 1..0 : s[i] = symbol} = {}
    OBVIOUS
  <2> QED BY <2>1, FS_EmptySet DEF Occurrences
<1>2. Depth(s, 0) = 0
  BY <1>1 DEF Depth
<1>3. \A i \in 0..Len(s) : Depth(s, i) \in Int
  BY DepthJoined
<1>4. \A i \in 0..Len(s) : i = 0 \/ i \in DOMAIN s
  OBVIOUS
<1> QED BY <1>2, <1>3, <1>4 DEF Balanced

LEMMA BalancedJoined ==
  ASSUME NEW s \in Seq(Token), NEW t \in Seq(Token), Balanced(s), Balanced(t)
  PROVE  s \o t \in Seq(Token) /\ Balanced(s \o t)
<1> DEFINE u == s \o t
           n == Len(s)
           k == Len(t)
<1>1. n \in Nat /\ k \in Nat /\ u \in Seq(Token) /\ Len(u) = n + k /\ DOMAIN u = 1..(n + k)
  BY SeqJoined
<1>2. /\ \A i \in 0..n : Depth(u, i) = Depth(s, i)
      /\ \A j \in 0..k : Depth(u, n + j) = Depth(s, n) + Depth(t, j)
  BY DepthJoined
<1>3. /\ \A i \in 0..n : Depth(s, i) \in Int /\ Depth(s, i) >= 0
      /\ \A j \in 0..k : Depth(t, j) \in Int /\ Depth(t, j) >= 0
  BY BalancedDepth
<1>4. Depth(s, n) = 0 /\ Depth(t, k) = 0
  BY DEF Balanced
<1> HIDE DEF u, n, k
<1>5. Depth(u, n + k) = 0
  BY <1>1, <1>2, <1>4
<1>6. ASSUME NEW i \in 1..(n + k)  PROVE Depth(u, i) >= 0
  <2>1. CASE i <= n
    <3>1. i \in 0..n
      BY <1>1, <2>1
    <3> QED BY <1>2, <1>3, <3>1
  <2>2. CASE ~(i <= n)
    <3>1. i - n \in 0..k /\ i = n + (i - n)
      BY <1>1, <2>2
    <3>2. PICK j \in 0..k : i = n + j
      BY <3>1
    <3>3. Depth(u, i) = 0 + Depth(t, j)
      BY <1>2, <1>4, <3>2
    <3> QED BY <1>3, <3>3
  <2> QED BY <2>1, <2>2
<1> QED BY <1>1, <1>5, <1>6 DEF Balanced, u


LEMMA BalancedOne == \A x \in Token \ {"(", ")"} : <<x>> \in Seq(Token) /\ Balanced(<<x>>)
<1> SUFFICES ASSUME NEW x \in Token \ {"(", ")"}  PROVE <<x>> \in Seq(Token) /\ Balanced(<<x>>)
  OBVIOUS
<1>1. Depth(<<x>>, 1) = 0
  BY DepthOfOne
<1> DEFINE w == <<x>>
<1>2. w \in Seq(Token) /\ Len(w) = 1 /\ DOMAIN w = {1} /\ Depth(w, 1) = 0
  BY <1>1
<1> HIDE DEF w
<1>3. w \in Seq(Token) /\ Balanced(w)
  BY <1>2 DEF Balanced
<1> QED BY <1>3 DEF w

LEMMA BalancedNone == <<>> \in Seq(Token) /\ Balanced(<<>>)
<1> DEFINE w == <<>>
<1>1. w \in Seq(Token) /\ Len(w) = 0 /\ DOMAIN w = {}
  OBVIOUS
<1> HIDE DEF w
<1>2. Depth(w, 0) = 0
  BY <1>1, BalancedDepth
<1>3. Balanced(w)
  BY <1>1, <1>2 DEF Balanced
<1> QED BY <1>1, <1>3 DEF w

LEMMA ParensAre ==
  ASSUME NEW s \in Seq(Token), Balanced(s)
  PROVE  /\ Parens(s) \in Seq(Token) /\ Len(Parens(s)) = Len(s) + 2 /\ Len(s) \in Nat
         /\ DOMAIN Parens(s) = 1..(Len(s) + 2)
         /\ Parens(s)[1] = "(" /\ Parens(s)[Len(s) + 2] = ")"
         /\ \A i \in 1..Len(s) : Parens(s)[i + 1] = s[i]
         /\ \A i \in 1..(Len(s) + 1) : Depth(Parens(s), i) \in Int /\ Depth(Parens(s), i) >= 1
         /\ Balanced(Parens(s))
<1> DEFINE n == Len(s)
           a == <<"(">>
           b == <<")">>
           v == a \o s
           u == v \o b
<1>1. a \in Seq(Token) /\ Len(a) = 1 /\ a[1] = "(" /\ b \in Seq(Token) /\ Len(b) = 1 /\ b[1] = ")"
  BY Tokens, OneToken
<1>2. Depth(a, 1) = 1 /\ Depth(b, 1) = 0 - 1
  BY Tokens, DepthOfOne
<1>3. Parens(s) = u
  BY DEF Parens
<1> HIDE DEF a, b
<1>4. /\ v \in Seq(Token) /\ n \in Nat /\ Len(v) = n + 1 /\ v[1] = "("
      /\ \A i \in 1..n : v[1 + i] = s[i]
  BY <1>1, SeqJoined
<1>5. \A j \in 0..n : Depth(v, 1 + j) = 1 + Depth(s, j)
  <2>1. \A j \in 0..n : Depth(a \o s, Len(a) + j) = Depth(a, Len(a)) + Depth(s, j)
    BY <1>1, DepthJoined
  <2> QED BY <1>1, <1>2, <2>1
<1> HIDE DEF v
<1>6. /\ u \in Seq(Token) /\ Len(u) = n + 2 /\ DOMAIN u = 1..(n + 2) /\ \A i \in 1..(n + 1) : u[i] = v[i]
      /\ u[n + 2] = ")"
  <2>1. u \in Seq(Token) /\ Len(u) = (n + 1) + 1 /\ DOMAIN u = 1..((n + 1) + 1)
    BY <1>1, <1>4, SeqJoined
  <2>2. \A i \in 1..(n + 1) : u[i] = v[i]
    BY <1>1, <1>4, SeqJoined
  <2>3. u[(n + 1) + 1] = ")"
    BY <1>1, <1>4, SeqJoined
  <2>4. (n + 1) + 1 = n + 2
    BY <1>4
  <2> HIDE DEF u, n
  <2> QED BY <2>1, <2>2, <2>3, <2>4
<1>7. /\ \A i \in 0..(n + 1) : Depth(u, i) = Depth(v, i)
      /\ Depth(u, n + 2) = Depth(v, n + 1) - 1
  <2>1. \A i \in 0..(n + 1) : Depth(u, i) = Depth(v, i) /\ Depth(v, i) \in Int
    BY <1>1, <1>4, DepthJoined
  <2>2. Depth(u, (n + 1) + 1) = Depth(v, n + 1) + (0 - 1)
    <3>1. \A j \in 0..Len(b) : Depth(v \o b, Len(v) + j) = Depth(v, Len(v)) + Depth(b, j)
      BY <1>1, <1>4, DepthJoined
    <3> QED BY <1>1, <1>2, <1>4, <3>1
  <2>3. (n + 1) + 1 = n + 2 /\ n + 1 \in 0..(n + 1)
    BY <1>4
  <2> HIDE DEF u, n
  <2> QED BY <2>1, <2>2, <2>3
<1> HIDE DEF u
<1>8. \A j \in 0..n : Depth(s, j) \in Int /\ Depth(s, j) >= 0
  BY BalancedDepth
<1>9. Depth(s, n) = 0
  BY DEF Balanced
<1> HIDE DEF n
<1>10. \A i \in 1..(n + 1) : Depth(u, i) \in Int /\ Depth(u, i) >= 1
  <2> TAKE i \in 1..(n + 1)
  <2>1. i - 1 \in 0..n /\ i = 1 + (i - 1) /\ i \in 0..(n + 1)
    BY <1>4
  <2>2. Depth(u, i) = 1 + Depth(s, i - 1)
    BY <1>5, <1>7, <2>1
  <2> QED BY <1>8, <2>1, <2>2
<1>11. Depth(u, n + 2) = 0
  <2>1. n \in 0..n /\ n + 1 = 1 + n
    BY <1>4
  <2>2. Depth(v, n + 1) = 1 + Depth(s, n)
    BY <1>5, <2>1
  <2> QED BY <1>7, <1>9, <2>2
<1>12. \A i \in 1..(n + 2) : Depth(u, i) >= 0
  <2>1. \A i \in 1..(n + 2) : i \in 1..(n + 1) \/ i = n + 2
    BY <1>4
  <2> QED BY <1>10, <1>11, <2>1
<1>13. Balanced(u)
  BY <1>6, <1>11, <1>12 DEF Balanced
<1>14. u[1] = "(" /\ \A i \in 1..n : u[i + 1] = s[i]
  <2>1. 1 \in 1..(n + 1) /\ \A i \in 1..n : i + 1 \in 1..(n + 1) /\ i + 1 = 1 + i
    BY <1>4
  <2> QED BY <1>4, <1>6, <2>1
<1> QED BY <1>3, <1>4, <1>6, <1>10, <1>13, <1>14 DEF n

-----------------------------------------------------------------------------
(* Where they are split *)

Cut(s, sep) == {i \in DOMAIN s : s[i] = sep /\ Depth(s, i) = 0}

\* Nothing of s is split at sep, with whatever it is joined.
Closed(s, sep) == Balanced(s) /\ Cut(s, sep) = {}

LEMMA CutJoined ==
  ASSUME NEW s \in Seq(Token), NEW t \in Seq(Token), Balanced(s), NEW sep
  PROVE  /\ Cut(s \o t, sep) = Onward(Len(s), Cut(s, sep), Cut(t, sep))
         /\ Cut(s, sep) \in SUBSET (1..Len(s))
<1> DEFINE u == s \o t
           n == Len(s)
           k == Len(t)
           A == Cut(s, sep)
           B == Cut(t, sep)
           M == Cut(u, sep)
<1>1. /\ n \in Nat /\ k \in Nat /\ DOMAIN s = 1..n /\ DOMAIN t = 1..k /\ DOMAIN u = 1..(n + k)
      /\ \A i \in 1..n : u[i] = s[i]
      /\ \A j \in 1..k : u[n + j] = t[j]
  BY SeqMembers, SeqJoined
<1>2. /\ \A i \in 0..n : Depth(u, i) = Depth(s, i)
      /\ \A j \in 0..k : Depth(t, j) \in Int /\ Depth(u, n + j) = Depth(s, n) + Depth(t, j)
  BY DepthJoined
<1>3. Depth(s, n) = 0
  BY DEF Balanced
<1> HIDE DEF u, n, k
<1>4. \A j \in 1..k : Depth(u, n + j) = Depth(t, j)
  <2>1. \A j \in 1..k : j \in 0..k
    OBVIOUS
  <2> QED BY <1>2, <1>3, <2>1
<1>5. \A i \in 1..n : Depth(u, i) = Depth(s, i) /\ i \in 1..(n + k)
  <2>1. \A i \in 1..n : i \in 0..n /\ i \in 1..(n + k)
    BY <1>1
  <2> QED BY <1>2, <2>1
<1>6. A = {i \in 1..n : s[i] = sep /\ Depth(s, i) = 0} /\ B = {j \in 1..k : t[j] = sep /\ Depth(t, j) = 0}
      /\ M = {i \in 1..(n + k) : u[i] = sep /\ Depth(u, i) = 0}
  BY <1>1 DEF Cut
<1> HIDE DEF A, B, M
<1>7. ASSUME NEW i \in M  PROVE i \in Onward(n, A, B)
  <2>1. i \in 1..(n + k) /\ u[i] = sep /\ Depth(u, i) = 0
    BY <1>6
  <2>2. CASE i \in 1..n
    <3>1. i \in A
      BY <1>1, <1>5, <1>6, <2>1, <2>2
    <3> QED BY <3>1 DEF Onward
  <2>3. CASE i \notin 1..n
    <3>1. i - n \in 1..k /\ i = n + (i - n)
      BY <1>1, <2>1, <2>3
    <3>2. PICK j \in 1..k : i = n + j
      BY <3>1
    <3>3. j \in B
      BY <1>1, <1>4, <1>6, <2>1, <3>2
    <3> QED BY <3>2, <3>3 DEF Onward
  <2> QED BY <2>2, <2>3
<1>8. \A i \in A : i \in M
  BY <1>1, <1>5, <1>6
<1>9. \A j \in B : n + j \in M
  <2> TAKE j \in B
  <2>1. j \in 1..k /\ n + j \in 1..(n + k) /\ t[j] = sep /\ Depth(t, j) = 0
    BY <1>1, <1>6
  <2> QED BY <1>1, <1>4, <1>6, <2>1
<1>10. M = Onward(n, A, B)
  BY <1>7, <1>8, <1>9 DEF Onward
<1>11. A \in SUBSET (1..n)
  BY <1>6
<1> QED BY <1>10, <1>11 DEF u, n, A, B, M

LEMMA ClosedJoined ==
  ASSUME NEW s \in Seq(Token), NEW t \in Seq(Token), NEW sep, Closed(s, sep), Closed(t, sep)
  PROVE  s \o t \in Seq(Token) /\ Closed(s \o t, sep)
<1>1. Balanced(s) /\ Balanced(t) /\ Cut(s, sep) = {} /\ Cut(t, sep) = {}
  BY DEF Closed
<1>2. s \o t \in Seq(Token) /\ Balanced(s \o t)
  BY <1>1, BalancedJoined
<1>3. Cut(s \o t, sep) = Onward(Len(s), Cut(s, sep), Cut(t, sep))
  BY <1>1, CutJoined
<1>4. Cut(s \o t, sep) = {}
  BY <1>1, <1>3 DEF Onward
<1> QED BY <1>2, <1>4 DEF Closed

LEMMA CutOfOne ==
  ASSUME NEW x \in Token \ {"(", ")"}, NEW sep
  PROVE  Cut(<<x>>, sep) = IF x = sep THEN {1} ELSE {}
<1> DEFINE w == <<x>>
<1>1. DOMAIN w = {1} /\ w[1] = x /\ Depth(w, 1) = 0
  BY DepthOfOne
<1> HIDE DEF w
<1>2. Cut(w, sep) = IF x = sep THEN {1} ELSE {}
  BY <1>1 DEF Cut
<1> QED BY <1>2 DEF w

LEMMA ClosedOne ==
  ASSUME NEW x \in Token \ {"(", ")"}, NEW sep, x # sep
  PROVE  <<x>> \in Seq(Token) /\ Closed(<<x>>, sep)
  BY CutOfOne, BalancedOne, Zenon DEF Closed

LEMMA ClosedParens ==
  ASSUME NEW s \in Seq(Token), Balanced(s), NEW sep, sep \notin {"(", ")"}
  PROVE  Parens(s) \in Seq(Token) /\ Closed(Parens(s), sep)
<1> DEFINE u == Parens(s)
           n == Len(s)
<1>1. /\ u \in Seq(Token) /\ n \in Nat /\ DOMAIN u = 1..(n + 2) /\ u[n + 2] = ")"
      /\ \A i \in 1..(n + 1) : Depth(u, i) \in Int /\ Depth(u, i) >= 1
      /\ Balanced(u)
  BY ParensAre
<1> HIDE DEF u, n
<1>2. \A i \in 1..(n + 2) : i \in 1..(n + 1) \/ i = n + 2
  BY <1>1
<1>3. \A i \in DOMAIN u : ~(u[i] = sep /\ Depth(u, i) = 0)
  BY <1>1, <1>2
<1>4. Cut(u, sep) = {}
  BY <1>3 DEF Cut
<1> QED BY <1>1, <1>4 DEF Closed, u


LEMMA SamePart ==
  ASSUME NEW X, NEW s \in Seq(X), NEW u \in Seq(X), NEW i \in Nat, i >= 1, NEW j \in Nat,
         j <= Len(s), j <= Len(u), \A k \in 1..j : u[k] = s[k]
  PROVE  SubSeq(u, i, j) = SubSeq(s, i, j)
<1> DEFINE a == SubSeq(u, i, j)
           b == SubSeq(s, i, j)
           n == IF i <= j THEN j - i + 1 ELSE 0
<1>1. \A k \in i..j : k \in 1..j /\ u[k] \in X /\ s[k] \in X
  OBVIOUS
<1>2. /\ a \in Seq(X) /\ Len(a) = n /\ \A k \in 1..(j - i + 1) : a[k] = u[i + k - 1]
      /\ b \in Seq(X) /\ Len(b) = n /\ \A k \in 1..(j - i + 1) : b[k] = s[i + k - 1]
  BY <1>1, SubSeqProperties
<1> HIDE DEF a, b
<1>3. \A k \in 1..n : k \in 1..(j - i + 1) /\ i + k - 1 \in 1..j
  OBVIOUS
<1> HIDE DEF n
<1>4. \A k \in 1..n : a[k] = b[k]
  BY <1>2, <1>3
<1>5. a = b
  BY <1>2, <1>4, SeqEqual
<1> QED BY <1>5 DEF a, b

LEMMA PartIs ==
  ASSUME NEW X, NEW t \in Seq(X), NEW u \in Seq(X), NEW i \in Nat, i + Len(t) <= Len(u),
         \A k \in 1..Len(t) : u[i + k] = t[k]
  PROVE  SubSeq(u, i + 1, i + Len(t)) = t
<1> DEFINE n == Len(t)
           m == i + 1
           j == i + n
           a == SubSeq(u, m, j)
<1>1. n \in Nat /\ m \in Nat /\ j \in Nat /\ j - m + 1 = n /\ (m <= j <=> n # 0) /\ Len(u) \in Nat
  OBVIOUS
<1>2. \A k \in m..j : u[k] \in X
  OBVIOUS
<1>3. \A k \in 1..n : m + k - 1 = i + k
  OBVIOUS
<1> HIDE DEF n, m, j
<1>4. a \in Seq(X) /\ Len(a) = (IF m <= j THEN j - m + 1 ELSE 0) /\ \A k \in 1..(j - m + 1) : a[k] = u[m + k - 1]
  BY <1>1, <1>2, SubSeqProperties
<1> HIDE DEF a
<1>5. Len(a) = n
  BY <1>1, <1>4
<1>6. \A k \in 1..n : a[k] = t[k]
  BY <1>1, <1>3, <1>4 DEF n
<1>7. a = t
  BY <1>4, <1>5, <1>6, SeqEqual DEF n
<1> QED BY <1>7 DEF a, m, j, n

\* What is closed is one piece.
LEMMA SplitClosed ==
  ASSUME NEW t \in Seq(Token), NEW sep, Closed(t, sep)
  PROVE  Len(splitTopLevel(t, sep)) = 1 /\ splitTopLevel(t, sep)[1] = t
<1>1. splitTopLevel(t, sep) = Between(t, {})
  BY DEF splitTopLevel, Closed, Cut
<1>2. Cardinality({}) = 0
  BY FS_EmptySet
<1>3. Cuts(t, {})[1] = 0 /\ Cuts(t, {})[0 + 2] = Len(t) + 1
  <2>1. {} \in SUBSET DOMAIN t
    OBVIOUS
  <2> QED BY <1>2, <2>1, CutsAt
<1>4. /\ Len(Between(t, {})) = 1
      /\ Between(t, {})[1] = SubSeq(t, Cuts(t, {})[1] + 1, Cuts(t, {})[1 + 1] - 1)
  <2>1. Cardinality({}) \in Nat /\ Cardinality({}) + 1 = 1 /\ 1 \in 1..(Cardinality({}) + 1)
    BY <1>2
  <2> QED BY <2>1, BetweenAt
<1>5. Cuts(t, {})[1] + 1 = 1 /\ Cuts(t, {})[1 + 1] - 1 = Len(t)
  <2>1. 0 + 2 = 1 + 1 /\ (Len(t) + 1) - 1 = Len(t) /\ 0 + 1 = 1
    OBVIOUS
  <2> QED BY <1>3, <2>1
<1>6. SubSeq(t, 1, Len(t)) = t
  BY SubSeqFull
<1> QED BY <1>1, <1>4, <1>5, <1>6

\* A separator and something closed behind a sequence are one more piece.
LEMMA SplitOn ==
  ASSUME NEW s \in Seq(Token), NEW t \in Seq(Token), NEW sep \in Token \ {"(", ")"},
         Balanced(s), Closed(t, sep)
  PROVE  LET u == s \o <<sep>> \o t
             p == splitTopLevel(s, sep)
             q == splitTopLevel(u, sep)
         IN  /\ u \in Seq(Token) /\ Balanced(u) /\ Len(u) >= Len(s)
             /\ Len(p) \in Nat /\ Len(q) = Len(p) + 1
             /\ \A k \in 1..Len(p) : q[k] = p[k]
             /\ q[Len(p) + 1] = t
<1> DEFINE n == Len(s)
           x == <<sep>>
           w == s \o x
           u == w \o t
           C == Cut(s, sep)
           M == Cut(u, sep)
           c == Cardinality(C)
           a == Cuts(s, C)
           b == Cuts(u, M)
           p == splitTopLevel(s, sep)
           q == splitTopLevel(u, sep)
<1>1. x \in Seq(Token) /\ Len(x) = 1 /\ Balanced(x) /\ Cut(x, sep) = {1}
  BY OneToken, BalancedOne, CutOfOne
<1>2. p = Between(s, C) /\ q = Between(u, M)
  BY DEF splitTopLevel, Cut
<1> HIDE DEF x, p, q
<1>3. /\ w \in Seq(Token) /\ Len(w) = n + 1 /\ n \in Nat /\ Balanced(w)
      /\ \A i \in 1..n : w[i] = s[i]
  <2>1. Balanced(w)
    BY <1>1, BalancedJoined
  <2>2. w \in Seq(Token) /\ Len(w) = Len(s) + Len(x) /\ Len(s) \in Nat /\ \A i \in 1..Len(s) : w[i] = s[i]
    <3>1. x \in Seq(Token)
      BY <1>1
    <3> QED BY <3>1, SeqJoined
  <2> HIDE DEF w
  <2> QED BY <1>1, <2>1, <2>2
<1>4. Cut(w, sep) = C \cup {n + 1} /\ C \in SUBSET (1..n)
  <2>1. Cut(w, sep) = Onward(n, C, {1}) /\ C \in SUBSET (1..n)
    BY <1>1, CutJoined
  <2> HIDE DEF w, C, n
  <2> QED BY <2>1 DEF Onward
<1> HIDE DEF w
<1>5. /\ u \in Seq(Token) /\ Len(u) = (n + 1) + Len(t) /\ Len(t) \in Nat /\ Balanced(u)
      /\ \A i \in 1..(n + 1) : u[i] = w[i]
      /\ \A j \in 1..Len(t) : u[(n + 1) + j] = t[j]
  <2>1. Balanced(t)
    BY DEF Closed
  <2>2. Balanced(u)
    BY <1>3, <2>1, BalancedJoined
  <2>3. /\ u \in Seq(Token) /\ Len(u) = Len(w) + Len(t) /\ Len(t) \in Nat
        /\ \A i \in 1..Len(w) : u[i] = w[i]
        /\ \A j \in 1..Len(t) : u[Len(w) + j] = t[j]
    <3>1. w \in Seq(Token)
      BY <1>3
    <3> QED BY <3>1, SeqJoined
  <2> HIDE DEF u, n
  <2> QED BY <1>3, <2>2, <2>3
<1>6. M = C \cup {n + 1}
  <2>1. Cut(u, sep) = Onward(Len(w), Cut(w, sep), Cut(t, sep)) /\ Cut(t, sep) = {}
    BY <1>3, CutJoined DEF Closed
  <2> HIDE DEF u, C, n
  <2> QED BY <1>4, <2>1 DEF Onward, M
<1> HIDE DEF u
<1>7. /\ c \in Nat /\ Cardinality(M) = c + 1
      /\ \A k \in 1..c : InOrder(M)[k] = InOrder(C)[k]
      /\ InOrder(M)[c + 1] = n + 1
  <2> HIDE DEF C, M, n
  <2> QED BY <1>3, <1>4, <1>6, InOrderOn DEF c
<1>8. C \in SUBSET DOMAIN s /\ M \in SUBSET DOMAIN u
  BY DEF Cut
<1>9. /\ a[1] = 0 /\ a[c + 2] = n + 1
      /\ \A k \in 1..c : a[k + 1] = InOrder(C)[k]
  <2> HIDE DEF C
  <2> QED BY <1>8, CutsAt
<1>10. /\ b[1] = 0 /\ b[(c + 1) + 2] = Len(u) + 1
       /\ \A k \in 1..(c + 1) : b[k + 1] = InOrder(M)[k]
  <2>1. /\ b[1] = 0 /\ b[Cardinality(M) + 2] = Len(u) + 1
        /\ \A k \in 1..Cardinality(M) : b[k + 1] = InOrder(M)[k]
    <3> HIDE DEF M
    <3> QED BY <1>5, <1>8, CutsAt
  <2> QED BY <1>7, <2>1
<1>11. \A k \in 1..(c + 1) : a[k] \in 0..n /\ a[k + 1] \in 1..(n + 1)
  <2> HIDE DEF C
  <2> QED BY <1>8, CutsRange
<1>12. /\ Len(p) = c + 1
       /\ \A k \in 1..(c + 1) : p[k] = SubSeq(s, a[k] + 1, a[k + 1] - 1)
  <2> HIDE DEF C
  <2> QED BY <1>2, <1>7, BetweenAt
<1>13. /\ Len(q) = (c + 1) + 1
       /\ \A k \in 1..((c + 1) + 1) : q[k] = SubSeq(u, b[k] + 1, b[k + 1] - 1)
  <2>1. Cardinality(M) \in Nat
    BY <1>7
  <2>2. /\ Len(q) = Cardinality(M) + 1
        /\ \A k \in 1..(Cardinality(M) + 1) : q[k] = SubSeq(u, b[k] + 1, b[k + 1] - 1)
    <3> HIDE DEF M
    <3> QED BY <1>2, <2>1, BetweenAt
  <2> QED BY <1>7, <2>2
<1> HIDE DEF a, b, c, C, M, n
<1>14. \A k \in 1..(c + 2) : b[k] = a[k]
  <2> TAKE k \in 1..(c + 2)
  <2>1. CASE k = 1
    BY <1>9, <1>10, <2>1
  <2>2. CASE k = c + 2
    <3>1. c + 1 \in 1..(c + 1) /\ (c + 1) + 1 = c + 2
      BY <1>7
    <3> QED BY <1>7, <1>9, <1>10, <2>2, <3>1
  <2>3. CASE k # 1 /\ k # c + 2
    <3>1. k - 1 \in 1..c /\ k - 1 \in 1..(c + 1) /\ (k - 1) + 1 = k
      BY <1>7, <2>3
    <3>2. PICK i \in 1..c : i \in 1..(c + 1) /\ i + 1 = k
      BY <3>1
    <3> QED BY <1>7, <1>9, <1>10, <3>2
  <2> QED BY <2>1, <2>2, <2>3
<1>15. ASSUME NEW k \in 1..(c + 1)  PROVE q[k] = p[k]
  <2>1. k \in 1..((c + 1) + 1) /\ k \in 1..(c + 2) /\ k + 1 \in 1..(c + 2)
    BY <1>7
  <2>2. q[k] = SubSeq(u, a[k] + 1, a[k + 1] - 1)
    BY <1>13, <1>14, <2>1
  <2> DEFINE i == a[k] + 1
             j == a[k + 1] - 1
  <2>3. i \in Nat /\ i >= 1 /\ j \in Nat /\ j <= n /\ j <= Len(u)
    BY <1>3, <1>5, <1>11
  <2> HIDE DEF i, j
  <2>4. \A h \in 1..j : u[h] = s[h]
    <3>1. \A h \in 1..j : h \in 1..n /\ h \in 1..(n + 1)
      BY <1>3, <2>3
    <3> QED BY <1>3, <1>5, <3>1
  <2>5. SubSeq(u, i, j) = SubSeq(s, i, j)
    BY <1>5, <2>3, <2>4, SamePart DEF n
  <2> QED BY <1>12, <2>2, <2>5 DEF i, j
<1>16. q[(c + 1) + 1] = t
  <2>1. (c + 1) + 1 \in 1..((c + 1) + 1) /\ c + 2 \in 1..(c + 2) /\ (c + 1) + 1 = c + 2 /\ (c + 2) + 1 = (c + 1) + 2
    BY <1>7
  <2>2. q[(c + 1) + 1] = SubSeq(u, b[c + 2] + 1, b[(c + 1) + 2] - 1)
    BY <1>13, <2>1
  <2>3. b[c + 2] = n + 1
    BY <1>9, <1>14, <2>1
  <2>4. (Len(u) + 1) - 1 = (n + 1) + Len(t)
    BY <1>3, <1>5
  <2>5. q[(c + 1) + 1] = SubSeq(u, (n + 1) + 1, (n + 1) + Len(t))
    BY <1>10, <2>2, <2>3, <2>4
  <2> DEFINE m == n + 1
  <2>6. m \in Nat /\ m + Len(t) <= Len(u)
    BY <1>3, <1>5
  <2>7. SubSeq(u, m + 1, m + Len(t)) = t
    <3>1. \A j \in 1..Len(t) : u[m + j] = t[j]
      BY <1>5
    <3> HIDE DEF m
    <3> QED BY <1>5, <2>6, <3>1, PartIs
  <2> QED BY <2>5, <2>7
<1>17. Len(u) >= n
  BY <1>3, <1>5
<1>18. s \o <<sep>> \o t = u
  BY DEF u, w, x
<1> QED
  <2>1. /\ u \in Seq(Token) /\ Balanced(u) /\ Len(u) >= Len(s)
        /\ Len(p) \in Nat /\ Len(q) = Len(p) + 1
        /\ \A k \in 1..Len(p) : q[k] = p[k]
        /\ q[Len(p) + 1] = t
    BY <1>5, <1>7, <1>12, <1>13, <1>15, <1>16, <1>17 DEF n
  <2> QED BY <1>18, <2>1 DEF p, q


-----------------------------------------------------------------------------
(* What was joined is split again *)

\* Joined, part by part.
LEMMA JoinedSteps ==
  ASSUME NEW parts \in Seq(Seq(Token)), parts # <<>>, NEW sep \in Token
  PROVE  \E f : /\ f[0] = parts[1]
                /\ \A n \in 1..(Len(parts) - 1) : f[n] = f[n - 1] \o <<sep>> \o parts[n + 1]
                /\ Joined(parts, sep) = f[Len(parts) - 1]
<1> DEFINE L == Len(parts) - 1
           Y == Seq(Token)
           x == <<sep>>
           y == parts[1]
           G == [w \in Y \X (1..L) |-> w[1] \o x \o parts[w[2] + 1]]
           F(g) == [n \in 0..L |-> IF n = 0 THEN y ELSE g[n - 1] \o x \o parts[n + 1]]
           h == CHOOSE g : g = F(g)
<1>1. L \in Nat /\ y \in Y /\ \A n \in 1..L : parts[n + 1] \in Y
  OBVIOUS
<1>2. x \in Y
  BY OneToken
<1>3. Joined(parts, sep) = h[L]
  BY Zenon DEF Joined
<1>4. \A a, b \in Y : a \o x \o b \in Y
  BY <1>2
<1> HIDE DEF x, Y, y, L
<1>5. G \in [Y \X (1..L) -> Y]
  BY <1>1, <1>4
<1>6. \A b \in Y : \A n \in 1..L : G[<<b, n>>] = b \o x \o parts[n + 1]
  OBVIOUS
<1> HIDE DEF G
<1>7. PICK f \in [0..L -> Y] : f[0] = y /\ \A n \in 1..L : f[n] = G[<<f[n - 1], n>>]
  <2> HIDE DEF F, h
  <2>1. L \in Nat
    BY <1>1
  <2>2. Stepping(L, Y, y, G) # {}
    BY <1>1, <1>5, <2>1, StepByStep
  <2> QED BY <2>2 DEF Stepping
<1>8. f = F(f)
  <2>1. ASSUME NEW n \in 0..L
        PROVE  f[n] = IF n = 0 THEN y ELSE f[n - 1] \o x \o parts[n + 1]
    <3>1. CASE n = 0
      BY <1>7, <3>1
    <3>2. CASE n # 0
      <4>1. n \in 1..L /\ n - 1 \in 0..L
        BY <1>1, <3>2
      <4>2. f[n - 1] \in Y
        BY <1>7, <4>1
      <4>3. f[n] = G[<<f[n - 1], n>>]
        BY <1>7, <4>1
      <4>4. G[<<f[n - 1], n>>] = f[n - 1] \o x \o parts[n + 1]
        BY <1>6, <4>1, <4>2
      <4> QED BY <3>2, <4>3, <4>4
    <3> QED BY <3>1, <3>2
  <2> QED BY <1>7, <2>1
<1>9. h = F(h)
  BY <1>8
<1> HIDE DEF h
<1>10. h[0] = y /\ \A n \in 1..L : h[n] = h[n - 1] \o x \o parts[n + 1]
  <2>1. 0 \in 0..L /\ \A n \in 1..L : n \in 0..L /\ n # 0
    BY <1>1
  <2> QED BY <1>9, <2>1
<1> QED BY <1>3, <1>10 DEF L, y, x

LEMMA JoinedIs ==
  ASSUME NEW parts \in Seq(Seq(Token)), parts # <<>>, NEW sep \in Token \ {"(", ")"},
         \A k \in DOMAIN parts : Closed(parts[k], sep)
  PROVE  /\ Joined(parts, sep) \in Seq(Token) /\ Balanced(Joined(parts, sep))
         /\ Len(Joined(parts, sep)) >= Len(parts[1])
         /\ splitTopLevel(Joined(parts, sep), sep) = parts
<1> DEFINE L == Len(parts) - 1
<1>1. /\ L \in Nat /\ Len(parts) = L + 1 /\ DOMAIN parts = 1..(L + 1)
      /\ \A k \in 1..(L + 1) : parts[k] \in Seq(Token)
  OBVIOUS
<1>2. PICK f : /\ f[0] = parts[1]
               /\ \A n \in 1..L : f[n] = f[n - 1] \o <<sep>> \o parts[n + 1]
               /\ Joined(parts, sep) = f[L]
  BY JoinedSteps
<1> HIDE DEF L
<1> DEFINE S(n) == splitTopLevel(f[n], sep)
           Good(n) == /\ f[n] \in Seq(Token) /\ Balanced(f[n]) /\ Len(f[n]) >= Len(parts[1])
                      /\ Len(S(n)) = n + 1 /\ \A k \in 1..(n + 1) : S(n)[k] = parts[k]
           T == {n \in 0..L : Good(n)}
<1>3. 0 \in T
  <2>1. f[0] = parts[1] /\ parts[1] \in Seq(Token) /\ Closed(parts[1], sep) /\ 0 \in 0..L
    BY <1>1, <1>2
  <2>2. Len(S(0)) = 1 /\ S(0)[1] = parts[1]
    BY <2>1, SplitClosed
  <2>3. Balanced(f[0]) /\ Len(f[0]) >= Len(parts[1])
    <3>1. Len(parts[1]) \in Nat
      BY <2>1
    <3>2. Balanced(parts[1])
      BY <2>1 DEF Closed
    <3> QED BY <2>1, <3>1, <3>2
  <2>4. 0 + 1 = 1 /\ \A k \in 1..(0 + 1) : k = 1
    OBVIOUS
  <2> HIDE DEF S
  <2> QED BY <2>1, <2>2, <2>3, <2>4
<1>4. ASSUME NEW n \in 0..(L - 1), n \in T  PROVE n + 1 \in T
  <2>1. n \in Nat /\ n + 1 \in 1..L /\ n + 1 \in 0..L /\ (n + 1) - 1 = n /\ (n + 1) + 1 \in 1..(L + 1)
    BY <1>1
  <2>2. Good(n)
    BY <1>4
  <2> DEFINE s == f[n]
             t == parts[(n + 1) + 1]
  <2>3. s \in Seq(Token) /\ Balanced(s) /\ t \in Seq(Token) /\ Closed(t, sep)
    BY <1>1, <2>1, <2>2
  <2>4. f[n + 1] = s \o <<sep>> \o t
    BY <1>2, <2>1
  <2> HIDE DEF s, t
  <2> DEFINE u == s \o <<sep>> \o t
             p == splitTopLevel(s, sep)
             q == splitTopLevel(u, sep)
  <2>5. /\ u \in Seq(Token) /\ Balanced(u) /\ Len(u) >= Len(s)
        /\ Len(p) \in Nat /\ Len(q) = Len(p) + 1
        /\ \A k \in 1..Len(p) : q[k] = p[k]
        /\ q[Len(p) + 1] = t
    BY <2>3, SplitOn
  <2>6. f[n + 1] = u
    BY <2>4
  <2>7. S(n + 1) = q /\ S(n) = p
    BY <2>6 DEF s
  <2> HIDE DEF u, p, q, S
  <2>8. Len(p) = n + 1 /\ (\A k \in 1..(n + 1) : p[k] = parts[k]) /\ Len(s) >= Len(parts[1])
    BY <2>2, <2>7 DEF s
  <2>9. \A k \in 1..((n + 1) + 1) : q[k] = parts[k]
    <3> TAKE k \in 1..((n + 1) + 1)
    <3>1. CASE k = (n + 1) + 1
      BY <2>5, <2>8, <3>1 DEF t
    <3>2. CASE k # (n + 1) + 1
      <4>1. k \in 1..(n + 1)
        BY <2>1, <3>2
      <4> QED BY <2>5, <2>8, <4>1
    <3> QED BY <3>1, <3>2
  <2>10. Len(u) >= Len(parts[1])
    <3>1. Len(u) \in Nat /\ Len(s) \in Nat /\ Len(parts[1]) \in Nat
      <4>1. parts[1] \in Seq(Token)
        BY <1>1
      <4> QED BY <2>3, <2>5, <4>1
    <3> QED BY <2>5, <2>8, <3>1
  <2>11. Good(n + 1)
    <3>1. f[n + 1] \in Seq(Token) /\ Balanced(f[n + 1]) /\ Len(f[n + 1]) >= Len(parts[1])
      BY <2>5, <2>6, <2>10
    <3>2. Len(S(n + 1)) = (n + 1) + 1
      BY <2>5, <2>7, <2>8
    <3> QED BY <2>7, <2>9, <3>1, <3>2
  <2> QED BY <2>1, <2>11
<1> HIDE DEF T
<1>5. L \in T
  <2>1. 0..L \subseteq T
    BY <1>1, <1>3, <1>4, CountedUp
  <2> QED BY <1>1, <2>1
<1>6. Good(L)
  BY <1>5 DEF T
<1>7. S(L) = parts
  <2>1. S(L) \in Seq(Seq(Token))
    BY <1>6, SplitType
  <2> HIDE DEF S
  <2>2. Len(S(L)) = Len(parts) /\ \A k \in 1..Len(S(L)) : S(L)[k] = parts[k]
    BY <1>1, <1>6
  <2> QED BY <2>1, <2>2, SeqEqual
<1> QED BY <1>2, <1>6, <1>7

\* What is closed in every part is closed in all of them together.
LEMMA JoinedClosed ==
  ASSUME NEW parts \in Seq(Seq(Token)), parts # <<>>, NEW sep \in Token \ {"(", ")"},
         NEW other, other # sep, \A k \in DOMAIN parts : Closed(parts[k], other)
  PROVE  Closed(Joined(parts, sep), other)
<1> DEFINE L == Len(parts) - 1
<1>1. /\ L \in Nat /\ DOMAIN parts = 1..(L + 1)
      /\ \A k \in 1..(L + 1) : parts[k] \in Seq(Token)
  OBVIOUS
<1>2. PICK f : /\ f[0] = parts[1]
               /\ \A n \in 1..L : f[n] = f[n - 1] \o <<sep>> \o parts[n + 1]
               /\ Joined(parts, sep) = f[L]
  BY JoinedSteps
<1> HIDE DEF L
<1>3. <<sep>> \in Seq(Token) /\ Closed(<<sep>>, other)
  BY ClosedOne
<1> DEFINE T == {n \in 0..L : f[n] \in Seq(Token) /\ Closed(f[n], other)}
<1>4. 0 \in T
  <2>1. f[0] = parts[1] /\ parts[1] \in Seq(Token) /\ Closed(parts[1], other) /\ 0 \in 0..L
    BY <1>1, <1>2
  <2> QED BY <2>1
<1>5. ASSUME NEW n \in 0..(L - 1), n \in T  PROVE n + 1 \in T
  <2>1. n + 1 \in 1..L /\ n + 1 \in 0..L /\ (n + 1) - 1 = n /\ (n + 1) + 1 \in 1..(L + 1)
    BY <1>1
  <2>2. f[n + 1] = (f[n] \o <<sep>>) \o parts[(n + 1) + 1]
    BY <1>2, <2>1
  <2>3. f[n] \in Seq(Token) /\ Closed(f[n], other)
    BY <1>5
  <2>4. f[n] \o <<sep>> \in Seq(Token) /\ Closed(f[n] \o <<sep>>, other)
    BY <1>3, <2>3, ClosedJoined
  <2> DEFINE w == f[n] \o <<sep>>
             t == parts[(n + 1) + 1]
  <2>5. t \in Seq(Token) /\ Closed(t, other) /\ w \in Seq(Token) /\ Closed(w, other) /\ f[n + 1] = w \o t
    BY <1>1, <2>1, <2>2, <2>4
  <2> HIDE DEF w, t
  <2>6. w \o t \in Seq(Token) /\ Closed(w \o t, other)
    BY <2>5, ClosedJoined
  <2> QED BY <2>1, <2>5, <2>6
<1> HIDE DEF T
<1>6. L \in T
  <2>1. 0..L \subseteq T
    BY <1>1, <1>4, <1>5, CountedUp
  <2> QED BY <1>1, <2>1
<1> QED BY <1>2, <1>6 DEF T


-----------------------------------------------------------------------------
(* A documented column is read as it is meant *)

Separators == {",", ":"}

LEMMA OrdinaryWord ==
  \A w \in Ordinary \cup Valued \cup {"notNull", "null", "unsigned"} :
    /\ w \in Token \ {"(", ")"} /\ \A sep \in Separators : w # sep
<1>1. \A w \in Ordinary : w \in Token /\ w \notin {"(", ")", ",", ":"}
  BY Tokens DEF Ordinary, Symbols
<1>2. \A w \in Valued \cup {"notNull", "null", "unsigned"} : w \in Token /\ w \notin {"(", ")", ",", ":"}
  BY Tokens DEF Valued
<1> QED BY <1>1, <1>2 DEF Separators

LEMMA SeparatorToken == \A sep \in Separators : sep \in Token \ {"(", ")"}
  BY Tokens DEF Separators

LEMMA WordClosed ==
  ASSUME NEW w \in Ordinary \cup Valued \cup {"notNull", "null", "unsigned"}
  PROVE  <<w>> \in Seq(Token) /\ \A sep \in Separators : Closed(<<w>>, sep)
<1>1. w \in Token \ {"(", ")"} /\ \A sep \in Separators : w # sep
  BY OrdinaryWord
<1> QED BY <1>1, OneToken, ClosedOne

\* A word with something in parentheses behind it.
LEMMA WordAndParens ==
  ASSUME NEW w \in Ordinary \cup Valued, NEW s \in Seq(Token), Balanced(s)
  PROVE  LET u == <<w>> \o Parens(s)
         IN  /\ u \in Seq(Token) /\ Len(u) = Len(s) + 3 /\ Len(s) \in Nat
             /\ u[1] = w /\ u[2] = "(" /\ u[Len(u)] = ")"
             /\ SubSeq(u, 1, 1) = <<w>> /\ SubSeq(u, 3, Len(u) - 1) = s
             /\ \A sep \in Separators : Closed(u, sep)
<1> DEFINE a == <<w>>
           p == Parens(s)
           n == Len(s)
           u == a \o p
<1>1. a \in Seq(Token) /\ Len(a) = 1 /\ a[1] = w /\ \A sep \in Separators : Closed(a, sep)
  <2>1. w \in Token
    BY OrdinaryWord
  <2> QED BY <2>1, OneToken, WordClosed
<1>2. /\ p \in Seq(Token) /\ Len(p) = n + 2 /\ n \in Nat
      /\ p[1] = "(" /\ p[n + 2] = ")" /\ \A i \in 1..n : p[i + 1] = s[i]
  BY ParensAre
<1>3. \A sep \in Separators : Closed(p, sep)
  BY SeparatorToken, ClosedParens
<1> HIDE DEF a, p
<1>4. \A sep \in Separators : Closed(u, sep)
  <2>1. a \in Seq(Token) /\ p \in Seq(Token)
    BY <1>1, <1>2
  <2> QED BY <1>1, <1>3, <2>1, ClosedJoined
<1>5. /\ u \in Seq(Token) /\ Len(u) = Len(a) + Len(p)
      /\ \A i \in 1..Len(a) : u[i] = a[i]
      /\ \A j \in 1..Len(p) : u[Len(a) + j] = p[j]
  <2>1. a \in Seq(Token) /\ p \in Seq(Token)
    BY <1>1, <1>2
  <2> QED BY <2>1, SeqJoined
<1> HIDE DEF u, n
<1>6. Len(u) = n + 3 /\ u[1] = w /\ \A j \in 1..(n + 2) : u[1 + j] = p[j]
  BY <1>1, <1>2, <1>5
<1>7. u[2] = "(" /\ u[n + 3] = ")" /\ \A i \in 1..n : u[2 + i] = s[i]
  <2>1. 1 \in 1..(n + 2) /\ n + 2 \in 1..(n + 2) /\ 1 + 1 = 2 /\ 1 + (n + 2) = n + 3
    BY <1>2
  <2>2. \A i \in 1..n : i + 1 \in 1..(n + 2) /\ 1 + (i + 1) = 2 + i
    BY <1>2
  <2> QED BY <1>2, <1>6, <2>1, <2>2
<1>8. SubSeq(u, 3, Len(u) - 1) = s
  <2>1. 2 \in Nat /\ 2 + n <= Len(u) /\ 2 + 1 = 3 /\ Len(u) - 1 = 2 + n
    BY <1>2, <1>6
  <2>2. SubSeq(u, 2 + 1, 2 + n) = s
    BY <1>5, <1>7, <2>1, PartIs DEF n
  <2> QED BY <2>1, <2>2
<1>9. SubSeq(u, 1, 1) = a
  <2>1. 0 \in Nat /\ 0 + Len(a) <= Len(u) /\ 0 + 1 = 1 /\ 0 + Len(a) = 1
    BY <1>1, <1>2, <1>6
  <2>2. \A k \in 1..Len(a) : u[0 + k] = a[k]
    <3>1. \A k \in 1..1 : k = 1 /\ 0 + k = 1
      OBVIOUS
    <3> QED BY <1>1, <1>6, <3>1
  <2>3. SubSeq(u, 0 + 1, 0 + Len(a)) = a
    BY <1>1, <1>5, <2>1, <2>2, PartIs
  <2> QED BY <2>1, <2>3
<1> QED BY <1>2, <1>4, <1>5, <1>6, <1>7, <1>8, <1>9 DEF u, n, a, p

LEMMA WordsAre ==
  ASSUME NEW args \in Seq(Ordinary)
  PROVE  /\ Words(args) \in Seq(Seq(Token)) /\ Len(Words(args)) = Len(args)
         /\ DOMAIN Words(args) = DOMAIN args
         /\ \A k \in DOMAIN Words(args) : Words(args)[k] = <<args[k]>> /\ Closed(Words(args)[k], ",")
<1> DEFINE n == Len(args)
           v == Words(args)
<1>1. n \in Nat /\ DOMAIN args = 1..n /\ \A k \in 1..n : args[k] \in Ordinary
  BY SeqMembers
<1>2. \A k \in 1..n : <<args[k]>> \in Seq(Token) /\ Closed(<<args[k]>>, ",")
  <2>1. "," \in Separators
    BY DEF Separators
  <2> QED BY <1>1, <2>1, WordClosed
<1>3. v = [k \in 1..n |-> <<args[k]>>]
  BY <1>1 DEF Words
<1> HIDE DEF v, n
<1>4. v \in [1..n -> Seq(Token)] /\ DOMAIN v = 1..n
  BY <1>2, <1>3
<1>5. v \in Seq(Seq(Token)) /\ Len(v) = n
  BY <1>1, <1>4, SeqMade
<1>6. \A k \in 1..n : v[k] = <<args[k]>>
  BY <1>3
<1>7. \A k \in 1..n : Closed(v[k], ",")
  BY <1>2, <1>6
<1> QED BY <1>1, <1>4, <1>5, <1>6, <1>7 DEF v, n

LEMMA NoWords == Words(<<>>) = <<>>
<1> DEFINE e == <<>>
<1>1. e \in Seq(Ordinary) /\ Len(e) = 0
  OBVIOUS
<1> HIDE DEF e
<1>2. Words(e) \in Seq(Seq(Token)) /\ Len(Words(e)) = 0
  BY <1>1, WordsAre
<1>3. Words(e) = <<>>
  BY <1>2
<1> QED BY <1>3 DEF e

LEMMA TypeIsRead ==
  ASSUME NEW c, c.type \in Ordinary, c.args \in Seq(Ordinary)
  PROVE  /\ WrittenType(c) \in Seq(Token)
         /\ \A sep \in Separators : Closed(WrittenType(c), sep)
         /\ parseType(WrittenType(c)) = [name |-> <<c.type>>, args |-> Words(c.args)]
<1> DEFINE a == <<c.type>>
           u == WrittenType(c)
<1>1. a \in Seq(Token) /\ \A sep \in Separators : Closed(a, sep)
  BY WordClosed
<1>2. c.type # "("
  BY OrdinaryWord
<1>3. CASE c.args = <<>>
  <2>1. u = a
    <3>1. u = a \o <<>>
      BY <1>3 DEF WrittenType
    <3> HIDE DEF a
    <3> QED BY <1>1, <3>1
  <2>2. {i \in DOMAIN a : a[i] = "("} = {}
    BY <1>2
  <2> HIDE DEF a, u
  <2>3. parseType(u) = [name |-> a, args |-> <<>>]
    BY <2>1, <2>2 DEF parseType
  <2> QED BY <1>1, <1>3, <2>1, <2>3, NoWords DEF a, u
<1>4. CASE c.args # <<>>
  <2> DEFINE v == Words(c.args)
             s == Joined(v, ",")
             open == {i \in DOMAIN u : u[i] = "("}
  <2>1. /\ v \in Seq(Seq(Token)) /\ v # <<>> /\ \A k \in DOMAIN v : Closed(v[k], ",")
    <3>1. Len(c.args) # 0
      BY <1>4
    <3>2. v \in Seq(Seq(Token)) /\ Len(v) = Len(c.args) /\ \A k \in DOMAIN v : Closed(v[k], ",")
      BY WordsAre
    <3> HIDE DEF v
    <3> QED BY <3>1, <3>2
  <2>2. "," \in Token \ {"(", ")"}
    BY SeparatorToken DEF Separators
  <2> HIDE DEF v
  <2>3. s \in Seq(Token) /\ Balanced(s) /\ splitTopLevel(s, ",") = v
    BY <2>1, <2>2, JoinedIs
  <2>4. u = a \o Parens(s)
    BY <1>4 DEF WrittenType, v
  <2> HIDE DEF s
  <2>5. /\ u \in Seq(Token) /\ Len(u) = Len(s) + 3 /\ Len(s) \in Nat
        /\ u[1] = c.type /\ u[2] = "(" /\ u[Len(u)] = ")"
        /\ SubSeq(u, 1, 1) = a /\ SubSeq(u, 3, Len(u) - 1) = s
        /\ \A sep \in Separators : Closed(u, sep)
    <3> DEFINE w == c.type
               r == <<w>> \o Parens(s)
    <3>1. w \in Ordinary \cup Valued
      OBVIOUS
    <3> HIDE DEF w
    <3>2. /\ r \in Seq(Token) /\ Len(r) = Len(s) + 3 /\ Len(s) \in Nat
          /\ r[1] = w /\ r[2] = "(" /\ r[Len(r)] = ")"
          /\ SubSeq(r, 1, 1) = <<w>> /\ SubSeq(r, 3, Len(r) - 1) = s
          /\ \A sep \in Separators : Closed(r, sep)
      BY <2>3, <3>1, WordAndParens
    <3>3. u = r /\ a = <<w>>
      BY <2>4 DEF w
    <3> HIDE DEF r, u, a
    <3> QED BY <3>2, <3>3 DEF w
  <2> HIDE DEF u, a
  <2>6. 2 \in open /\ \A i \in open : i \in Nat /\ 2 <= i
    <3>1. DOMAIN u = 1..Len(u) /\ Len(u) \in Nat /\ 2 <= Len(u)
      BY <2>5
    <3>2. 2 \in open
      BY <2>5, <3>1
    <3>3. \A i \in open : i \in 1..Len(u) /\ i # 1
      BY <1>2, <2>5, <3>1
    <3> QED BY <3>2, <3>3
  <2> HIDE DEF open
  <2>7. Min(open) = 2
    <3>1. \A x \in open : (\A y \in open : x <= y) <=> x = 2
      BY <2>6
    <3> QED BY <2>6, <3>1 DEF Min
  <2>8. open # {} /\ Last(u) = ")"
    BY <2>5, <2>6 DEF Last
  <2>9. parseType(u) = [name |-> SubSeq(u, 1, Min(open) - 1),
                        args |-> splitTopLevel(SubSeq(u, Min(open) + 1, Len(u) - 1), ",")]
    BY <2>8 DEF parseType, open
  <2>10. parseType(u) = [name |-> a, args |-> v]
    <3>1. Min(open) - 1 = 1 /\ Min(open) + 1 = 3
      BY <2>7
    <3> QED BY <2>3, <2>5, <2>9, <3>1
  <2> QED BY <2>5, <2>10 DEF u, a, v
<1> QED BY <1>3, <1>4


LEMMA ModifierIsRead ==
  ASSUME NEW m, m.word \in Valued \cup {"notNull", "null", "unsigned"},
         m.value \in Seq(STRING), Balanced(m.value)
  PROVE  /\ WrittenModifier(m) \in Seq(Token)
         /\ \A sep \in Separators : Closed(WrittenModifier(m), sep)
         /\ Known(WrittenModifier(m)) /\ CallFor(WrittenModifier(m)) = CallMeant(m)
         /\ CallMeant(m).call \in {"NotNull", "Null"} <=> m.word \in {"notNull", "null"}
<1> DEFINE w == m.word
           u == WrittenModifier(m)
<1>1. CASE w \in Valued
  <2> DEFINE s == m.value
             r == <<w>> \o Parens(s)
  <2>1. u = r
    BY <1>1 DEF WrittenModifier
  <2>2. s \in Seq(Token) /\ Balanced(s)
    BY Tokens
  <2>3. w \in Ordinary \cup Valued
    BY <1>1
  <2>4. CallMeant(m) = [call |-> IF w = "default" THEN "DefaultValue" ELSE "DefaultExpression", value |-> s]
    <3>1. w \in {"default", "defaultExpression"}
      BY <1>1 DEF Valued
    <3> QED BY <3>1 DEF CallMeant, Valued
  <2> HIDE DEF w, s, u
  <2>5. /\ r \in Seq(Token) /\ Len(r) = Len(s) + 3 /\ Len(s) \in Nat
        /\ r[1] = w /\ r[2] = "(" /\ r[Len(r)] = ")"
        /\ SubSeq(r, 3, Len(r) - 1) = s
        /\ \A sep \in Separators : Closed(r, sep)
    BY <2>2, <2>3, WordAndParens
  <2> HIDE DEF r
  <2>6. Len(u) > 2 /\ Len(u) # 1 /\ Last(u) = ")" /\ u[1] = w /\ u[2] = "(" /\ SubSeq(u, 3, Len(u) - 1) = s
    BY <2>1, <2>5 DEF Last
  <2>7. w \in DOMAIN WithValue /\ WithValue[w] = IF w = "default" THEN "DefaultValue" ELSE "DefaultExpression"
    BY <1>1 DEF WithValue, Valued
  <2>8. Known(u)
    BY <2>6, <2>7 DEF Known
  <2>9. CallFor(u) = [call |-> WithValue[w], value |-> s]
    BY <2>6 DEF CallFor
  <2>10. CallFor(u) = CallMeant(m)
    BY <2>4, <2>7, <2>9
  <2>11. CallMeant(m).call \notin {"NotNull", "Null"} /\ w \notin {"notNull", "null"}
    BY <1>1, <2>4 DEF Valued
  <2> QED BY <2>1, <2>5, <2>8, <2>10, <2>11 DEF u, w
<1>2. CASE w \notin Valued
  <2>1. w \in {"notNull", "null", "unsigned"}
    BY <1>2
  <2> DEFINE a == <<w>>
  <2>2. a \in Seq(Token) /\ \A sep \in Separators : Closed(a, sep)
    BY <2>1, WordClosed
  <2>3. u = a
    <3>1. u = a \o <<>>
      BY <1>2 DEF WrittenModifier
    <3> HIDE DEF a
    <3> QED BY <2>2, <3>1
  <2>4. Len(a) = 1 /\ a[1] = w
    OBVIOUS
  <2> HIDE DEF a, u, w
  <2>5. w \in DOMAIN Plain
    BY <2>1 DEF Plain
  <2>6. Known(u)
    BY <2>3, <2>4, <2>5 DEF Known
  <2>7. CallFor(u) = [call |-> Plain[w], value |-> <<>>]
    BY <2>3, <2>4 DEF CallFor
  <2>8. /\ w = "notNull" => Plain[w] = "NotNull"
        /\ w = "null" => Plain[w] = "Null"
        /\ w = "unsigned" => Plain[w] = "Unsigned"
    BY DEF Plain
  <2>9. CallMeant(m) = [call |-> Plain[w], value |-> <<>>]
    <3>1. /\ w = "notNull" => CallMeant(m) = [call |-> "NotNull", value |-> <<>>]
          /\ w = "null" => CallMeant(m) = [call |-> "Null", value |-> <<>>]
          /\ w = "unsigned" => CallMeant(m) = [call |-> "Unsigned", value |-> <<>>]
      BY <1>2 DEF CallMeant, w
    <3> QED BY <2>1, <2>8, <3>1
  <2>10. CallMeant(m).call \in {"NotNull", "Null"} <=> w \in {"notNull", "null"}
    <3>1. CallMeant(m).call = Plain[w]
      BY <2>9
    <3> QED BY <2>1, <2>8, <3>1
  <2>11. CallFor(u) = CallMeant(m)
    BY <2>7, <2>9
  <2> QED BY <2>2, <2>3, <2>6, <2>10, <2>11 DEF u, w
<1> QED BY <1>1, <1>2

\* All of a sequence picked in order is that sequence.
LEMMA PickAll ==
  ASSUME NEW X, NEW s \in Seq(X)
  PROVE  Pick(s, DOMAIN s) = s
<1> DEFINE n == Len(s)
           p == Pick(s, DOMAIN s)
<1>1. n \in Nat /\ DOMAIN s = 1..n
  OBVIOUS
<1>2. \A k \in 0..n : IsFiniteSet(1..k) /\ Cardinality(1..k) = k
  <2> TAKE k \in 0..n
  <2>1. 1 \in Int /\ k \in Int /\ k >= 0
    BY <1>1
  <2>2. Cardinality(1..k) = IF 1 > k THEN 0 ELSE k - 1 + 1
    BY <2>1, FS_Interval
  <2> QED BY <2>1, <2>2, FS_Interval
<1>3. /\ p \in Seq(X) /\ Len(p) = Cardinality(DOMAIN s)
      /\ \A k \in DOMAIN s : p[Rank(DOMAIN s, k)] = s[k]
  <2>1. DOMAIN s \in SUBSET DOMAIN s
    OBVIOUS
  <2> QED BY <2>1, PickType
<1> HIDE DEF p, n
<1>4. \A k \in 1..n : Rank(1..n, k) = k
  <2> TAKE k \in 1..n
  <2>1. {j \in 1..n : j <= k} = 1..k /\ k \in 0..n
    BY <1>1
  <2> QED BY <1>2, <2>1 DEF Rank
<1>5. n \in 0..n
  BY <1>1
<1>6. Len(p) = n /\ \A k \in 1..n : p[k] = s[k]
  BY <1>1, <1>2, <1>3, <1>4, <1>5
<1>7. p = s
  BY <1>3, <1>6, SeqEqual DEF n
<1> QED BY <1>7 DEF p

\* The columns that are documented, member by member.
LEMMA DocumentedIs ==
  ASSUME NEW c \in Documented
  PROVE  /\ c.name \in Ordinary /\ c.type \in Ordinary /\ c.args \in Seq(Ordinary)
         /\ Len(c.modifiers) \in Nat /\ DOMAIN c.modifiers = 1..Len(c.modifiers)
         /\ \A k \in 1..Len(c.modifiers) :
              /\ c.modifiers[k].word \in Valued \cup {"notNull", "null", "unsigned"}
              /\ c.modifiers[k].value \in Seq(STRING) /\ Balanced(c.modifiers[k].value)
<1> DEFINE V == {s \in Seq(STRING) : Balanced(s)}
           W == Valued \cup {"notNull", "null", "unsigned"}
           M == [word : W, value : V]
<1>1. c \in [name : Ordinary, type : Ordinary, args : Seq(Ordinary), modifiers : Seq(M)]
  BY DEF Documented
<1>2. \A m \in M : m.word \in W /\ m.value \in V
  OBVIOUS
<1>3. \A v \in V : v \in Seq(STRING) /\ Balanced(v)
  OBVIOUS
<1> HIDE DEF V, W, M
<1>4. c.name \in Ordinary /\ c.type \in Ordinary /\ c.args \in Seq(Ordinary) /\ c.modifiers \in Seq(M)
  BY <1>1
<1>5. /\ Len(c.modifiers) \in Nat /\ DOMAIN c.modifiers = 1..Len(c.modifiers)
      /\ \A k \in 1..Len(c.modifiers) : c.modifiers[k] \in M
  BY <1>4, SeqMembers
<1> QED BY <1>2, <1>3, <1>4, <1>5 DEF W

LEMMA PartsAre ==
  ASSUME NEW c \in Documented
  PROVE  LET ms == [k \in DOMAIN c.modifiers |-> WrittenModifier(c.modifiers[k])]
         IN  /\ ms \in Seq(Seq(Token)) /\ Len(ms) = Len(c.modifiers)
             /\ Parts(c) \in Seq(Seq(Token)) /\ Len(Parts(c)) = Len(ms) + 2 /\ Len(ms) \in Nat
             /\ Parts(c)[1] = <<c.name>> /\ Parts(c)[2] = WrittenType(c)
             /\ SubSeq(Parts(c), 3, Len(Parts(c))) = ms
             /\ \A sep \in Separators : \A k \in DOMAIN Parts(c) : Closed(Parts(c)[k], sep)
<1> DEFINE n == Len(c.modifiers)
           ms == [k \in DOMAIN c.modifiers |-> WrittenModifier(c.modifiers[k])]
           a == <<c.name>>
           t == WrittenType(c)
           h == <<a, t>>
           p == h \o ms
<1>1. p = Parts(c)
  BY DEF Parts
<1>2. n \in Nat /\ DOMAIN ms = 1..n
  BY DocumentedIs
<1>3. a \in Seq(Token) /\ \A sep \in Separators : Closed(a, sep)
  BY DocumentedIs, WordClosed
<1>4. t \in Seq(Token) /\ \A sep \in Separators : Closed(t, sep)
  BY DocumentedIs, TypeIsRead
<1>5. \A k \in 1..n : /\ WrittenModifier(c.modifiers[k]) \in Seq(Token)
                      /\ \A sep \in Separators : Closed(WrittenModifier(c.modifiers[k]), sep)
  BY DocumentedIs, ModifierIsRead
<1>6. \A k \in 1..n : ms[k] = WrittenModifier(c.modifiers[k])
  BY <1>2
<1> HIDE DEF a, t, n
<1>7. ms \in [1..n -> Seq(Token)]
  BY <1>2, <1>5, <1>6
<1> HIDE DEF ms
<1>8. ms \in Seq(Seq(Token)) /\ Len(ms) = n
  BY <1>2, <1>7, SeqMade
<1>9. h \in Seq(Seq(Token)) /\ Len(h) = 2 /\ h[1] = a /\ h[2] = t
  BY <1>3, <1>4
<1> HIDE DEF h
<1>10. /\ p \in Seq(Seq(Token)) /\ Len(p) = Len(h) + Len(ms) /\ DOMAIN p = 1..(Len(h) + Len(ms))
       /\ \A i \in 1..Len(h) : p[i] = h[i]
       /\ \A j \in 1..Len(ms) : p[Len(h) + j] = ms[j]
  <2>1. h \in Seq(Seq(Token)) /\ ms \in Seq(Seq(Token))
    BY <1>8, <1>9
  <2> QED BY <2>1, SeqJoined
<1> HIDE DEF p
<1>11. /\ Len(p) = n + 2 /\ DOMAIN p = 1..(n + 2) /\ p[1] = a /\ p[2] = t
       /\ \A j \in 1..n : p[2 + j] = ms[j]
  BY <1>2, <1>8, <1>9, <1>10
<1>12. SubSeq(p, 3, Len(p)) = ms
  <2>1. 2 \in Nat /\ 2 + Len(ms) <= Len(p) /\ 2 + 1 = 3 /\ 2 + Len(ms) = Len(p)
    BY <1>2, <1>8, <1>11
  <2>2. SubSeq(p, 2 + 1, 2 + Len(ms)) = ms
    BY <1>8, <1>10, <1>11, <2>1, PartIs
  <2> QED BY <2>1, <2>2
<1>13. \A sep \in Separators : \A k \in DOMAIN p : Closed(p[k], sep)
  <2> TAKE sep \in Separators
  <2> TAKE k \in DOMAIN p
  <2>1. CASE k = 1
    BY <1>3, <1>11, <2>1
  <2>2. CASE k = 2
    BY <1>4, <1>11, <2>2
  <2>3. CASE k \notin {1, 2}
    <3>1. k - 2 \in 1..n /\ k = 2 + (k - 2)
      BY <1>2, <1>11, <2>3
    <3>2. PICK j \in 1..n : k = 2 + j
      BY <3>1
    <3>3. p[k] = WrittenModifier(c.modifiers[j])
      BY <1>6, <1>11, <3>2
    <3> QED BY <1>5, <3>2, <3>3
  <2> QED BY <2>1, <2>2, <2>3
<1> QED BY <1>1, <1>2, <1>8, <1>10, <1>11, <1>12, <1>13 DEF n, ms, a, t


\* The chain of calls that a documented column is written with.
LEMMA ColumnIsRead ==
  ASSUME NEW c \in Documented
  PROVE  ColumnCode(Field(Parts(c))) = Meant(c) /\ ~(Len(Parts(c)) < 2)
<1> DEFINE n == Len(c.modifiers)
           ms == [k \in DOMAIN c.modifiers |-> WrittenModifier(c.modifiers[k])]
           f == Field(Parts(c))
           S == {k \in DOMAIN ms : Known(ms[k])}
           calls == [k \in DOMAIN c.modifiers |-> CallMeant(c.modifiers[k])]
           null == [call |-> "Null", value |-> <<>>]
           words == {c.modifiers[k].word : k \in DOMAIN c.modifiers}
<1>1. /\ ms \in Seq(Seq(Token)) /\ Len(ms) = n
      /\ Len(Parts(c)) = Len(ms) + 2 /\ Len(ms) \in Nat
      /\ Parts(c)[1] = <<c.name>> /\ Parts(c)[2] = WrittenType(c)
      /\ SubSeq(Parts(c), 3, Len(Parts(c))) = ms
  BY PartsAre
<1>2. n \in Nat /\ DOMAIN c.modifiers = 1..n /\ DOMAIN ms = 1..n
  BY DocumentedIs
<1>3. \A k \in 1..n : /\ ms[k] = WrittenModifier(c.modifiers[k])
                      /\ calls[k] = CallMeant(c.modifiers[k])
  BY <1>2
<1>4. \A k \in 1..n :
        /\ Known(WrittenModifier(c.modifiers[k]))
        /\ CallFor(WrittenModifier(c.modifiers[k])) = CallMeant(c.modifiers[k])
        /\ CallMeant(c.modifiers[k]).call \in {"NotNull", "Null"} <=> c.modifiers[k].word \in {"notNull", "null"}
  BY DocumentedIs, ModifierIsRead
<1>5. /\ f.name = <<c.name>> /\ f.type = parseType(WrittenType(c)) /\ f.modifiers = ms
      /\ f.type.name = <<c.type>> /\ f.type.args = Words(c.args)
  <2>1. f = [name |-> <<c.name>>, type |-> parseType(WrittenType(c)), modifiers |-> ms]
    <3> HIDE DEF ms
    <3> QED BY <1>1 DEF Field
  <2>2. parseType(WrittenType(c)) = [name |-> <<c.type>>, args |-> Words(c.args)]
    BY DocumentedIs, TypeIsRead
  <2> HIDE DEF f, ms
  <2> QED BY <2>1, <2>2
<1>6. S = DOMAIN ms
  <2>1. \A k \in 1..n : Known(ms[k])
    <3> TAKE k \in 1..n
    <3>1. ms[k] = WrittenModifier(c.modifiers[k]) /\ Known(WrittenModifier(c.modifiers[k]))
      BY <1>3, <1>4
    <3> HIDE DEF ms
    <3> QED BY <3>1, Zenon
  <2> HIDE DEF ms, n
  <2> QED BY <1>2, <2>1
<1>7. Pick(ms, S) = ms
  <2> HIDE DEF ms
  <2> QED BY <1>1, <1>6, PickAll, Zenon
<1>8. [i \in DOMAIN ms |-> CallFor(ms[i])] = calls
  <2>1. \A k \in 1..n : CallFor(ms[k]) = CallMeant(c.modifiers[k])
    <3> TAKE k \in 1..n
    <3>1. ms[k] = WrittenModifier(c.modifiers[k])
          /\ CallFor(WrittenModifier(c.modifiers[k])) = CallMeant(c.modifiers[k])
      BY <1>3, <1>4
    <3> HIDE DEF ms
    <3> QED BY <3>1, Zenon
  <2> HIDE DEF ms, n
  <2> QED BY <1>2, <2>1
<1>9. DOMAIN calls = 1..n
  BY <1>2
<1>10. (\E i \in DOMAIN calls : calls[i].call \in {"NotNull", "Null"}) <=> words \cap {"null", "notNull"} # {}
  <2>1. \A k \in 1..n : calls[k].call \in {"NotNull", "Null"} <=> c.modifiers[k].word \in {"null", "notNull"}
    BY <1>3, <1>4
  <2>2. (\E k \in 1..n : c.modifiers[k].word \in {"null", "notNull"}) <=> words \cap {"null", "notNull"} # {}
    BY <1>2
  <2> HIDE DEF calls, words, n
  <2> QED BY <1>9, <2>1, <2>2
<1>11. ColumnCode(f) = [name |-> f.name, builder |-> f.type.name, args |-> f.type.args,
                        calls |-> IF \E i \in DOMAIN calls : calls[i].call \in {"NotNull", "Null"}
                                  THEN calls ELSE Append(calls, null)]
  <2> DEFINE known == Pick(f.modifiers, {k \in DOMAIN f.modifiers : Known(f.modifiers[k])})
             q == [i \in DOMAIN known |-> CallFor(known[i])]
  <2>1. known = ms
    <3> HIDE DEF f, ms
    <3>1. known = Pick(ms, {k \in DOMAIN ms : Known(ms[k])})
      BY <1>5
    <3> QED BY <1>7, <3>1 DEF S
  <2>2. q = calls
    <3> HIDE DEF known, ms, calls
    <3> QED BY <1>8, <2>1
  <2>3. ColumnCode(f) = [name |-> f.name, builder |-> f.type.name, args |-> f.type.args,
                         calls |-> IF \E i \in DOMAIN q : q[i].call \in {"NotNull", "Null"}
                                   THEN q ELSE Append(q, null)]
    BY DEF ColumnCode
  <2> HIDE DEF q, calls, f, null
  <2> QED BY <2>2, <2>3
<1>12. Meant(c) = [name |-> <<c.name>>, builder |-> <<c.type>>, args |-> Words(c.args),
                   calls |-> IF words \cap {"null", "notNull"} # {} THEN calls ELSE Append(calls, null)]
  BY DEF Meant
<1> HIDE DEF f, ms, calls, words, null, n
<1>13. ColumnCode(f) = Meant(c)
  BY <1>5, <1>10, <1>11, <1>12
<1>14. ~(Len(Parts(c)) < 2)
  BY <1>1
<1> QED BY <1>13, <1>14 DEF f

LEMMA MeantIsGo == ASSUME NEW c \in Documented  PROVE IsGo(Meant(c))
<1> DEFINE m == Meant(c)
<1>1. m.builder = <<c.type>> /\ m.args = Words(c.args)
  BY DEF Meant
<1>2. c.type \in Ordinary /\ c.args \in Seq(Ordinary)
  BY DocumentedIs
<1>3. \A w \in Ordinary : w \notin Symbols
  BY DEF Ordinary
<1>4. /\ DOMAIN Words(c.args) = DOMAIN c.args
      /\ \A k \in DOMAIN Words(c.args) : Words(c.args)[k] = <<c.args[k]>>
  BY <1>2, WordsAre
<1> HIDE DEF m
<1>5. Len(m.builder) = 1 /\ m.builder[1] \notin Symbols
  BY <1>1, <1>2, <1>3
<1>6. \A k \in DOMAIN m.args : Len(m.args[k]) = 1 /\ m.args[k][1] \notin Symbols
  <2> TAKE k \in DOMAIN m.args
  <2>1. m.args[k] = <<c.args[k]>> /\ k \in DOMAIN c.args
    BY <1>1, <1>4
  <2>2. c.args[k] \in Ordinary
    BY <1>2, <2>1
  <2> QED BY <1>3, <2>1, <2>2
<1>7. IsGo(m)
  BY <1>5, <1>6 DEF IsGo
<1> QED BY <1>7 DEF m

\* A list of documented columns is read as they are meant.
LEMMA ListIsRead ==
  ASSUME NEW list \in Seq(Documented)
  PROVE  /\ ~ParseFields(Written(list)).invalid
         /\ Columns(Written(list)) = [i \in DOMAIN list |-> Meant(list[i])]
<1> DEFINE n == Len(list)
           P == [i \in DOMAIN list |-> Joined(Parts(list[i]), ":")]
           w == Written(list)
           parts == IF w = <<>> THEN <<>> ELSE splitTopLevel(w, ",")
           T(i) == splitTopLevel(parts[i], ":")
<1>1. n \in Nat /\ DOMAIN list = 1..n /\ \A i \in 1..n : list[i] \in Documented
  BY SeqMembers
<1>2. w = Joined(P, ",")
  BY DEF Written
<1>3. \A i \in 1..n : P[i] = Joined(Parts(list[i]), ":")
  BY <1>1
<1>4. DOMAIN P = 1..n
  BY <1>1
<1>5. "," \in Token \ {"(", ")"} /\ ":" \in Token \ {"(", ")"} /\ "," \in Separators /\ ":" \in Separators /\ "," # ":"
  BY SeparatorToken DEF Separators
<1>6. ASSUME NEW c \in Documented
      PROVE  /\ Joined(Parts(c), ":") \in Seq(Token) /\ Closed(Joined(Parts(c), ":"), ",")
             /\ Len(Joined(Parts(c), ":")) >= 1
             /\ splitTopLevel(Joined(Parts(c), ":"), ":") = Parts(c)
  <2> DEFINE p == Parts(c)
             ms == [k \in DOMAIN c.modifiers |-> WrittenModifier(c.modifiers[k])]
  <2>1. /\ p \in Seq(Seq(Token)) /\ p[1] = <<c.name>>
        /\ \A sep \in Separators : \A k \in DOMAIN p : Closed(p[k], sep)
    BY PartsAre
  <2>2. p # <<>>
    <3>1. Len(p) = Len(ms) + 2 /\ Len(ms) \in Nat
      BY PartsAre
    <3> HIDE DEF p, ms
    <3>2. Len(p) # 0
      BY <3>1
    <3> QED BY <3>2
  <2>3. Len(p[1]) = 1
    <3> HIDE DEF p
    <3> QED BY <2>1
  <2> HIDE DEF p
  <2>4. \A k \in DOMAIN p : Closed(p[k], ":") /\ Closed(p[k], ",")
    BY <1>5, <2>1
  <2>5. /\ Joined(p, ":") \in Seq(Token) /\ Len(Joined(p, ":")) >= Len(p[1])
        /\ splitTopLevel(Joined(p, ":"), ":") = p
    BY <1>5, <2>1, <2>2, <2>4, JoinedIs
  <2>6. Closed(Joined(p, ":"), ",")
    BY <1>5, <2>1, <2>2, <2>4, JoinedClosed
  <2> QED BY <2>3, <2>5, <2>6 DEF p
<1> HIDE DEF P
<1>7. \A i \in 1..n : /\ P[i] \in Seq(Token) /\ Closed(P[i], ",") /\ Len(P[i]) >= 1
                      /\ splitTopLevel(P[i], ":") = Parts(list[i])
  BY <1>1, <1>3, <1>6
<1>8. P = [i \in 1..n |-> P[i]]
  BY <1>1 DEF P
<1> HIDE DEF n, w
<1>9. P \in [1..n -> Seq(Token)]
  BY <1>7, <1>8
<1>10. P \in Seq(Seq(Token)) /\ Len(P) = n
  BY <1>1, <1>9, SeqMade
<1>11. parts = P
  <2>1. CASE n = 0
    <3>1. P = <<>>
      BY <1>10, <2>1
    <3>2. w = <<>>
      BY <1>2, <3>1 DEF Joined
    <3> QED BY <3>1, <3>2
  <2>2. CASE n # 0
    <3>1. P # <<>> /\ 1 \in 1..n
      BY <1>1, <1>10, <2>2
    <3>2. /\ w \in Seq(Token) /\ Len(w) >= Len(P[1])
          /\ splitTopLevel(w, ",") = P
      <4>1. \A k \in DOMAIN P : Closed(P[k], ",")
        BY <1>4, <1>7 DEF n
      <4>2. /\ Joined(P, ",") \in Seq(Token) /\ Len(Joined(P, ",")) >= Len(P[1])
            /\ splitTopLevel(Joined(P, ","), ",") = P
        BY <1>5, <1>10, <3>1, <4>1, JoinedIs
      <4> QED BY <1>2, <4>2, Zenon
    <3>3. Len(P[1]) >= 1 /\ P[1] \in Seq(Token)
      BY <1>7, <3>1
    <3>4. Len(w) # 0
      <4> DEFINE a == Len(w)
                 b == Len(P[1])
      <4>1. a \in Nat /\ b \in Nat
        <5>1. w \in Seq(Token) /\ P[1] \in Seq(Token)
          BY <3>2, <3>3
        <5> QED BY <5>1, SeqMembers
      <4>2. a >= b /\ b >= 1
        BY <3>2, <3>3
      <4> HIDE DEF a, b
      <4>3. a # 0
        BY <4>1, <4>2
      <4> QED BY <4>3 DEF a
    <3>5. w # <<>>
      BY <3>4
    <3> QED BY <3>2, <3>5
  <2> QED BY <2>1, <2>2
<1>12. \A i \in 1..n : T(i) = Parts(list[i])
  <2> HIDE DEF parts
  <2> QED BY <1>7, <1>11
<1>13. ParseFields(w) = IF \E i \in DOMAIN parts : Len(T(i)) < 2 THEN [invalid |-> TRUE, fields |-> <<>>]
                        ELSE [invalid |-> FALSE, fields |-> [i \in DOMAIN parts |-> Field(T(i))]]
  BY DEF ParseFields
<1>14. DOMAIN parts = 1..n
  <2> HIDE DEF parts
  <2> QED BY <1>4, <1>11 DEF n
<1> HIDE DEF parts, T
<1>15. \A i \in 1..n : ~(Len(T(i)) < 2) /\ ColumnCode(Field(T(i))) = Meant(list[i])
  <2> TAKE i \in 1..n
  <2>1. list[i] \in Documented
    BY <1>1
  <2>2. T(i) = Parts(list[i])
    BY <1>12
  <2>3. ColumnCode(Field(Parts(list[i]))) = Meant(list[i]) /\ ~(Len(Parts(list[i])) < 2)
    BY <2>1, ColumnIsRead
  <2> QED BY <2>2, <2>3, Zenon
<1>16. ParseFields(w) = [invalid |-> FALSE, fields |-> [i \in 1..n |-> Field(T(i))]]
  <2>1. ~\E i \in DOMAIN parts : Len(T(i)) < 2
    BY <1>14, <1>15
  <2> QED BY <1>13, <1>14, <2>1, Zenon
<1>17. ~ParseFields(w).invalid /\ ParseFields(w).fields = [i \in 1..n |-> Field(T(i))]
  BY <1>16
<1> DEFINE F == ParseFields(w).fields
<1>18. DOMAIN F = 1..n /\ \A i \in 1..n : F[i] = Field(T(i))
  BY <1>17
<1>19. Columns(w) = [i \in DOMAIN F |-> ColumnCode(F[i])]
  BY DEF Columns
<1> HIDE DEF F
<1>20. Columns(w) = [i \in DOMAIN F |-> Meant(list[i])]
  <2>1. \A i \in DOMAIN F : ColumnCode(F[i]) = Meant(list[i])
    <3> TAKE i \in DOMAIN F
    <3>1. F[i] = Field(T(i)) /\ ColumnCode(Field(T(i))) = Meant(list[i])
      BY <1>15, <1>18
    <3> QED BY <3>1, Zenon
  <2> QED BY <1>19, <2>1
<1>21. DOMAIN F = DOMAIN list
  BY <1>1, <1>18
<1>22. Columns(w) = [i \in DOMAIN list |-> Meant(list[i])]
  BY <1>20, <1>21
<1> QED BY <1>17, <1>22 DEF w

LEMMA FieldsAreMeant == Shape /\ Owned /\ Settled => FieldsAsDocumented
<1> SUFFICES ASSUME Shape, Owned, Settled, NEW p \in Processes, NEW list \in FieldLists,
                    invocation[p].command = "create", Given(invocation[p].args, "fields") # {},
                    invocation[p].args[Max(Given(invocation[p].args, "fields"))].tokens = Written(list)
             PROVE  LET args == invocation[p].args
                    IN  /\ \A v \in DOMAIN files : files[v].by = p =>
                             files[v].content.columns = [i \in DOMAIN list |-> Meant(list[i])]
                        /\ (pc[p] = "refused" /\ version[p] = <<>>) =>
                             \/ UsageError(args) \/ Options(args).name = ""
                             \/ Options(args).dialect \notin dialectRegistry
  BY DEF FieldsAsDocumented
<1> DEFINE args == invocation[p].args
           o == Options(args)
<1>1. list \in Seq(Documented)
  BY FieldListsAssumption
<1>2. /\ ~ParseFields(Written(list)).invalid
      /\ Columns(Written(list)) = [i \in DOMAIN list |-> Meant(list[i])]
  BY <1>1, ListIsRead
<1>3. o.fields = Written(list)
  BY DEF Options
<1>4. \A v \in DOMAIN files : files[v].by = p =>
        files[v].content.columns = [i \in DOMAIN list |-> Meant(list[i])]
  <2> SUFFICES ASSUME NEW v \in DOMAIN files, files[v].by = p
               PROVE  files[v].content.columns = [i \in DOMAIN list |-> Meant(list[i])]
    OBVIOUS
  <2>1. files[v].content = BuildContent(o)
    BY DEF Settled
  <2>2. BuildContent(o).columns = Columns(o.fields)
    BY DEF BuildContent
  <2> QED BY <1>2, <1>3, <2>1, <2>2
<1>5. \A i \in DOMAIN Columns(o.fields) : IsGo(Columns(o.fields)[i])
  <2>1. \A c \in Documented : IsGo(Meant(c))
    BY MeantIsGo
  <2> TAKE i \in DOMAIN Columns(o.fields)
  <2>2. i \in DOMAIN list /\ Columns(o.fields)[i] = Meant(list[i])
    BY <1>2, <1>3
  <2>3. list[i] \in Documented
    BY <1>1, <2>2
  <2> QED BY <2>1, <2>2, <2>3, Zenon
<1>6. (pc[p] = "refused" /\ version[p] = <<>>) =>
        UsageError(args) \/ o.name = "" \/ o.dialect \notin dialectRegistry
  <2> SUFFICES ASSUME pc[p] = "refused", version[p] = <<>>
               PROVE  UsageError(args) \/ o.name = "" \/ o.dialect \notin dialectRegistry
    OBVIOUS
  <2>1. UsageError(args) \/ BuildContentFails(o)
    BY DEF Settled
  <2>2. ~ParseFields(o.fields).invalid
    BY <1>2, <1>3
  <2> HIDE DEF o, args
  <2>3. BuildContentFails(o) => o.name = "" \/ o.dialect \notin dialectRegistry
    BY <1>5, <2>2, Zenon DEF BuildContentFails
  <2> QED BY <2>1, <2>3
<1> QED BY <1>4, <1>6 DEF o, args

\* docs/cli.md:154-167, for any list of columns as the documentation has them, of any length
\* and with any words: a file has these columns, in order, each with its arguments and its
\* modifiers, and no create is refused for them.
THEOREM FieldsComeOutAsDocumented == Spec => []FieldsAsDocumented
<1>1. Init => Shape /\ Owned /\ Heard /\ Settled
  BY InitKeeps, InitHeard, InitSettled
<1>2. Shape /\ Owned /\ Heard /\ Settled /\ [Next]_vars => (Shape /\ Owned /\ Heard /\ Settled)'
  BY TypeStep, OwnedStep, HeardStep, SettledStep
<1> QED
  BY <1>1, <1>2, FieldsAreMeant, PTL DEF Spec
=============================================================================
