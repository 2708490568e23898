------------------------------ MODULE PlanProofs ------------------------------
(***************************************************************************)
(* What TLAPS proves of SchemaPlan: for any chain of calls on any objects, *)
(* any number of sessions, runs and dialects, and any faults.              *)
(***************************************************************************)
EXTENDS SchemaPlan, TLAPS

-----------------------------------------------------------------------------
(* Typing *)

PlanType ==
  /\ pc \in [Sessions -> {"idle", "chain", "exec", "done", "failed", "stopped"}]
  /\ dry \in [Sessions -> BOOLEAN]
  /\ called \in [Sessions -> 0..Len(script)]
  /\ plan \in [Sessions -> Seq(Call)]
  /\ err \in [Sessions -> Nat] /\ first \in [Sessions -> Nat] /\ ran \in [Sessions -> Nat]

WorldType ==
  /\ dialect \in Dialects /\ script \in Scripts
  /\ present \subseteq Objects /\ WellFormed(present)
  /\ runs \in Nat /\ faulty \in BOOLEAN
  /\ alone \in [Sessions -> BOOLEAN]

\* How far a session is: what it has planned, executed and recorded comes from the calls
\* it has made, and nothing has been executed before Exec.
Bounds(b) ==
  /\ Len(plan[b]) <= called[b] /\ err[b] <= called[b] /\ first[b] <= err[b]
  /\ ran[b] <= Len(plan[b])
  /\ pc[b] \in {"idle", "chain"} => ran[b] = 0
  /\ err[b] # 0 => first[b] # 0 /\ ran[b] = 0 /\ pc[b] \notin {"exec", "done"}
  /\ pc[b] \in {"exec", "done"} => called[b] = Len(script)
  /\ pc[b] = "exec" => ~dry[b]
  /\ pc[b] = "done" /\ ~dry[b] => ran[b] = Len(plan[b])

Typed == PlanType /\ WorldType /\ \A b \in Sessions : Bounds(b)

LEMMA CallOfScript ==
  ASSUME Typed, NEW b \in Sessions, called[b] < Len(script)
  PROVE  /\ script \in Seq(Call) /\ Len(script) \in Nat /\ called[b] + 1 \in DOMAIN script
         /\ script[called[b] + 1] \in Call
         /\ called[b] \in Nat /\ called[b] + 1 \in 1..Len(script)
<1>1. script \in Seq(Call) /\ called[b] \in 0..Len(script)
  BY ScriptsAssumption DEF Typed, PlanType, WorldType
<1> QED
  BY <1>1

LEMMA InitTyped == Init => Typed
<1> SUFFICES ASSUME Init PROVE Typed
  OBVIOUS
<1>1. script \in Seq(Call)
  BY ScriptsAssumption DEF Init
<1>2. PlanType
  BY <1>1 DEF Init, PlanType
<1>3. WorldType
  BY DEF Init, WorldType
<1>4. \A b \in Sessions : Bounds(b)
  BY <1>1 DEF Init, Bounds
<1> QED
  BY <1>2, <1>3, <1>4 DEF Typed

\* A statement that the database accepts leaves no part without its table.
LEMMA AfterWellFormed ==
  ASSUME NEW S \in SUBSET Objects, WellFormed(S), NEW c \in Call, Accepts(S, c)
  PROVE  After(S, c) \in SUBSET Objects /\ WellFormed(After(S, c))
<1>1. \A o \in Objects : Table[o] \in Objects /\ Table[Table[o]] = Table[o]
  BY ObjectsAssumption
<1>2. c.object \in Objects /\ c.verb \in {"create", "drop", "use", "alter"}
  BY DEF Call
<1>3. CASE c.verb = "create"
  BY <1>1, <1>2, <1>3 DEF After, Accepts, WellFormed
<1>4. CASE c.verb = "drop"
  <2>1. After(S, c) = {o \in S : c.object \notin {o, Table[o]}}
    BY <1>4 DEF After
  <2>2. \A o \in After(S, c) : Table[o] \in S /\ c.object \notin {Table[o], Table[Table[o]]}
    BY <1>1, <2>1 DEF WellFormed
  <2> QED
    BY <2>1, <2>2 DEF WellFormed
<1>5. CASE c.verb \in {"use", "alter"}
  BY <1>5 DEF After
<1> QED
  BY <1>2, <1>3, <1>4, <1>5

LEMMA SchemaTyped ==
  ASSUME Typed, NEW b \in Sessions, NEW d \in BOOLEAN, Schema(b, d) PROVE Typed'
  BY DEF Schema, Typed, PlanType, WorldType, Bounds, world

LEMMA AddTyped ==
  ASSUME Typed, NEW b \in Sessions, ChainCall(b) PROVE Typed'
<1> DEFINE c == script[called[b] + 1]
<1>1. /\ pc[b] = "chain" /\ called[b] < Len(script) /\ c \in Call
      /\ called[b] \in Nat /\ called[b] + 1 \in 1..Len(script)
      /\ plan[b] \in Seq(Call) /\ err[b] \in Nat /\ first[b] \in Nat /\ ran[b] = 0
      /\ Len(plan[b]) <= called[b] /\ err[b] <= called[b] /\ first[b] <= err[b]
  BY CallOfScript DEF ChainCall, Typed, PlanType, Bounds
<1>2. /\ called' = [called EXCEPT ![b] = called[b] + 1]
      /\ UNCHANGED <<dialect, script, present, runs, faulty, pc, dry, ran, alone>>
  BY DEF ChainCall, world
<1>3. CASE UNCHANGED <<plan, err, first>>
  BY <1>1, <1>2, <1>3 DEF Typed, PlanType, WorldType, Bounds
<1>4. CASE /\ err[b] = 0 /\ err' = [err EXCEPT ![b] = called[b] + 1]
           /\ first' = [first EXCEPT ![b] = called[b] + 1] /\ UNCHANGED plan
  BY <1>1, <1>2, <1>4 DEF Typed, PlanType, WorldType, Bounds
<1>5. CASE /\ err[b] = 0 /\ plan' = [plan EXCEPT ![b] = Append(plan[b], c)]
           /\ UNCHANGED <<err, first>>
  <2>1. Append(plan[b], c) \in Seq(Call) /\ Len(Append(plan[b], c)) = Len(plan[b]) + 1
    BY <1>1
  <2> QED
    BY <1>1, <1>2, <1>5, <2>1 DEF Typed, PlanType, WorldType, Bounds
<1>6. called'[b] = called[b] + 1
  BY <1>2 DEF Typed, PlanType
<1> QED
  BY <1>3, <1>4, <1>5, <1>6 DEF ChainCall, add

LEMMA ProbeTyped ==
  ASSUME Typed, NEW b \in Sessions, ProbeFails(b) PROVE Typed'
<1> QED
  BY CallOfScript DEF ProbeFails, RecordProbeError, Typed, PlanType, WorldType, Bounds, world

LEMMA ExecTyped ==
  ASSUME Typed, NEW b \in Sessions, Exec(b) \/ ExecReturns(b) \/ Stops(b) PROVE Typed'
  BY DEF Exec, Proceed, ExecReturns, Stops, Typed, PlanType, WorldType, Bounds, world, chain

LEMMA StatementTyped ==
  ASSUME Typed, NEW b \in Sessions, ExecStatement(b) PROVE Typed'
<1>1. plan[b] \in Seq(Call) /\ ran[b] \in Nat /\ ran[b] < Len(plan[b])
  BY DEF ExecStatement, Typed, PlanType
<1>2. plan[b][ran[b] + 1] \in Call
  BY <1>1
<1>3. /\ pc[b] = "exec"
      /\ UNCHANGED <<dialect, script, runs, faulty, dry, called, plan, err, first>>
      /\ alone' = [d \in Sessions |-> alone[d] /\ (d = b \/ present' = present)]
  BY DEF ExecStatement, world, chain
<1>4. alone' \in [Sessions -> BOOLEAN]
  BY <1>3
<1>5. CASE /\ ran' = [ran EXCEPT ![b] = ran[b] + 1] /\ UNCHANGED pc
           /\ Accepts(present, plan[b][ran[b] + 1]) /\ present' = After(present, plan[b][ran[b] + 1])
  <2>1. present' \in SUBSET Objects /\ WellFormed(present')
    BY <1>2, <1>5, AfterWellFormed DEF Typed, WorldType
  <2>2. WorldType'
    BY <1>3, <1>4, <2>1 DEF Typed, WorldType, WellFormed
  <2> QED
    BY <1>1, <1>3, <1>5, <2>2 DEF Typed, PlanType, Bounds
<1>6. CASE pc' = [pc EXCEPT ![b] = "failed"] /\ UNCHANGED <<ran, present>>
  BY <1>1, <1>3, <1>4, <1>6 DEF Typed, PlanType, WorldType, Bounds
<1> QED
  BY <1>5, <1>6 DEF ExecStatement, AfterStatement

LEMMA TypedStep == Typed /\ [Next]_vars => Typed'
<1> SUFFICES ASSUME Typed, [Next]_vars PROVE Typed'
  OBVIOUS
<1>1. CASE UNCHANGED vars
  BY <1>1 DEF vars, world, chain, Typed, PlanType, WorldType, Bounds
<1> QED
  BY <1>1, SchemaTyped, AddTyped, ProbeTyped, ExecTyped, StatementTyped DEF Next, Finished

LEMMA TypedImplies == Typed => TypeOK
<1> SUFFICES ASSUME Typed PROVE TypeOK
  OBVIOUS
<1>1. \A b \in Sessions : /\ plan[b] \in Seq(Call) /\ Len(plan[b]) \in Nat /\ called[b] \in Nat
                         /\ err[b] \in Nat /\ first[b] \in Nat /\ ran[b] \in Nat
  <2> SUFFICES ASSUME NEW b \in Sessions
               PROVE  /\ plan[b] \in Seq(Call) /\ Len(plan[b]) \in Nat /\ called[b] \in Nat
                      /\ err[b] \in Nat /\ first[b] \in Nat /\ ran[b] \in Nat
    OBVIOUS
  <2>1. script \in Seq(Call)
    BY ScriptsAssumption DEF Typed, WorldType
  <2>2. plan[b] \in Seq(Call) /\ called[b] \in 0..Len(script) /\ Len(script) \in Nat
    BY <2>1 DEF Typed, PlanType
  <2> QED
    BY <2>2 DEF Typed, PlanType
<1>2. \A b \in Sessions : /\ plan[b] \in Seq(Call) /\ Len(plan[b]) <= called[b]
                         /\ err[b] \in 0..called[b] /\ first[b] \in 0..err[b]
                         /\ ran[b] \in 0..Len(plan[b])
  BY <1>1 DEF Typed, Bounds
<1> QED
  BY <1>2 DEF Typed, PlanType, WorldType, TypeOK

\* Every variable keeps its type: a plan has no more statements than calls were made, an
\* error is of one of those calls, and no part of a table is there without it.
THEOREM PlanTypeCorrect == Spec => []TypeOK
  BY InitTyped, TypedStep, TypedImplies, PTL DEF Spec

LEMMA TypedExecutesNothing == Typed => FailedPlanExecutesNothing
<1> SUFFICES ASSUME Typed, NEW b \in Sessions, first[b] # 0
             PROVE  ran[b] = 0 /\ pc[b] \notin {"exec", "done"}
  BY DEF FailedPlanExecutesNothing
<1>1. Bounds(b) /\ err[b] \in Nat /\ first[b] \in Nat
  BY DEF Typed, PlanType
<1> QED
  BY <1>1 DEF Bounds

\* A plan with an error executes nothing, however many calls and failed probes follow.
THEOREM ErrorsExecuteNothing == Spec => []FailedPlanExecutesNothing
  BY InitTyped, TypedStep, TypedExecutesNothing, PTL DEF Spec

-----------------------------------------------------------------------------
(* Rerunnable chains *)

\* Call i of the chain has nothing left to do.
Settled(i) == (script[i].object \in present) = (script[i].verb = "create")

\* Statements come from the chain, and each call a run has made is settled or its
\* statement is still to be executed.
FromScript(b) == \A k \in DOMAIN plan[b] : \E i \in DOMAIN script : plan[b][k] = script[i]
Pending(b, i) == \E k \in (ran[b] + 1)..Len(plan[b]) : plan[b][k] = script[i]
Underway(b) == ~dry[b] /\ err[b] = 0 /\ pc[b] \in {"chain", "exec", "done"}
Progress(b) ==
  /\ FromScript(b)
  /\ Underway(b) => \A i \in 1..called[b] : Settled(i) \/ Pending(b, i)

Advancing == Rerunnable(script) => \A b \in Sessions : Progress(b)

\* All calls of such a chain pull the same way: a statement settles its call and
\* unsettles none.
LEMMA StatementsSettle ==
  ASSUME Typed, Rerunnable(script), NEW j \in DOMAIN script, NEW i \in DOMAIN script,
         UNCHANGED script, present' = After(present, script[j])
  PROVE  Settled(j)' /\ (Settled(i) => Settled(i)')
<1>1. script \in Seq(Call) /\ script[i] \in Call /\ script[j] \in Call
  BY ScriptsAssumption DEF Typed, WorldType
<1>2. script[i].verb = script[j].verb /\ script[j].guarded /\ script[j].verb \notin {"use", "alter"}
  BY ScriptsAssumption DEF Typed, WorldType, Rerunnable
<1>3. script[j].object \in Objects /\ script[j].verb \in {"create", "drop"}
  BY <1>1, <1>2 DEF Call
<1>4. CASE script[j].verb = "create"
  BY <1>2, <1>3, <1>4 DEF After, Settled
<1>5. CASE script[j].verb = "drop"
  BY <1>2, <1>3, <1>5 DEF After, Settled
<1> QED
  BY <1>3, <1>4, <1>5

LEMMA InitAdvancing == Init => Advancing
<1> SUFFICES ASSUME Init, NEW b \in Sessions PROVE Progress(b)
  BY DEF Advancing
<1> QED
  BY DEF Init, Progress, FromScript, Underway

LEMMA SchemaAdvances ==
  ASSUME Typed, Advancing, NEW b \in Sessions, NEW d \in BOOLEAN, Schema(b, d) PROVE Advancing'
<1> SUFFICES ASSUME Rerunnable(script), NEW a \in Sessions PROVE Progress(a)'
  BY DEF Advancing, Schema, world, Rerunnable, Seen, Supported
<1>1. Progress(a)
  BY DEF Advancing
<1>2. CASE a = b
  BY <1>2 DEF Schema, Typed, PlanType, Progress, FromScript, Underway
<1>3. CASE a # b
  BY <1>1, <1>3 DEF Schema, Typed, PlanType, Progress, FromScript, Underway, Settled, Pending, world
<1> QED
  BY <1>2, <1>3

\* A call is settled when its probe skips it, and pending when it is not.
LEMMA CallAdvances ==
  ASSUME Typed, Advancing, NEW b \in Sessions, ChainCall(b) PROVE Advancing'
<1> SUFFICES ASSUME Rerunnable(script), NEW a \in Sessions PROVE Progress(a)'
  BY DEF Advancing, ChainCall, world, Rerunnable, Seen, Supported
<1> DEFINE n == called[b] + 1
<1> DEFINE c == script[n]
<1>1. Progress(a) /\ Progress(b)
  BY DEF Advancing
<1>2. /\ called[b] \in Nat /\ n \in DOMAIN script /\ c \in Call /\ script \in Seq(Call)
      /\ plan[b] \in Seq(Call) /\ ran[b] = 0
      /\ called' = [called EXCEPT ![b] = n] /\ called'[b] = n
      /\ UNCHANGED <<dialect, script, present, pc, dry, ran>>
  BY CallOfScript DEF ChainCall, Typed, PlanType, Bounds, world
<1>3. CASE a # b
  <2>1. /\ called'[a] = called[a] /\ plan'[a] = plan[a] /\ err'[a] = err[a]
    BY <1>2, <1>3 DEF ChainCall, add, Typed, PlanType
  <2> QED
    BY <1>1, <1>2, <2>1 DEF Progress, FromScript, Underway, Settled, Pending
<1>4. CASE a = b /\ plan' = [plan EXCEPT ![b] = Append(plan[b], c)] /\ UNCHANGED err
  <2>1. /\ plan'[b] = Append(plan[b], c) /\ Len(plan'[b]) = Len(plan[b]) + 1
        /\ plan'[b][Len(plan[b]) + 1] = c /\ DOMAIN plan'[b] = 1..Len(plan[b]) + 1
        /\ \A k \in DOMAIN plan[b] : plan'[b][k] = plan[b][k]
        /\ Len(plan[b]) \in Nat /\ DOMAIN plan[b] = 1..Len(plan[b])
    BY <1>2, <1>4 DEF Typed, PlanType
  <2>2. FromScript(b)'
    BY <1>1, <1>2, <2>1 DEF Progress, FromScript
  <2>3. ASSUME NEW i \in 1..n, i = n PROVE Pending(b, i)'
    <3>1. Len(plan[b]) + 1 \in (ran'[b] + 1)..Len(plan'[b])
      BY <1>2, <2>1
    <3> QED
      BY <1>2, <2>1, <2>3, <3>1 DEF Pending
  <2>4. ASSUME NEW i \in 1..called[b], Pending(b, i) PROVE Pending(b, i)'
    <3>1. PICK k \in (ran[b] + 1)..Len(plan[b]) : plan[b][k] = script[i]
      BY <2>4 DEF Pending
    <3>2. k \in DOMAIN plan[b] /\ k \in (ran'[b] + 1)..Len(plan'[b])
      BY <1>2, <2>1, <3>1
    <3> QED
      BY <1>2, <2>1, <3>1, <3>2 DEF Pending
  <2>5. ASSUME Underway(b)', NEW i \in 1..n PROVE Settled(i)' \/ Pending(b, i)'
    <3>1. Underway(b)
      BY <1>2, <1>4, <2>5 DEF Underway
    <3>2. CASE i = n
      BY <2>3, <2>5, <3>2
    <3>3. CASE i # n
      <4>1. i \in 1..called[b]
        BY <1>2, <2>5, <3>3
      <4> QED
        BY <1>1, <1>2, <2>4, <3>1, <4>1 DEF Progress, Settled
    <3> QED
      BY <3>2, <3>3
  <2> QED
    BY <1>2, <1>4, <2>2, <2>5 DEF Progress
<1>5. CASE a = b /\ ~existenceGuard(b, c) /\ UNCHANGED <<plan, err>>
  <2>1. dry[b] \in BOOLEAN
    BY DEF Typed, PlanType
  <2>2. c.guarded /\ Seen(dialect, c.object) /\ c.verb \notin {"use", "alter"} /\ c.verb \in {"create", "drop"}
    BY <1>2, ScriptsAssumption DEF Typed, WorldType, Rerunnable, Call
  <2>3. ~dry[b] /\ (c.object \in present) # (c.verb = "drop")
    BY <1>5, <2>1, <2>2 DEF existenceGuard
  <2>4. Settled(n)
    BY <2>2, <2>3 DEF Settled
  <2>5. ASSUME Underway(b)', NEW i \in 1..n PROVE Settled(i)' \/ Pending(b, i)'
    <3>1. Underway(b)
      BY <1>2, <1>5, <2>5 DEF Underway
    <3>2. i = n \/ i \in 1..called[b]
      BY <1>2
    <3> QED
      BY <1>1, <1>2, <1>5, <2>4, <3>1, <3>2 DEF Progress, Settled, Pending
  <2> QED
    BY <1>1, <1>2, <1>5, <2>5 DEF Progress, FromScript
<1>6. CASE a = b /\ UNCHANGED plan /\ err'[b] # 0
  BY <1>1, <1>2, <1>6 DEF Progress, FromScript, Underway
<1>7. existenceGuard(b, c) \/ UNCHANGED <<plan, err>>
  BY DEF ChainCall
<1>8. Supported(dialect, c)
  BY <1>2 DEF Rerunnable
<1>9. err[b] # 0 => UNCHANGED <<plan, err>>
  BY DEF ChainCall, add
<1> QED
  BY <1>3, <1>4, <1>5, <1>6, <1>8, <1>9 DEF ChainCall, add

LEMMA FailedProbeAdvances ==
  ASSUME Typed, Advancing, NEW b \in Sessions, ProbeFails(b) PROVE Advancing'
<1> SUFFICES ASSUME Rerunnable(script), NEW a \in Sessions PROVE Progress(a)'
  BY DEF Advancing, ProbeFails, world, Rerunnable, Seen, Supported
<1>1. Progress(a)
  BY DEF Advancing
<1>2. UNCHANGED <<script, present, pc, dry, plan, ran>>
  BY DEF ProbeFails, world
<1>3. CASE a = b
  <2>1. err'[b] # 0
    BY CallOfScript DEF ProbeFails, RecordProbeError, Typed, PlanType
  <2> QED
    BY <1>1, <1>2, <1>3, <2>1 DEF Progress, FromScript, Underway
<1>4. CASE a # b
  BY <1>1, <1>2, <1>4 DEF ProbeFails, RecordProbeError, Typed, PlanType, Progress, FromScript,
                          Underway, Settled, Pending
<1> QED
  BY <1>3, <1>4

LEMMA ExecAdvances ==
  ASSUME Typed, Advancing, NEW b \in Sessions, Exec(b) \/ ExecReturns(b) \/ Stops(b)
  PROVE Advancing'
<1> SUFFICES ASSUME Rerunnable(script), NEW a \in Sessions PROVE Progress(a)'
  BY DEF Advancing, Exec, ExecReturns, Stops, world, Rerunnable, Seen, Supported
<1>1. Progress(a)
  BY DEF Advancing
<1>2. UNCHANGED <<script, present, dry, called, plan, err, ran>>
  BY DEF Exec, ExecReturns, Stops, world, chain
<1>3. Underway(a)' => Underway(a)
  BY DEF Exec, ExecReturns, Stops, Underway, Typed, PlanType, world, chain
<1> QED
  BY <1>1, <1>2, <1>3 DEF Progress, FromScript, Settled, Pending

\* An executed statement is no longer pending, and its call is settled.
LEMMA StatementAdvances ==
  ASSUME Typed, Advancing, NEW b \in Sessions, ExecStatement(b) PROVE Advancing'
<1> SUFFICES ASSUME Rerunnable(script), NEW a \in Sessions PROVE Progress(a)'
  BY DEF Advancing, ExecStatement, world, Rerunnable, Seen, Supported
<1> DEFINE n == ran[b] + 1
<1>1. Progress(a) /\ Progress(b)
  BY DEF Advancing
<1>2. /\ plan[b] \in Seq(Call) /\ ran[b] \in Nat /\ n \in DOMAIN plan[b]
      /\ UNCHANGED <<dialect, script, dry, called, plan, err>>
  BY DEF ExecStatement, Typed, PlanType, world, chain
<1>3. CASE pc' = [pc EXCEPT ![b] = "failed"] /\ UNCHANGED <<ran, present>>
  <2>1. Underway(a)' => Underway(a)
    BY <1>2, <1>3 DEF Underway, Typed, PlanType
  <2> QED
    BY <1>1, <1>2, <1>3, <2>1 DEF Progress, FromScript, Settled, Pending
<1>4. CASE /\ ran' = [ran EXCEPT ![b] = n] /\ present' = After(present, plan[b][n])
           /\ UNCHANGED pc
  <2>1. PICK j \in DOMAIN script : plan[b][n] = script[j]
    BY <1>1, <1>2 DEF Progress, FromScript
  <2>2. \A i \in DOMAIN script : Settled(j)' /\ (Settled(i) => Settled(i)')
    BY <1>2, <1>4, <2>1, StatementsSettle
  <2>3. Underway(a)' => Underway(a)
    BY <1>2, <1>4 DEF Underway
  <2>4. ASSUME NEW i \in 1..called[a], Pending(a, i)
        PROVE  Pending(a, i)' \/ (i \in DOMAIN script /\ script[i] = script[j])
    <3>1. PICK k \in (ran[a] + 1)..Len(plan[a]) : plan[a][k] = script[i]
      BY <2>4 DEF Pending
    <3>2. CASE a # b \/ k # n
      <4>1. k \in (ran'[a] + 1)..Len(plan'[a])
        BY <1>2, <1>4, <3>1, <3>2 DEF Typed, PlanType
      <4> QED
        BY <1>2, <3>1, <4>1 DEF Pending
    <3>3. CASE a = b /\ k = n
      <4>1. called[a] \in 0..Len(script) /\ script \in Seq(Call)
        BY ScriptsAssumption DEF Typed, PlanType, WorldType
      <4> QED
        BY <2>1, <3>1, <3>3, <4>1
    <3> QED
      BY <3>2, <3>3
  <2>5. \A i \in 1..called[a] : i \in DOMAIN script
    <3>1. called[a] \in 0..Len(script) /\ script \in Seq(Call)
      BY ScriptsAssumption DEF Typed, PlanType, WorldType
    <3> QED
      BY <3>1
  <2>6. ASSUME Underway(a)', NEW i \in 1..called[a] PROVE Settled(i)' \/ Pending(a, i)'
    <3>1. CASE Settled(i)
      BY <2>2, <2>5, <3>1
    <3>2. CASE script[i] = script[j]
      BY <1>2, <2>2, <3>2 DEF Settled
    <3> QED
      BY <1>1, <2>3, <2>4, <2>6, <3>1, <3>2 DEF Progress
  <2> QED
    BY <1>1, <1>2, <2>6 DEF Progress, FromScript
<1> QED
  BY <1>3, <1>4 DEF ExecStatement, AfterStatement

LEMMA AdvancingStep == Typed /\ Advancing /\ [Next]_vars => Advancing'
<1> SUFFICES ASSUME Typed, Advancing, [Next]_vars PROVE Advancing'
  OBVIOUS
<1>1. CASE UNCHANGED vars
  BY <1>1 DEF vars, world, chain, Advancing, Rerunnable, Seen, Supported, Progress, FromScript,
              Underway, Settled, Pending
<1> QED
  BY <1>1, SchemaAdvances, CallAdvances, FailedProbeAdvances, ExecAdvances, StatementAdvances
     DEF Next, Finished

LEMMA AdvancingImplies == Typed /\ Advancing => DoneMeansAsAsked
<1> SUFFICES ASSUME Typed, Advancing, Rerunnable(script), NEW b \in Sessions,
                    pc[b] = "done", ~dry[b], NEW i \in DOMAIN script
             PROVE  Settled(i)
  BY DEF DoneMeansAsAsked, AsAsked, Settled
<1>1. /\ script \in Seq(Call) /\ plan[b] \in Seq(Call) /\ called[b] \in Nat
      /\ err[b] \in Nat /\ called[b] = Len(script) /\ ran[b] = Len(plan[b]) /\ err[b] = 0
  BY ScriptsAssumption DEF Typed, PlanType, WorldType, Bounds
<1>2. ~Pending(b, i)
  BY <1>1 DEF Pending
<1> QED
  BY <1>1, <1>2 DEF Advancing, Progress, Underway

\* Whatever failed runs have left and racing runs do in between, a guarded chain whose Exec
\* returns nil outside a dry run has brought the database to what it asks for.
THEOREM DoneIsAsAsked == Spec => []DoneMeansAsAsked
<1>1. Init => Typed /\ Advancing
  BY InitTyped, InitAdvancing
<1>2. Typed /\ Advancing /\ [Next]_vars => (Typed /\ Advancing)'
  BY TypedStep, AdvancingStep
<1>3. Typed /\ Advancing => DoneMeansAsAsked
  BY AdvancingImplies
<1> QED
  BY <1>1, <1>2, <1>3, PTL DEF Spec

-----------------------------------------------------------------------------
(* Rerunnable chains that nobody disturbs *)

\* The statements are in the order of the calls they come from.
Early(b) == \A k \in DOMAIN plan[b], i \in DOMAIN script : plan[b][k] = script[i] => i <= called[b]
Ordered(b) ==
  \A j, k \in DOMAIN plan[b] : j < k =>
    \A i, l \in DOMAIN script : plan[b][j] = script[i] /\ plan[b][k] = script[l] => i < l

\* The database will accept statement k after those planned before it.
Fits(b, k) ==
  LET c == plan[b][k] IN
  /\ c.verb = "create" => /\ c.object \notin present
                          /\ \/ Table[c.object] \in present \cup {c.object}
                             \/ \E j \in (ran[b] + 1)..(k - 1) : plan[b][j].object = Table[c.object]
  /\ c.verb # "create" => c.object \in present

Undisturbed(b) ==
  /\ Early(b) /\ Ordered(b)
  /\ alone[b] /\ Underway(b) => \A k \in (ran[b] + 1)..Len(plan[b]) : Fits(b, k)
  /\ alone[b] /\ pc[b] = "failed" => err[b] # 0

Smooth == Rerunnable(script) => \A b \in Sessions : Undisturbed(b)

LEMMA InitSmooth == Init => Smooth
<1> SUFFICES ASSUME Init, NEW b \in Sessions PROVE Undisturbed(b)
  BY DEF Smooth
<1> QED
  BY DEF Init, Undisturbed, Early, Ordered, Underway

\* A session that has not moved, on a database that has not changed while it is alone.
LEMMA RestSmooth ==
  ASSUME Typed, NEW a \in Sessions, Undisturbed(a),
         UNCHANGED <<script, pc[a], dry[a], called[a], plan[a], err[a], ran[a]>>,
         alone'[a] => alone[a] /\ UNCHANGED present
  PROVE  Undisturbed(a)'
<1>1. Early(a)' /\ Ordered(a)'
  BY DEF Undisturbed, Early, Ordered
<1>2. Underway(a)' => Underway(a)
  BY DEF Underway
<1> QED
  BY <1>1, <1>2 DEF Undisturbed, Fits

\* A session that has moved, but whose plan has not.
LEMMA MoveSmooth ==
  ASSUME Typed, NEW a \in Sessions, Undisturbed(a),
         UNCHANGED <<script, present, dry[a], plan[a], ran[a], alone[a]>>,
         called[a] <= called'[a], called'[a] \in Nat, Underway(a)' => Underway(a),
         pc'[a] = "failed" => err'[a] # 0
  PROVE  Undisturbed(a)'
<1>1. called[a] \in 0..Len(script) /\ script \in Seq(Call)
  BY ScriptsAssumption DEF Typed, PlanType, WorldType
<1>2. Early(a)' /\ Ordered(a)'
  BY <1>1 DEF Undisturbed, Early, Ordered
<1> QED
  BY <1>2 DEF Undisturbed, Fits

LEMMA SchemaSmooth ==
  ASSUME Typed, Smooth, NEW b \in Sessions, NEW d \in BOOLEAN, Schema(b, d) PROVE Smooth'
<1> SUFFICES ASSUME Rerunnable(script), NEW a \in Sessions PROVE Undisturbed(a)'
  BY DEF Smooth, Schema, world, Rerunnable, Seen, Supported
<1>1. CASE a = b
  BY <1>1 DEF Schema, Typed, PlanType, WorldType, Undisturbed, Early, Ordered, Underway
<1>2. CASE a # b
  BY <1>2, RestSmooth DEF Smooth, Schema, world, Typed, PlanType, WorldType
<1> QED
  BY <1>1, <1>2

\* The table of a part is there, or its CREATE is in the plan already.
LEMMA CallSmooth ==
  ASSUME Typed, Advancing, Smooth, NEW b \in Sessions, ChainCall(b) PROVE Smooth'
<1> SUFFICES ASSUME Rerunnable(script), NEW a \in Sessions PROVE Undisturbed(a)'
  BY DEF Smooth, ChainCall, world, Rerunnable, Seen, Supported
<1> DEFINE n == called[b] + 1
<1> DEFINE c == script[n]
<1>1. Undisturbed(a) /\ Undisturbed(b) /\ Progress(b)
  BY DEF Smooth, Advancing
<1>2. /\ called[b] \in Nat /\ n \in DOMAIN script /\ c \in Call /\ script \in Seq(Call)
      /\ plan[b] \in Seq(Call) /\ ran[b] = 0 /\ pc[b] = "chain"
      /\ called' = [called EXCEPT ![b] = n] /\ called'[b] = n
      /\ UNCHANGED <<dialect, script, present, pc, dry, ran, alone>>
  BY CallOfScript DEF ChainCall, Typed, PlanType, Bounds, world
<1>3. CASE a # b
  <2>1. /\ called'[a] = called[a] /\ plan'[a] = plan[a] /\ err'[a] = err[a]
    BY <1>2, <1>3 DEF ChainCall, add, Typed, PlanType
  <2> QED
    BY <1>1, <1>2, <2>1, RestSmooth
<1>4. CASE a = b /\ UNCHANGED plan /\ (UNCHANGED err \/ err'[b] # 0)
  <2>1. Underway(b)' => Underway(b)
    BY <1>2, <1>4 DEF Underway
  <2>2. called[b] <= called'[b] /\ called'[b] \in Nat /\ pc'[b] # "failed"
    BY <1>2
  <2> QED
    BY <1>1, <1>2, <1>4, <2>1, <2>2, MoveSmooth
<1>5. CASE /\ a = b /\ existenceGuard(b, c) /\ UNCHANGED err
           /\ plan' = [plan EXCEPT ![b] = Append(plan[b], c)]
  <2> DEFINE m == Len(plan[b])
  <2>1. /\ plan'[b] = Append(plan[b], c) /\ Len(plan'[b]) = m + 1
        /\ plan'[b][m + 1] = c /\ DOMAIN plan'[b] = 1..m + 1
        /\ \A k \in DOMAIN plan[b] : plan'[b][k] = plan[b][k]
        /\ m \in Nat /\ DOMAIN plan[b] = 1..m
    BY <1>2, <1>5 DEF Typed, PlanType
  <2>2. \A i \in DOMAIN script : script[i] = c => i = n
    BY <1>2 DEF Rerunnable
  <2>3. Early(b)'
    <3> SUFFICES ASSUME NEW k \in DOMAIN plan'[b], NEW i \in DOMAIN script, plan'[b][k] = script[i]
                 PROVE  i <= called[b] + 1
      BY <1>2 DEF Early
    <3>1. CASE k = m + 1
      BY <1>2, <2>1, <2>2, <3>1
    <3>2. CASE k # m + 1
      <4>1. k \in DOMAIN plan[b]
        BY <2>1, <3>2
      <4> QED
        BY <1>1, <1>2, <2>1, <4>1 DEF Undisturbed, Early
    <3> QED
      BY <3>1, <3>2
  <2>4. Ordered(b)'
    <3> SUFFICES ASSUME NEW j \in DOMAIN plan'[b], NEW k \in DOMAIN plan'[b], j < k,
                        NEW i \in DOMAIN script, NEW l \in DOMAIN script,
                        plan'[b][j] = script[i], plan'[b][k] = script[l]
                 PROVE  i < l
      BY <1>2 DEF Ordered
    <3>1. j \in DOMAIN plan[b]
      BY <2>1
    <3>2. CASE k = m + 1
      <4>1. l = n /\ i <= called[b]
        BY <1>1, <2>1, <2>2, <3>1, <3>2 DEF Undisturbed, Early
      <4> QED
        BY <1>2, <4>1
    <3>3. CASE k # m + 1
      <4>1. k \in DOMAIN plan[b]
        BY <2>1, <3>3
      <4> QED
        BY <1>1, <2>1, <3>1, <4>1 DEF Undisturbed, Ordered
    <3> QED
      BY <3>2, <3>3
  <2>5. ASSUME alone[b], Underway(b), NEW k \in 1..m PROVE Fits(b, k)'
    <3>1. Fits(b, k) /\ k \in DOMAIN plan[b] /\ plan'[b][k] = plan[b][k]
      BY <1>1, <1>2, <2>1, <2>5 DEF Undisturbed
    <3>2. \A j \in (ran[b] + 1)..(k - 1) : plan'[b][j] = plan[b][j]
      BY <1>2, <2>1, <3>1
    <3> QED
      BY <1>2, <3>1, <3>2 DEF Fits
  <2>6. ASSUME alone[b], Underway(b), NEW k, k = m + 1 PROVE Fits(b, k)'
    <3>1. (c.object \in present) = (c.verb = "drop") /\ c.verb \in {"create", "drop"}
      <4>1. c.guarded /\ Seen(dialect, c.object) /\ c.verb \notin {"use", "alter"}
        BY <1>2, ScriptsAssumption DEF Typed, WorldType, Rerunnable
      <4>2. c.verb \in {"create", "drop"} /\ ~dry[b]
        BY <1>2, <2>6, <4>1 DEF Call, Underway
      <4> QED
        BY <1>5, <4>1, <4>2 DEF existenceGuard
    <3>2. ASSUME c.verb = "create"
          PROVE  \/ Table[c.object] \in present \cup {c.object}
                 \/ \E j \in 1..m : plan[b][j].object = Table[c.object]
      <4>1. PICK i \in 1..n : script[i].object = Table[c.object]
        BY <1>2, <3>2 DEF Rerunnable
      <4>2. CASE i = n
        BY <4>1, <4>2
      <4>3. CASE i # n
        <5>1. i \in 1..called[b] /\ i \in DOMAIN script
          BY <1>2, <4>3
        <5>2. Settled(i) \/ Pending(b, i)
          BY <1>1, <2>6, <5>1 DEF Progress
        <5>3. script[i].verb = "create"
          BY <1>2, <3>2, <5>1 DEF Rerunnable
        <5> QED
          BY <1>2, <4>1, <5>2, <5>3 DEF Settled, Pending
      <4> QED
        BY <4>2, <4>3
    <3>3. \A j \in 1..m : j \in (ran'[b] + 1)..(k - 1) /\ plan'[b][j] = plan[b][j]
      BY <1>2, <2>1, <2>6
    <3>4. plan'[b][k] = c
      BY <2>1, <2>6
    <3> QED
      BY <1>2, <3>1, <3>2, <3>3, <3>4 DEF Fits
  <2>7. Underway(b)' => Underway(b)
    BY <1>2, <1>5 DEF Underway
  <2>8. \A k \in (ran'[b] + 1)..Len(plan'[b]) : k \in 1..m \/ k = m + 1
    BY <1>2, <2>1
  <2> QED
    BY <1>2, <1>5, <2>3, <2>4, <2>5, <2>6, <2>7, <2>8 DEF Undisturbed
<1>6. err[b] = 0 => err'[b] = n \/ UNCHANGED err
  BY <1>2 DEF ChainCall, add, Typed, PlanType
<1>7. n # 0
  BY <1>2
<1> QED
  BY <1>2, <1>3, <1>4, <1>5, <1>6, <1>7 DEF ChainCall, add

LEMMA StopSmooth ==
  ASSUME Typed, Smooth, NEW b \in Sessions, ProbeFails(b) \/ Exec(b) \/ ExecReturns(b) \/ Stops(b)
  PROVE  Smooth'
<1> SUFFICES ASSUME Rerunnable(script), NEW a \in Sessions PROVE Undisturbed(a)'
  BY DEF Smooth, ProbeFails, Exec, ExecReturns, Stops, world, Rerunnable, Seen, Supported
<1>1. Undisturbed(a)
  BY DEF Smooth
<1>2. /\ UNCHANGED <<script, present, dry, plan, ran, alone>>
      /\ \A d \in Sessions \ {b} : UNCHANGED <<pc[d], called[d], err[d]>>
  BY DEF ProbeFails, RecordProbeError, Exec, ExecReturns, Stops, world, chain, Typed, PlanType
<1>3. CASE a # b
  BY <1>1, <1>2, <1>3, RestSmooth
<1>4. CASE a = b
  <2>1. called[b] \in Nat /\ called'[b] \in {called[b], called[b] + 1}
    BY CallOfScript DEF ProbeFails, Exec, ExecReturns, Stops, Typed, PlanType, chain
  <2>2. Underway(b)' => Underway(b)
    <3>1. CASE ProbeFails(b)
      <4>1. err'[b] # 0
        BY <3>1, CallOfScript DEF ProbeFails, RecordProbeError, Typed, PlanType
      <4> QED
        BY <4>1 DEF Underway
    <3>2. CASE ~ProbeFails(b)
      BY <3>2 DEF Exec, ExecReturns, Stops, Underway, Typed, PlanType, world, chain
    <3> QED
      BY <3>1, <3>2
  <2>3. pc'[b] = "failed" => err'[b] # 0
    BY DEF ProbeFails, Exec, Proceed, ExecReturns, Stops, Typed, PlanType, chain
  <2>4. called[b] <= called'[b] /\ called'[b] \in Nat
    BY <2>1
  <2> QED
    BY <1>1, <1>2, <1>4, <2>2, <2>3, <2>4, MoveSmooth
<1> QED
  BY <1>3, <1>4

\* The next statement fits, so it is accepted, and the ones after it fit what it leaves.
LEMMA StatementSmooth ==
  ASSUME Typed, Advancing, Smooth, NEW b \in Sessions, ExecStatement(b) PROVE Smooth'
<1> SUFFICES ASSUME Rerunnable(script), NEW a \in Sessions PROVE Undisturbed(a)'
  BY DEF Smooth, ExecStatement, world, Rerunnable, Seen, Supported
<1> DEFINE n == ran[b] + 1
<1>1. Undisturbed(a) /\ Undisturbed(b) /\ Progress(b)
  BY DEF Smooth, Advancing
<1>2. /\ plan[b] \in Seq(Call) /\ ran[b] \in Nat /\ n \in DOMAIN plan[b] /\ pc[b] = "exec"
      /\ UNCHANGED <<dialect, script, dry, called, plan, err>>
      /\ alone' = [d \in Sessions |-> alone[d] /\ (d = b \/ present' = present)]
      /\ alone \in [Sessions -> BOOLEAN] /\ alone' \in [Sessions -> BOOLEAN]
  BY DEF ExecStatement, Typed, PlanType, WorldType, world, chain
<1>3. CASE a # b
  <2>1. UNCHANGED <<pc[a], ran[a]>>
    BY <1>3 DEF ExecStatement, AfterStatement, Typed, PlanType
  <2>2. alone'[a] => alone[a] /\ UNCHANGED present
    BY <1>2, <1>3
  <2> QED
    BY <1>1, <1>2, <2>1, <2>2, RestSmooth
<1>4. CASE a = b
  <2>1. Early(b)' /\ Ordered(b)'
    BY <1>1, <1>2 DEF Undisturbed, Early, Ordered
  <2>2. alone'[b] = alone[b]
    BY <1>2
  <2>3. CASE ~alone[b]
    BY <1>4, <2>1, <2>2, <2>3 DEF Undisturbed
  <2>4. CASE alone[b] /\ ~Underway(b)
    <3>1. Bounds(b)
      BY DEF Typed
    <3>2. FALSE
      <4>1. err[b] = 0
        BY <1>2, <3>1 DEF Bounds
      <4>2. ~dry[b]
        BY <1>2, <3>1 DEF Bounds
      <4> QED
        BY <1>2, <2>4, <4>1, <4>2 DEF Underway
    <3> QED
      BY <3>2
  <2>5. CASE alone[b] /\ Underway(b)
    <3>1. \A k \in n..Len(plan[b]) : Fits(b, k)
      BY <1>1, <2>5 DEF Undisturbed
    <3>2. PICK i \in DOMAIN script : plan[b][n] = script[i]
      BY <1>1, <1>2 DEF Progress, FromScript
    <3>3. Accepts(present, plan[b][n])
      <4>1. Fits(b, n) /\ (n..(n - 1)) = {}
        BY <1>2, <3>1
      <4> QED
        BY <1>2, <4>1 DEF Fits, Accepts
    <3>4. /\ ran' = [ran EXCEPT ![b] = n] /\ ran'[b] = n
          /\ present' = After(present, plan[b][n]) /\ UNCHANGED pc
      BY <3>3 DEF ExecStatement, AfterStatement, Typed, PlanType
    <3>5. ASSUME NEW k \in (n + 1)..Len(plan[b]) PROVE Fits(b, k)'
      <4>1. k \in DOMAIN plan[b] /\ n < k /\ Fits(b, k)
        BY <1>2, <3>1
      <4>2. PICK l \in DOMAIN script : plan[b][k] = script[l]
        BY <1>1, <4>1 DEF Progress, FromScript
      <4>3. i < l
        BY <1>1, <1>2, <3>2, <4>1, <4>2 DEF Undisturbed, Ordered
      <4>4. i # l /\ ~(l < i)
        <5>1. i \in Nat /\ l \in Nat
          BY ScriptsAssumption DEF Typed, WorldType
        <5> QED
          BY <4>3, <5>1
      <4>5. /\ script[i].verb = script[l].verb /\ script[i].object # script[l].object
            /\ Table[script[l].object] = script[i].object => script[l].verb = "create"
        BY <4>3, <4>4 DEF Rerunnable
      <4>6. script[i].verb \in {"create", "drop"} /\ script[l].object \in Objects
        <5>1. script[i] \in Call /\ script[i].verb \notin {"use", "alter"} /\ script[l] \in Call
          BY ScriptsAssumption DEF Typed, WorldType, Rerunnable
        <5> QED
          BY <5>1 DEF Call
      <4>7. CASE script[i].verb = "create"
        <5>1. present' = present \cup {script[i].object}
          BY <3>2, <3>4, <4>7 DEF After
        <5>2. ASSUME NEW j \in n..(k - 1), plan[b][j].object = Table[script[l].object]
              PROVE  \/ Table[script[l].object] \in present'
                     \/ \E h \in (n + 1)..(k - 1) : plan[b][h].object = Table[script[l].object]
          <6>1. CASE j = n
            BY <3>2, <5>1, <5>2, <6>1
          <6>2. CASE j # n
            <7>1. j \in (n + 1)..(k - 1)
              BY <1>2, <4>1, <6>2
            <7> QED
              BY <5>2, <7>1
          <6> QED
            BY <6>1, <6>2
        <5> QED
          BY <1>2, <3>4, <4>1, <4>2, <4>5, <4>7, <5>1, <5>2 DEF Fits
      <4>8. CASE script[i].verb = "drop"
        <5>1. present' = present \ {o \in Objects : script[i].object \in {o, Table[o]}}
          BY <3>2, <3>4, <4>8 DEF After
        <5>2. script[l].object \in present'
          BY <4>1, <4>2, <4>5, <4>6, <4>8, <5>1 DEF Fits
        <5> QED
          BY <1>2, <4>2, <4>5, <4>8, <5>2 DEF Fits
      <4> QED
        BY <4>6, <4>7, <4>8
    <3>6. pc'[b] # "failed"
      BY <1>2, <3>4
    <3> QED
      BY <1>2, <1>4, <2>1, <3>4, <3>5, <3>6 DEF Undisturbed
  <2> QED
    BY <2>3, <2>4, <2>5
<1> QED
  BY <1>3, <1>4

LEMMA SmoothStep == Typed /\ Advancing /\ Smooth /\ [Next]_vars => Smooth'
<1> SUFFICES ASSUME Typed, Advancing, Smooth, [Next]_vars PROVE Smooth'
  OBVIOUS
<1>1. CASE UNCHANGED vars
  <2> SUFFICES ASSUME Rerunnable(script), NEW a \in Sessions PROVE Undisturbed(a)'
    BY <1>1 DEF Smooth, vars, world, Rerunnable, Seen, Supported
  <2> QED
    BY <1>1, RestSmooth DEF Smooth, vars, world, chain
<1> QED
  BY <1>1, SchemaSmooth, CallSmooth, StopSmooth, StatementSmooth DEF Next, Finished

\* A guarded chain that is run again after any failures, of its own or of others, and that nobody
\* disturbs while it runs, is never refused by the database: it fails by a fault, or not at all.
THEOREM RerunsSucceed == Spec => []RerunNeverFails
<1>1. Init => Typed /\ Advancing /\ Smooth
  BY InitTyped, InitAdvancing, InitSmooth
<1>2. Typed /\ Advancing /\ Smooth /\ [Next]_vars => (Typed /\ Advancing /\ Smooth)'
  BY TypedStep, AdvancingStep, SmoothStep
<1>3. Smooth => RerunNeverFails
  BY DEF Smooth, Undisturbed, RerunNeverFails
<1> QED
  BY <1>1, <1>2, <1>3, PTL DEF Spec

-----------------------------------------------------------------------------
(* Previews *)

\* The statements of a plan are drawn from the calls made, in their order; a dry run takes all.
Drawn(b) ==
  \E g \in [DOMAIN plan[b] -> 1..called[b]] :
    \A i, j \in DOMAIN plan[b] : script[g[i]] = plan[b][i] /\ (i < j => g[i] < g[j])
Whole(b) ==
  dry[b] /\ err[b] = 0 =>
    Len(plan[b]) = called[b] /\ \A k \in 1..called[b] : plan[b][k] = script[k]

Previewed == \A b \in Sessions : Drawn(b) /\ Whole(b)

LEMMA NothingDrawn == \A b \in Sessions : plan[b] = <<>> /\ called[b] = 0 => Drawn(b) /\ Whole(b)
<1> SUFFICES ASSUME NEW b \in Sessions, plan[b] = <<>>, called[b] = 0 PROVE Drawn(b) /\ Whole(b)
  OBVIOUS
<1> DEFINE none == [k \in {} |-> 0]
<1>1. DOMAIN plan[b] = {} /\ Len(plan[b]) = 0
  OBVIOUS
<1>2. none \in [DOMAIN plan[b] -> 1..called[b]]
  BY <1>1
<1> HIDE DEF none
<1>3. \A i, j \in DOMAIN plan[b] : script[none[i]] = plan[b][i] /\ (i < j => none[i] < none[j])
  BY <1>1
<1>4. Drawn(b)
  BY <1>2, <1>3 DEF Drawn
<1>5. \A k : k \notin 1..called[b]
  OBVIOUS
<1> QED
  BY <1>1, <1>4, <1>5 DEF Whole

\* A session whose calls make no statement.
LEMMA SkipDrawn ==
  ASSUME Typed, Previewed, NEW a \in Sessions, UNCHANGED <<script, plan[a]>>,
         called'[a] \in Nat, called[a] <= called'[a],
         dry'[a] /\ err'[a] = 0 => dry[a] /\ err[a] = 0 /\ called'[a] = called[a]
  PROVE  Drawn(a)' /\ Whole(a)'
<1>1. PICK g \in [DOMAIN plan[a] -> 1..called[a]] :
        \A i, j \in DOMAIN plan[a] : script[g[i]] = plan[a][i] /\ (i < j => g[i] < g[j])
  BY DEF Previewed, Drawn
<1>2. g \in [DOMAIN plan'[a] -> 1..called'[a]]
  <2>1. script \in Seq(Call) /\ called[a] \in 0..Len(script)
    BY ScriptsAssumption DEF Typed, PlanType, WorldType
  <2> QED
    BY <1>1, <2>1
<1>3. Drawn(a)'
  BY <1>1, <1>2 DEF Drawn
<1> QED
  BY <1>3 DEF Previewed, Whole

LEMMA CallDrawn ==
  ASSUME Typed, Previewed, NEW b \in Sessions, ChainCall(b) PROVE Previewed'
<1> DEFINE n == called[b] + 1
<1> DEFINE c == script[n]
<1>1. /\ called[b] \in Nat /\ n \in DOMAIN script /\ plan[b] \in Seq(Call) /\ c \in Call
      /\ called' = [called EXCEPT ![b] = n] /\ called'[b] = n
      /\ UNCHANGED <<script, dry>>
      /\ \A a \in Sessions \ {b} : UNCHANGED <<called[a], plan[a], err[a]>>
  BY CallOfScript DEF ChainCall, add, Typed, PlanType, world
<1>2. \A a \in Sessions \ {b} : Drawn(a)' /\ Whole(a)'
  BY <1>1 DEF Previewed, Drawn, Whole
<1>3. CASE UNCHANGED plan /\ ~(dry'[b] /\ err'[b] = 0)
  BY <1>1, <1>2, <1>3, SkipDrawn DEF Previewed
<1>4. CASE UNCHANGED err /\ plan' = [plan EXCEPT ![b] = Append(plan[b], c)]
  <2> DEFINE m == Len(plan[b])
  <2>1. /\ Len(plan'[b]) = m + 1 /\ plan'[b][m + 1] = c /\ DOMAIN plan'[b] = 1..m + 1
        /\ \A k \in 1..m : plan'[b][k] = plan[b][k]
        /\ m \in Nat /\ DOMAIN plan[b] = 1..m
    BY <1>1, <1>4 DEF Typed, PlanType
  <2>2. PICK g \in [1..m -> 1..called[b]] :
          \A i, j \in 1..m : script[g[i]] = plan[b][i] /\ (i < j => g[i] < g[j])
    BY <2>1 DEF Previewed, Drawn
  <2> DEFINE h == [k \in 1..m + 1 |-> IF k = m + 1 THEN n ELSE g[k]]
  <2>3. \A k \in 1..m : h[k] = g[k] /\ g[k] \in 1..called[b]
    BY <2>1, <2>2
  <2>4. h[m + 1] = n /\ \A k \in 1..m + 1 : k \in 1..m \/ k = m + 1
    BY <2>1
  <2>5. h \in [DOMAIN plan'[b] -> 1..called'[b]]
    BY <1>1, <2>1, <2>3, <2>4
  <2>6. ASSUME NEW i \in 1..m + 1, NEW j \in 1..m + 1
        PROVE  script[h[i]] = plan'[b][i] /\ (i < j => h[i] < h[j])
    <3>1. script[h[i]] = plan'[b][i]
      BY <2>1, <2>2, <2>3, <2>4
    <3>2. ASSUME i < j PROVE h[i] < h[j]
      <4>1. i \in 1..m
        BY <2>1, <3>2
      <4>2. CASE j \in 1..m
        BY <2>2, <2>3, <3>2, <4>1, <4>2
      <4>3. CASE j = m + 1
        BY <1>1, <2>3, <2>4, <4>1, <4>3
      <4> QED
        BY <2>4, <4>2, <4>3
    <3> QED
      BY <3>1, <3>2
  <2> HIDE DEF h
  <2>7. Drawn(b)'
    <3>1. \A i, j \in DOMAIN plan'[b] : script'[h[i]] = plan'[b][i] /\ (i < j => h[i] < h[j])
      BY <1>1, <2>1, <2>6
    <3> QED
      BY <2>5, <3>1 DEF Drawn
  <2>8. Whole(b)'
    BY <1>1, <1>4, <2>1 DEF Previewed, Whole
  <2> QED
    BY <1>2, <2>7, <2>8 DEF Previewed
<1>5. CASE UNCHANGED <<plan, err>> /\ ~dry[b]
  BY <1>1, <1>3, <1>5
<1>6. CASE UNCHANGED plan /\ err'[b] # 0
  BY <1>3, <1>6
<1>7. ~existenceGuard(b, c) => ~dry[b]
  BY DEF existenceGuard
<1>8. \/ ~existenceGuard(b, c) /\ UNCHANGED <<plan, err>>
      \/ err[b] # 0 /\ UNCHANGED <<plan, err>>
      \/ err' = [err EXCEPT ![b] = n] /\ UNCHANGED plan
      \/ plan' = [plan EXCEPT ![b] = Append(plan[b], c)] /\ UNCHANGED err
  BY <1>1 DEF ChainCall, add
<1>9. err' = [err EXCEPT ![b] = n] => err'[b] # 0
  BY <1>1 DEF Typed, PlanType
<1> QED
  BY <1>4, <1>5, <1>6, <1>7, <1>8, <1>9

LEMMA PreviewedStep == Typed /\ Previewed /\ [Next]_vars => Previewed'
<1> SUFFICES ASSUME Typed, Previewed, [Next]_vars PROVE Previewed'
  OBVIOUS
<1>1. CASE UNCHANGED vars
  BY <1>1 DEF vars, world, chain, Previewed, Drawn, Whole
<1>2. ASSUME NEW b \in Sessions, NEW d \in BOOLEAN, Schema(b, d) PROVE Previewed'
  <2>1. /\ plan'[b] = <<>> /\ called'[b] = 0 /\ UNCHANGED script
        /\ \A a \in Sessions \ {b} : UNCHANGED <<dry[a], called[a], plan[a], err[a]>>
    BY <1>2 DEF Schema, Typed, PlanType, world
  <2>2. Drawn(b)' /\ Whole(b)'
    <3> DEFINE none == [k \in {} |-> 0]
    <3>1. DOMAIN plan'[b] = {} /\ Len(plan'[b]) = 0 /\ \A k : k \notin 1..called'[b]
      BY <2>1
    <3>2. none \in [DOMAIN plan'[b] -> 1..called'[b]]
      BY <3>1
    <3> HIDE DEF none
    <3>3. \A i, j \in DOMAIN plan'[b] : script'[none[i]] = plan'[b][i] /\ (i < j => none[i] < none[j])
      BY <3>1
    <3> QED
      BY <2>1, <3>1, <3>2, <3>3 DEF Drawn, Whole
  <2>3. \A a \in Sessions \ {b} : Drawn(a)' /\ Whole(a)'
    BY <2>1 DEF Previewed, Drawn, Whole
  <2> QED
    BY <2>2, <2>3 DEF Previewed
<1>3. ASSUME NEW b \in Sessions, ProbeFails(b) PROVE Previewed'
  <2>1. /\ UNCHANGED <<script, plan, dry>> /\ called[b] \in Nat
        /\ called'[b] = called[b] + 1 /\ err'[b] # 0
        /\ \A a \in Sessions \ {b} : UNCHANGED <<called[a], err[a]>>
    BY <1>3, CallOfScript DEF ProbeFails, RecordProbeError, Typed, PlanType, world
  <2>2. Drawn(b)' /\ Whole(b)'
    BY <2>1, SkipDrawn
  <2>3. \A a \in Sessions \ {b} : Drawn(a)' /\ Whole(a)'
    BY <2>1 DEF Previewed, Drawn, Whole
  <2> QED
    BY <2>2, <2>3 DEF Previewed
<1>4. ASSUME NEW b \in Sessions, Exec(b) \/ ExecStatement(b) \/ ExecReturns(b) \/ Stops(b)
      PROVE  Previewed'
  <2>1. UNCHANGED <<script, dry, called, plan, err>>
    BY <1>4 DEF Exec, ExecStatement, ExecReturns, Stops, world, chain
  <2> QED
    BY <2>1 DEF Previewed, Drawn, Whole
<1> QED
  BY <1>1, <1>2, <1>3, <1>4, CallDrawn DEF Next, Finished

LEMMA PreviewedCovers == Typed /\ Previewed => PreviewCoversRun
<1> SUFFICES ASSUME Typed, Previewed, NEW b \in Sessions, NEW d \in Sessions, dry[d], pc[d] = "done"
             PROVE  Embeds(plan[b], plan[d])
  BY DEF PreviewCoversRun
<1>1. /\ script \in Seq(Call) /\ plan[d] \in Seq(Call) /\ called[b] \in 0..Len(script)
      /\ called[d] = Len(script) /\ err[d] = 0
  BY ScriptsAssumption DEF Typed, PlanType, WorldType, Bounds
<1>2. DOMAIN plan[d] = 1..Len(script) /\ \A k \in 1..Len(script) : plan[d][k] = script[k]
  BY <1>1 DEF Previewed, Whole
<1>3. PICK g \in [DOMAIN plan[b] -> 1..called[b]] :
        \A i, j \in DOMAIN plan[b] : script[g[i]] = plan[b][i] /\ (i < j => g[i] < g[j])
  BY DEF Previewed, Drawn
<1>4. g \in [DOMAIN plan[b] -> DOMAIN plan[d]]
  BY <1>1, <1>2, <1>3
<1> QED
  BY <1>2, <1>3, <1>4 DEF Embeds

\* What a run of any chain plans, whatever its probes answer and whenever, is in every finished dry
\* run of the chain, in the same order.
THEOREM PreviewsCoverRuns == Spec => []PreviewCoversRun
<1>1. Init => Typed /\ Previewed
  <2>1. Init => \A b \in Sessions : plan[b] = <<>> /\ called[b] = 0
    BY DEF Init
  <2> QED
    BY <2>1, InitTyped, NothingDrawn DEF Previewed
<1>2. Typed /\ Previewed /\ [Next]_vars => (Typed /\ Previewed)'
  BY TypedStep, PreviewedStep
<1> QED
  BY <1>1, <1>2, PreviewedCovers, PTL DEF Spec

-----------------------------------------------------------------------------
(* Rerunnable chains that race without a lock: the sessions that make each *)
(* other fail.                                                             *)

\* A session that may still execute statements, and one that does and whose statements
\* all come after call i.
Active(b) == ~dry[b] /\ pc[b] \in {"chain", "exec"}
Leads(d, i) == pc[d] = "exec" /\ \A j \in DOMAIN script : Pending(d, j) => i < j

Unharmed == \A b \in Sessions : err[b] = 0 /\ pc[b] # "stopped"

\* A statement that is too late, because its call is settled, is behind a session that
\* will settle what comes after it; and as long as something is left to do, somebody is at it.
LateIsLed ==
  \A b \in Sessions, i \in DOMAIN script :
    Active(b) /\ Pending(b, i) /\ Settled(i) => \E d \in Sessions : Leads(d, i)
SomebodyIsAtIt ==
  (\E b \in Sessions : pc[b] # "idle" /\ ~dry[b]) => \E d \in Sessions : Active(d)

Led == AsAsked \/ (LateIsLed /\ SomebodyIsAtIt)

Racing == Rerunnable(script) /\ ~faulty => Unharmed /\ Led

Known == Typed /\ Advancing /\ Smooth

LEMMA InitRacing == Init => Racing
  BY DEF Init, Racing, Unharmed, Led, LateIsLed, SomebodyIsAtIt, Active

\* Without faults a session fails by a refused statement only.
LEMMA UnharmedStep ==
  ASSUME Typed, Rerunnable(script), ~faulty, ~faulty', Unharmed, [Next]_vars
  PROVE  Unharmed'
<1>1. CASE UNCHANGED vars
  BY <1>1 DEF vars, chain, Unharmed
<1>2. CASE \E b \in Sessions, d \in BOOLEAN : Schema(b, d)
  BY <1>2 DEF Schema, Unharmed, Typed, PlanType
<1>3. ASSUME NEW b \in Sessions, ChainCall(b) PROVE Unharmed'
  <2>1. Supported(dialect, script[called[b] + 1])
    BY <1>3, CallOfScript DEF ChainCall, Rerunnable
  <2>2. UNCHANGED <<pc, err>>
    BY <1>3, <2>1 DEF ChainCall, add, Unharmed
  <2> QED
    BY <2>2 DEF Unharmed
<1>4. ASSUME NEW b \in Sessions, Exec(b) \/ ExecStatement(b) \/ ExecReturns(b) PROVE Unharmed'
  BY <1>4 DEF Exec, Proceed, ExecStatement, AfterStatement, ExecReturns, Unharmed, chain, Typed, PlanType
<1>5. \A b \in Sessions : ~ProbeFails(b) /\ ~Stops(b)
  BY DEF ProbeFails, Stops
<1> QED
  BY <1>1, <1>2, <1>3, <1>4, <1>5 DEF Next, Finished

\* A step that leaves the database and what sessions have to execute alone.
LEMMA QuietLed ==
  ASSUME Led, UNCHANGED <<script, present, dry>>,
         \A b \in Sessions : UNCHANGED <<plan[b], ran[b]>>,
         \A b \in Sessions : Active(b)' = Active(b),
         \A b \in Sessions : pc'[b] # "idle" /\ ~dry[b] => pc[b] # "idle",
         \A b \in Sessions : pc[b] = "exec" => pc'[b] = "exec"
  PROVE  Led'
<1>1. CASE AsAsked
  BY <1>1 DEF AsAsked, Led
<1>2. CASE LateIsLed /\ SomebodyIsAtIt
  <2>1. \A b \in Sessions : \A i : Pending(b, i)' = Pending(b, i)
    BY DEF Pending
  <2>2. \A b \in Sessions : \A i : Leads(b, i) => Leads(b, i)'
    BY <2>1 DEF Leads
  <2>3. \A i : Settled(i)' = Settled(i)
    BY DEF Settled
  <2>4. LateIsLed'
    BY <1>2, <2>1, <2>2, <2>3 DEF LateIsLed
  <2>5. SomebodyIsAtIt'
    BY <1>2 DEF SomebodyIsAtIt
  <2> QED
    BY <2>4, <2>5 DEF Led
<1> QED
  BY <1>1, <1>2 DEF Led

\* A run that begins has nothing to execute yet.
LEMMA SchemaLed ==
  ASSUME Typed, Unharmed, Led, NEW b \in Sessions, NEW d \in BOOLEAN, Schema(b, d) PROVE Led'
<1>1. /\ UNCHANGED <<script, present>> /\ pc[b] \notin {"chain", "exec"}
      /\ pc'[b] = "chain" /\ dry'[b] = d /\ plan'[b] = <<>>
      /\ \A a \in Sessions \ {b} : UNCHANGED <<pc[a], dry[a], plan[a], ran[a]>>
  BY DEF Schema, world, Typed, PlanType
<1>2. CASE AsAsked
  BY <1>1, <1>2 DEF AsAsked, Led
<1>3. CASE LateIsLed /\ SomebodyIsAtIt
  <2>1. \A a \in Sessions \ {b} : \A i : Pending(a, i)' = Pending(a, i)
    BY <1>1 DEF Pending
  <2>2. \A a \in Sessions \ {b} : Active(a)' = Active(a)
    BY <1>1 DEF Active
  <2>3. \A a \in Sessions : \A i : Leads(a, i) => Leads(a, i)'
    BY <1>1, <2>1 DEF Leads
  <2>4. \A i : ~Pending(b, i)' /\ Settled(i)' = Settled(i)
    <3>1. ran'[b] = 0 /\ Len(plan'[b]) = 0
      BY <1>1 DEF Schema, Typed, PlanType
    <3> QED
      BY <1>1, <3>1 DEF Pending, Settled
  <2>5. LateIsLed'
    BY <1>1, <1>3, <2>1, <2>2, <2>3, <2>4 DEF LateIsLed
  <2>6. SomebodyIsAtIt'
    <3>1. CASE ~d
      BY <1>1, <3>1 DEF SomebodyIsAtIt, Active
    <3>2. CASE d
      BY <1>1, <1>3, <2>2, <3>2 DEF SomebodyIsAtIt, Active
    <3> QED
      BY <3>1, <3>2
  <2> QED
    BY <2>5, <2>6 DEF Led
<1> QED
  BY <1>2, <1>3 DEF Led

\* A statement is planned because its call is not settled.
LEMMA CallLed ==
  ASSUME Typed, Rerunnable(script), Unharmed, Led, NEW b \in Sessions, ChainCall(b) PROVE Led'
<1> DEFINE n == called[b] + 1
<1> DEFINE c == script[n]
<1>1. /\ n \in DOMAIN script /\ c \in Call /\ plan[b] \in Seq(Call) /\ ran[b] = 0 /\ pc[b] = "chain"
      /\ UNCHANGED <<dialect, script, present, pc, dry, ran>>
  BY CallOfScript DEF ChainCall, Typed, PlanType, Bounds, world
<1>2. CASE UNCHANGED plan
  BY <1>1, <1>2, QuietLed DEF Active
<1>3. CASE existenceGuard(b, c) /\ plan' = [plan EXCEPT ![b] = Append(plan[b], c)]
  <2>1. CASE AsAsked
    BY <1>1, <2>1 DEF AsAsked, Led
  <2>2. CASE LateIsLed /\ SomebodyIsAtIt
    <3>1. \A a \in Sessions \ {b} : plan'[a] = plan[a]
      BY <1>3 DEF Typed, PlanType
    <3>2. \A a \in Sessions \ {b} : \A i : Pending(a, i)' = Pending(a, i)
      BY <1>1, <3>1 DEF Pending
    <3>3. \A a \in Sessions : \A i : Leads(a, i) => Leads(a, i)'
      BY <1>1, <3>2 DEF Leads
    <3>4. ASSUME Active(b), NEW i \in DOMAIN script, Pending(b, i)', Settled(i) PROVE Pending(b, i)
      <4>1. /\ plan'[b] = Append(plan[b], c) /\ Len(plan'[b]) = Len(plan[b]) + 1
            /\ plan'[b][Len(plan[b]) + 1] = c
            /\ \A k \in 1..Len(plan[b]) : plan'[b][k] = plan[b][k]
            /\ Len(plan[b]) \in Nat
        BY <1>1, <1>3 DEF Typed, PlanType
      <4>2. PICK k \in 1..Len(plan[b]) + 1 : plan'[b][k] = script[i]
        BY <1>1, <3>4, <4>1 DEF Pending
      <4>3. CASE k \in 1..Len(plan[b])
        BY <1>1, <4>1, <4>2, <4>3 DEF Pending
      <4>4. CASE k = Len(plan[b]) + 1
        <5>1. i = n
          BY <1>1, <4>1, <4>2, <4>4 DEF Rerunnable
        <5>2. c.guarded /\ Seen(dialect, c.object) /\ c.verb \in {"create", "drop"}
          BY <1>1, ScriptsAssumption DEF Typed, WorldType, Rerunnable, Call
        <5>3. (c.object \in present) = (c.verb = "drop")
          BY <1>3, <3>4, <5>2 DEF existenceGuard, Active
        <5> QED
          BY <3>4, <5>1, <5>2, <5>3 DEF Settled
      <4> QED
        BY <4>1, <4>2, <4>3, <4>4
    <3>5. \A i : Settled(i)' = Settled(i)
      BY <1>1 DEF Settled
    <3>6. \A a \in Sessions : Active(a)' = Active(a)
      BY <1>1 DEF Active
    <3>7. LateIsLed'
      BY <1>1, <2>2, <3>2, <3>3, <3>4, <3>5, <3>6 DEF LateIsLed
    <3>8. SomebodyIsAtIt'
      BY <1>1, <2>2, <3>6 DEF SomebodyIsAtIt
    <3> QED
      BY <3>7, <3>8 DEF Led
  <2> QED
    BY <2>1, <2>2 DEF Led
<1> QED
  BY <1>2, <1>3 DEF ChainCall, add

\* Exec turns a session to its statements, or ends a dry run; to return it has executed all.
LEMMA ExecLed ==
  ASSUME Known, Known', Rerunnable(script), Unharmed, Led,
         NEW b \in Sessions, Exec(b) \/ ExecReturns(b)
  PROVE  Led'
<1>1. CASE Exec(b)
  <2>1. /\ UNCHANGED <<script, present, dry, plan, ran>> /\ pc[b] = "chain"
        /\ pc' = [pc EXCEPT ![b] = IF dry[b] THEN "done" ELSE "exec"]
    BY <1>1 DEF Exec, Proceed, Unharmed, world, chain
  <2>2. \A a \in Sessions : Active(a)' = Active(a)
    BY <2>1 DEF Active, Known, Typed, PlanType
  <2>3. \A a \in Sessions : (pc'[a] = "idle") = (pc[a] = "idle") /\ (pc[a] = "exec" => pc'[a] = "exec")
    BY <2>1 DEF Known, Typed, PlanType
  <2> QED
    BY <2>1, <2>2, <2>3, QuietLed
<1>2. CASE ExecReturns(b)
  <2>1. pc'[b] = "done" /\ ~dry'[b] /\ UNCHANGED <<dialect, script>>
    BY <1>2 DEF ExecReturns, world, Known, Typed, PlanType, Bounds
  <2>2. DoneMeansAsAsked'
    BY AdvancingImplies, PTL DEF Known
  <2>3. Rerunnable(script)'
    BY <2>1 DEF Rerunnable, Seen, Supported
  <2> QED
    BY <2>1, <2>2, <2>3 DEF DoneMeansAsAsked, Led
<1> QED
  BY <1>1, <1>2
\* A statement is refused only when its call is settled: another session was faster.
LEMMA RefusedIsSettled ==
  ASSUME Known, Rerunnable(script), Unharmed, NEW b \in Sessions, pc[b] = "exec",
         NEW n, n = ran[b] + 1, n <= Len(plan[b]),
         NEW i \in DOMAIN script, plan[b][n] = script[i], ~Accepts(present, script[i])
  PROVE  Settled(i)
<1> DEFINE c == script[i]
<1>1. script \in Seq(Call) /\ c \in Call /\ c.verb \in {"create", "drop"}
  <2>1. script \in Seq(Call) /\ c \in Call /\ c.verb \notin {"use", "alter"}
    BY ScriptsAssumption DEF Known, Typed, WorldType, Rerunnable
  <2> QED
    BY <2>1 DEF Call
<1>2. CASE c.verb = "drop"
  BY <1>2 DEF Accepts, Settled
<1>3. CASE c.verb = "create"
  <2>1. SUFFICES ASSUME Table[c.object] \notin present \cup {c.object} PROVE FALSE
    BY <1>3 DEF Accepts, Settled
  <2>2. PICK j \in 1..i : script[j].object = Table[c.object]
    BY <1>3 DEF Rerunnable
  <2>3. j \in DOMAIN script /\ j \in Nat /\ i \in Nat /\ j # i /\ ~(i < j)
    BY <1>1, <2>1, <2>2
  <2>4. script[j].verb = "create" /\ ~Settled(j)
    BY <1>3, <2>1, <2>2, <2>3 DEF Rerunnable, Settled
  <2>5. called[b] = Len(script) /\ ~dry[b] /\ Progress(b) /\ Ordered(b)
    BY DEF Known, Typed, Bounds, Advancing, Smooth, Undisturbed
  <2>6. Pending(b, j)
    <3>1. j \in 1..called[b] /\ Underway(b)
      BY <1>1, <2>3, <2>5 DEF Underway, Unharmed
    <3> QED
      BY <2>4, <2>5, <3>1 DEF Progress
  <2>7. PICK k \in n..Len(plan[b]) : plan[b][k] = script[j]
    BY <2>6 DEF Pending
  <2>8. plan[b] \in Seq(Call) /\ n \in DOMAIN plan[b] /\ k \in DOMAIN plan[b] /\ (k = n \/ n < k)
    BY <2>7 DEF Known, Typed, PlanType
  <2>9. k # n
    BY <2>3, <2>7 DEF Rerunnable
  <2> QED
    BY <2>3, <2>5, <2>7, <2>8, <2>9 DEF Ordered
<1> QED
  BY <1>1, <1>2, <1>3

\* The session that fails was led by another, which leads all that it led itself.
LEMMA RefusalLed ==
  ASSUME Known, Rerunnable(script), Unharmed, LateIsLed, NEW b \in Sessions, pc[b] = "exec",
         NEW i \in DOMAIN script, Pending(b, i), Settled(i),
         UNCHANGED <<script, present, dry, plan, ran>>, pc' = [pc EXCEPT ![b] = "failed"]
  PROVE  LateIsLed' /\ SomebodyIsAtIt'
<1>1. \A a \in Sessions : ~dry[a] \/ pc[a] # "exec"
  BY DEF Known, Typed, Bounds
<1>2. PICK d \in Sessions : Leads(d, i)
  BY <1>1 DEF LateIsLed, Active
<1>3. d # b /\ i \in Nat
  BY <1>2, ScriptsAssumption DEF Leads, Known, Typed, WorldType
<1>4. /\ \A a : \A j : Pending(a, j)' = Pending(a, j)
      /\ \A j : Settled(j)' = Settled(j)
      /\ \A a \in Sessions \ {b} : pc'[a] = pc[a]
      /\ pc'[b] = "failed"
  BY DEF Pending, Settled, Known, Typed, PlanType
<1>5. \A a \in Sessions \ {b} : \A j : Leads(a, j) => Leads(a, j)'
  BY <1>4 DEF Leads
<1>6. ASSUME NEW a \in Sessions, NEW l \in DOMAIN script, Active(a)', Pending(a, l), Settled(l)
      PROVE  \E e \in Sessions : Leads(e, l)'
  <2>1. PICK e \in Sessions : Leads(e, l)
    BY <1>4, <1>6 DEF LateIsLed, Active
  <2>2. CASE e = b
    <3>1. l < i /\ l \in Nat
      BY <2>1, <2>2, ScriptsAssumption DEF Leads, Known, Typed, WorldType
    <3>2. \A j \in DOMAIN script : j \in Nat
      BY ScriptsAssumption DEF Known, Typed, WorldType
    <3>3. Leads(d, l)
      BY <1>2, <1>3, <3>1, <3>2 DEF Leads
    <3> QED
      BY <1>3, <1>5, <3>3
  <2>3. CASE e # b
    BY <1>5, <2>1, <2>3
  <2> QED
    BY <2>2, <2>3
<1>7. LateIsLed'
  BY <1>4, <1>6 DEF LateIsLed
<1>8. Active(d)'
  BY <1>1, <1>2, <1>3, <1>4 DEF Active, Leads
<1> QED
  BY <1>7, <1>8 DEF SomebodyIsAtIt

\* An executed statement settles its own call and earlier ones only: the session leads the
\* others in everything it has just settled.
LEMMA AcceptedLed ==
  ASSUME Known, Rerunnable(script), LateIsLed, SomebodyIsAtIt, NEW b \in Sessions, pc[b] = "exec",
         NEW n, n = ran[b] + 1, n <= Len(plan[b]), NEW i \in DOMAIN script, plan[b][n] = script[i],
         UNCHANGED <<script, dry, plan, pc>>,
         ran' = [ran EXCEPT ![b] = n], present' = After(present, script[i])
  PROVE  LateIsLed' /\ SomebodyIsAtIt'
<1>1. /\ plan[b] \in Seq(Call) /\ ran[b] \in Nat /\ n \in DOMAIN plan[b] /\ Ordered(b)
      /\ script \in Seq(Call) /\ \A j \in DOMAIN script : j \in Nat /\ script[j] \in Call
      /\ ran'[b] = n /\ \A a \in Sessions \ {b} : ran'[a] = ran[a]
  BY ScriptsAssumption DEF Known, Typed, PlanType, WorldType, Smooth, Undisturbed
<1>2. \A a \in Sessions : \A j : Pending(a, j)' => Pending(a, j)
  BY <1>1 DEF Pending
<1>3. \A a \in Sessions : \A j : Leads(a, j) => Leads(a, j)'
  BY <1>2 DEF Leads
<1>4. Leads(b, i)'
  <2> SUFFICES ASSUME NEW j \in DOMAIN script, Pending(b, j)' PROVE i < j
    BY DEF Leads
  <2>1. PICK k \in (n + 1)..Len(plan[b]) : plan[b][k] = script[j]
    BY <1>1 DEF Pending
  <2>2. k \in DOMAIN plan[b] /\ n < k
    BY <1>1, <2>1
  <2> QED
    BY <1>1, <2>1, <2>2 DEF Ordered
<1>5. ASSUME NEW l \in DOMAIN script, ~Settled(l), Settled(l)' PROVE l <= i
  <2>1. /\ script[i].verb \in {"create", "drop"} /\ script[l].verb = script[i].verb
        /\ script[i].object \in Objects /\ script[l].object \in Objects
    BY <1>1, ScriptsAssumption DEF Rerunnable, Known, Typed, WorldType, Call
  <2>2. CASE script[i].verb = "create"
    <3>1. script[l].object = script[i].object
      BY <1>5, <2>1, <2>2 DEF Settled, After
    <3> QED
      BY <1>1, <3>1 DEF Rerunnable
  <2>3. CASE script[i].verb = "drop"
    <3>1. script[i].object \in {script[l].object, Table[script[l].object]}
      BY <1>5, <2>1, <2>3 DEF Settled, After
    <3>2. CASE script[i].object = script[l].object
      BY <1>1, <3>2 DEF Rerunnable
    <3>3. CASE l # i /\ script[i].object = Table[script[l].object]
      <4>1. ~(i < l)
        BY <2>1, <2>3, <3>3 DEF Rerunnable
      <4> QED
        BY <1>1, <4>1
    <3> QED
      BY <1>1, <3>1, <3>2, <3>3
  <2> QED
    BY <2>1, <2>2, <2>3
<1>6. ASSUME NEW a \in Sessions, NEW l \in DOMAIN script, Active(a), Pending(a, l)', Settled(l)'
      PROVE  \E e \in Sessions : Leads(e, l)'
  <2>1. CASE Settled(l)
    BY <1>2, <1>3, <1>6, <2>1 DEF LateIsLed
  <2>2. CASE ~Settled(l)
    <3>1. l <= i
      BY <1>5, <1>6, <2>2
    <3>2. Leads(b, l)'
      BY <1>1, <1>4, <3>1 DEF Leads
    <3> QED
      BY <3>2
  <2> QED
    BY <2>1, <2>2
<1>7. \A a \in Sessions : Active(a)' = Active(a)
  BY DEF Active
<1>8. LateIsLed'
  BY <1>6, <1>7 DEF LateIsLed
<1> QED
  BY <1>7, <1>8 DEF SomebodyIsAtIt

LEMMA StatementLed ==
  ASSUME Known, Rerunnable(script), Unharmed, Led, NEW b \in Sessions, ExecStatement(b) PROVE Led'
<1> DEFINE n == ran[b] + 1
<1>1. /\ plan[b] \in Seq(Call) /\ ran[b] \in Nat /\ n <= Len(plan[b]) /\ n \in DOMAIN plan[b]
      /\ pc[b] = "exec" /\ FromScript(b) /\ UNCHANGED <<script, dry, plan>>
  BY DEF ExecStatement, Known, Typed, PlanType, Advancing, Progress, world, chain
<1>2. PICK i \in DOMAIN script : plan[b][n] = script[i]
  BY <1>1 DEF FromScript
<1>3. CASE Accepts(present, script[i])
  <2>1. ran' = [ran EXCEPT ![b] = n] /\ present' = After(present, script[i]) /\ UNCHANGED pc
    BY <1>2, <1>3 DEF ExecStatement, AfterStatement
  <2>2. CASE AsAsked
    <3>1. \A l \in DOMAIN script : Settled(l)'
      BY <1>1, <2>1, <2>2, StatementsSettle DEF Known, AsAsked, Settled
    <3> QED
      BY <1>1, <3>1 DEF AsAsked, Settled, Led
  <2>3. CASE LateIsLed /\ SomebodyIsAtIt
    BY <1>1, <1>2, <2>1, <2>3, AcceptedLed DEF Led
  <2> QED
    BY <2>2, <2>3 DEF Led
<1>4. CASE ~Accepts(present, script[i])
  <2>1. pc' = [pc EXCEPT ![b] = "failed"] /\ UNCHANGED <<ran, present>>
    BY <1>2, <1>4 DEF ExecStatement, AfterStatement
  <2>2. CASE AsAsked
    BY <1>1, <2>1, <2>2 DEF AsAsked, Led
  <2>3. CASE LateIsLed /\ SomebodyIsAtIt
    <3>1. Settled(i)
      BY <1>1, <1>2, <1>4, RefusedIsSettled
    <3>2. Pending(b, i)
      <4>1. n \in (ran[b] + 1)..Len(plan[b])
        BY <1>1
      <4> QED
        BY <1>2, <4>1 DEF Pending
    <3> QED
      BY <1>1, <2>1, <2>3, <3>1, <3>2, RefusalLed DEF Led
  <2> QED
    BY <2>2, <2>3 DEF Led
<1> QED
  BY <1>3, <1>4

LEMMA StutterLed == ASSUME Led, UNCHANGED vars PROVE Led'
<1>1. UNCHANGED <<script, present, dry, plan, ran, pc>>
  BY DEF vars, world, chain
<1>2. \A b \in Sessions : Active(b)' = Active(b)
  BY <1>1 DEF Active
<1> QED
  BY <1>1, <1>2, QuietLed

LEMMA RacingStep == Known /\ Known' /\ Racing /\ [Next]_vars => Racing'
<1> SUFFICES ASSUME Known, Known', Racing, [Next]_vars, Rerunnable(script)', ~faulty'
             PROVE  Unharmed' /\ Led'
  BY DEF Racing
<1>1. UNCHANGED <<dialect, script>> /\ ~faulty
  BY DEF Next, Finished, Schema, ChainCall, ProbeFails, Exec, ExecStatement, ExecReturns, Stops,
         vars, world, Known, Typed, WorldType
<1>2. Rerunnable(script)
  BY <1>1 DEF Rerunnable, Seen, Supported
<1>3. Unharmed /\ Led /\ Typed
  BY <1>1, <1>2 DEF Racing, Known
<1>4. UNCHANGED vars => Led'
  BY <1>3, StutterLed
<1>5. \A b \in Sessions : ~ProbeFails(b) /\ ~Stops(b)
  BY DEF ProbeFails, Stops
<1>6. Led'
  BY <1>2, <1>3, <1>4, <1>5, SchemaLed, CallLed, ExecLed, StatementLed DEF Next, Finished, Unharmed
<1> QED
  BY <1>1, <1>2, <1>3, <1>6, UnharmedStep

LEMMA RacingImplies == Typed /\ Racing => RacersLeaveItAsAsked
  BY DEF Typed, Racing, Led, SomebodyIsAtIt, Active, Over, RacersLeaveItAsAsked

\* Any number of runs of a guarded chain that race without a lock may fail each other, but if no
\* fault occurs, when all are over the database is as the chain asks: one of them has done it.
THEOREM RacersSettleIt == Spec => []RacersLeaveItAsAsked
<1>1. Init => Known /\ Racing
  BY InitTyped, InitAdvancing, InitSmooth, InitRacing DEF Known
<1>2. Known /\ [Next]_vars => Known'
  BY TypedStep, AdvancingStep, SmoothStep DEF Known
<1>3. Known /\ Racing /\ [Next]_vars => (Known /\ Racing)'
  BY <1>2, RacingStep
<1>4. Known /\ Racing => RacersLeaveItAsAsked
  BY RacingImplies DEF Known
<1> QED
  BY <1>1, <1>3, <1>4, PTL DEF Spec
=============================================================================
