-------------------------- MODULE MCDataStatements --------------------------
(***************************************************************************)
(* Instances of DataStatements for TLC: a table of two columns.            *)
(***************************************************************************)
EXTENDS DataStatements

P(v) == [expr |-> FALSE, v |-> v]
E(v) == [expr |-> TRUE, v |-> v]
NoCond == [tests |-> <<>>, first |-> 0]
By(col) == [col |-> col, lit |-> 0]
Is(col, v) == [col |-> col, lit |-> v]

Insert(cols, values) ==
  [op |-> "insert", cols |-> cols, rows |-> <<values>>, cond |-> NoCond, args |-> <<>>]
Batch(cols, rows) ==
  [op |-> "batch", cols |-> cols, rows |-> rows, cond |-> NoCond, args |-> <<>>]
Update(cols, values, cond, args) ==
  [op |-> "update", cols |-> cols, rows |-> <<values>>, cond |-> cond, args |-> args]
Delete(cond, args) ==
  [op |-> "delete", cols |-> <<>>, rows |-> <<>>, cond |-> cond, args |-> args]

\* An Expression before and after a plain value, keys out of order, an empty row.
Inserts == {Insert(<<2, 1>>, <<P(2), P(1)>>), Insert(<<1, 2>>, <<E(2), P(1)>>),
            Insert(<<1>>, <<P(2)>>), Insert(<<>>, <<>>)}
Batches == {Batch(<<2, 1>>, <<<<P(1), E(2)>>, <<P(2), P(1)>>>>),
            Batch(<<1, 2>>, <<<<P(1), P(2)>>, <<P(2)>>>>)}
\* Every numbering an author may try, with none, one or two bound values in front.
Updates ==
  {Update(<<2, 1>>, <<P(1), P(2)>>, [tests |-> <<By(1)>>, first |-> n], <<1>>) : n \in {0, 1, 3}}
  \cup {Update(<<2>>, <<P(2)>>, [tests |-> <<Is(2, 1), By(1)>>, first |-> n], <<2>>) : n \in {0, 1, 2}}
  \cup {Update(<<1>>, <<E(1)>>, [tests |-> <<By(2), By(1)>>, first |-> n], <<1, 2>>) : n \in {0, 1}}
  \cup {Update(<<2>>, <<P(1)>>, NoCond, <<2>>)}
Deletes ==
  {Delete([tests |-> <<By(1), By(2)>>, first |-> n], <<2, 1>>) : n \in {0, 1}}
  \cup {Delete(NoCond, <<>>), Delete(NoCond, <<1>>)}

Calls == Inserts \cup Batches \cup Updates \cup Deletes
Asking(ask, cond, args, calls) == [ask |-> ask, cond |-> cond, args |-> args, calls |-> calls]

MCMigrations ==
  {Asking("nothing", NoCond, <<>>, <<c, d>>) : c \in Calls, d \in Calls}
  \cup {Asking(ask, [tests |-> <<By(1)>>, first |-> n], <<1>>, calls) :
          ask \in {"exists", "count"}, n \in {0, 1},
          calls \in {<<Insert(<<2, 1>>, <<E(2), P(1)>>)>>,
                     <<Insert(<<1>>, <<P(1)>>), Insert(<<1>>, <<P(2)>>)>>}}

Row(a, b) == <<a, b>>
MCTables == {<<>>, <<Row(1, 2), Row(2, 1)>>, <<Row(2, 1), Row(2, 2)>>}
=============================================================================
