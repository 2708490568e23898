---------------------------- MODULE MCSchemaPlan ----------------------------
(***************************************************************************)
(* Instances of SchemaPlan for TLC: one table with a column, an index, a   *)
(* primary key and a foreign key, and the chains of calls on them.         *)
(***************************************************************************)
EXTENDS SchemaPlan

CONSTANTS b1, b2, article, slug, slug_index, primary_key, user_key

MCObjects == {article, slug, slug_index, primary_key, user_key}
MCKind == [o \in MCObjects |-> CASE o = article    -> "table"
                                 [] o = slug       -> "column"
                                 [] o = slug_index -> "index"
                                 [] o = primary_key -> "primary"
                                 [] OTHER          -> "foreign"]
MCTable == [o \in MCObjects |-> article]

IfNeeded(v, o) == [verb |-> v, object |-> o, guarded |-> TRUE]
Strict(v, o) == [verb |-> v, object |-> o, guarded |-> FALSE]

\* The chains of Up and Down in examples/migrations, chains without their foreign
\* key, and chains that mix strict calls, other statements and both verbs.
MCScripts == {
  <<IfNeeded("create", article), IfNeeded("create", slug_index), IfNeeded("create", user_key),
    Strict("use", article)>>,
  <<IfNeeded("create", article), IfNeeded("create", slug), IfNeeded("create", slug_index)>>,
  <<IfNeeded("create", article), IfNeeded("create", primary_key)>>,
  <<IfNeeded("drop", user_key), IfNeeded("drop", slug_index), IfNeeded("drop", article)>>,
  <<IfNeeded("drop", slug_index), IfNeeded("drop", slug), IfNeeded("drop", article)>>,
  <<IfNeeded("drop", slug_index), IfNeeded("drop", article)>>,
  <<Strict("create", article), Strict("alter", article), IfNeeded("create", slug_index)>>,
  <<Strict("drop", user_key), IfNeeded("drop", article), IfNeeded("create", article)>>}
=============================================================================
