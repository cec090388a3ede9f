------------------------------- MODULE MCJson -------------------------------
(***************************************************************************)
(* cJSON on small documents: what its heap goes through, step by step, and *)
(* what its functions from documents to documents compute, for every       *)
(* document of the sets below.                                             *)
(***************************************************************************)
EXTENDS JsonHeap, JsonText, JsonPatch

\* "A" and "a": strcmp tells them apart, tolower does not.
MCNames == {1, 2}
MCConstantNames == {1}
MCFolded(n) == 2
\* Lists of mixed items, and copies of whole arrays.
MCSlots == {[array |-> {1}, object |-> {2}, string |-> {3, 4}],
            [array |-> {1, 2}, object |-> {}, string |-> {3, 4, 5}]}

SeqsUpTo(n, S) == UNION {[1 .. k -> S] : k \in 0 .. n}

\* Documents to print: every kind of escape, numbers on both sides of INT_MAX,
\* lists of up to two values, and those within others.
MCTexts == {<<>>, <<97>>, <<Quote, 97>>, <<97, Backslash>>, <<10, 1>>, <<31, 47, 195, 169>>}
MCScalars ==
  {Literal(t) : t \in {"null", "true", "false"}} \cup {StringItem(s) : s \in MCTexts} \cup
  {NumberItem(n) : n \in {0, -7, 99, 100, -120, -100}}
MCSmall == {NumberItem(12), StringItem(<<Quote, 32>>), Literal("true")}
MCFlat ==
  {ArrayItem(k) : k \in SeqsUpTo(2, MCSmall)} \cup
  {ObjectItem([j \in DOMAIN k |-> Named(<<97 + j>>, k[j])]) : k \in SeqsUpTo(2, MCSmall)}
MCTextDocuments ==
  MCScalars \cup MCFlat \cup {ArrayItem(<<v, NumberItem(0)>>) : v \in MCFlat} \cup
  {ObjectItem(<<Named(<<10>>, v), Named(<<>>, Literal("null"))>>) : v \in MCFlat}

\* Documents to compare and patch: names that differ by their case, and one of
\* nothing but characters a pointer escapes.
MCLeaves ==
  {Literal("null"), NumberItem(1), StringItem(<<97>>), ObjectItem(<<>>), ArrayItem(<<NumberItem(2)>>)}
MCKeys == {<<97>>, <<65>>, <<98>>, <<47, 126>>}
MCObjects(vs) ==
  {ObjectItem(<<>>)} \cup {ObjectItem(<<Named(n, v)>>) : n \in MCKeys, v \in vs} \cup
  {ObjectItem(<<Named(n, v), Named(m, NumberItem(1))>>) : n, m \in MCKeys, v \in vs}
MCArrays(vs) ==
  {ArrayItem(k) : k \in SeqsUpTo(1, vs)} \cup {ArrayItem(<<v, v>>) : v \in vs} \cup
  {ArrayItem(<<NumberItem(1), v, NumberItem(3)>>) : v \in vs}
MCPatchDocuments ==
  MCLeaves \cup MCObjects(MCLeaves) \cup MCArrays(MCLeaves) \cup
  {ObjectItem(<<Named(<<98>>, v), Named(<<97>>, NumberItem(1))>>) : v \in MCObjects({NumberItem(1), NumberItem(2)})}
MCMergeDocuments == {d \in MCPatchDocuments : d.type = "object"}

-----------------------------------------------------------------------------
(* The functions from documents to documents do not depend on what the     *)
(* program has on its heap: they are looked at when it makes its first     *)
(* call.                                                                   *)

\* cJSON.c: what is printed, formatted or not, into buffers that grow and
\* buffers that do not, is parsed to the document it was; parts of it are
\* refused, escapes decoded, nesting bounded, and Minify undoes formatting.
TextFaithful == [][Init => PrintingAndParsing]_vars

\* cJSON_Utils.c: pointers lead back to the item they were found for, generated
\* patches and merge patches from the one document to the other, moves there
\* and back, and both comparisons mean equality.
DocumentsPatch == [][Init => PatchingAndMerging]_vars
=============================================================================
