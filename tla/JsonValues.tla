----------------------------- MODULE JsonValues -----------------------------
(***************************************************************************)
(* Documents as the text and patch functions of cJSON see them: a value    *)
(* with its name and its children, in the order of the list (JsonHeap has  *)
(* the lists themselves).  Texts are sequences of bytes.                   *)
(***************************************************************************)
EXTENDS Integers, Sequences, FiniteSets, SequencesExt

CONSTANT IntMax     \* INT_MAX, the bound of valueint

NoText == <<>>

\* An item: its type, its name, its valuedouble, its valuestring, its children.
Item(t, n, d, s, k) == [type |-> t, name |-> n, num |-> d, text |-> s, kids |-> k]
Literal(t) == Item(t, NoText, 0, NoText, <<>>)
NumberItem(d) == Item("number", NoText, d, NoText, <<>>)
StringItem(s) == Item("string", NoText, 0, s, <<>>)
ArrayItem(k) == Item("array", NoText, 0, NoText, k)
ObjectItem(k) == Item("object", NoText, 0, NoText, k)
Named(n, v) == [v EXCEPT !.name = n]

\* What a search returns when it finds nothing, and a failed call.
NoItem == Literal("none")

\* cJSON_SetNumberHelper, cJSON_CreateNumber, parse_number: valueint saturates.
ValueInt(v) ==
  IF v.num >= IntMax THEN IntMax ELSE IF v.num <= -IntMax - 1 THEN -IntMax - 1 ELSE v.num

ToLower(c) == IF c \in 65 .. 90 THEN c + 32 ELSE c

\* strcmp, or case_insensitive_strcmp: negative, zero or positive.
CompareStrings(a, b, sensitive) ==
  LET At(s, k) == IF k > Len(s) THEN 0 ELSE IF sensitive THEN s[k] ELSE ToLower(s[k])
      differ == {k \in 1 .. Len(a) + 1 : At(a, k) # At(b, k)}
      first == CHOOSE k \in differ : \A j \in differ : k <= j
  IN IF differ = {} THEN 0 ELSE At(a, first) - At(b, first)

\* get_object_item: the first member of that name.
MemberPosition(o, name, sensitive) ==
  LET found == {k \in DOMAIN o.kids : CompareStrings(name, o.kids[k].name, sensitive) = 0}
  IN IF found = {} THEN 0 ELSE CHOOSE k \in found : \A j \in found : k <= j

Member(o, name, sensitive) ==
  LET k == MemberPosition(o, name, sensitive) IN IF k = 0 THEN NoItem ELSE o.kids[k]

\* cJSON_Compare
RECURSIVE Compare(_, _, _)
Compare(a, b, sensitive) ==
  LET Within(x, y) == \A k \in DOMAIN x.kids :
        LET other == Member(y, x.kids[k].name, sensitive)
        IN other # NoItem /\ Compare(x.kids[k], other, sensitive)
  IN /\ a.type = b.type
     /\ CASE a.type = "number" -> a.num = b.num
          [] a.type = "string" -> a.text = b.text
          [] a.type = "array" -> /\ Len(a.kids) = Len(b.kids)
                                 /\ \A k \in DOMAIN a.kids : Compare(a.kids[k], b.kids[k], sensitive)
          [] a.type = "object" -> Within(a, b) /\ Within(b, a)
          [] OTHER -> TRUE

-----------------------------------------------------------------------------
(* The reference: two documents are equal when the order of members is all *)
(* they differ in.                                                         *)

RECURSIVE Canonical(_, _)
\* The document as sets: members by name, elements by position.
Canonical(v, sensitive) ==
  LET Name(k) == IF sensitive THEN v.kids[k].name ELSE [j \in DOMAIN v.kids[k].name |-> ToLower(v.kids[k].name[j])]
      Place(k) == IF v.type = "object" THEN Name(k) ELSE <<k>>
  IN <<v.type, v.num, v.text, {<<Place(k), Canonical(v.kids[k], sensitive)>> : k \in DOMAIN v.kids}>>

Equal(a, b, sensitive) == Canonical(a, sensitive) = Canonical(b, sensitive)

\* No object has two members of the same name.
RECURSIVE Unambiguous(_, _)
Unambiguous(v, sensitive) ==
  /\ \A j, k \in DOMAIN v.kids :
       v.type = "object" /\ j # k => CompareStrings(v.kids[j].name, v.kids[k].name, sensitive) # 0
  /\ \A k \in DOMAIN v.kids : Unambiguous(v.kids[k], sensitive)
=============================================================================
