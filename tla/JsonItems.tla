----------------------------- MODULE JsonItems -----------------------------
(***************************************************************************)
(* The items of cJSON and the links between them (src/user_components/     *)
(* cJSON/cJSON/cJSON.c): how the functions of the library that work on one *)
(* list change next, prev and child.  Each returns the memory it leaves.   *)
(* JsonHeap builds programs from them.                                     *)
(*                                                                         *)
(* An item is linked to its neighbours by next and prev; the prev of the   *)
(* first child leads to the last.  m.items holds the items that are        *)
(* allocated, so that the use of a freed one is an error of the model;     *)
(* m.strings counts the texts that are; m.left are the allocations that    *)
(* will still succeed.  A name is a number in the order of strcmp.         *)
(***************************************************************************)
EXTENDS Integers, Sequences, FiniteSets, SequencesExt

Null == 0
Types == {"array", "object", "string"}

Items == [type : Types, next : Nat, prev : Nat, child : Nat,
          name : Nat, const : BOOLEAN, text : BOOLEAN, ref : BOOLEAN]

\* Memory set to zeros, but for the type it is allocated for.
Blank(t) == [type |-> t, next |-> Null, prev |-> Null, child |-> Null,
             name |-> Null, const |-> FALSE, text |-> FALSE, ref |-> FALSE]

\* cJSON_New_Item, when there is memory for the item i.
Allocate(m, i, x) ==
  [m EXCEPT !.left = @ - 1, !.items = [y \in DOMAIN @ \cup {i} |-> IF y = i THEN x ELSE @[y]]]

\* What create_reference copies: text and children are shared.
ReferenceTo(x) == [x EXCEPT !.name = Null, !.ref = TRUE, !.next = Null, !.prev = Null]

\* cJSON_strdup, when there is memory for it.
StrDup(m) == [m EXCEPT !.left = @ - 1, !.strings = @ + 1]
Field(m, i, f, v) == [m EXCEPT !.items[i] = [@ EXCEPT ![f] = v]]

SuffixObject(m, p, n) == Field(Field(m, p, "next", n), n, "prev", p)

\* The loops that build a list of new items, in cJSON_Create...Array and
\* cJSON_Duplicate: p is the last item so far.  Only their end makes the list
\* one that can be appended to.
LinkNext(m, c, p, i) == IF p = Null THEN Field(m, c, "child", i) ELSE SuffixObject(m, p, i)
LinkEnd(m, c, p) == IF p = Null THEN m ELSE Field(m, m.items[c].child, "prev", p)

\* get_array_item, for an index that is not negative
GetArrayItem(m, c, index) ==
  LET after[k \in 0 .. index] ==
        IF k = 0 THEN m.items[c].child
        ELSE IF after[k - 1] = Null THEN Null ELSE m.items[after[k - 1]].next
  IN after[index]

\* add_item_to_array, for an item and a container that exist and are not the
\* same: the code refuses to add an item to itself
AddItemToArray(m, c, i) ==
  LET head == m.items[c].child
      last == m.items[head].prev
  IN IF head = Null
       THEN Field(Field(Field(m, c, "child", i), i, "prev", i), i, "next", Null)
     ELSE IF last = Null THEN m
     ELSE Field(SuffixObject(m, last, i), head, "prev", i)

FreeName(m, i) ==
  IF ~m.items[i].const /\ m.items[i].name # Null THEN [m EXCEPT !.strings = @ - 1] ELSE m

\* The key that add_item_to_object gives an item: a copy of the name, for
\* which there has to be memory (CanName), or the name itself.
CanName(m) == m.left > 0
Keyed(m, name, i, constant) ==
  LET keyed == IF constant THEN m ELSE StrDup(m)
  IN Field(Field(FreeName(keyed, i), i, "name", name), i, "const", constant)
AddItemToObject(m, c, name, i, constant) == AddItemToArray(Keyed(m, name, i, constant), c, i)

\* The naming in replace_item_in_object: without memory the name is gone.
Rename(m, i, name) ==
  LET freed == Field(FreeName(m, i), i, "const", FALSE)
  IN IF m.left = 0 THEN Field(freed, i, "name", Null) ELSE Field(StrDup(freed), i, "name", name)

\* cJSON_DetachItemViaPointer: the neighbours first, and the way to the end of
\* the list when the last item goes.
UnlinkItem(m, c, i) ==
  LET x == m.items[i]
      first == i = m.items[c].child
      before == IF first THEN m ELSE Field(m, x.prev, "next", x.next)
      behind == IF x.next = Null THEN before ELSE Field(before, x.next, "prev", x.prev)
  IN IF first THEN Field(behind, c, "child", x.next) ELSE behind
ByItself(m, i) == Field(Field(m, i, "prev", Null), i, "next", Null)
DetachForgetsEnd(m, c, i) == ByItself(UnlinkItem(m, c, i), i)
DetachItem(m, c, i) ==
  LET x == m.items[i]
      u == UnlinkItem(m, c, i)
  IN ByItself(IF i # m.items[c].child /\ x.next = Null THEN Field(u, m.items[c].child, "prev", x.prev) ELSE u, i)

\* cJSON_InsertItemInArray
InsertPast(m, c, k, i) ==
  LET after == GetArrayItem(m, c, k + 1)
  IN IF after = Null THEN AddItemToArray(m, c, i)
     ELSE LET before == m.items[after].prev
          IN Field(Field(Field(Field(m, i, "next", after), i, "prev", before), after, "prev", i), before, "next", i)
InsertItemInArray(m, c, k, i) ==
  LET after == GetArrayItem(m, c, k)
      before == m.items[after].prev
      linked == Field(Field(Field(m, i, "next", after), i, "prev", before), after, "prev", i)
  IN IF after = Null THEN AddItemToArray(m, c, i)
     ELSE IF after = m.items[c].child THEN Field(linked, c, "child", i)
     ELSE Field(linked, before, "next", i)

\* cJSON_ReplaceItemViaPointer, up to the deletion of what was there.
PutInPlace(m, c, i, r) ==
  LET x == m.items[i]
      copied == Field(Field(m, r, "next", x.next), r, "prev", x.prev)
      behind == IF x.next = Null THEN copied ELSE Field(copied, x.next, "prev", r)
      before == IF x.prev = Null THEN behind ELSE Field(behind, x.prev, "next", r)
  IN ByItself(IF m.items[c].child = i
                THEN Field(IF x.prev = i THEN Field(behind, r, "prev", r) ELSE behind, c, "child", r)
              ELSE IF x.next = Null THEN Field(before, m.items[c].child, "prev", r)
              ELSE before, i)

-----------------------------------------------------------------------------
(* What the links stand for: l[c] are the children of c, in their order.   *)

Heap(m) ==
  /\ m \in [items : [DOMAIN m.items -> Items], strings : Int, left : Int]
  /\ DOMAIN m.items \subseteq Nat \ {Null}
  /\ IsFiniteSet(DOMAIN m.items)

\* No item is in two lists, or in one twice.
Disjoint(l) ==
  \A c, d \in DOMAIN l : \A j \in DOMAIN l[c], k \in DOMAIN l[d] :
    l[c][j] = l[d][k] => c = d /\ j = k

\* The items that are in no list.
Loose(l) == {i \in DOMAIN l : \A c \in DOMAIN l : \A k \in DOMAIN l[c] : l[c][k] # i}

Nth(s, k) == IF k \in DOMAIN s THEN s[k] ELSE Null

\* The links of m are those of the lists l; only of the containers in u is the
\* way from the first item to the last lost.  A reference has no children of
\* its own.
Linked(m, l, u) ==
  /\ l \in [DOMAIN m.items -> Seq(DOMAIN m.items)]
  /\ Disjoint(l)
  /\ \A c \in DOMAIN l : IF m.items[c].ref THEN l[c] = <<>> ELSE m.items[c].child = Nth(l[c], 1)
  /\ \A c \in DOMAIN l : \A k \in DOMAIN l[c] :
       /\ m.items[l[c][k]].next = Nth(l[c], k + 1)
       /\ k > 1 => m.items[l[c][k]].prev = l[c][k - 1]
       /\ k = 1 /\ c \notin u => m.items[l[c][k]].prev = l[c][Len(l[c])]
  /\ \A i \in Loose(l) : m.items[i].next = Null /\ m.items[i].prev = Null

\* The texts and the names that are allocated for an item.
TextsOf(m) == {i \in DOMAIN m.items : m.items[i].text /\ ~m.items[i].ref}
NamesOf(m) == {i \in DOMAIN m.items : m.items[i].name # Null /\ ~m.items[i].const}
TextsCounted(m) == m.strings = Cardinality(TextsOf(m)) + Cardinality(NamesOf(m))

\* A heap of the lists l, in which every text belongs to an item.
Sound(m, l, u) == Heap(m) /\ Linked(m, l, u) /\ TextsCounted(m)
=============================================================================
