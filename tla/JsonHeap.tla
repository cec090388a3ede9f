------------------------------ MODULE JsonHeap ------------------------------
(***************************************************************************)
(* The items of cJSON on the heap (src/user_components/cJSON/cJSON/        *)
(* cJSON.c) and a program that builds, changes and frees documents through *)
(* the functions of the library, any of whose allocations may fail.        *)
(*                                                                         *)
(* JsonItems has the items and their links.  Folded is the lower case of a *)
(* name.                                                                   *)
(*                                                                         *)
(* The program obeys the library's rules: it adds only items it holds by   *)
(* themselves, changes nothing a reference refers to, and appends nothing  *)
(* to an object it had sorted.                                             *)
(***************************************************************************)
EXTENDS JsonItems

CONSTANTS
  SlotChoices,    \* bound: for each type, the items there is memory for
  MaxAllocs,      \* bound: allocations of a call that may succeed before one fails
  Names,          \* names of members, numbers from 1
  ConstantNames,  \* those the program passes as constants (cJSON_AddItemToObjectCS)
  Folded(_)       \* their lower case

VARIABLES
  memory,         \* items, strings, and the allocations the current call has left
  roots,          \* items the program holds by themselves
  unlinked,       \* objects whose list sort_list has left without its way to the end
  slots           \* the choice of SlotChoices

vars == <<memory, roots, unlinked, slots>>

-----------------------------------------------------------------------------
(* Memory.  Functions return the memory m they leave and the item i. *)

Result(m, i) == [m |-> m, i |-> i]

\* cJSON_New_Item: memory set to zeros, but for the type it is allocated for.
NewItem(m, t) ==
  LET free == slots[t] \ DOMAIN m.items
      i == CHOOSE x \in free : \A y \in free : x <= y
  IN IF m.left = 0 \/ free = {} THEN Result(m, Null)
     ELSE Result(Allocate(m, i, Blank(t)), i)

\* cJSON_Delete: the item, what is below it, and every item behind it.
RECURSIVE Delete(_, _)
Delete(m, i) ==
  IF i = Null THEN m
  ELSE LET x == m.items[i]
           below == IF ~x.ref /\ x.child # Null THEN Delete(m, x.child) ELSE m
           texts == (IF ~x.ref /\ x.text THEN 1 ELSE 0) + (IF ~x.const /\ x.name # Null THEN 1 ELSE 0)
       IN Delete([below EXCEPT !.strings = @ - texts,
                               !.items = [y \in DOMAIN @ \ {i} |-> @[y]]], x.next)

\* cJSON_CreateArray, cJSON_CreateObject and cJSON_CreateString, which stands
\* for numbers and literals too: they only allocate less.
CreateItem(m, t) ==
  LET n == NewItem(m, t)
  IN IF n.i = Null \/ t # "string" THEN n
     ELSE IF n.m.left = 0 THEN Result(Delete(n.m, n.i), Null)
     ELSE Result(Field(StrDup(n.m), n.i, "text", TRUE), n.i)

\* The loop of cJSON_CreateStringArray: k elements are left, p is the last one.
RECURSIVE Elements(_, _, _, _)
Elements(m, a, p, k) ==
  LET n == CreateItem(m, "string")
  IN IF k = 0 THEN Result(LinkEnd(m, a, p), a)
     ELSE IF n.i = Null THEN Result(Delete(n.m, a), Null)
     ELSE Elements(LinkNext(n.m, a, p, n.i), a, n.i, k - 1)

\* cJSON_CreateIntArray, ...FloatArray, ...DoubleArray, ...StringArray
CreateArrayOf(m, k) ==
  LET a == CreateItem(m, "array")
  IN IF a.i = Null THEN a ELSE Elements(a.m, a.i, Null, k)

\* create_reference: a copy that shares text and children.
CreateReference(m, i) ==
  LET n == NewItem(m, m.items[i].type)
  IN IF n.i = Null THEN n
     ELSE Result([n.m EXCEPT !.items[n.i] = ReferenceTo(m.items[i])], n.i)

RECURSIVE Duplicate(_, _, _), DuplicateFrom(_, _, _, _)
\* cJSON_Duplicate
Duplicate(m, i, recurse) ==
  LET x == m.items[i]
      n == NewItem(m, x.type)
      typed == Field(n.m, n.i, "const", x.const)
      texted == IF x.text THEN Field(StrDup(typed), n.i, "text", TRUE) ELSE typed
      named == Field(IF x.const \/ x.name = Null THEN texted ELSE StrDup(texted), n.i, "name", x.name)
  IN IF n.i = Null THEN n
     ELSE IF x.text /\ typed.left = 0 THEN Result(Delete(typed, n.i), Null)
     ELSE IF x.name # Null /\ ~x.const /\ texted.left = 0 THEN Result(Delete(texted, n.i), Null)
     ELSE IF ~recurse THEN Result(named, n.i)
     ELSE DuplicateFrom(named, n.i, x.child, Null)

\* Its loop over the children: c is the next to copy, p the last copy.
DuplicateFrom(m, i, c, p) ==
  LET n == Duplicate(m, c, TRUE)
  IN IF c = Null THEN Result(LinkEnd(m, i, p), i)
     ELSE IF n.i = Null THEN Result(Delete(n.m, i), Null)
     ELSE DuplicateFrom(LinkNext(n.m, i, p, n.i), i, m.items[c].next, n.i)

-----------------------------------------------------------------------------
(* Lists. *)

\* The items from i on, as cJSON_ArrayForEach meets them.
RECURSIVE Chain(_, _)
Chain(m, i) == IF i = Null THEN <<>> ELSE <<i>> \o Chain(m, m.items[i].next)

Kids(m, c) == Chain(m, m.items[c].child)

\* get_object_item: a member without a name ends the search that minds the case.
GetObjectItem(m, c, name, sensitive) ==
  LET kids == Kids(m, c)
      Named(k) == m.items[kids[k]].name
      stops == {k \in DOMAIN kids :
                  IF sensitive THEN Named(k) \in {Null, name}
                  ELSE Named(k) # Null /\ Folded(Named(k)) = Folded(name)}
      first == CHOOSE k \in stops : \A j \in stops : k <= j
  IN IF stops = {} \/ Named(first) = Null THEN Null ELSE kids[first]

\* cJSON_ReplaceItemViaPointer: the replacement takes the place, and what was
\* there is deleted.  Fault: it is not.
ReplaceKeeping(m, c, i, r) == PutInPlace(m, c, i, r)
ReplaceItem(m, c, i, r) == Delete(PutInPlace(m, c, i, r), i)

-----------------------------------------------------------------------------
(* sort_list of cJSON_Utils.c, a merge sort. *)

Before(m, i, j, sensitive) ==
  LET Key(x) == IF sensitive THEN m.items[x].name ELSE Folded(m.items[x].name)
  IN Key(i) < Key(j)

RECURSIVE SortList(_, _, _), MergeLists(_, _, _, _, _, _)
\* Returns the memory and the first item.
SortList(m, list, sensitive) ==
  LET chain == Chain(m, list)
      sorted == \A k \in 1 .. Len(chain) - 1 : Before(m, chain[k], chain[k + 1], sensitive)
      second == chain[(Len(chain) + 1) \div 2 + 1]
      split == Field(Field(m, m.items[second].prev, "next", Null), second, "prev", Null)
      one == SortList(split, list, sensitive)
      two == SortList(one.m, second, sensitive)
  IN IF sorted THEN Result(m, list)
     ELSE MergeLists(two.m, one.i, two.i, Null, Null, sensitive)

MergeLists(m, first, second, result, last, sensitive) ==
  LET smaller == IF Before(m, first, second, sensitive) THEN first ELSE second
      rest == IF first # Null THEN first ELSE second
  IN IF first = Null \/ second = Null
       THEN Result(IF rest = Null THEN m ELSE SuffixObject(m, last, rest), result)
     ELSE MergeLists(IF result = Null THEN m ELSE SuffixObject(m, last, smaller),
                     IF smaller = first THEN m.items[first].next ELSE first,
                     IF smaller = first THEN second ELSE m.items[second].next,
                     IF result = Null THEN smaller ELSE result, smaller, sensitive)

-----------------------------------------------------------------------------
(* The program. *)

\* What is reached from i, with and without what references share.
RECURSIVE Reached(_, _)
Reached(m, i) ==
  IF i = Null THEN {}
  ELSE {i} \cup UNION {Reached(m, x) : x \in ToSet(Kids(m, i))}

Owned(i) == {x \in Reached(memory, i) : \A r \in Reached(memory, i) :
               memory.items[r].ref => x = r \/ x \notin ToSet(Kids(memory, r))}
Live == DOMAIN memory.items
References == {r \in Live : memory.items[r].ref}
\* The first items of the lists that references share.
Shared(r) == memory.items[r].child
Frozen == UNION {UNION {Reached(memory, x) : x \in ToSet(Kids(memory, r))} : r \in References}

MayChange(c, types) ==
  /\ memory.items[c].type \in types
  /\ ~memory.items[c].ref
  /\ c \notin Frozen
  /\ \A r \in References : Shared(r) = Null \/ Shared(r) # memory.items[c].child
MayAppend(c, types) == MayChange(c, types) /\ c \notin unlinked

\* What the program may free or move away: nothing else refers to it.
MayFree(i) == \A r \in References \ Owned(i) : Owned(i) \cap ToSet(Kids(memory, r)) = {}

\* What a call may leave of which up to n allocations succeed before one fails.
Granted(n) == [memory EXCEPT !.left = n]
Outcomes(Call(_), n) == {[Call(Granted(k)) EXCEPT !.m.left = 0] : k \in 0 .. n}
Leaves(m) ==
  /\ memory' = [m EXCEPT !.left = 0]
  /\ unlinked' = {c \in unlinked \cap DOMAIN m.items : m.items[c].child # Null}
  /\ UNCHANGED slots
Holds(n) == roots' = IF n.i = Null THEN roots ELSE roots \cup {n.i}

Init ==
  /\ memory = [items |-> <<>>, strings |-> 0, left |-> 0]
  /\ roots = {}
  /\ unlinked = {}
  /\ slots \in SlotChoices

Create ==
  \E t \in Types :
    LET Call(m) == CreateItem(m, t)
    IN \E n \in Outcomes(Call, 2) : Leaves(n.m) /\ Holds(n)

CreateArray ==
  \E k \in 1 .. 2 :
    LET Call(m) == CreateArrayOf(m, k)
    IN \E n \in Outcomes(Call, 5) : Leaves(n.m) /\ Holds(n)

\* cJSON_CreateObjectReference, cJSON_CreateArrayReference: children given by
\* the first of them.
CreateSharing ==
  \E c \in Live, t \in {"array", "object"} :
    LET n == NewItem(Granted(1), t)
    IN /\ memory.items[c].child # Null
       /\ n.i # Null
       /\ Leaves([n.m EXCEPT !.items[n.i] = [@ EXCEPT !.ref = TRUE, !.child = memory.items[c].child]])
       /\ Holds(n)

Copy ==
  \E i \in Live, recurse \in BOOLEAN :
    LET Call(m) == Duplicate(m, i, recurse)
    IN \E n \in Outcomes(Call, MaxAllocs) : Leaves(n.m) /\ Holds(n)

Free == \E i \in roots : /\ MayFree(i)
                         /\ Leaves(Delete(memory, i))
                         /\ roots' = roots \ {i}

Add ==
  \E c \in Live, i \in roots :
    /\ c \notin Reached(memory, i)
    /\ roots' = roots \ {i}
    /\ \/ MayAppend(c, {"array"}) /\ Leaves(AddItemToArray(memory, c, i))
       \/ \E k \in 0 .. Len(Kids(memory, c)) :
            MayAppend(c, {"array"}) /\ Leaves(InsertItemInArray(memory, c, k, i))
       \/ \E name \in Names :
            LET constant == name \in ConstantNames
            IN /\ MayAppend(c, {"object"})
               /\ Leaves(AddItemToObject(Granted(1), c, name, i, constant))

\* cJSON_AddStringToObject and its like: the item goes when it gets no name.
AddNew ==
  \E c \in Live, t \in Types, name \in Names :
    LET Call(m) ==
          LET n == CreateItem(m, t)
          IN IF n.i = Null THEN n
             ELSE IF CanName(n.m) THEN Result(AddItemToObject(n.m, c, name, n.i, FALSE), n.i)
             ELSE Result(Delete(n.m, n.i), Null)
    IN /\ MayAppend(c, {"object"})
       /\ \E n \in Outcomes(Call, 3) : Leaves(n.m)
       /\ UNCHANGED roots

\* cJSON_AddItemReferenceToArray and ...ToObject, which forgets the reference
\* when it gets no name.
AddReference ==
  \E c, i \in Live, k \in 1 .. 2 :
    LET n == CreateReference(Granted(k), i)
    IN /\ c \notin Reached(memory, i)
       /\ n.i # Null
       /\ UNCHANGED roots
       /\ \/ MayAppend(c, {"array"}) /\ Leaves(AddItemToArray(n.m, c, n.i))
          \/ \E name \in Names :
               /\ MayAppend(c, {"object"})
               /\ Leaves(IF CanName(n.m) THEN AddItemToObject(n.m, c, name, n.i, FALSE)
                         ELSE n.m)

\* The items calls for an element or a member may be about.
Picked(c) ==
  {GetArrayItem(memory, c, k) : k \in 0 .. Len(Kids(memory, c)) - 1} \cup
  {GetObjectItem(memory, c, name, sensitive) : name \in Names, sensitive \in BOOLEAN}

Take ==
  \E c \in Live : \E i \in Picked(c) \ {Null} :
    /\ MayChange(c, {"array", "object"})
    /\ \/ Leaves(DetachItem(memory, c, i)) /\ roots' = roots \cup {i}
       \/ MayFree(i) /\ Leaves(Delete(DetachItem(memory, c, i), i)) /\ UNCHANGED roots

Replace ==
  \E c \in Live, r \in roots : \E i \in Picked(c) \ {Null} :
    /\ MayChange(c, {"array"})
    /\ c \notin Reached(memory, r)
    /\ MayFree(i)
    /\ Leaves(ReplaceItem(memory, c, i, r))
    /\ roots' = roots \ {r}

\* cJSON_ReplaceItemInObject: the replacement has its new name even when there
\* is nothing to replace.
ReplaceMember ==
  \E c \in Live, r \in roots, name \in Names, sensitive \in BOOLEAN, k \in 0 .. 1 :
    LET i == GetObjectItem(memory, c, name, sensitive)
        named == Rename(Granted(k), r, name)
    IN /\ MayChange(c, {"object"})
       /\ c \notin Reached(memory, r)
       /\ i # Null => MayFree(i)
       /\ Leaves(IF i = Null THEN named ELSE ReplaceItem(named, c, i, r))
       /\ roots' = IF i = Null THEN roots ELSE roots \ {r}

\* cJSONUtils_SortObject.  compare_strings takes an item without a name for
\* larger than any other, whichever side it is on: the program sorts none.
Sort ==
  \E c \in Live, sensitive \in BOOLEAN :
    LET s == SortList(memory, memory.items[c].child, sensitive)
        kids == Chain(s.m, s.i)
    IN /\ MayChange(c, {"object"})
       /\ Kids(memory, c) # <<>>
       /\ \A i \in ToSet(Kids(memory, c)) : memory.items[i].name # Null
       /\ memory' = Field(s.m, c, "child", s.i)
       /\ unlinked' = IF s.m.items[s.i].prev = Last(kids) THEN unlinked ELSE unlinked \cup {c}
       /\ UNCHANGED <<roots, slots>>

Next ==
  \/ Create \/ CreateArray \/ CreateSharing \/ Copy \/ Free
  \/ Add \/ AddNew \/ AddReference \/ Take \/ Replace \/ ReplaceMember \/ Sort

Spec == Init /\ [][Next]_vars

-----------------------------------------------------------------------------
(* What the program relies on. *)

Children(c) == IF memory.items[c].ref THEN <<>> ELSE Kids(memory, c)
Mislaid == Live \ (roots \cup UNION {ToSet(Children(c)) : c \in Live})

\* Whatever fails, nothing is leaked, freed twice or held by two: every item is
\* held by the program or is the child of one other.  Only a reference can be forgotten, when cJSON_AddItemReferenceToObject
\* (cJSON.c:2079) gets no memory for its name.
NothingLeaked ==
  /\ \A i \in Live :
       Cardinality({c \in Live : i \in ToSet(Children(c))}) = (IF i \in roots \cup Mislaid THEN 0 ELSE 1)
  /\ roots \subseteq Live
  /\ Mislaid \subseteq References

\* What links lead to exists, references included.
NothingDangles ==
  \A i \in Live :
    /\ {memory.items[i].next, memory.items[i].child} \subseteq Live \cup {Null}
    /\ memory.items[i].prev \in Live \cup {Null} \/ \E c \in unlinked : memory.items[c].child = i

\* Every list can be walked both ways and its end found from its first item:
\* prev is the inverse of next, the prev of the first is the last.  The end is
\* lost only where sort_list has reordered a list (cJSON_Utils.c:592 returns a
\* list whose first item keeps an old prev).  Every text belongs to an item,
\* and every item to the program or to one list.
HeapSound ==
  /\ Sound(memory, [c \in Live |-> Children(c)], unlinked)
  /\ NothingLeaked
  /\ NothingDangles

\* The document an item stands for.
RECURSIVE Document(_, _)
Document(m, i) ==
  LET x == m.items[i] IN [type |-> x.type, name |-> x.name, kids |-> [k \in DOMAIN Kids(m, i) |-> Document(m, Kids(m, i)[k])]]

\* In every heap the program can build, a call for the k-th element is about
\* the k-th element and leaves the order of the others, sorting sorts, and a
\* copy is the same document.
CallsInPlace ==
  /\ \A c \in Live : MayChange(c, {"array", "object"}) =>
       LET kids == Kids(memory, c)
       IN /\ \A k \in 0 .. Len(kids) : GetArrayItem(memory, c, k) = Nth(kids, k + 1)
          /\ \A k \in DOMAIN kids : Kids(DetachItem(memory, c, kids[k]), c) = RemoveAt(kids, k)
          /\ \A i \in {r \in roots : c \notin Reached(memory, r)} :
               /\ \A k \in 0 .. Len(kids) : c \notin unlinked =>
                    Kids(InsertItemInArray(memory, c, k, i), c) = InsertAt(kids, k + 1, i)
               /\ \A k \in DOMAIN kids : MayFree(kids[k]) =>
                    Kids(ReplaceItem(memory, c, kids[k], i), c) = ReplaceAt(kids, k, i)
          /\ \A sensitive \in BOOLEAN : (\A i \in ToSet(kids) : memory.items[i].name # Null) =>
               LET s == SortList(memory, memory.items[c].child, sensitive)
                   sorted == Chain(s.m, s.i)
               IN /\ Len(sorted) = Len(kids)
                  /\ ToSet(sorted) = ToSet(kids)
                  /\ \A k \in 2 .. Len(kids) : ~Before(memory, sorted[k], sorted[k - 1], sensitive)
  /\ \A i \in Live :
       LET copy == Duplicate(Granted(MaxAllocs), i, TRUE)
       IN copy.i # Null => Document(copy.m, copy.i) = Document(memory, i)

\* The linked lists are the lists of JsonLists.
Lists == INSTANCE JsonLists WITH
  lists <- [i \in Live |-> Children(i)], roots <- roots, mislaid <- Mislaid
ImplementsLists == Lists!LSpec
=============================================================================
