------------------------------ MODULE JsonLists ------------------------------
(***************************************************************************)
(* What the list functions of cJSON promise (src/user_components/cJSON):   *)
(* a document is a tree of lists, every call changes one list in the way   *)
(* its name says, and memory comes and goes by whole trees.  JsonHeap, the *)
(* linked lists, implements it.                                            *)
(***************************************************************************)
EXTENDS Naturals, Sequences, FiniteSets, SequencesExt

VARIABLES
  lists,    \* the children of every item that exists
  roots,    \* the items the program holds by themselves
  mislaid   \* references nobody can reach any more

lvars == <<lists, roots, mislaid>>

Without(S) == [x \in DOMAIN lists \ S |-> lists[x]]

\* The item r and all below it.
RECURSIVE TreeOf(_, _)
TreeOf(l, r) == {r} \cup UNION {TreeOf(l, l[r][k]) : k \in 1 .. Len(l[r])}

LInit ==
  /\ lists = <<>>
  /\ roots = {}
  /\ mislaid = {}

\* A tree of items that did not exist, held by the program.
Grow(r) ==
  /\ roots' = roots \cup {r}
  /\ r \in DOMAIN lists' \ DOMAIN lists
  /\ Restrict(lists', DOMAIN lists' \ TreeOf(lists', r)) = lists
  /\ UNCHANGED mislaid

Fell(r) ==
  /\ r \in roots
  /\ roots' = roots \ {r}
  /\ lists' = Without(TreeOf(lists, r))
  /\ UNCHANGED mislaid

Insert(c, k, r) ==
  /\ r \in roots
  /\ roots' = roots \ {r}
  /\ k \in 1 .. Len(lists[c]) + 1
  /\ lists' = [lists EXCEPT ![c] = InsertAt(@, k, r)]
  /\ UNCHANGED mislaid

\* An item that did not exist, at the end of a list.
AppendNew(c, r) ==
  /\ r \notin DOMAIN lists
  /\ UNCHANGED roots
  /\ lists' = [x \in DOMAIN lists \cup {r} |->
                 IF x = r THEN <<>> ELSE IF x = c THEN Append(lists[c], r) ELSE lists[x]]
  /\ UNCHANGED mislaid

Detach(c, k) ==
  /\ roots' = roots \cup {lists[c][k]}
  /\ lists' = [lists EXCEPT ![c] = RemoveAt(@, k)]
  /\ UNCHANGED mislaid

Discard(c, k) ==
  /\ UNCHANGED roots
  /\ lists' = [Without(TreeOf(lists, lists[c][k])) EXCEPT ![c] = RemoveAt(@, k)]
  /\ UNCHANGED mislaid

Replace(c, k, r) ==
  /\ r \in roots
  /\ roots' = roots \ {r}
  /\ lists' = [Without(TreeOf(lists, lists[c][k])) EXCEPT ![c] = ReplaceAt(@, k, r)]
  /\ UNCHANGED mislaid

Reorder(c) ==
  /\ UNCHANGED roots
  /\ \E s \in SetToSeqs(ToSet(lists[c])) : lists' = [lists EXCEPT ![c] = s]
  /\ UNCHANGED mislaid

Mislay(r) ==
  /\ r \notin DOMAIN lists
  /\ UNCHANGED roots
  /\ lists' = [x \in DOMAIN lists \cup {r} |-> IF x = r THEN <<>> ELSE lists[x]]
  /\ mislaid' = mislaid \cup {r}

LNext ==
  \/ \E r \in DOMAIN lists' \ DOMAIN lists :
       Grow(r) \/ Mislay(r) \/ \E c \in DOMAIN lists : AppendNew(c, r)
  \/ \E r \in roots : Fell(r)
  \/ \E c \in DOMAIN lists :
       \/ Reorder(c)
       \/ \E k \in 1 .. Len(lists[c]) :
            Detach(c, k) \/ Discard(c, k) \/ \E r \in roots : Replace(c, k, r)
       \/ \E k \in 1 .. Len(lists[c]) + 1, r \in roots : Insert(c, k, r)

LSpec == LInit /\ [][LNext]_lvars
=============================================================================
