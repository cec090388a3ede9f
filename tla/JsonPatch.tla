------------------------------ MODULE JsonPatch ------------------------------
(***************************************************************************)
(* JSON pointers, patches and merge patches of cJSON                       *)
(* (src/user_components/cJSON/cJSON/cJSON_Utils.c), with memory enough and *)
(* on documents whose lists are linked as they should be: a patch is made  *)
(* from two documents, which that sorts and so may leave without the way   *)
(* to their ends (JsonHeap), and applied to a copy of the first.           *)
(***************************************************************************)
EXTENDS JsonValues

CONSTANTS
  PatchDocuments,     \* bound: the documents that are compared and patched
  MergeDocuments      \* bound: those that are merged: objects

SlashChar == 47
Tilde == 126
Dash == <<45>>

IsAnyArray(v) == v.type = "array"
IsAnyObject(v) == v.type = "object"

-----------------------------------------------------------------------------
(* Pointers. *)

\* encode_string_as_pointer
NotEncoded(name) == name
Encoded(name) ==
  FlattenSeq([k \in DOMAIN name |->
    CASE name[k] = SlashChar -> <<Tilde, 49>>
      [] name[k] = Tilde -> <<Tilde, 48>>
      [] OTHER -> <<name[k]>>])

RECURSIVE IndexText(_)
IndexText(n) == IF n < 10 THEN <<48 + n>> ELSE IndexText(n \div 10) \o <<48 + (n % 10)>>

\* decode_pointer_inplace.  It writes what it decodes over the text, moves no
\* other character, and puts the slash of ~1 one character too far.
RECURSIVE DecodeFrom(_, _, _)
DecodeFrom(s, read, write) ==
  LET Char(k) == IF k > Len(s) THEN 0 ELSE s[k]
  IN IF read > Len(s) THEN SubSeq(s, 1, write - 1)
     ELSE IF s[read] # Tilde THEN DecodeFrom(s, read + 1, write + 1)
     ELSE IF Char(read + 1) = 48 THEN DecodeFrom([s EXCEPT ![write] = Tilde], read + 2, write + 1)
     ELSE IF Char(read + 1) = 49 THEN DecodeFrom([s EXCEPT ![write + 1] = SlashChar], read + 2, write + 1)
     ELSE s
Decoded(s) == DecodeFrom(s, 1, 1)

\* The rest of a pointer from its next slash on, and the token before it.
Slashes(p) == {k \in DOMAIN p : p[k] = SlashChar}
TokenEnd(p) == IF Slashes(p) = {} THEN Len(p) ELSE (CHOOSE k \in Slashes(p) : \A j \in Slashes(p) : k <= j) - 1
Token(p) == SubSeq(p, 1, TokenEnd(p))
Rest(p) == SubSeq(p, TokenEnd(p) + 1, Len(p))

\* decode_array_index_from_pointer, -1 for none.  Behind a first character that
\* is a digit everything from '0' on counts as one.
ArrayIndex(token) ==
  IF token # <<>> /\ token[1] = 48 /\ Len(token) > 1 THEN -1
  ELSE IF \E k \in DOMAIN token : token[k] < 48 \/ token[1] > 57 THEN -1
  ELSE FoldLeft(LAMBDA n, c : 10 * n + c - 48, 0, token)

\* compare_pointers: a name and the token that encodes it.
ComparePointers(name, token, sensitive) == CompareStrings(Encoded(name), token, sensitive) = 0

\* One step of get_item_from_pointer: the position of the child, 0 for none.
Step(v, token, sensitive) ==
  LET index == ArrayIndex(token)
      named == {k \in DOMAIN v.kids : ComparePointers(v.kids[k].name, token, sensitive)}
  IN CASE IsAnyArray(v) -> IF index + 1 \in DOMAIN v.kids THEN index + 1 ELSE 0
       [] IsAnyObject(v) -> IF named = {} THEN 0 ELSE CHOOSE k \in named : \A j \in named : k <= j
       [] OTHER -> 0

\* get_item_from_pointer: the positions on the way, or NoPath.  What does not
\* begin with a slash points at where it is.
NoPath == <<0>>
RECURSIVE PathOf(_, _, _)
PathOf(v, p, sensitive) ==
  LET token == Token(Tail(p))
      k == Step(v, token, sensitive)
      below == PathOf(v.kids[k], Rest(Tail(p)), sensitive)
  IN IF p = <<>> THEN <<>>
     ELSE IF p[1] # SlashChar THEN <<>>
     ELSE IF k = 0 THEN NoPath
     ELSE IF below = NoPath THEN NoPath
     ELSE <<k>> \o below

RECURSIVE ItemAt(_, _), PutAt(_, _, _)
ItemAt(v, path) == IF path = <<>> THEN v ELSE ItemAt(v.kids[Head(path)], Tail(path))
PutAt(v, path, new) ==
  IF path = <<>> THEN new
  ELSE [v EXCEPT !.kids[Head(path)] = PutAt(@, Tail(path), new)]

GetPointer(v, p, sensitive) ==
  LET path == PathOf(v, p, sensitive) IN IF path = NoPath THEN NoItem ELSE ItemAt(v, path)

\* cJSONUtils_FindPointerFromObjectTo, for the item at path.
RECURSIVE FindPointer(_, _)
FindPointer(v, path) ==
  IF path = <<>> THEN <<>>
  ELSE LET k == Head(path)
           token == IF IsAnyArray(v) THEN IndexText(k - 1) ELSE Encoded(v.kids[k].name)
       IN <<SlashChar>> \o token \o FindPointer(v.kids[k], Tail(path))

\* strrchr and the split into parent and child.
LastSlash(p) == IF Slashes(p) = {} THEN 0 ELSE CHOOSE k \in Slashes(p) : \A j \in Slashes(p) : j <= k
ParentPointer(p) == SubSeq(p, 1, LastSlash(p) - 1)
ChildPointer(p) == Decoded(SubSeq(p, LastSlash(p) + 1, Len(p)))

-----------------------------------------------------------------------------
(* Patches.  A patch is an operation, a path, and a value or a from.       *)

Patch(op, path, value) == [op |-> op, path |-> path, value |-> value, from |-> <<>>]
Moving(op, path, from) == [op |-> op, path |-> path, value |-> NoItem, from |-> from]

Outcome(status, doc) == [status |-> status, doc |-> doc]

\* compare_json: sorted members of the same names, one after the other.
SortMembers(v, sensitive) ==
  [v EXCEPT !.kids = SortSeq(@, LAMBDA x, y : CompareStrings(x.name, y.name, sensitive) < 0)]

RECURSIVE CompareJson(_, _, _)
CompareJson(a, b, sensitive) ==
  LET x == IF IsAnyObject(a) THEN SortMembers(a, sensitive) ELSE a
      y == IF IsAnyObject(b) THEN SortMembers(b, sensitive) ELSE b
  IN /\ NoItem \notin {a, b}
     /\ a.type = b.type
     /\ a.type = "number" => ValueInt(a) = ValueInt(b) /\ a.num = b.num
     /\ a.type = "string" => a.text = b.text
     /\ Len(x.kids) = Len(y.kids)
     /\ \A k \in DOMAIN x.kids :
          /\ IsAnyObject(a) => CompareStrings(x.kids[k].name, y.kids[k].name, sensitive) = 0
          /\ CompareJson(x.kids[k], y.kids[k], sensitive)

\* detach_path: the document without the item, and the item.  The member of an
\* object is looked up without minding the case.
DetachPath(doc, p, sensitive) ==
  LET path == PathOf(doc, ParentPointer(p), sensitive)
      parent == ItemAt(doc, path)
      k == IF IsAnyArray(parent) THEN Step(parent, ChildPointer(p), sensitive)
           ELSE IF IsAnyObject(parent) THEN MemberPosition(parent, ChildPointer(p), FALSE)
           ELSE 0
  IN IF LastSlash(p) = 0 \/ path = NoPath THEN [doc |-> doc, item |-> NoItem]
     ELSE IF k = 0 THEN [doc |-> doc, item |-> NoItem]
     ELSE [doc |-> PutAt(doc, path, [parent EXCEPT !.kids = RemoveAt(@, k)]), item |-> parent.kids[k]]

\* The end of apply_patch: value is added at path.
AddAtPath(doc, p, value, sensitive) ==
  LET path == PathOf(doc, IF LastSlash(p) = 0 THEN p ELSE ParentPointer(p), sensitive)
      parent == ItemAt(doc, path)
      child == ChildPointer(p)
      index == ArrayIndex(child)
      old == MemberPosition(parent, child, sensitive)
      others == IF old = 0 THEN parent.kids ELSE RemoveAt(parent.kids, old)
      With(kids) == Outcome(0, PutAt(doc, path, [parent EXCEPT !.kids = kids]))
  IN IF path = NoPath \/ LastSlash(p) = 0 THEN Outcome(9, doc)
     ELSE IF IsAnyArray(parent)
       THEN IF child = Dash THEN With(Append(parent.kids, Named(NoText, value)))
            ELSE IF index = -1 THEN Outcome(11, doc)
            ELSE IF index > Len(parent.kids) THEN Outcome(10, doc)
            ELSE With(InsertAt(parent.kids, index + 1, Named(NoText, value)))
     ELSE IF IsAnyObject(parent) THEN With(Append(others, Named(child, value)))
     ELSE Outcome(9, doc)

\* apply_patch
ApplyPatch(doc, patch, sensitive) ==
  LET p == patch.path
      detached == DetachPath(doc, p, sensitive)
      moved == DetachPath(doc, patch.from, sensitive)
      copied == GetPointer(doc, patch.from, sensitive)
  IN CASE patch.op = "test" ->
            Outcome(IF CompareJson(GetPointer(doc, p, sensitive), patch.value, sensitive) THEN 0 ELSE 1, doc)
       [] p = <<>> /\ patch.op = "remove" -> Outcome(0, Literal("invalid"))
       [] p = <<>> /\ patch.op \in {"replace", "add"} ->
            IF patch.value = NoItem THEN Outcome(7, doc) ELSE Outcome(0, Named(NoText, patch.value))
       [] patch.op \in {"remove", "replace"} /\ p # <<>> ->
            IF detached.item = NoItem THEN Outcome(13, doc)
            ELSE IF patch.op = "remove" THEN Outcome(0, detached.doc)
            ELSE IF patch.value = NoItem THEN Outcome(7, detached.doc)
            ELSE AddAtPath(detached.doc, p, patch.value, sensitive)
       [] patch.op = "add" /\ p # <<>> ->
            IF patch.value = NoItem THEN Outcome(7, doc) ELSE AddAtPath(doc, p, patch.value, sensitive)
       [] patch.op = "move" ->
            IF moved.item = NoItem THEN Outcome(5, doc)
            ELSE AddAtPath(moved.doc, p, moved.item, sensitive)
       [] patch.op = "copy" ->
            IF copied = NoItem THEN Outcome(5, doc) ELSE AddAtPath(doc, p, copied, sensitive)
       [] OTHER -> Outcome(3, doc)

\* cJSONUtils_ApplyPatches: up to the first that fails.
ApplyPatches(doc, patches, sensitive) ==
  FoldLeft(LAMBDA o, patch : IF o.status # 0 THEN o ELSE ApplyPatch(o.doc, patch, sensitive),
           Outcome(0, doc), patches)

\* compose_patch with a suffix
Under(path, name) == path \o <<SlashChar>> \o Encoded(name)

RECURSIVE CreatePatches(_, _, _, _), MemberPatches(_, _, _, _, _, _)
\* create_patches
CreatePatches(path, from, to, sensitive) ==
  LET common == IF Len(from.kids) < Len(to.kids) THEN Len(from.kids) ELSE Len(to.kids)
      Replaced == <<Patch("replace", path, to)>>
  IN CASE from.type # to.type -> Replaced
       [] from.type = "number" /\ to.type = "number" ->
            IF ValueInt(from) # ValueInt(to) \/ from.num # to.num THEN Replaced ELSE <<>>
       [] from.type = "string" /\ to.type = "string" ->
            IF from.text # to.text THEN Replaced ELSE <<>>
       [] IsAnyArray(from) /\ IsAnyArray(to) ->
            FlattenSeq([k \in 1 .. common |->
              CreatePatches(path \o <<SlashChar>> \o IndexText(k - 1), from.kids[k], to.kids[k], sensitive)])
            \o [k \in 1 .. Len(from.kids) - common |-> Patch("remove", Under(path, IndexText(common)), NoItem)]
            \o [k \in 1 .. Len(to.kids) - common |-> Patch("add", Under(path, Dash), to.kids[common + k])]
       [] IsAnyObject(from) /\ IsAnyObject(to) ->
            MemberPatches(path, SortMembers(from, sensitive).kids, SortMembers(to, sensitive).kids, 1, 1, sensitive)
       [] OTHER -> <<>>

\* Its walk through the sorted members of both objects.
MemberPatches(path, from, to, i, j, sensitive) ==
  LET diff == IF i > Len(from) THEN 1
              ELSE IF j > Len(to) THEN -1
              ELSE CompareStrings(from[i].name, to[j].name, sensitive)
  IN CASE i > Len(from) /\ j > Len(to) -> <<>>
       [] diff = 0 ->
            CreatePatches(Under(path, from[i].name), from[i], to[j], sensitive)
            \o MemberPatches(path, from, to, i + 1, j + 1, sensitive)
       [] diff < 0 /\ i <= Len(from) ->
            <<Patch("remove", Under(path, from[i].name), NoItem)>>
            \o MemberPatches(path, from, to, i + 1, j, sensitive)
       [] diff > 0 /\ j <= Len(to) ->
            <<Patch("add", Under(path, to[j].name), to[j])>>
            \o MemberPatches(path, from, to, i, j + 1, sensitive)

GeneratePatches(from, to, sensitive) == CreatePatches(<<>>, from, to, sensitive)

-----------------------------------------------------------------------------
(* Merge patches. *)

RECURSIVE MergePatch(_, _, _), MergeMembers(_, _, _, _)
\* merge_patch
MergePatch(target, patch, sensitive) ==
  IF ~IsAnyObject(patch) THEN patch
  ELSE MergeMembers(IF IsAnyObject(target) THEN target ELSE ObjectItem(<<>>), patch, 1, sensitive)

MergeMembers(target, patch, k, sensitive) ==
  LET p == patch.kids[k]
      old == MemberPosition(target, p.name, sensitive)
      others == IF old = 0 THEN target.kids ELSE RemoveAt(target.kids, old)
      merged == MergePatch(IF old = 0 THEN NoItem ELSE target.kids[old], p, sensitive)
      kids == IF p.type = "null" THEN others ELSE Append(others, Named(p.name, merged))
  IN IF k > Len(patch.kids) THEN target
     ELSE MergeMembers([target EXCEPT !.kids = kids], patch, k + 1, sensitive)

RECURSIVE GenerateMergePatch(_, _, _), MergeDifferences(_, _, _, _, _)
\* generate_merge_patch.  Members are sorted as the case says and then compared
\* by strcmp; what is below is compared without minding it, and if no patch
\* comes of it nothing is added.
GenerateMergePatch(from, to, sensitive) ==
  LET kids == MergeDifferences(SortMembers(from, sensitive).kids, SortMembers(to, sensitive).kids, 1, 1, sensitive)
  IN IF ~IsAnyObject(to) \/ ~IsAnyObject(from) THEN to
     ELSE IF kids = <<>> THEN NoItem
     ELSE ObjectItem(kids)

MergeDifferences(from, to, i, j, sensitive) ==
  LET diff == IF i > Len(from) THEN 1
              ELSE IF j > Len(to) THEN -1
              ELSE CompareStrings(from[i].name, to[j].name, TRUE)
  IN CASE i > Len(from) /\ j > Len(to) -> <<>>
       [] diff < 0 /\ i <= Len(from) ->
            <<Named(from[i].name, Literal("null"))>> \o MergeDifferences(from, to, i + 1, j, sensitive)
       [] diff > 0 /\ j <= Len(to) ->
            <<to[j]>> \o MergeDifferences(from, to, i, j + 1, sensitive)
       [] diff = 0 ->
            (LET patch == GenerateMergePatch(from[i], to[j], FALSE)
             IN  IF CompareJson(from[i], to[j], sensitive) \/ patch = NoItem THEN <<>>
                 ELSE <<Named(to[j].name, patch)>>)
            \o MergeDifferences(from, to, i + 1, j + 1, sensitive)

-----------------------------------------------------------------------------
(* What users of the library rely on. *)

\* The positions of all items of a document.
RECURSIVE Paths(_)
Paths(v) == {<<>>} \cup UNION {{<<k>> \o p : p \in Paths(v.kids[k])} : k \in DOMAIN v.kids}

\* A pointer found for an item leads back to it, whatever characters the names
\* on the way are made of.
PointersFind ==
  \A v \in PatchDocuments, sensitive \in BOOLEAN :
    Unambiguous(v, sensitive) => \A path \in Paths(v) : PathOf(v, FindPointer(v, path), sensitive) = path

\* No name on the way has an escape, which decode_pointer_inplace cannot decode
\* (cJSON_Utils.c:359).
RECURSIVE Plain(_)
Plain(v) == /\ \A k \in DOMAIN v.name : v.name[k] \notin {SlashChar, Tilde}
            /\ \A k \in DOMAIN v.kids : Plain(v.kids[k])

\* The patches generated for two documents turn the one into the other, though
\* each is applied to what those before it have left.
PatchesReproduce ==
  \A from, to \in PatchDocuments, sensitive \in BOOLEAN :
    Plain(from) /\ Plain(to) /\ Unambiguous(from, FALSE) /\ Unambiguous(to, FALSE) =>
      LET o == ApplyPatches(from, GeneratePatches(from, to, sensitive), sensitive)
      IN o.status = 0 /\ Equal(o.doc, to, sensitive)

\* Moving an item there and back, and moving or copying it as against removing
\* and adding it, come to the same.
MovesReturn ==
  \A v \in PatchDocuments :
    Plain(v) /\ Unambiguous(v, FALSE) =>
      \A path \in Paths(v) \ {<<>>} :
        LET p == FindPointer(v, path)
            there == <<SlashChar, 122>>
            moved == ApplyPatch(v, Moving("move", there, p), TRUE)
            copied == ApplyPatches(v, <<Moving("copy", there, p), Patch("remove", p, NoItem)>>, TRUE)
        IN IsAnyObject(v) =>
             /\ moved.status = 0 /\ moved = copied
             /\ Equal(ApplyPatch(moved.doc, Moving("move", p, there), TRUE).doc, v, TRUE)

\* Merge patches say with null what is to go, and so cannot give a document a
\* null; for all others the patch that is generated leads from the one to the
\* other, and there is none only where there is no difference.  It does not
\* when names have capitals and the case is not minded, as below the first
\* level it never is: members are then sorted by one order and compared by
\* another (cJSON_Utils.c:1423).
RECURSIVE HasNull(_), LowerCase(_)
HasNull(v) == v.type = "null" \/ \E k \in DOMAIN v.kids : HasNull(v.kids[k])
LowerCase(v) == \A k \in DOMAIN v.kids : /\ ToSet(v.kids[k].name) \cap 65 .. 90 = {}
                                         /\ LowerCase(v.kids[k])
MergesReproduce ==
  \A sensitive \in BOOLEAN :
    LET fair == {v \in MergeDocuments :
                   /\ Unambiguous(v, sensitive)
                   /\ IF sensitive THEN \A k \in DOMAIN v.kids : LowerCase(v.kids[k]) ELSE LowerCase(v)}
    IN \A from \in fair, to \in {v \in fair : ~HasNull(v)} :
         LET patch == GenerateMergePatch(from, to, sensitive)
             reached == IF patch = NoItem THEN from ELSE MergePatch(from, patch, sensitive)
         IN Equal(reached, to, sensitive)

\* cJSON_Compare and compare_json mean what equality of documents does, as long
\* as no object has a name twice, and the order of the two never matters.
ComparesAgree ==
  \A a, b \in PatchDocuments, sensitive \in BOOLEAN :
    /\ Compare(a, b, sensitive) = Compare(b, a, sensitive)
    /\ Unambiguous(a, sensitive) /\ Unambiguous(b, sensitive) =>
         /\ Compare(a, b, sensitive) = Equal(a, b, sensitive)
         /\ CompareJson(a, b, sensitive) = Equal(a, b, sensitive)

PatchingAndMerging == PointersFind /\ PatchesReproduce /\ MovesReturn /\ MergesReproduce /\ ComparesAgree
=============================================================================
