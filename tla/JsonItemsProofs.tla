-------------------------- MODULE JsonItemsProofs --------------------------
(***************************************************************************)
(* The functions of cJSON that work on one list, proved of heaps of every  *)
(* size: if the links of all items are those of some lists of children     *)
(* (Sound), they are again after the call, and the lists are the ones that *)
(* its name promises.  JsonHeap checks that a program which uses them has  *)
(* such a heap at all times.                                               *)
(***************************************************************************)
EXTENDS JsonItems, FiniteSetTheorems, TLAPS

-----------------------------------------------------------------------------
(* Sequences, item by item                                                 *)

LEMMA ConcatIs ==
  ASSUME NEW S, NEW a \in Seq(S), NEW b \in Seq(S)
  PROVE  /\ a \o b \in Seq(S)
         /\ Len(a \o b) = Len(a) + Len(b)
         /\ \A j \in 1 .. Len(a) + Len(b) : (a \o b)[j] = IF j <= Len(a) THEN a[j] ELSE b[j - Len(a)]
OBVIOUS

LEMMA InsertAtIs ==
  ASSUME NEW S, NEW s \in Seq(S), NEW e \in S, NEW p \in 1 .. Len(s) + 1
  PROVE  /\ InsertAt(s, p, e) \in Seq(S)
         /\ Len(InsertAt(s, p, e)) = Len(s) + 1
         /\ \A j \in 1 .. Len(s) + 1 :
              InsertAt(s, p, e)[j] = IF j < p THEN s[j] ELSE IF j = p THEN e ELSE s[j - 1]
<1> DEFINE a == SubSeq(s, 1, p - 1)
           b == SubSeq(s, p, Len(s))
           f == a \o <<e>>
           g == f \o b
<1>1. a \in Seq(S) /\ Len(a) = p - 1 /\ \A j \in 1 .. p - 1 : a[j] = s[j]
  OBVIOUS
<1>2. b \in Seq(S) /\ Len(b) = Len(s) - p + 1 /\ \A j \in 1 .. Len(s) - p + 1 : b[j] = s[p + j - 1]
  OBVIOUS
<1>3. InsertAt(s, p, e) = g
  BY DEF InsertAt
<1>4. Len(s) \in Nat /\ p \in Nat /\ 1 <= p /\ p <= Len(s) + 1
  OBVIOUS
<1> HIDE DEF a, b
<1>5. f \in Seq(S) /\ Len(f) = p /\ f[p] = e /\ \A j \in 1 .. p - 1 : f[j] = s[j]
  BY <1>1
<1> HIDE DEF f
<1>6. /\ g \in Seq(S) /\ Len(g) = Len(f) + Len(b)
      /\ \A j \in 1 .. Len(f) + Len(b) : g[j] = IF j <= Len(f) THEN f[j] ELSE b[j - Len(f)]
  BY <1>2, <1>5, ConcatIs
<1> HIDE DEF g
<1>7. ASSUME NEW j \in 1 .. Len(s) + 1
      PROVE  g[j] = IF j < p THEN s[j] ELSE IF j = p THEN e ELSE s[j - 1]
  <2>1. CASE j <= p
    <3>1. g[j] = f[j]
      BY <1>2, <1>4, <1>5, <1>6, <2>1
    <3>2. j = p \/ j \in 1 .. p - 1
      BY <1>4, <2>1
    <3>3. QED BY <1>4, <1>5, <3>1, <3>2
  <2>2. CASE j > p
    <3>1. j - p \in 1 .. Len(s) - p + 1 /\ p + (j - p) - 1 = j - 1
      BY <1>4, <2>2
    <3>2. b[j - p] = s[j - 1]
      BY <1>2, <3>1
    <3>3. QED BY <1>2, <1>4, <1>5, <1>6, <2>2, <3>2
  <2>3. QED BY <1>4, <2>1, <2>2
<1>8. QED BY <1>2, <1>3, <1>4, <1>5, <1>6, <1>7

LEMMA AppendIs ==
  ASSUME NEW S, NEW s \in Seq(S), NEW e \in S
  PROVE  /\ Append(s, e) \in Seq(S)
         /\ Len(Append(s, e)) = Len(s) + 1
         /\ \A j \in 1 .. Len(s) + 1 : Append(s, e)[j] = IF j <= Len(s) THEN s[j] ELSE e
OBVIOUS

LEMMA RemoveAtIs ==
  ASSUME NEW S, NEW s \in Seq(S), NEW p \in 1 .. Len(s)
  PROVE  /\ RemoveAt(s, p) \in Seq(S)
         /\ Len(RemoveAt(s, p)) = Len(s) - 1
         /\ \A j \in 1 .. Len(s) - 1 : RemoveAt(s, p)[j] = IF j < p THEN s[j] ELSE s[j + 1]
<1> DEFINE a == SubSeq(s, 1, p - 1)
           b == SubSeq(s, p + 1, Len(s))
           g == a \o b
<1>1. a \in Seq(S) /\ Len(a) = p - 1 /\ \A j \in 1 .. p - 1 : a[j] = s[j]
  OBVIOUS
<1>2. b \in Seq(S) /\ Len(b) = Len(s) - p /\ \A j \in 1 .. Len(s) - p : b[j] = s[p + j]
  OBVIOUS
<1>3. RemoveAt(s, p) = g
  BY DEF RemoveAt
<1>4. Len(s) \in Nat /\ p \in Nat /\ 1 <= p /\ p <= Len(s)
  OBVIOUS
<1> HIDE DEF a, b
<1>5. /\ g \in Seq(S) /\ Len(g) = Len(a) + Len(b)
      /\ \A j \in 1 .. Len(a) + Len(b) : g[j] = IF j <= Len(a) THEN a[j] ELSE b[j - Len(a)]
  BY <1>1, <1>2, ConcatIs
<1> HIDE DEF g
<1>6. ASSUME NEW j \in 1 .. Len(s) - 1
      PROVE  g[j] = IF j < p THEN s[j] ELSE s[j + 1]
  <2> j \in 1 .. Len(a) + Len(b) /\ Len(a) = p - 1
    BY <1>1, <1>2, <1>4
  <2>1. CASE j < p
    <3>1. j \in 1 .. p - 1 /\ j <= Len(a)
      BY <1>4, <2>1
    <3>2. g[j] = a[j]
      BY <1>5, <3>1
    <3>3. QED BY <1>1, <2>1, <3>1, <3>2
  <2>2. CASE j >= p
    <3>1. j - (p - 1) \in 1 .. Len(s) - p /\ p + (j - (p - 1)) = j + 1
      BY <1>4, <2>2
    <3>2. b[j - (p - 1)] = s[j + 1]
      BY <1>2, <3>1
    <3>3. ~(j <= Len(a)) /\ ~(j < p)
      BY <1>4, <2>2
    <3>4. g[j] = b[j - (p - 1)]
      BY <1>5, <3>3
    <3>5. QED BY <3>2, <3>3, <3>4
  <2>3. QED BY <1>4, <2>1, <2>2
<1>7. QED BY <1>1, <1>2, <1>3, <1>4, <1>5, <1>6

LEMMA ReplaceAtIs ==
  ASSUME NEW S, NEW s \in Seq(S), NEW e \in S, NEW p \in 1 .. Len(s)
  PROVE  /\ ReplaceAt(s, p, e) \in Seq(S)
         /\ Len(ReplaceAt(s, p, e)) = Len(s)
         /\ \A j \in 1 .. Len(s) : ReplaceAt(s, p, e)[j] = IF j = p THEN e ELSE s[j]
BY DEF ReplaceAt

LEMMA NthIs ==
  ASSUME NEW S, NEW s \in Seq(S), NEW k \in Nat
  PROVE  Nth(s, k) = IF 1 <= k /\ k <= Len(s) THEN s[k] ELSE Null
BY DEF Nth

(* Minimal among the sets below its elements, ordered by inclusion        *)
LEMMA LeastElement ==
    ASSUME NEW S \in SUBSET Int, IsFiniteSet(S), S # {}
    PROVE  \E i \in S : \A j \in S : i <= j
<1> DEFINE Below(i) == {j \in S : j <= i}
           T == {Below(i) : i \in S}
<1>1. T \subseteq FiniteSubsetsOf(S)
  <2>1. \A i \in S : Below(i) \in SUBSET S
    OBVIOUS
  <2> QED BY <2>1, FS_FiniteSubsetsOfFinite
<1>2. PICK X \in T : \A Y \in T : <<Y, X>> \notin StrictSubsetOrdering(S)
  <2>1. T # {}
    OBVIOUS
  <2> QED BY <1>1, <2>1, FS_StrictSubsetOrderingWellFounded, WFMin
<1>3. PICK i \in S : X = Below(i)
  OBVIOUS
<1>4. ASSUME NEW j \in S, j < i
      PROVE  FALSE
  <2>1. Below(j) \subseteq X /\ i \in X /\ i \notin Below(j)
    <3>1. \A k \in S : k \in Int /\ (k \in Below(i) <=> k <= i) /\ (k \in Below(j) <=> k <= j)
      OBVIOUS
    <3>2. Below(i) \subseteq S /\ Below(j) \subseteq S
      OBVIOUS
    <3> HIDE DEF Below
    <3> QED BY <1>3, <1>4, <3>1, <3>2
  <2>2. <<Below(j), X>> \in StrictSubsetOrdering(S)
    <3>1. Below(j) \in SUBSET S /\ X \in SUBSET S
      OBVIOUS
    <3>2. Below(j) # X
      BY <2>1
    <3> HIDE DEF Below, T
    <3> QED BY <2>1, <3>1, <3>2 DEF StrictSubsetOrdering
  <2> QED BY <1>2, <2>2
<1> QED BY <1>4

-----------------------------------------------------------------------------
(* One link at a time                                                      *)

(* A step that changes links only                                          *)
Kept(m, n) ==
  /\ Heap(n)
  /\ DOMAIN n.items = DOMAIN m.items
  /\ n.strings = m.strings /\ n.left = m.left
  /\ \A x \in DOMAIN m.items :
       /\ n.items[x].type = m.items[x].type /\ n.items[x].ref = m.items[x].ref
       /\ n.items[x].name = m.items[x].name /\ n.items[x].const = m.items[x].const
       /\ n.items[x].text = m.items[x].text

LEMMA SetNext ==
  ASSUME NEW m, Heap(m), NEW i \in DOMAIN m.items, NEW v \in Nat
  PROVE  LET n == Field(m, i, "next", v)
         IN  /\ Kept(m, n)
             /\ \A x \in DOMAIN m.items :
                  /\ n.items[x].next = IF x = i THEN v ELSE m.items[x].next
                  /\ n.items[x].prev = m.items[x].prev
                  /\ n.items[x].child = m.items[x].child
BY DEF Heap, Field, Items, Kept

LEMMA SetPrev ==
  ASSUME NEW m, Heap(m), NEW i \in DOMAIN m.items, NEW v \in Nat
  PROVE  LET n == Field(m, i, "prev", v)
         IN  /\ Kept(m, n)
             /\ \A x \in DOMAIN m.items :
                  /\ n.items[x].prev = IF x = i THEN v ELSE m.items[x].prev
                  /\ n.items[x].next = m.items[x].next
                  /\ n.items[x].child = m.items[x].child
BY DEF Heap, Field, Items, Kept

LEMMA SetChild ==
  ASSUME NEW m, Heap(m), NEW i \in DOMAIN m.items, NEW v \in Nat
  PROVE  LET n == Field(m, i, "child", v)
         IN  /\ Kept(m, n)
             /\ \A x \in DOMAIN m.items :
                  /\ n.items[x].child = IF x = i THEN v ELSE m.items[x].child
                  /\ n.items[x].prev = m.items[x].prev
                  /\ n.items[x].next = m.items[x].next
BY DEF Heap, Field, Items, Kept

LEMMA NextIs ==
  ASSUME NEW m, Heap(m), NEW i \in DOMAIN m.items, NEW v \in Nat, NEW n, n = Field(m, i, "next", v)
  PROVE  /\ Kept(m, n) /\ Heap(n) /\ DOMAIN n.items = DOMAIN m.items
         /\ \A x \in DOMAIN m.items :
              /\ n.items[x].next = IF x = i THEN v ELSE m.items[x].next
              /\ n.items[x].prev = m.items[x].prev
              /\ n.items[x].child = m.items[x].child
BY SetNext DEF Kept

LEMMA PrevIs ==
  ASSUME NEW m, Heap(m), NEW i \in DOMAIN m.items, NEW v \in Nat, NEW n, n = Field(m, i, "prev", v)
  PROVE  /\ Kept(m, n) /\ Heap(n) /\ DOMAIN n.items = DOMAIN m.items
         /\ \A x \in DOMAIN m.items :
              /\ n.items[x].prev = IF x = i THEN v ELSE m.items[x].prev
              /\ n.items[x].next = m.items[x].next
              /\ n.items[x].child = m.items[x].child
BY SetPrev DEF Kept

LEMMA ChildIs ==
  ASSUME NEW m, Heap(m), NEW i \in DOMAIN m.items, NEW v \in Nat, NEW n, n = Field(m, i, "child", v)
  PROVE  /\ Kept(m, n) /\ Heap(n) /\ DOMAIN n.items = DOMAIN m.items
         /\ \A x \in DOMAIN m.items :
              /\ n.items[x].child = IF x = i THEN v ELSE m.items[x].child
              /\ n.items[x].prev = m.items[x].prev
              /\ n.items[x].next = m.items[x].next
BY SetChild DEF Kept

LEMMA KeptTwice ==
  ASSUME NEW m, NEW n, NEW o, Kept(m, n), Kept(n, o)
  PROVE  Kept(m, o)
BY DEF Kept

LEMMA TextsKept ==
  ASSUME NEW m, NEW n, Kept(m, n), TextsCounted(m)
  PROVE  TextsCounted(n)
<1>1. TextsOf(n) = TextsOf(m) /\ NamesOf(n) = NamesOf(m)
  BY DEF Kept, TextsOf, NamesOf
<1>2. QED BY <1>1 DEF TextsCounted, Kept

(* The links of n are those of m, but for the children of c: these are s,  *)
(* and an item that is no longer one of them is by itself.                 *)
Relinks(m, l, u, n, v, c, s) ==
  /\ Kept(m, n)
  /\ c \in DOMAIN m.items /\ ~m.items[c].ref /\ s \in Seq(DOMAIN m.items)
  /\ \A j, k \in DOMAIN s : s[j] = s[k] => j = k
  /\ \A j \in DOMAIN s : s[j] \in Loose(l) \/ \E k \in DOMAIN l[c] : s[j] = l[c][k]
  /\ \A x \in DOMAIN m.items : n.items[x].child = IF x = c THEN Nth(s, 1) ELSE m.items[x].child
  /\ \A k \in DOMAIN s :
       /\ n.items[s[k]].next = Nth(s, k + 1)
       /\ k > 1 => n.items[s[k]].prev = s[k - 1]
       /\ k = 1 /\ c \notin v => n.items[s[k]].prev = s[Len(s)]
  /\ \A x \in DOMAIN m.items :
       (\A k \in DOMAIN l[c] : l[c][k] # x) /\ (\A k \in DOMAIN s : s[k] # x)
         => n.items[x].next = m.items[x].next /\ n.items[x].prev = m.items[x].prev
  /\ \A k \in DOMAIN l[c] :
       (\A j \in DOMAIN s : s[j] # l[c][k])
         => n.items[l[c][k]].next = Null /\ n.items[l[c][k]].prev = Null
  /\ \A d \in u : d # c => d \in v

(* Then n is a sound heap of the lists with s for the children of c.       *)
LEMMA Relinked ==
  ASSUME NEW m, NEW l, NEW u, Sound(m, l, u), NEW n, NEW v, NEW c, NEW s, Relinks(m, l, u, n, v, c, s)
  PROVE  Sound(n, [l EXCEPT ![c] = s], v)
<1> USE DEF Relinks
<1> DEFINE D == DOMAIN m.items
           t == [l EXCEPT ![c] = s]
<1>1. l \in [D -> Seq(D)] /\ Disjoint(l) /\ Heap(n) /\ DOMAIN n.items = D
  BY DEF Sound, Linked, Kept
<1>2. t \in [D -> Seq(D)] /\ t[c] = s /\ \A d \in D : d # c => t[d] = l[d]
  BY <1>1
<1> HIDE DEF t
<1>3. ASSUME NEW d \in D, NEW k \in DOMAIN t[d], d # c
      PROVE  /\ k \in DOMAIN l[d] /\ t[d][k] = l[d][k] /\ l[d][k] \in D
             /\ \A j \in DOMAIN l[c] : l[c][j] # l[d][k]
             /\ \A j \in DOMAIN s : s[j] # l[d][k]
  <2>1. k \in DOMAIN l[d] /\ t[d][k] = l[d][k] /\ l[d] \in Seq(D)
    BY <1>1, <1>2, <1>3
  <2>2. \A j \in DOMAIN l[c] : l[c][j] # l[d][k]
    BY <1>1, <1>3, <2>1 DEF Disjoint
  <2>3. l[d][k] \notin Loose(l)
    BY <1>1, <2>1 DEF Loose
  <2>4. QED BY <2>1, <2>2, <2>3
<1>4. Disjoint(t)
  <2>1. SUFFICES ASSUME NEW d \in D, NEW e \in D, NEW j \in DOMAIN t[d], NEW k \in DOMAIN t[e],
                        t[d][j] = t[e][k]
                 PROVE  d = e /\ j = k
    BY <1>2 DEF Disjoint
  <2>2. CASE d # c /\ e # c
    BY <1>1, <1>3, <2>1, <2>2 DEF Disjoint
  <2>3. CASE d = c /\ e = c
    BY <1>2, <2>1, <2>3
  <2>4. CASE d = c /\ e # c
    <3>1. s[j] # l[e][k] /\ t[e][k] = l[e][k] /\ t[d][j] = s[j] /\ j \in DOMAIN s
      BY <1>2, <1>3, <2>1, <2>4, ZenonT(40)
    <3>2. QED BY <2>1, <3>1
  <2>5. CASE d # c /\ e = c
    <3>1. s[k] # l[d][j] /\ t[d][j] = l[d][j] /\ t[e][k] = s[k] /\ k \in DOMAIN s
      BY <1>2, <1>3, <2>1, <2>5
    <3>2. QED BY <2>1, <3>1
  <2>6. QED BY <2>2, <2>3, <2>4, <2>5
<1>5. \A d \in D : IF n.items[d].ref THEN t[d] = <<>> ELSE n.items[d].child = Nth(t[d], 1)
  <2>1. \A d \in D : IF m.items[d].ref THEN l[d] = <<>> ELSE m.items[d].child = Nth(l[d], 1)
    BY <1>1 DEF Sound, Linked
  <2>2. \A d \in D : n.items[d].ref = m.items[d].ref
    BY DEF Kept
  <2>3. ASSUME NEW d \in D PROVE IF n.items[d].ref THEN t[d] = <<>> ELSE n.items[d].child = Nth(t[d], 1)
    <3>1. CASE d = c
      <4>1. t[d] = s /\ n.items[d].ref = m.items[d].ref /\ ~m.items[d].ref /\ n.items[d].child = Nth(s, 1)
        BY <1>2, <2>2, <2>3, <3>1
      <4>2. QED BY <4>1
    <3>2. CASE d # c
      <4>1. t[d] = l[d] /\ n.items[d].ref = m.items[d].ref /\ n.items[d].child = m.items[d].child
        BY <1>2, <2>2, <2>3, <3>2
      <4>2. QED BY <2>1, <4>1
    <3>3. QED BY <3>1, <3>2
  <2>4. QED BY <2>3
<1>6. ASSUME NEW d \in D, NEW k \in DOMAIN t[d]
      PROVE  /\ n.items[t[d][k]].next = Nth(t[d], k + 1)
             /\ k > 1 => n.items[t[d][k]].prev = t[d][k - 1]
             /\ k = 1 /\ d \notin v => n.items[t[d][k]].prev = t[d][Len(t[d])]
  <2>1. CASE d = c
    BY <1>2, <1>6, <2>1
  <2>2. CASE d # c
    <3>1. n.items[l[d][k]].next = m.items[l[d][k]].next /\ n.items[l[d][k]].prev = m.items[l[d][k]].prev
      BY <1>3, <1>6, <2>2
    <3>2. /\ m.items[l[d][k]].next = Nth(l[d], k + 1)
          /\ k > 1 => m.items[l[d][k]].prev = l[d][k - 1]
          /\ k = 1 /\ d \notin u => m.items[l[d][k]].prev = l[d][Len(l[d])]
      BY <1>1, <1>3, <1>6, <2>2 DEF Sound, Linked
    <3>3. t[d] = l[d]
      BY <1>2, <2>2
    <3>4. QED BY <2>2, <3>1, <3>2, <3>3
  <2>3. QED BY <2>1, <2>2
<1>7. ASSUME NEW i \in Loose(t)
      PROVE  n.items[i].next = Null /\ n.items[i].prev = Null
  <2>1. i \in D /\ \A d \in D : \A k \in DOMAIN t[d] : t[d][k] # i
    BY <1>2 DEF Loose
  <2>2. \A k \in DOMAIN s : s[k] # i
    BY <1>2, <2>1
  <2>3. CASE \E k \in DOMAIN l[c] : l[c][k] = i
    BY <2>2, <2>3
  <2>4. CASE \A k \in DOMAIN l[c] : l[c][k] # i
    <3>1. ASSUME NEW d \in D, NEW k \in DOMAIN l[d]
          PROVE  l[d][k] # i
      <4>1. CASE d = c
        BY <2>4, <4>1
      <4>2. CASE d # c
        BY <1>2, <2>1, <3>1, <4>2
      <4>3. QED BY <4>1, <4>2
    <3>2. i \in Loose(l)
      BY <1>1, <2>1, <3>1 DEF Loose
    <3>3. m.items[i].next = Null /\ m.items[i].prev = Null
      BY <3>2 DEF Sound, Linked
    <3>4. QED BY <2>1, <2>2, <2>4, <3>3
  <2>5. QED BY <2>3, <2>4
<1>8. Linked(n, t, v)
  BY <1>1, <1>2, <1>4, <1>5, <1>6, <1>7 DEF Linked
<1>9. TextsCounted(n)
  BY TextsKept DEF Sound
<1>10. QED BY <1>1, <1>8, <1>9 DEF Sound, t

(* What a sound heap says of one container and of the items in no list     *)
Known(m, l, u, c) ==
         /\ Heap(m) /\ DOMAIN l = DOMAIN m.items /\ l[c] \in Seq(DOMAIN m.items)
         /\ m.items[c].child = Nth(l[c], 1)
         /\ \A j, k \in DOMAIN l[c] : l[c][j] = l[c][k] => j = k
         /\ \A k \in DOMAIN l[c] :
              /\ l[c][k] \in DOMAIN m.items
              /\ m.items[l[c][k]].next = Nth(l[c], k + 1)
              /\ k > 1 => m.items[l[c][k]].prev = l[c][k - 1]
              /\ k = 1 /\ c \notin u => m.items[l[c][k]].prev = l[c][Len(l[c])]
         /\ \A i \in Loose(l) :
              /\ i \in DOMAIN m.items
              /\ m.items[i].next = Null /\ m.items[i].prev = Null
              /\ \A k \in DOMAIN l[c] : l[c][k] # i
         /\ \A x \in DOMAIN m.items :
              /\ x \in Nat /\ x # Null
              /\ m.items[x].next \in Nat /\ m.items[x].prev \in Nat /\ m.items[x].child \in Nat

LEMMA Facts ==
  ASSUME NEW m, NEW l, NEW u, Sound(m, l, u), NEW c \in DOMAIN m.items, ~m.items[c].ref
  PROVE  Known(m, l, u, c)
<1>1. Heap(m) /\ Linked(m, l, u)
  BY DEF Sound
<1>2. l \in [DOMAIN m.items -> Seq(DOMAIN m.items)]
  BY <1>1 DEF Linked
<1>3. l[c] \in Seq(DOMAIN m.items) /\ DOMAIN l = DOMAIN m.items
  BY <1>2
<1>4. \A j, k \in DOMAIN l[c] : l[c][j] = l[c][k] => j = k
  BY <1>1, <1>3 DEF Linked, Disjoint
<1>5. \A k \in DOMAIN l[c] :
        /\ l[c][k] \in DOMAIN m.items
        /\ m.items[l[c][k]].next = Nth(l[c], k + 1)
        /\ k > 1 => m.items[l[c][k]].prev = l[c][k - 1]
        /\ k = 1 /\ c \notin u => m.items[l[c][k]].prev = l[c][Len(l[c])]
  BY <1>1, <1>3 DEF Linked
<1>6. \A i \in Loose(l) : m.items[i].next = Null /\ m.items[i].prev = Null
  BY <1>1 DEF Linked
<1>7. \A i \in Loose(l) : i \in DOMAIN m.items /\ \A k \in DOMAIN l[c] : l[c][k] # i
  BY <1>3 DEF Loose
<1>8. m.items[c].child = Nth(l[c], 1)
  BY <1>1, <1>3 DEF Linked
<1>9. \A x \in DOMAIN m.items :
        /\ x \in Nat /\ x # Null
        /\ m.items[x].next \in Nat /\ m.items[x].prev \in Nat /\ m.items[x].child \in Nat
  BY <1>1 DEF Heap, Items
<1>10. QED BY <1>1, <1>3, <1>4, <1>5, <1>6, <1>7, <1>8, <1>9 DEF Known

-----------------------------------------------------------------------------
(* Calls about one list                                                    *)

(* add_item_to_array puts a loose item behind the last, if the way there   *)
(* is not lost.                                                            *)
THEOREM AddAppends ==
  ASSUME NEW m, NEW l, NEW u, Sound(m, l, u),
         NEW c \in DOMAIN m.items \ u, ~m.items[c].ref, NEW i \in Loose(l)
  PROVE  Sound(AddItemToArray(m, c, i), [l EXCEPT ![c] = Append(@, i)], u)
<1> DEFINE D == DOMAIN m.items
           s == l[c]
           N == Len(s)
           t == Append(s, i)
           n == AddItemToArray(m, c, i)
<1> c \in D /\ c \notin u
  OBVIOUS
<1>1. /\ Heap(m) /\ DOMAIN l = D /\ s \in Seq(D) /\ m.items[c].child = Nth(s, 1)
      /\ \A j, k \in DOMAIN s : s[j] = s[k] => j = k
      /\ \A k \in DOMAIN s :
           /\ s[k] \in D
           /\ m.items[s[k]].next = Nth(s, k + 1)
           /\ k > 1 => m.items[s[k]].prev = s[k - 1]
           /\ k = 1 => m.items[s[k]].prev = s[N]
      /\ i \in D /\ m.items[i].next = Null /\ m.items[i].prev = Null
      /\ \A k \in DOMAIN s : s[k] # i
      /\ \A x \in D : x \in Nat /\ x # Null
  <2>1. Known(m, l, u, c)
    BY Facts
  <2>2. QED BY <2>1 DEF Known
<1>2. N \in Nat /\ DOMAIN s = 1 .. N
  BY <1>1
<1>3. t \in Seq(D) /\ Len(t) = N + 1 /\ DOMAIN t = 1 .. N + 1 /\ t[N + 1] = i /\ \A j \in 1 .. N : t[j] = s[j]
  <2>0. i \in D /\ s \in Seq(D)
    BY <1>1
  <2> HIDE DEF s, D
  <2>1. t \in Seq(D) /\ Len(t) = N + 1 /\ \A j \in 1 .. N + 1 : t[j] = IF j <= N THEN s[j] ELSE i
    BY <2>0, AppendIs
  <2>2. QED BY <1>2, <2>1
<1> HIDE DEF s, N, t
<1>4. /\ Kept(m, n)
      /\ \A x \in D :
           /\ n.items[x].child = IF x = c THEN Nth(t, 1) ELSE m.items[x].child
           /\ n.items[x].next = IF N > 0 /\ x = s[N] THEN i ELSE m.items[x].next
           /\ n.items[x].prev = IF x = i THEN IF N = 0 THEN i ELSE s[N]
                                ELSE IF N > 0 /\ x = s[1] THEN i ELSE m.items[x].prev
  <2>1. CASE N = 0
    <3> DEFINE a == Field(m, c, "child", i)
               b == Field(a, i, "prev", i)
               d == Field(b, i, "next", Null)
    <3>1. m.items[c].child = Null /\ n = d /\ Nth(t, 1) = i
      BY <1>1, <1>2, <1>3, <2>1 DEF AddItemToArray, Nth
    <3>2. Kept(m, a) /\ \A x \in D :
            /\ a.items[x].child = IF x = c THEN i ELSE m.items[x].child
            /\ a.items[x].prev = m.items[x].prev /\ a.items[x].next = m.items[x].next
      BY <1>1, SetChild
    <3>3. Heap(a) /\ DOMAIN a.items = D
      BY <3>2 DEF Kept
    <3> HIDE DEF a
    <3>4. Kept(a, b) /\ \A x \in D :
            /\ b.items[x].prev = IF x = i THEN i ELSE a.items[x].prev
            /\ b.items[x].next = a.items[x].next /\ b.items[x].child = a.items[x].child
      BY <1>1, <3>3, SetPrev
    <3>5. Heap(b) /\ DOMAIN b.items = D
      BY <3>3, <3>4 DEF Kept
    <3> HIDE DEF b
    <3>6. Kept(b, d) /\ \A x \in D :
            /\ d.items[x].next = IF x = i THEN Null ELSE b.items[x].next
            /\ d.items[x].prev = b.items[x].prev /\ d.items[x].child = b.items[x].child
      BY <1>1, <3>5, SetNext DEF Null
    <3> HIDE DEF d
    <3>7. Kept(m, d)
      BY <3>2, <3>4, <3>6, KeptTwice
    <3> HIDE DEF n
    <3>8. QED BY <1>1, <2>1, <3>1, <3>2, <3>4, <3>6, <3>7
  <2>2. CASE N > 0
    <3> DEFINE a == Field(m, s[N], "next", i)
               b == Field(a, i, "prev", s[N])
               d == Field(b, s[1], "prev", i)
    <3>1. s[1] \in D /\ s[N] \in D /\ s[1] # i /\ s[N] # i /\ s[1] # Null /\ s[N] # Null
          /\ s[1] \in Nat /\ s[N] \in Nat /\ i \in D /\ i \in Nat
      BY <1>1, <1>2, <2>2
    <3>2. Nth(s, 1) = s[1] /\ Nth(t, 1) = s[1] /\ m.items[s[1]].prev = s[N]
      BY <1>1, <1>2, <1>3, <2>2 DEF Nth
    <3>3. n = d
      BY <1>1, <3>1, <3>2 DEF AddItemToArray, SuffixObject
    <3>4. Kept(m, a) /\ \A x \in D :
            /\ a.items[x].next = IF x = s[N] THEN i ELSE m.items[x].next
            /\ a.items[x].prev = m.items[x].prev /\ a.items[x].child = m.items[x].child
      BY <1>1, <3>1, SetNext
    <3>5. Heap(a) /\ DOMAIN a.items = D
      BY <3>4 DEF Kept
    <3> HIDE DEF a
    <3>6. Kept(a, b) /\ \A x \in D :
            /\ b.items[x].prev = IF x = i THEN s[N] ELSE a.items[x].prev
            /\ b.items[x].next = a.items[x].next /\ b.items[x].child = a.items[x].child
      BY <3>1, <3>5, SetPrev
    <3>7. Heap(b) /\ DOMAIN b.items = D
      BY <3>5, <3>6 DEF Kept
    <3> HIDE DEF b
    <3>8. Kept(b, d) /\ \A x \in D :
            /\ d.items[x].prev = IF x = s[1] THEN i ELSE b.items[x].prev
            /\ d.items[x].next = b.items[x].next /\ d.items[x].child = b.items[x].child
      BY <3>1, <3>7, SetPrev
    <3> HIDE DEF d
    <3>9. Kept(m, d)
      BY <3>4, <3>6, <3>8, KeptTwice
    <3> HIDE DEF n
    <3>10. QED BY <1>1, <2>2, <3>1, <3>2, <3>3, <3>4, <3>6, <3>8, <3>9, SMTT(30)
  <2>3. QED BY <1>2, <2>1, <2>2
<1> HIDE DEF n
<1>5. \A j, k \in DOMAIN t : t[j] = t[k] => j = k
  <2>1. SUFFICES ASSUME NEW j \in 1 .. N + 1, NEW k \in 1 .. N + 1, t[j] = t[k] PROVE j = k
    BY <1>3
  <2>2. (j = N + 1 \/ j \in 1 .. N) /\ (k = N + 1 \/ k \in 1 .. N)
    BY <1>2
  <2>3. QED BY <1>1, <1>2, <1>3, <2>1, <2>2, ZenonT(40)
<1>6. \A j \in DOMAIN t : t[j] \in Loose(l) \/ \E k \in DOMAIN s : t[j] = s[k]
  <2>1. SUFFICES ASSUME NEW j \in 1 .. N + 1 PROVE t[j] \in Loose(l) \/ \E k \in DOMAIN s : t[j] = s[k]
    BY <1>3
  <2>2. j = N + 1 \/ j \in 1 .. N
    BY <1>2
  <2>3. QED BY <1>2, <1>3, <2>2
<1>7. ASSUME NEW k \in DOMAIN t
      PROVE  /\ n.items[t[k]].next = Nth(t, k + 1)
             /\ k > 1 => n.items[t[k]].prev = t[k - 1]
             /\ k = 1 /\ c \notin u => n.items[t[k]].prev = t[Len(t)]
  <2>1. CASE k = N + 1
    <3>1. t[k] = i /\ Nth(t, k + 1) = Null /\ t[Len(t)] = i /\ (N > 0 => t[k - 1] = s[N] /\ s[N] # i)
      BY <1>1, <1>2, <1>3, <2>1 DEF Nth
    <3>2. QED BY <1>1, <1>2, <1>4, <2>1, <3>1
  <2>2. CASE k \in 1 .. N
    <3>1. t[k] = s[k] /\ s[k] # i /\ s[k] \in D /\ N > 0 /\ t[Len(t)] = i
      BY <1>1, <1>2, <1>3, <2>2
    <3>2. n.items[t[k]].next = Nth(t, k + 1)
      <4>1. CASE k = N
        <5>1. Nth(t, k + 1) = i
          BY <1>2, <1>3, <4>1 DEF Nth
        <5>2. QED BY <1>4, <3>1, <4>1, <5>1
      <4>2. CASE k < N
        <5>1. Nth(t, k + 1) = s[k + 1] /\ Nth(s, k + 1) = s[k + 1] /\ s[k] # s[N]
          BY <1>1, <1>2, <1>3, <2>2, <4>2, SMTT(30) DEF Nth
        <5>2. QED BY <1>1, <1>2, <1>4, <2>2, <3>1, <5>1
      <4>3. QED BY <1>2, <2>2, <4>1, <4>2
    <3>3. k > 1 => n.items[t[k]].prev = t[k - 1]
      <4>1. SUFFICES ASSUME k > 1 PROVE n.items[t[k]].prev = t[k - 1]
        OBVIOUS
      <4>2. s[k] # s[1] /\ t[k - 1] = s[k - 1] /\ m.items[s[k]].prev = s[k - 1]
        BY <1>1, <1>2, <1>3, <2>2, <4>1, SMTT(30)
      <4>3. QED BY <1>4, <3>1, <4>2
    <3>4. k = 1 => n.items[t[k]].prev = t[Len(t)]
      BY <1>4, <3>1
    <3>5. QED BY <3>2, <3>3, <3>4
  <2>3. QED BY <1>2, <1>3, <2>1, <2>2
<1>8. ASSUME NEW x \in D, \A k \in DOMAIN s : s[k] # x, \A k \in DOMAIN t : t[k] # x
      PROVE  n.items[x].next = m.items[x].next /\ n.items[x].prev = m.items[x].prev
  <2>1. x # i /\ (N > 0 => x # s[1] /\ x # s[N])
    BY <1>2, <1>3, <1>8
  <2>2. QED BY <1>4, <2>1
<1>9. \A k \in DOMAIN s : \E j \in DOMAIN t : t[j] = s[k]
  BY <1>2, <1>3
<1>10. Relinks(m, l, u, n, u, c, t)
  BY <1>1, <1>3, <1>4, <1>5, <1>6, <1>7, <1>8, <1>9 DEF Relinks, s
<1>11. Sound(n, [l EXCEPT ![c] = t], u)
  BY <1>10, Relinked
<1>12. QED BY <1>11 DEF n, t, s

(* get_array_item goes to the item with the index, and no further than the *)
(* end.                                                                    *)
THEOREM IndexIsPlace ==
  ASSUME NEW m, NEW l, NEW u, Sound(m, l, u), NEW c \in DOMAIN m.items, ~m.items[c].ref, NEW index \in Nat
  PROVE  GetArrayItem(m, c, index) = Nth(l[c], index + 1)
<1> DEFINE s == l[c]
           Step(f, k) == IF k = 0 THEN m.items[c].child
                         ELSE IF f[k - 1] = Null THEN Null ELSE m.items[f[k - 1]].next
           after == CHOOSE f : f = [k \in 0 .. index |-> Step(f, k)]
           w == [k \in 0 .. index |-> Nth(s, k + 1)]
<1>1. /\ s \in Seq(DOMAIN m.items) /\ m.items[c].child = Nth(s, 1)
      /\ \A k \in DOMAIN s : m.items[s[k]].next = Nth(s, k + 1) /\ s[k] # Null
  BY Facts DEF Known
<1>2. \A k \in Nat : Nth(s, k + 1) = IF k + 1 <= Len(s) THEN s[k + 1] ELSE Null
  BY <1>1 DEF Nth
<1> HIDE DEF s
<1>3. ASSUME NEW k \in Nat \ {0}
      PROVE  Nth(s, k + 1) = IF Nth(s, k) = Null THEN Null ELSE m.items[Nth(s, k)].next
  <2>1. k - 1 \in Nat /\ k - 1 + 1 = k
    OBVIOUS
  <2>2. Nth(s, k) = IF k <= Len(s) THEN s[k] ELSE Null
    BY <1>2, <2>1
  <2>3. CASE k <= Len(s)
    <3>1. k \in DOMAIN s
      BY <1>1, <2>3
    <3>2. QED BY <1>1, <2>2, <2>3, <3>1
  <2>4. CASE ~(k <= Len(s))
    <3>1. ~(k + 1 <= Len(s))
      BY <1>1, <2>4
    <3>2. QED BY <1>2, <2>2, <2>4, <3>1
  <2>5. QED BY <2>3, <2>4
<1>4. w = [k \in 0 .. index |-> Step(w, k)]
  <2>1. ASSUME NEW k \in 0 .. index
        PROVE  w[k] = Step(w, k)
    <3>1. CASE k = 0
      BY <1>1, <3>1
    <3>2. CASE k # 0
      <4>1. k \in Nat \ {0} /\ k - 1 \in 0 .. index /\ k - 1 + 1 = k
        BY <3>2
      <4>2. w[k - 1] = Nth(s, k) /\ w[k] = Nth(s, k + 1)
        BY <4>1
      <4>3. QED BY <1>3, <3>2, <4>1, <4>2
    <3>3. QED BY <3>1, <3>2
  <2>2. QED BY <2>1
<1>5. after = [k \in 0 .. index |-> Step(after, k)]
  <2> HIDE DEF w, Step
  <2>1. QED BY <1>4
<1>6. GetArrayItem(m, c, index) = after[index]
  BY DEF GetArrayItem
<1> HIDE DEF after
<1>7. \A k \in 0 .. index : after[k] = Step(after, k)
  BY <1>5
<1>8. \A k \in 0 .. index : after[k] = Nth(s, k + 1)
  <2> DEFINE B == {k \in 0 .. index : after[k] # Nth(s, k + 1)}
  <2>1. SUFFICES ASSUME B # {} PROVE FALSE
    OBVIOUS
  <2>2. IsFiniteSet(B) /\ B \in SUBSET Int
    <3>1. IsFiniteSet(0 .. index) /\ B \subseteq 0 .. index
      BY FS_Interval
    <3>2. QED BY <3>1, FS_Subset
  <2>3. PICK k \in B : \A j \in B : k <= j
    <3> HIDE DEF B
    <3>1. QED BY <2>1, <2>2, LeastElement
  <2>4. k \in 0 .. index /\ after[k] # Nth(s, k + 1)
    OBVIOUS
  <2>5. CASE k = 0
    BY <1>1, <1>7, <2>4, <2>5
  <2>6. CASE k # 0
    <3>1. k \in Nat \ {0} /\ k - 1 \in 0 .. index /\ k - 1 + 1 = k /\ ~(k <= k - 1)
      BY <2>4, <2>6
    <3>2. after[k - 1] = Nth(s, k)
      BY <2>3, <3>1
    <3>3. after[k] = IF after[k - 1] = Null THEN Null ELSE m.items[after[k - 1]].next
      BY <1>7, <2>4, <2>6
    <3>4. QED BY <1>3, <2>4, <3>1, <3>2, <3>3
  <2>7. QED BY <2>5, <2>6
<1>9. QED BY <1>6, <1>8 DEF s

(* cJSON_InsertItemInArray puts a loose item before the one with the       *)
(* index, or behind the last when there is none; only for the latter it    *)
(* needs the way to the end.                                               *)
THEOREM InsertInserts ==
  ASSUME NEW m, NEW l, NEW u, Sound(m, l, u), NEW c \in DOMAIN m.items, ~m.items[c].ref,
         NEW i \in Loose(l), NEW index \in Nat, c \in u => index < Len(l[c])
  PROVE  Sound(InsertItemInArray(m, c, index, i),
               [l EXCEPT ![c] = IF index < Len(@) THEN InsertAt(@, index + 1, i) ELSE Append(@, i)], u)
<1> DEFINE D == DOMAIN m.items
           s == l[c]
           N == Len(s)
           p == index + 1
           t == InsertAt(s, p, i)
           n == InsertItemInArray(m, c, index, i)
<1>1. /\ Heap(m) /\ DOMAIN l = D /\ s \in Seq(D) /\ m.items[c].child = Nth(s, 1)
      /\ \A j, k \in DOMAIN s : s[j] = s[k] => j = k
      /\ \A k \in DOMAIN s :
           /\ s[k] \in D
           /\ m.items[s[k]].next = Nth(s, k + 1)
           /\ k > 1 => m.items[s[k]].prev = s[k - 1]
           /\ k = 1 /\ c \notin u => m.items[s[k]].prev = s[N]
      /\ i \in D /\ m.items[i].next = Null /\ m.items[i].prev = Null
      /\ \A k \in DOMAIN s : s[k] # i
      /\ \A x \in D : x \in Nat /\ x # Null /\ m.items[x].prev \in Nat
  <2>1. Known(m, l, u, c)
    BY Facts
  <2>2. QED BY <2>1 DEF Known
<1>2. N \in Nat /\ DOMAIN s = 1 .. N /\ p \in Nat /\ p >= 1
  BY <1>1
<1>3. GetArrayItem(m, c, index) = IF p <= N THEN s[p] ELSE Null
  <2>1. GetArrayItem(m, c, index) = Nth(s, p)
    BY IndexIsPlace
  <2>2. QED BY <1>2, <2>1 DEF Nth
<1>4. CASE ~(index < N)
  <2>1. n = AddItemToArray(m, c, i)
    BY <1>2, <1>3, <1>4 DEF InsertItemInArray
  <2>2. c \in D \ u
    BY <1>4
  <2>3. Sound(AddItemToArray(m, c, i), [l EXCEPT ![c] = Append(@, i)], u)
    BY <1>1, <2>2, AddAppends
  <2>4. [l EXCEPT ![c] = Append(@, i)] = [l EXCEPT ![c] = IF index < Len(@) THEN InsertAt(@, index + 1, i) ELSE Append(@, i)]
    BY <1>1, <1>4
  <2>5. QED BY <2>1, <2>3, <2>4
<1>5. CASE index < N
  <2>1. p \in 1 .. N /\ p \in 1 .. N + 1 /\ s[p] \in D /\ s[1] \in D /\ N > 0
    BY <1>1, <1>2, <1>5
  <2>2. /\ t \in Seq(D) /\ Len(t) = N + 1 /\ DOMAIN t = 1 .. N + 1
        /\ \A j \in 1 .. N + 1 : t[j] = IF j < p THEN s[j] ELSE IF j = p THEN i ELSE s[j - 1]
    <3>1. i \in D /\ s \in Seq(D) /\ p \in 1 .. Len(s) + 1
      BY <1>1, <2>1
    <3>2. t = InsertAt(s, p, i) /\ N = Len(s)
      OBVIOUS
    <3> HIDE DEF s, D, p, N, t, n
    <3>3. InsertAt(s, p, i) \in Seq(D) /\ Len(InsertAt(s, p, i)) = Len(s) + 1
      BY <3>1, InsertAtIs
    <3>4. ASSUME NEW j \in 1 .. Len(s) + 1
          PROVE  InsertAt(s, p, i)[j] = IF j < p THEN s[j] ELSE IF j = p THEN i ELSE s[j - 1]
      BY <3>1, InsertAtIs
    <3>5. t \in Seq(D) /\ Len(t) = N + 1
      BY <3>3, <3>2
    <3>6. ASSUME NEW j \in 1 .. N + 1
          PROVE  t[j] = IF j < p THEN s[j] ELSE IF j = p THEN i ELSE s[j - 1]
      BY <3>2, <3>4
    <3>7. DOMAIN t = 1 .. N + 1
      BY <1>2, <3>5
    <3>8. QED BY <3>5, <3>6, <3>7
  <2>3. n = LET before == m.items[s[p]].prev
                linked == Field(Field(Field(m, i, "next", s[p]), i, "prev", before), s[p], "prev", i)
            IN IF p = 1 THEN Field(linked, c, "child", i) ELSE Field(linked, before, "next", i)
    <3>1. s[p] = m.items[c].child <=> p = 1
      BY <1>1, <1>2, <2>1 DEF Nth
    <3>2. s[p] # Null /\ GetArrayItem(m, c, index) = s[p]
      BY <1>1, <1>3, <2>1
    <3> HIDE DEF s, p
    <3>3. QED BY <3>1, <3>2 DEF InsertItemInArray
  <2> HIDE DEF s, N, t, p, n
  <2>4. /\ Kept(m, n)
        /\ \A x \in D :
             /\ n.items[x].child = IF x = c THEN Nth(t, 1) ELSE m.items[x].child
             /\ n.items[x].next = IF p > 1 /\ x = s[p - 1] THEN i ELSE IF x = i THEN s[p] ELSE m.items[x].next
             /\ n.items[x].prev = IF x = s[p] THEN i ELSE IF x = i THEN m.items[s[p]].prev ELSE m.items[x].prev
    <3> DEFINE q == m.items[s[p]].prev
               a == Field(m, i, "next", s[p])
               b == Field(a, i, "prev", q)
               d == Field(b, s[p], "prev", i)
    <3>1. s[p] \in D /\ s[p] \in Nat /\ q \in Nat /\ i \in D /\ i \in Nat /\ s[p] # i
      BY <1>1, <1>2, <2>1
    <3>2. Kept(m, a) /\ \A x \in D :
            /\ a.items[x].next = IF x = i THEN s[p] ELSE m.items[x].next
            /\ a.items[x].prev = m.items[x].prev /\ a.items[x].child = m.items[x].child
      BY <1>1, <3>1, SetNext, SMTT(30)
    <3>3. Heap(a) /\ DOMAIN a.items = D
      BY <3>2 DEF Kept
    <3> HIDE DEF a, q
    <3>4. Kept(a, b) /\ \A x \in D :
            /\ b.items[x].prev = IF x = i THEN q ELSE a.items[x].prev
            /\ b.items[x].next = a.items[x].next /\ b.items[x].child = a.items[x].child
      BY <3>1, <3>3, SetPrev
    <3>5. Heap(b) /\ DOMAIN b.items = D
      BY <3>3, <3>4 DEF Kept
    <3> HIDE DEF b
    <3>6. Kept(b, d) /\ \A x \in D :
            /\ d.items[x].prev = IF x = s[p] THEN i ELSE b.items[x].prev
            /\ d.items[x].next = b.items[x].next /\ d.items[x].child = b.items[x].child
      BY <3>1, <3>5, SetPrev
    <3>7. Heap(d) /\ DOMAIN d.items = D
      BY <3>5, <3>6 DEF Kept
    <3>8. n = IF p = 1 THEN Field(d, c, "child", i) ELSE Field(d, q, "next", i)
      BY <2>3 DEF a, b, q
    <3> HIDE DEF d
    <3>9. Kept(m, d)
      BY <3>2, <3>4, <3>6, KeptTwice
    <3>10. CASE p = 1
      <4>1. Kept(d, n) /\ \A x \in D :
              /\ n.items[x].child = IF x = c THEN i ELSE d.items[x].child
              /\ n.items[x].prev = d.items[x].prev /\ n.items[x].next = d.items[x].next
        BY <3>1, <3>7, <3>8, <3>10, SetChild
      <4>2. Nth(t, 1) = i /\ ~(p > 1)
        BY <1>2, <2>2, <3>10 DEF Nth
      <4>3. Kept(m, n)
        BY <3>9, <4>1, KeptTwice
      <4>4. QED BY <3>2, <3>4, <3>6, <4>1, <4>2, <4>3 DEF q
    <3>11. CASE p # 1
      <4>1. q = s[p - 1] /\ q \in D /\ p > 1
        <5>1. p > 1 /\ p - 1 \in DOMAIN s /\ p \in DOMAIN s
          BY <1>2, <2>1, <3>11
        <5>2. QED BY <1>1, <5>1 DEF q
      <4>2. Kept(d, n) /\ \A x \in D :
              /\ n.items[x].next = IF x = q THEN i ELSE d.items[x].next
              /\ n.items[x].prev = d.items[x].prev /\ n.items[x].child = d.items[x].child
        BY <3>1, <3>7, <3>8, <3>11, <4>1, SetNext
      <4>3. Nth(t, 1) = s[1] /\ m.items[c].child = s[1]
        BY <1>1, <1>2, <2>1, <2>2, <4>1 DEF Nth
      <4>4. Kept(m, n)
        BY <3>9, <4>2, KeptTwice
      <4>5. \A x \in D : n.items[x].next = IF x = s[p - 1] THEN i ELSE IF x = i THEN s[p] ELSE m.items[x].next
        BY <3>2, <3>4, <3>6, <4>1, <4>2
      <4>6. \A x \in D : n.items[x].prev = IF x = s[p] THEN i ELSE IF x = i THEN m.items[s[p]].prev ELSE m.items[x].prev
        BY <3>2, <3>4, <3>6, <4>2 DEF q
      <4>7. \A x \in D : n.items[x].child = IF x = c THEN Nth(t, 1) ELSE m.items[x].child
        BY <3>2, <3>4, <3>6, <4>2, <4>3
      <4>8. QED BY <4>1, <4>4, <4>5, <4>6, <4>7
    <3>12. QED BY <3>10, <3>11
  <2>a. /\ \A k \in 1 .. N : s[k] \in D /\ s[k] # i /\ m.items[s[k]].next = IF k < N THEN s[k + 1] ELSE Null
        /\ \A j, k \in 1 .. N : s[j] = s[k] => j = k
    <3>1. \A k \in DOMAIN s : m.items[s[k]].next = IF k + 1 \in DOMAIN s THEN s[k + 1] ELSE Null
      BY <1>1 DEF Nth
    <3>2. \A k \in 1 .. N : k + 1 \in 1 .. N <=> k < N
      BY <1>2
    <3>3. \A k \in DOMAIN s : s[k] \in D /\ s[k] # i
      BY <1>1
    <3>4. \A j, k \in DOMAIN s : s[j] = s[k] => j = k
      BY <1>1
    <3>5. DOMAIN s = 1 .. N
      BY <1>2
    <3>6. QED BY <3>1, <3>2, <3>3, <3>4, <3>5
  <2>b. \A k \in 1 .. N : k > 1 => m.items[s[k]].prev = s[k - 1] /\ k - 1 \in 1 .. N
    <3>1. \A k \in DOMAIN s : k > 1 => m.items[s[k]].prev = s[k - 1]
      BY <1>1
    <3>2. \A k \in 1 .. N : k > 1 => k - 1 \in 1 .. N
      BY <1>2
    <3>3. QED BY <1>2, <3>1, <3>2
  <2>c. N \in Nat /\ p \in 1 .. N /\ \A k \in Nat \ {0} : Nth(t, k) = IF k <= N + 1 THEN t[k] ELSE Null
    BY <1>2, <2>1, <2>2 DEF Nth
  <2>d. p - 1 \in Int /\ (p > 1 => p - 1 \in 1 .. N /\ t[p - 1] = s[p - 1]) /\ t[p] = i
    BY <2>2, <2>c
  <2>5. \A j \in 1 .. N + 1 : (j < p /\ j \in 1 .. N) \/ j = p \/ (j > p /\ j - 1 \in 1 .. N)
    BY <2>c
  <2>6. \A j, k \in DOMAIN t : t[j] = t[k] => j = k
    <3>1. SUFFICES ASSUME NEW j \in 1 .. N + 1, NEW k \in 1 .. N + 1, t[j] = t[k] PROVE j = k
      BY <2>2
    <3>2. CASE j < p /\ k > p
      <4>1. t[j] = s[j] /\ t[k] = s[k - 1] /\ j \in 1 .. N /\ k - 1 \in 1 .. N /\ j # k - 1
        BY <2>2, <2>5, <2>c, <3>2
      <4>2. QED BY <2>a, <3>1, <4>1
    <3>3. CASE j > p /\ k < p
      <4>1. t[j] = s[j - 1] /\ t[k] = s[k] /\ j - 1 \in 1 .. N /\ k \in 1 .. N /\ j - 1 # k
        BY <2>2, <2>5, <2>c, <3>3
      <4>2. QED BY <2>a, <3>1, <4>1
    <3>4. CASE j < p /\ k < p
      BY <2>2, <2>5, <2>a, <2>c, <3>1, <3>4
    <3>5. CASE j > p /\ k > p
      <4>1. t[j] = s[j - 1] /\ t[k] = s[k - 1] /\ j - 1 \in 1 .. N /\ k - 1 \in 1 .. N
        BY <2>2, <2>5, <2>c, <3>5
      <4>2. j - 1 = k - 1
        BY <2>a, <3>1, <4>1
      <4>3. QED BY <4>2
    <3>6. CASE j = p
      BY <2>2, <2>5, <2>a, <2>c, <3>1, <3>6
    <3>7. CASE k = p
      BY <2>2, <2>5, <2>a, <2>c, <3>1, <3>7, SMTT(30)
    <3>8. QED BY <2>c, <3>1, <3>2, <3>3, <3>4, <3>5, <3>6, <3>7
  <2>7. \A j \in DOMAIN t : t[j] \in Loose(l) \/ \E k \in DOMAIN s : t[j] = s[k]
    <3>1. SUFFICES ASSUME NEW j \in 1 .. N + 1 PROVE t[j] \in Loose(l) \/ \E k \in 1 .. N : t[j] = s[k]
      BY <1>2, <2>2
    <3>2. CASE j < p
      BY <2>2, <2>5, <2>c, <3>2
    <3>3. CASE j = p
      BY <2>2, <2>c, <3>3
    <3>4. CASE j > p
      BY <2>2, <2>5, <2>c, <3>4
    <3>5. QED BY <2>c, <3>2, <3>3, <3>4
  <2>8. ASSUME NEW k \in DOMAIN t
        PROVE  /\ n.items[t[k]].next = Nth(t, k + 1)
               /\ k > 1 => n.items[t[k]].prev = t[k - 1]
               /\ k = 1 /\ c \notin u => n.items[t[k]].prev = t[Len(t)]
    <3>0. k \in 1 .. N + 1 /\ t[Len(t)] = s[N]
      BY <1>2, <2>1, <2>2
    <3>1. CASE k < p
      <4>0. k \in 1 .. N /\ k < N /\ k + 1 \in 1 .. N + 1 /\ (k + 1 < p \/ k + 1 = p)
        BY <2>c, <3>0, <3>1
      <4>1. t[k] = s[k] /\ s[k] # i /\ s[k] # s[p] /\ s[k] \in D /\ t[k + 1] = (IF k = p - 1 THEN i ELSE s[k + 1])
        <5>1. t[k] = s[k]
          BY <2>2, <3>0, <3>1
        <5>a. t[k + 1] = (IF k = p - 1 THEN i ELSE s[k + 1])
          BY <2>2, <2>c, <4>0
        <5>2. QED BY <2>a, <2>c, <3>1, <4>0, <5>1, <5>a
      <4>a. Nth(t, k + 1) = t[k + 1]
        BY <2>c, <4>0
      <4>2. s[k] = s[p - 1] <=> k = p - 1
        BY <2>a, <2>c, <2>d, <3>1, <4>0
      <4>3. n.items[t[k]].next = Nth(t, k + 1)
        <5>1. CASE k = p - 1
          BY <2>4, <2>c, <4>0, <4>1, <4>a, <4>2, <5>1
        <5>2. CASE k # p - 1
          <6>1. n.items[s[k]].next = m.items[s[k]].next /\ m.items[s[k]].next = s[k + 1]
            BY <2>4, <2>a, <4>0, <4>1, <4>2, <5>2
          <6>2. QED BY <4>1, <4>a, <5>2, <6>1
        <5>3. QED BY <5>1, <5>2
      <4>4. n.items[t[k]].prev = m.items[s[k]].prev /\ k \in DOMAIN s
        BY <1>2, <2>1, <2>4, <3>0, <3>1, <4>1
      <4>5. k > 1 => t[k - 1] = s[k - 1]
        BY <1>2, <2>2, <3>0, <3>1
      <4>6. QED BY <1>1, <3>0, <4>3, <4>4, <4>5
    <3>2. CASE k = p
      <4>1. t[k] = i /\ Nth(t, k + 1) = s[p]
        BY <1>2, <2>1, <2>2, <3>2 DEF Nth
      <4>2. p > 1 => s[p - 1] # i /\ t[p - 1] = s[p - 1]
        BY <2>a, <2>d
      <4>3. n.items[i].next = s[p] /\ n.items[i].prev = m.items[s[p]].prev
        BY <1>1, <1>2, <2>1, <2>4, <4>2
      <4>4. QED BY <1>1, <1>2, <2>1, <3>0, <3>2, <4>1, <4>2, <4>3
    <3>3. CASE k > p
      <4>1. t[k] = s[k - 1] /\ k - 1 \in 1 .. N /\ k > 1 /\ s[k - 1] # i /\ s[k - 1] \in D
        BY <2>2, <2>5, <2>a, <2>c, <3>0, <3>3
      <4>2. p > 1 => s[k - 1] # s[p - 1]
        BY <2>a, <2>c, <2>d, <3>0, <3>3, <4>1
      <4>3. n.items[t[k]].next = IF k - 1 < N THEN s[k] ELSE Null
        <5>1. n.items[t[k]].next = m.items[s[k - 1]].next
          BY <2>4, <4>1, <4>2
        <5>2. k - 1 + 1 = k
          BY <3>0
        <5>3. QED BY <2>a, <4>1, <5>1, <5>2
      <4>4. Nth(t, k + 1) = IF k - 1 < N THEN s[k] ELSE Null
        <5>1. k + 1 \in Nat \ {0} /\ (k + 1 <= N + 1 <=> k - 1 < N) /\ ~(k + 1 < p) /\ k + 1 # p
          BY <2>c, <3>0, <3>3
        <5>2. k - 1 < N => t[k + 1] = s[k]
          BY <2>2, <2>c, <5>1
        <5>3. QED BY <2>c, <5>1, <5>2
      <4>5. n.items[t[k]].prev = t[k - 1]
        <5>1. CASE k = p + 1
          BY <1>2, <2>1, <2>2, <2>4, <4>1, <5>1
        <5>2. CASE k # p + 1
          <6>1. k - 1 > p /\ k - 1 > 1 /\ t[k - 1] = s[k - 2] /\ k - 1 - 1 = k - 2
            BY <1>2, <2>1, <2>2, <3>0, <3>3, <5>2
          <6>2. s[k - 1] # s[p] /\ m.items[s[k - 1]].prev = s[k - 2]
            BY <2>a, <2>b, <2>c, <4>1, <6>1
          <6>3. QED BY <2>4, <4>1, <6>1, <6>2
        <5>3. QED BY <5>1, <5>2
      <4>6. QED BY <4>1, <4>3, <4>4, <4>5
    <3>4. QED BY <1>2, <3>0, <3>1, <3>2, <3>3
  <2>9. ASSUME NEW x \in D, \A k \in DOMAIN s : s[k] # x, \A k \in DOMAIN t : t[k] # x
        PROVE  n.items[x].next = m.items[x].next /\ n.items[x].prev = m.items[x].prev
    <3>1. x # s[p] /\ (p > 1 => x # s[p - 1])
      BY <1>2, <2>1, <2>9
    <3>2. x # i
      BY <2>1, <2>2, <2>9
    <3>3. QED BY <2>4, <3>1, <3>2
  <2>10. ASSUME NEW k \in DOMAIN s
         PROVE  \E j \in DOMAIN t : t[j] = s[k]
    <3>1. CASE k < p
      BY <1>2, <2>2, <3>1
    <3>2. CASE ~(k < p)
      <4>1. k + 1 \in 1 .. N + 1 /\ ~(k + 1 < p) /\ k + 1 # p /\ k + 1 - 1 = k
        BY <1>2, <3>2
      <4>2. t[k + 1] = s[k]
        BY <2>2, <4>1, SMTT(30)
      <4>3. QED BY <2>2, <4>1, <4>2
    <3>3. QED BY <3>1, <3>2
  <2>11. Relinks(m, l, u, n, u, c, t)
    BY <1>1, <2>2, <2>4, <2>6, <2>7, <2>8, <2>9, <2>10 DEF Relinks, s
  <2>12. Sound(n, [l EXCEPT ![c] = t], u)
    BY <2>11, Relinked
  <2>13. [l EXCEPT ![c] = IF index < Len(@) THEN InsertAt(@, index + 1, i) ELSE Append(@, i)] = [l EXCEPT ![c] = t]
    BY <1>1, <1>5 DEF t, s, p, N
  <2>14. QED BY <2>12, <2>13 DEF n
<1>6. QED BY <1>4, <1>5

(* The same about one list of N items, by their numbers                    *)
Numbered(m, s, c, w) ==
  LET N == Len(s)
  IN /\ N \in Nat /\ s \in Seq(DOMAIN m.items)
     /\ \A k \in 1 .. N : s[k] \in DOMAIN m.items /\ s[k] \in Nat /\ s[k] # Null /\ m.items[s[k]].prev \in Nat
     /\ \A k \in 1 .. N : m.items[s[k]].next = IF k < N THEN s[k + 1] ELSE Null
     /\ \A k \in 1 .. N : k > 1 => m.items[s[k]].prev = s[k - 1] /\ k - 1 \in 1 .. N
     /\ \A j, k \in 1 .. N : s[j] = s[k] => j = k
     /\ N > 0 => m.items[c].child = s[1]
     /\ N > 0 /\ c \notin w => m.items[s[1]].prev = s[N]

LEMMA Numbers ==
  ASSUME NEW m, NEW l, NEW u, Sound(m, l, u), NEW c \in DOMAIN m.items, ~m.items[c].ref
  PROVE  Numbered(m, l[c], c, u) /\ Heap(m) /\ DOMAIN l = DOMAIN m.items
<1> DEFINE s == l[c]
           N == Len(s)
<1>1. /\ Heap(m) /\ DOMAIN l = DOMAIN m.items /\ s \in Seq(DOMAIN m.items)
      /\ m.items[c].child = Nth(s, 1)
      /\ \A j, k \in DOMAIN s : s[j] = s[k] => j = k
      /\ \A k \in DOMAIN s :
           /\ s[k] \in DOMAIN m.items
           /\ m.items[s[k]].next = Nth(s, k + 1)
           /\ k > 1 => m.items[s[k]].prev = s[k - 1]
           /\ k = 1 /\ c \notin u => m.items[s[k]].prev = s[N]
      /\ \A x \in DOMAIN m.items : x \in Nat /\ x # Null /\ m.items[x].prev \in Nat
  <2>1. Known(m, l, u, c)
    BY Facts
  <2>2. QED BY <2>1 DEF Known
<1> HIDE DEF s
<1>2. N \in Nat /\ DOMAIN s = 1 .. N
  BY <1>1
<1> HIDE DEF N
<1>3. \A k \in 1 .. N : m.items[s[k]].next = IF k < N THEN s[k + 1] ELSE Null
  <2>1. \A k \in DOMAIN s : m.items[s[k]].next = IF k + 1 \in DOMAIN s THEN s[k + 1] ELSE Null
    BY <1>1 DEF Nth
  <2>2. \A k \in 1 .. N : k + 1 \in 1 .. N <=> k < N
    BY <1>2
  <2>3. QED BY <1>2, <2>1, <2>2
<1>4. \A k \in 1 .. N : k > 1 => m.items[s[k]].prev = s[k - 1] /\ k - 1 \in 1 .. N
  <2>1. \A k \in 1 .. N : k > 1 => k - 1 \in 1 .. N
    BY <1>2
  <2>2. QED BY <1>1, <1>2, <2>1
<1>5. \A k \in 1 .. N : s[k] \in DOMAIN m.items /\ s[k] \in Nat /\ s[k] # Null /\ m.items[s[k]].prev \in Nat
  BY <1>1, <1>2
<1>6. N > 0 => m.items[c].child = s[1] /\ 1 \in 1 .. N
  BY <1>1, <1>2 DEF Nth
<1>7. N > 0 /\ c \notin u => m.items[s[1]].prev = s[N]
  BY <1>1, <1>2, <1>6
<1>8. \A j, k \in 1 .. N : s[j] = s[k] => j = k
  BY <1>1, <1>2
<1>9. QED BY <1>1, <1>2, <1>3, <1>4, <1>5, <1>6, <1>7, <1>8 DEF Numbered, s, N

LEMMA KeptSame ==
  ASSUME NEW m, Heap(m)
  PROVE  Kept(m, m)
BY DEF Kept

(* cJSON_DetachItemViaPointer takes the item out of its list and leaves it *)
(* by itself.                                                              *)
THEOREM DetachRemoves ==
  ASSUME NEW m, NEW l, NEW u, Sound(m, l, u), NEW c \in DOMAIN m.items, ~m.items[c].ref,
         NEW p \in 1 .. Len(l[c])
  PROVE  Sound(DetachItem(m, c, l[c][p]), [l EXCEPT ![c] = RemoveAt(@, p)], u)
<1> DEFINE D == DOMAIN m.items
           s == l[c]
           N == Len(s)
           i == s[p]
           t == RemoveAt(s, p)
           n == DetachItem(m, c, i)
<1>1. Numbered(m, s, c, u) /\ Heap(m) /\ DOMAIN l = D
  BY Numbers
<1>2. t \in Seq(D) /\ Len(t) = N - 1 /\ \A j \in 1 .. N - 1 : t[j] = IF j < p THEN s[j] ELSE s[j + 1]
  <2>1. s \in Seq(D) /\ p \in 1 .. Len(s)
    BY <1>1 DEF Numbered
  <2> HIDE DEF s, D
  <2>2. /\ RemoveAt(s, p) \in Seq(D)
        /\ Len(RemoveAt(s, p)) = Len(s) - 1
        /\ \A j \in 1 .. Len(s) - 1 : RemoveAt(s, p)[j] = IF j < p THEN s[j] ELSE s[j + 1]
    BY <2>1, RemoveAtIs
  <2>3. QED BY <2>2
<1>3. p \in 1 .. N
  OBVIOUS
<1> HIDE DEF s, N, t, i
<1>4. N \in Nat /\ N > 0 /\ DOMAIN s = 1 .. N /\ DOMAIN t = 1 .. N - 1 /\ N - 1 \in Nat /\ 1 \in 1 .. N
  <2>1. N \in Nat /\ N > 0 /\ s \in Seq(D)
    BY <1>1, <1>3 DEF Numbered, N
  <2>2. QED BY <1>2, <2>1 DEF N
<1>in. \A k \in 1 .. N : s[k] \in D /\ s[k] \in Nat /\ s[k] # Null /\ m.items[s[k]].prev \in Nat
  BY <1>1 DEF Numbered, N
<1>nx. \A k \in 1 .. N : m.items[s[k]].next = IF k < N THEN s[k + 1] ELSE Null
  BY <1>1 DEF Numbered, N
<1>pv. \A k \in 1 .. N : k > 1 => m.items[s[k]].prev = s[k - 1] /\ k - 1 \in 1 .. N
  BY <1>1 DEF Numbered, N
<1>un. \A j, k \in 1 .. N : s[j] = s[k] => j = k
  BY <1>1 DEF Numbered, N
<1>en. m.items[c].child = s[1] /\ (c \notin u => m.items[s[1]].prev = s[N])
  BY <1>1, <1>4 DEF Numbered, N
<1>at. i = s[p] /\ i \in D /\ m.items[i].next = (IF p < N THEN s[p + 1] ELSE Null)
       /\ (p > 1 => m.items[i].prev = s[p - 1] /\ p - 1 \in 1 .. N) /\ m.items[i].prev \in Nat
  BY <1>3, <1>in, <1>nx, <1>pv DEF i
<1>in4. p < N => p + 1 \in 1 .. N
  BY <1>3, <1>4
<1>5. /\ Kept(m, n)
      /\ \A x \in D :
           /\ n.items[x].child = IF p = 1 /\ x = c THEN m.items[i].next ELSE m.items[x].child
           /\ n.items[x].next = IF x = i THEN Null
                                ELSE IF p # 1 /\ x = s[p - 1] THEN m.items[i].next ELSE m.items[x].next
           /\ n.items[x].prev = IF x = i THEN Null
                                ELSE IF p < N /\ x = s[p + 1] THEN m.items[i].prev
                                ELSE IF p # 1 /\ p = N /\ x = s[1] THEN m.items[i].prev
                                ELSE m.items[x].prev
  <2> DEFINE q == m.items[i].prev
             r == m.items[i].next
             a == IF p # 1 THEN Field(m, s[p - 1], "next", r) ELSE m
             b == IF p < N THEN Field(a, s[p + 1], "prev", q) ELSE a
             d == IF p = 1 THEN Field(b, c, "child", r) ELSE b
             e == IF p # 1 /\ p = N THEN Field(d, s[1], "prev", q) ELSE d
             f == Field(e, i, "prev", Null)
             g == Field(f, i, "next", Null)
  <2>1. /\ (p # 1 => s[p - 1] \in D /\ q = s[p - 1]) /\ (p < N => s[p + 1] \in D) /\ i \in D /\ s[1] \in D
        /\ q \in Nat /\ r \in Nat /\ Null \in Nat /\ r = (IF p < N THEN s[p + 1] ELSE Null)
        /\ (r = Null <=> ~(p < N)) /\ (i = s[1] <=> p = 1) /\ (~(p < N) <=> p = N)
    <3>1. p # 1 => p > 1
      BY <1>3
    <3>2. p < N => s[p + 1] \in D /\ s[p + 1] # Null /\ s[p + 1] \in Nat
      BY <1>in4, <1>in
    <3>3. i = s[1] <=> p = 1
      BY <1>3, <1>4, <1>un, <1>at
    <3>4. ~(p < N) <=> p = N
      BY <1>3, <1>4
    <3>5. s[1] \in D /\ Null \in Nat
      BY <1>4, <1>in DEF Null
    <3>6. p # 1 => s[p - 1] \in D /\ q = s[p - 1]
      BY <3>1, <1>at, <1>in
    <3>7. QED BY <1>at, <3>2, <3>3, <3>4, <3>5, <3>6
  <2>2. n = g
    <3> HIDE DEF q, r
    <3>1. i = m.items[c].child <=> p = 1
      BY <1>en, <2>1
    <3>2. UnlinkItem(m, c, i) = d
      BY <2>1, <3>1 DEF UnlinkItem, q, r
    <3> HIDE DEF d
    <3>3. QED BY <1>en, <2>1, <3>1, <3>2 DEF DetachItem, ByItself, q, r
  <2> HIDE DEF q, r, n
  <2>3. /\ Kept(m, a) /\ Heap(a) /\ DOMAIN a.items = D
        /\ \A x \in D :
             /\ a.items[x].next = IF p # 1 /\ x = s[p - 1] THEN r ELSE m.items[x].next
             /\ a.items[x].prev = m.items[x].prev /\ a.items[x].child = m.items[x].child
    <3>1. CASE p # 1
      <4>1. s[p - 1] \in DOMAIN m.items /\ a = Field(m, s[p - 1], "next", r)
        BY <2>1, <3>1
      <4> HIDE DEF a
      <4>2. Kept(m, a) /\ \A x \in DOMAIN m.items :
              /\ a.items[x].next = IF x = s[p - 1] THEN r ELSE m.items[x].next
              /\ a.items[x].prev = m.items[x].prev /\ a.items[x].child = m.items[x].child
        BY <1>1, <2>1, <4>1, SetNext, SMTT(30)
      <4>3. Heap(a) /\ DOMAIN a.items = DOMAIN m.items
        BY <4>2 DEF Kept
      <4>4. QED BY <3>1, <4>2, <4>3
    <3>2. CASE ~(p # 1)
      BY <1>1, <2>1, <3>2, KeptSame
    <3>3. QED BY <3>1, <3>2
  <2> HIDE DEF a
  <2>4. /\ Kept(a, b) /\ Heap(b) /\ DOMAIN b.items = D
        /\ \A x \in D :
             /\ b.items[x].prev = IF p < N /\ x = s[p + 1] THEN q ELSE a.items[x].prev
             /\ b.items[x].next = a.items[x].next /\ b.items[x].child = a.items[x].child
    <3>1. CASE p < N
      BY <2>1, <2>3, <3>1, SetPrev, SMTT(30) DEF Kept
    <3>2. CASE ~(p < N)
      BY <2>1, <2>3, <3>2, KeptSame
    <3>3. QED BY <3>1, <3>2
  <2> HIDE DEF b
  <2>5. /\ Kept(b, d) /\ Heap(d) /\ DOMAIN d.items = D
        /\ \A x \in D :
             /\ d.items[x].child = IF p = 1 /\ x = c THEN r ELSE b.items[x].child
             /\ d.items[x].next = b.items[x].next /\ d.items[x].prev = b.items[x].prev
    <3>1. CASE p = 1
      <4>1. c \in DOMAIN b.items /\ d = Field(b, c, "child", r)
        BY <2>4, <3>1
      <4> HIDE DEF d
      <4>2. Kept(b, d) /\ \A x \in DOMAIN b.items :
              /\ d.items[x].child = IF x = c THEN r ELSE b.items[x].child
              /\ d.items[x].prev = b.items[x].prev /\ d.items[x].next = b.items[x].next
        BY <2>1, <2>4, <4>1, SetChild, SMTT(30)
      <4>3. Heap(d) /\ DOMAIN d.items = DOMAIN b.items
        BY <2>4, <4>2 DEF Kept
      <4>4. QED BY <2>4, <3>1, <4>2, <4>3
    <3>2. CASE ~(p = 1)
      BY <2>1, <2>4, <3>2, KeptSame
    <3>3. QED BY <3>1, <3>2
  <2> HIDE DEF d
  <2>6. /\ Kept(d, e) /\ Heap(e) /\ DOMAIN e.items = D
        /\ \A x \in D :
             /\ e.items[x].prev = IF p # 1 /\ p = N /\ x = s[1] THEN q ELSE d.items[x].prev
             /\ e.items[x].next = d.items[x].next /\ e.items[x].child = d.items[x].child
    <3>1. CASE p # 1 /\ p = N
      BY <2>1, <2>5, <3>1, SetPrev DEF Kept
    <3>2. CASE ~(p # 1 /\ p = N)
      BY <2>1, <2>5, <3>2, KeptSame
    <3>3. QED BY <3>1, <3>2
  <2> HIDE DEF e
  <2>7. /\ Kept(e, f) /\ Heap(f) /\ DOMAIN f.items = D
        /\ \A x \in D :
             /\ f.items[x].prev = IF x = i THEN Null ELSE e.items[x].prev
             /\ f.items[x].next = e.items[x].next /\ f.items[x].child = e.items[x].child
    BY <2>1, <2>6, SetPrev DEF Kept
  <2> HIDE DEF f
  <2>8. /\ Kept(f, g)
        /\ \A x \in D :
             /\ g.items[x].next = IF x = i THEN Null ELSE f.items[x].next
             /\ g.items[x].prev = f.items[x].prev /\ g.items[x].child = f.items[x].child
    BY <2>1, <2>7, SetNext
  <2> HIDE DEF g
  <2>9. Kept(m, g)
    BY <2>3, <2>4, <2>5, <2>6, <2>7, <2>8, KeptTwice
  <2>10. \A x \in D : g.items[x].child = IF p = 1 /\ x = c THEN r ELSE m.items[x].child
    BY <2>3, <2>4, <2>5, <2>6, <2>7, <2>8
  <2>11. \A x \in D : g.items[x].next = IF x = i THEN Null ELSE IF p # 1 /\ x = s[p - 1] THEN r ELSE m.items[x].next
    BY <2>3, <2>4, <2>5, <2>6, <2>7, <2>8
  <2>12. \A x \in D : g.items[x].prev = IF x = i THEN Null ELSE IF p # 1 /\ p = N /\ x = s[1] THEN q
                                        ELSE IF p < N /\ x = s[p + 1] THEN q ELSE m.items[x].prev
    BY <2>3, <2>4, <2>5, <2>6, <2>7, <2>8
  <2>13. QED BY <2>2, <2>9, <2>10, <2>11, <2>12 DEF q, r
<1> HIDE DEF n, D
<1>6. \A j \in 1 .. N - 1 : \/ j < p /\ j \in 1 .. N /\ t[j] = s[j]
                            \/ j >= p /\ j + 1 \in 1 .. N /\ t[j] = s[j + 1]
  BY <1>2, <1>3, <1>4
<1>7. \A j, k \in DOMAIN t : t[j] = t[k] => j = k
  <2>1. SUFFICES ASSUME NEW j \in 1 .. N - 1, NEW k \in 1 .. N - 1, t[j] = t[k] PROVE j = k
    BY <1>4
  <2>2. PICK jj \in 1 .. N : t[j] = s[jj] /\ jj = IF j < p THEN j ELSE j + 1
    BY <1>3, <1>4, <1>6
  <2>3. PICK kk \in 1 .. N : t[k] = s[kk] /\ kk = IF k < p THEN k ELSE k + 1
    BY <1>3, <1>4, <1>6
  <2>4. jj = kk
    BY <1>un, <2>1, <2>2, <2>3
  <2>5. QED BY <1>3, <1>4, <2>2, <2>3, <2>4
<1>8. \A j \in DOMAIN t : \E k \in DOMAIN s : t[j] = s[k]
  BY <1>4, <1>6
<1>9. \A k \in DOMAIN t : t[k] # i /\ t[k] \in D
  <2>1. SUFFICES ASSUME NEW k \in 1 .. N - 1 PROVE t[k] # i /\ t[k] \in D
    BY <1>4
  <2>2. CASE k < p
    BY <1>3, <1>4, <1>6, <1>un, <1>in, <1>at, <2>2
  <2>3. CASE k >= p
    BY <1>3, <1>4, <1>6, <1>un, <1>in, <1>at, <2>3
  <2>4. QED BY <1>3, <1>4, <2>2, <2>3
<1>10. \A x \in D : n.items[x].child = IF x = c THEN Nth(t, 1) ELSE m.items[x].child
  <2>1. Nth(t, 1) = IF N > 1 THEN t[1] ELSE Null
    BY <1>4 DEF Nth
  <2>2. CASE p = 1
    <3>1. N > 1 => t[1] = s[2]
      BY <1>2, <1>4, <2>2
    <3>2. m.items[i].next = Nth(t, 1)
      BY <1>4, <1>at, <2>1, <2>2, <3>1
    <3>3. QED BY <1>5, <2>2, <3>2
  <2>3. CASE p # 1
    <3>1. Nth(t, 1) = s[1]
      BY <1>2, <1>3, <1>4, <2>1, <2>3
    <3>2. QED BY <1>5, <1>en, <2>3, <3>1
  <2>4. QED BY <2>2, <2>3
<1>11. ASSUME NEW k \in 1 .. N - 1
       PROVE  /\ n.items[t[k]].next = IF k < N - 1 THEN t[k + 1] ELSE Null
              /\ k > 1 => n.items[t[k]].prev = t[k - 1]
              /\ k = 1 /\ c \notin u => n.items[t[k]].prev = t[N - 1]
  <2>1. CASE k < p
    <3>1. t[k] = s[k] /\ k \in 1 .. N /\ k < N /\ (k < N - 1 => t[k + 1] = IF k + 1 < p THEN s[k + 1] ELSE s[k + 2])
      <4>1. k \in 1 .. N /\ k < N /\ (k < N - 1 => k + 1 \in 1 .. N - 1) /\ k + 1 + 1 = k + 2
        BY <1>4
      <4>2. QED BY <1>2, <2>1, <4>1
    <3>2. p # 1 /\ p > 1 /\ p - 1 \in 1 .. N /\ (s[k] = s[p - 1] <=> k + 1 = p) /\ s[k] # i /\ s[k] \in D
          /\ (p < N => s[k] # s[p + 1]) /\ (s[k] = s[1] <=> k = 1)
      <4>1. p # 1 /\ p > 1 /\ p - 1 \in 1 .. N /\ (k = p - 1 <=> k + 1 = p) /\ k # p /\ k # p + 1
        BY <1>3, <1>4, <2>1, <3>1
      <4>2. QED BY <1>3, <1>4, <1>in4, <1>in, <1>un, <1>at, <3>1, <4>1
    <3>3. n.items[t[k]].next = IF k + 1 = p THEN m.items[i].next ELSE m.items[s[k]].next
      BY <1>5, <3>1, <3>2
    <3>4. m.items[s[k]].next = s[k + 1] /\ m.items[i].next = (IF p < N THEN s[p + 1] ELSE Null)
      BY <1>nx, <1>at, <3>1
    <3>5. n.items[t[k]].next = IF k < N - 1 THEN t[k + 1] ELSE Null
      <4>1. CASE k + 1 = p
        <5>1. p + 1 = k + 2 /\ ~(k + 1 < p) /\ (p < N <=> k < N - 1)
          BY <1>3, <1>4, <4>1
        <5>2. QED BY <3>1, <3>3, <3>4, <4>1, <5>1
      <4>2. CASE k + 1 # p
        <5>1. k + 1 < p /\ k < N - 1
          BY <1>3, <1>4, <2>1, <4>2
        <5>2. QED BY <3>1, <3>3, <3>4, <4>2, <5>1
      <4>3. QED BY <4>1, <4>2
    <3>6. k > 1 => n.items[t[k]].prev = t[k - 1]
      <4>1. SUFFICES ASSUME k > 1 PROVE n.items[t[k]].prev = t[k - 1]
        OBVIOUS
      <4>2. t[k - 1] = s[k - 1]
        BY <1>2, <1>3, <1>4, <2>1, <4>1
      <4>3. n.items[t[k]].prev = m.items[s[k]].prev
        BY <1>5, <3>1, <3>2, <4>1
      <4>4. QED BY <1>pv, <3>1, <4>1, <4>2, <4>3
    <3>7. k = 1 /\ c \notin u => n.items[t[k]].prev = t[N - 1]
      <4>1. SUFFICES ASSUME k = 1, c \notin u PROVE n.items[t[k]].prev = t[N - 1]
        OBVIOUS
      <4>2. t[N - 1] = IF p = N THEN s[N - 1] ELSE s[N]
        BY <1>2, <1>3, <1>4
      <4>3. n.items[t[k]].prev = IF p = N THEN m.items[i].prev ELSE m.items[s[1]].prev
        BY <1>5, <3>1, <3>2, <4>1
      <4>4. m.items[i].prev = s[p - 1]
        BY <1>at, <3>2
      <4>5. QED BY <1>en, <4>1, <4>2, <4>3, <4>4
    <3>8. QED BY <3>5, <3>6, <3>7
  <2>2. CASE k >= p
    <3>1. t[k] = s[k + 1] /\ k + 1 \in 1 .. N /\ p < N /\ (k < N - 1 => t[k + 1] = s[k + 2]) /\ k + 1 # 1
      <4>1. k + 1 \in 1 .. N /\ p < N /\ (k < N - 1 => k + 1 \in 1 .. N - 1) /\ k + 1 + 1 = k + 2 /\ k + 1 # 1
            /\ ~(k < p) /\ ~(k + 1 < p)
        BY <1>3, <1>4, <2>2
      <4>2. QED BY <1>2, <4>1
    <3>2. /\ (p # 1 => p - 1 \in 1 .. N /\ s[k + 1] # s[p - 1]) /\ s[k + 1] # i /\ s[k + 1] \in D
          /\ (s[k + 1] = s[p + 1] <=> k = p) /\ s[k + 1] # s[1]
      <4>1. (p # 1 => p - 1 \in 1 .. N) /\ p + 1 \in 1 .. N /\ (k + 1 = p + 1 <=> k = p) /\ k + 1 # p /\ k + 1 # p - 1
        BY <1>3, <1>4, <2>2, <3>1
      <4>2. QED BY <1>3, <1>4, <1>in, <1>un, <1>at, <3>1, <4>1
    <3>3. n.items[t[k]].next = m.items[s[k + 1]].next
      BY <1>5, <3>1, <3>2
    <3>4. m.items[s[k + 1]].next = IF k + 1 < N THEN s[k + 2] ELSE Null
      <4>1. k + 1 + 1 = k + 2
        OBVIOUS
      <4>2. QED BY <1>nx, <3>1, <4>1
    <3>5. n.items[t[k]].next = IF k < N - 1 THEN t[k + 1] ELSE Null
      BY <1>4, <3>1, <3>3, <3>4
    <3>6. n.items[t[k]].prev = IF k = p THEN m.items[i].prev ELSE m.items[s[k + 1]].prev
      BY <1>5, <3>1, <3>2
    <3>7. k > 1 => n.items[t[k]].prev = t[k - 1]
      <4>1. SUFFICES ASSUME k > 1 PROVE n.items[t[k]].prev = t[k - 1]
        OBVIOUS
      <4>2. CASE k = p
        <5>1. t[k - 1] = s[p - 1] /\ m.items[i].prev = s[p - 1]
          <6>1. k - 1 \in 1 .. N - 1 /\ k - 1 < p /\ p > 1 /\ k - 1 = p - 1
            BY <1>4, <4>1, <4>2
          <6>2. QED BY <1>2, <1>at, <6>1
        <5>2. QED BY <3>6, <4>2, <5>1
      <4>3. CASE k # p
        <5>1. t[k - 1] = s[k]
          <6>1. k - 1 \in 1 .. N - 1 /\ ~(k - 1 < p) /\ k - 1 + 1 = k
            BY <1>3, <1>4, <2>2, <4>1, <4>3
          <6>2. QED BY <1>2, <6>1
        <5>2. m.items[s[k + 1]].prev = s[k]
          <6>1. k + 1 > 1 /\ k + 1 - 1 = k
            BY <4>1
          <6>2. QED BY <1>pv, <3>1, <6>1
        <5>3. QED BY <3>6, <4>3, <5>1, <5>2
      <4>4. QED BY <4>2, <4>3
    <3>8. k = 1 /\ c \notin u => n.items[t[k]].prev = t[N - 1]
      <4>1. SUFFICES ASSUME k = 1, c \notin u PROVE n.items[t[k]].prev = t[N - 1]
        OBVIOUS
      <4>2. p = 1 /\ t[N - 1] = s[N]
        BY <1>2, <1>3, <1>4, <2>2, <4>1
      <4>3. QED BY <1>en, <1>at, <3>6, <4>1, <4>2
    <3>9. QED BY <3>5, <3>7, <3>8
  <2>3. QED BY <1>3, <1>4, <2>1, <2>2
<1>12. ASSUME NEW k \in DOMAIN t
       PROVE  /\ n.items[t[k]].next = Nth(t, k + 1)
              /\ k > 1 => n.items[t[k]].prev = t[k - 1]
              /\ k = 1 /\ c \notin u => n.items[t[k]].prev = t[Len(t)]
  <2>1. k \in 1 .. N - 1 /\ Len(t) = N - 1
    BY <1>2, <1>4
  <2>2. Nth(t, k + 1) = IF k < N - 1 THEN t[k + 1] ELSE Null
    BY <1>4, <2>1 DEF Nth
  <2>3. QED BY <1>11, <2>1, <2>2
<1>13. ASSUME NEW x \in D, \A k \in DOMAIN s : s[k] # x
       PROVE  n.items[x].next = m.items[x].next /\ n.items[x].prev = m.items[x].prev
  <2>1. x # i /\ x # s[1] /\ (p # 1 => x # s[p - 1]) /\ (p < N => x # s[p + 1])
    <3>1. p # 1 => p - 1 \in 1 .. N
      BY <1>3, <1>4
    <3>2. QED BY <1>3, <1>4, <1>in4, <1>at, <1>13, <3>1
  <2>2. QED BY <1>5, <2>1
<1>14. ASSUME NEW k \in DOMAIN s, \A j \in DOMAIN t : t[j] # s[k]
       PROVE  n.items[s[k]].next = Null /\ n.items[s[k]].prev = Null
  <2>1. CASE k = p
    BY <1>at, <1>5, <2>1
  <2>2. CASE k < p
    BY <1>2, <1>3, <1>4, <1>14, <2>2
  <2>3. CASE k > p
    <3>1. k - 1 \in 1 .. N - 1 /\ ~(k - 1 < p) /\ k - 1 + 1 = k
      BY <1>3, <1>4, <2>3
    <3>2. QED BY <1>2, <1>4, <1>14, <3>1
  <2>4. QED BY <1>3, <1>4, <2>1, <2>2, <2>3
<1>15. Relinks(m, l, u, n, u, c, t)
  BY <1>2, <1>5, <1>7, <1>8, <1>10, <1>12, <1>13, <1>14 DEF Relinks, s, D
<1>16. Sound(n, [l EXCEPT ![c] = t], u)
  BY <1>15, Relinked
<1>17. QED BY <1>16 DEF n, t, s, i

(* cJSON_ReplaceItemViaPointer puts a loose item in the place of one of a  *)
(* list, and leaves that one by itself, before it deletes it.              *)
THEOREM PutReplaces ==
  ASSUME NEW m, NEW l, NEW u, Sound(m, l, u), NEW c \in DOMAIN m.items, ~m.items[c].ref,
         NEW p \in 1 .. Len(l[c]), NEW r \in Loose(l)
  PROVE  Sound(PutInPlace(m, c, l[c][p], r), [l EXCEPT ![c] = ReplaceAt(@, p, r)], u)
<1> DEFINE D == DOMAIN m.items
           s == l[c]
           N == Len(s)
           i == s[p]
           t == ReplaceAt(s, p, r)
           n == PutInPlace(m, c, i, r)
<1>1. Numbered(m, s, c, u) /\ Heap(m) /\ DOMAIN l = D
  BY Numbers
<1>ri. r \in D /\ r \in Nat /\ \A k \in DOMAIN s : s[k] # r
  <2>1. Known(m, l, u, c)
    BY Facts
  <2>2. QED BY <2>1 DEF Known
<1>2. t \in Seq(D) /\ Len(t) = N /\ \A j \in 1 .. N : t[j] = IF j = p THEN r ELSE s[j]
  <2>1. s \in Seq(D) /\ r \in D /\ p \in 1 .. Len(s)
    BY <1>1, <1>ri DEF Numbered
  <2> HIDE DEF s, D
  <2>2. /\ ReplaceAt(s, p, r) \in Seq(D)
        /\ Len(ReplaceAt(s, p, r)) = Len(s)
        /\ \A j \in 1 .. Len(s) : ReplaceAt(s, p, r)[j] = IF j = p THEN r ELSE s[j]
    BY <2>1, ReplaceAtIs
  <2>3. QED BY <2>2
<1>3. p \in 1 .. N
  OBVIOUS
<1> HIDE DEF s, N, t, i
<1>4. N \in Nat /\ N > 0 /\ DOMAIN s = 1 .. N /\ DOMAIN t = 1 .. N /\ 1 \in 1 .. N
  <2>1. N \in Nat /\ N > 0 /\ s \in Seq(D)
    BY <1>1, <1>3 DEF Numbered, N
  <2>2. QED BY <1>2, <2>1 DEF N
<1>in. \A k \in 1 .. N : s[k] \in D /\ s[k] \in Nat /\ s[k] # Null /\ s[k] # r
  BY <1>1, <1>ri, <1>4 DEF Numbered, N
<1>nx. \A k \in 1 .. N : m.items[s[k]].next = IF k < N THEN s[k + 1] ELSE Null
  BY <1>1 DEF Numbered, N
<1>pv. \A k \in 1 .. N : k > 1 => m.items[s[k]].prev = s[k - 1] /\ k - 1 \in 1 .. N
  BY <1>1 DEF Numbered, N
<1>un. \A j, k \in 1 .. N : s[j] = s[k] => j = k
  BY <1>1 DEF Numbered, N
<1>en. m.items[c].child = s[1] /\ (c \notin u => m.items[s[1]].prev = s[N])
  BY <1>1, <1>4 DEF Numbered, N
<1>at. i = s[p] /\ i \in D /\ i # r /\ m.items[i].next = (IF p < N THEN s[p + 1] ELSE Null)
       /\ (p > 1 => m.items[i].prev = s[p - 1] /\ p - 1 \in 1 .. N) /\ m.items[i].prev \in Nat
  BY <1>1, <1>3, <1>in, <1>nx, <1>pv DEF i, Numbered, N
<1>in4. p < N => p + 1 \in 1 .. N
  BY <1>3, <1>4
<1>5. /\ Kept(m, n)
      /\ \A x \in D :
           /\ n.items[x].child = IF p = 1 /\ x = c THEN r ELSE m.items[x].child
           /\ n.items[x].next = IF x = i THEN Null
                                ELSE IF x = r THEN m.items[i].next
                                ELSE IF p # 1 /\ x = s[p - 1] THEN r ELSE m.items[x].next
           /\ n.items[x].prev = IF x = i THEN Null
                                ELSE IF x = r THEN IF p = 1 /\ m.items[i].prev = i THEN r ELSE m.items[i].prev
                                ELSE IF p < N /\ x = s[p + 1] THEN r
                                ELSE IF p # 1 /\ p = N /\ x = s[1] THEN r
                                ELSE m.items[x].prev
  <2> DEFINE q == m.items[i].prev
             v == m.items[i].next
             a == Field(m, r, "next", v)
             b == Field(a, r, "prev", q)
             d == IF p < N THEN Field(b, s[p + 1], "prev", r) ELSE b
             e == IF p # 1 THEN Field(d, s[p - 1], "next", r) ELSE d
             f == IF p # 1
                    THEN IF p = N THEN Field(e, s[1], "prev", r) ELSE e
                  ELSE IF q = i THEN Field(e, r, "prev", r) ELSE e
             g == IF p = 1 THEN Field(f, c, "child", r) ELSE f
             h == Field(g, i, "prev", Null)
             o == Field(h, i, "next", Null)
  <2>1. /\ (p # 1 => s[p - 1] \in D /\ q = s[p - 1] /\ q # Null) /\ (p < N => s[p + 1] \in D) /\ i \in D /\ s[1] \in D
        /\ q \in Nat /\ v \in Nat /\ Null \in Nat /\ v = (IF p < N THEN s[p + 1] ELSE Null)
        /\ (v = Null <=> ~(p < N)) /\ (i = s[1] <=> p = 1) /\ (~(p < N) <=> p = N)
        /\ r \in D /\ r \in Nat /\ r # i /\ (p < N => s[p + 1] # r /\ s[p + 1] # i) /\ s[1] # r /\ (p # 1 => s[p - 1] # r)
    <3>1. p # 1 => p > 1
      BY <1>3, <1>4
    <3>2. p < N => s[p + 1] \in D /\ s[p + 1] # Null /\ s[p + 1] \in Nat /\ s[p + 1] # r /\ s[p + 1] # i
      <4>1. p # p + 1
        BY <1>3, <1>4
      <4>2. QED BY <1>3, <1>in4, <1>in, <1>un, <1>at, <4>1
    <3>3. i = s[1] <=> p = 1
      BY <1>3, <1>4, <1>un, <1>at
    <3>4. ~(p < N) <=> p = N
      BY <1>3, <1>4
    <3>5. s[1] \in D /\ Null \in Nat /\ s[1] # r
      BY <1>4, <1>in DEF Null
    <3>6. p # 1 => s[p - 1] \in D /\ q = s[p - 1] /\ q # Null /\ s[p - 1] # r
      BY <3>1, <1>at, <1>in
    <3>7. QED BY <1>at, <1>ri, <3>2, <3>3, <3>4, <3>5, <3>6
  <2>2. n = o
    <3> HIDE DEF q, v
    <3>1. m.items[c].child = i <=> p = 1
      BY <1>en, <2>1
    <3> HIDE DEF a, b
    <3>2. CASE p = 1
      <4>1. n = ByItself(g, i)
        BY <2>1, <3>1, <3>2 DEF PutInPlace, q, v, a, b
      <4> HIDE DEF g
      <4>2. QED BY <4>1 DEF ByItself
    <3>3. CASE p # 1
      <4>1. n = ByItself(g, i)
        BY <1>en, <2>1, <3>1, <3>3 DEF PutInPlace, q, v, a, b
      <4> HIDE DEF g
      <4>2. QED BY <4>1 DEF ByItself
    <3>4. QED BY <3>2, <3>3
  <2> HIDE DEF q, v, n
  <2>3. /\ Kept(m, a) /\ Heap(a) /\ DOMAIN a.items = D
        /\ \A x \in D :
             /\ a.items[x].next = IF x = r THEN v ELSE m.items[x].next
             /\ a.items[x].prev = m.items[x].prev /\ a.items[x].child = m.items[x].child
    <3>1. a = Field(m, r, "next", v) /\ r \in DOMAIN m.items /\ v \in Nat /\ Heap(m)
      BY <1>1, <2>1
    <3> HIDE DEF a
    <3>2. QED BY <3>1, NextIs
  <2> HIDE DEF a
  <2>4. /\ Kept(a, b) /\ Heap(b) /\ DOMAIN b.items = D
        /\ \A x \in D :
             /\ b.items[x].prev = IF x = r THEN q ELSE a.items[x].prev
             /\ b.items[x].next = a.items[x].next /\ b.items[x].child = a.items[x].child
    BY <2>1, <2>3, PrevIs
  <2> HIDE DEF b
  <2>5. /\ Kept(b, d) /\ Heap(d) /\ DOMAIN d.items = D
        /\ \A x \in D :
             /\ d.items[x].prev = IF p < N /\ x = s[p + 1] THEN r ELSE b.items[x].prev
             /\ d.items[x].next = b.items[x].next /\ d.items[x].child = b.items[x].child
    <3>1. CASE p < N
      <4>1. s[p + 1] \in DOMAIN b.items /\ d = Field(b, s[p + 1], "prev", r)
        BY <2>1, <2>4, <3>1
      <4> HIDE DEF d
      <4>2. QED BY <2>1, <2>4, <3>1, <4>1, PrevIs, SMTT(30)
    <3>2. CASE ~(p < N)
      BY <2>1, <2>4, <3>2, KeptSame
    <3>3. QED BY <3>1, <3>2
  <2> HIDE DEF d
  <2>6. /\ Kept(d, e) /\ Heap(e) /\ DOMAIN e.items = D
        /\ \A x \in D :
             /\ e.items[x].next = IF p # 1 /\ x = s[p - 1] THEN r ELSE d.items[x].next
             /\ e.items[x].prev = d.items[x].prev /\ e.items[x].child = d.items[x].child
    <3>1. CASE p # 1
      <4>1. s[p - 1] \in DOMAIN d.items /\ e = Field(d, s[p - 1], "next", r)
        BY <2>1, <2>5, <3>1
      <4> HIDE DEF e
      <4>2. Kept(d, e) /\ \A x \in DOMAIN d.items :
              /\ e.items[x].next = IF x = s[p - 1] THEN r ELSE d.items[x].next
              /\ e.items[x].prev = d.items[x].prev /\ e.items[x].child = d.items[x].child
        BY <2>1, <2>5, <4>1, SetNext
      <4>3. Heap(e) /\ DOMAIN e.items = DOMAIN d.items
        BY <4>2 DEF Kept
      <4>4. QED BY <2>5, <3>1, <4>2, <4>3
    <3>2. CASE ~(p # 1)
      BY <2>1, <2>5, <3>2, KeptSame
    <3>3. QED BY <3>1, <3>2
  <2> HIDE DEF e
  <2>7. /\ Kept(e, f) /\ Heap(f) /\ DOMAIN f.items = D
        /\ \A x \in D :
             /\ f.items[x].prev = IF p # 1 /\ p = N /\ x = s[1] THEN r
                                  ELSE IF p = 1 /\ q = i /\ x = r THEN r ELSE e.items[x].prev
             /\ f.items[x].next = e.items[x].next /\ f.items[x].child = e.items[x].child
    <3>1. CASE p # 1 /\ p = N
      <4>1. s[1] \in DOMAIN e.items /\ f = Field(e, s[1], "prev", r)
        BY <2>1, <2>6, <3>1
      <4> HIDE DEF f
      <4>2. QED BY <2>1, <2>6, <3>1, <4>1, PrevIs, SMTT(30)
    <3>2. CASE p = 1 /\ q = i
      <4>1. r \in DOMAIN e.items /\ f = Field(e, r, "prev", r)
        BY <2>1, <2>6, <3>2
      <4> HIDE DEF f
      <4>2. QED BY <2>1, <2>6, <3>2, <4>1, PrevIs, SMTT(30)
    <3>3. CASE ~(p # 1 /\ p = N) /\ ~(p = 1 /\ q = i)
      BY <2>1, <2>6, <3>3, KeptSame
    <3>4. QED BY <3>1, <3>2, <3>3
  <2> HIDE DEF f
  <2>8. /\ Kept(f, g) /\ Heap(g) /\ DOMAIN g.items = D
        /\ \A x \in D :
             /\ g.items[x].child = IF p = 1 /\ x = c THEN r ELSE f.items[x].child
             /\ g.items[x].next = f.items[x].next /\ g.items[x].prev = f.items[x].prev
    <3>1. CASE p = 1
      <4>1. c \in DOMAIN f.items /\ g = Field(f, c, "child", r)
        BY <2>7, <3>1
      <4> HIDE DEF g
      <4>2. Kept(f, g) /\ \A x \in DOMAIN f.items :
              /\ g.items[x].child = IF x = c THEN r ELSE f.items[x].child
              /\ g.items[x].prev = f.items[x].prev /\ g.items[x].next = f.items[x].next
        BY <2>1, <2>7, <4>1, SetChild
      <4>3. Heap(g) /\ DOMAIN g.items = DOMAIN f.items
        BY <2>7, <4>2 DEF Kept
      <4>4. QED BY <2>7, <3>1, <4>2, <4>3
    <3>2. CASE ~(p = 1)
      BY <2>1, <2>7, <3>2, KeptSame
    <3>3. QED BY <3>1, <3>2
  <2> HIDE DEF g
  <2>9. /\ Kept(g, h) /\ Heap(h) /\ DOMAIN h.items = D
        /\ \A x \in D :
             /\ h.items[x].prev = IF x = i THEN Null ELSE g.items[x].prev
             /\ h.items[x].next = g.items[x].next /\ h.items[x].child = g.items[x].child
    BY <2>1, <2>8, PrevIs
  <2> HIDE DEF h
  <2>10. /\ Kept(h, o)
         /\ \A x \in D :
              /\ o.items[x].next = IF x = i THEN Null ELSE h.items[x].next
              /\ o.items[x].prev = h.items[x].prev /\ o.items[x].child = h.items[x].child
    BY <2>1, <2>9, SetNext
  <2> HIDE DEF o
  <2>11. Kept(m, o)
    BY <2>3, <2>4, <2>5, <2>6, <2>7, <2>8, <2>9, <2>10, KeptTwice
  <2>12. \A x \in D : o.items[x].child = IF p = 1 /\ x = c THEN r ELSE m.items[x].child
    BY <2>3, <2>4, <2>5, <2>6, <2>7, <2>8, <2>9, <2>10
  <2>13. \A x \in D : o.items[x].next = IF x = i THEN Null ELSE IF p # 1 /\ x = s[p - 1] THEN r
                                        ELSE IF x = r THEN v ELSE m.items[x].next
    BY <2>3, <2>4, <2>5, <2>6, <2>7, <2>8, <2>9, <2>10
  <2>14. \A x \in D : o.items[x].prev = IF x = i THEN Null ELSE IF p # 1 /\ p = N /\ x = s[1] THEN r
                                        ELSE IF p = 1 /\ q = i /\ x = r THEN r
                                        ELSE IF p < N /\ x = s[p + 1] THEN r
                                        ELSE IF x = r THEN q ELSE m.items[x].prev
    BY <2>3, <2>4, <2>5, <2>6, <2>7, <2>8, <2>9, <2>10
  <2>15. ASSUME NEW x \in D
         PROVE  /\ o.items[x].next = IF x = i THEN Null ELSE IF x = r THEN v
                                     ELSE IF p # 1 /\ x = s[p - 1] THEN r ELSE m.items[x].next
                /\ o.items[x].prev = IF x = i THEN Null
                                     ELSE IF x = r THEN IF p = 1 /\ q = i THEN r ELSE q
                                     ELSE IF p < N /\ x = s[p + 1] THEN r
                                     ELSE IF p # 1 /\ p = N /\ x = s[1] THEN r ELSE m.items[x].prev
    BY <2>1, <2>13, <2>14
  <2>16. QED BY <2>2, <2>11, <2>12, <2>15 DEF q, v
<1> HIDE DEF n, D
<1>6. ASSUME NEW j \in DOMAIN t, NEW k \in DOMAIN t, t[j] = t[k]
      PROVE  j = k
  BY <1>2, <1>4, <1>in, <1>un, <1>6
<1>7. \A j \in DOMAIN t : t[j] \in Loose(l) \/ \E k \in DOMAIN s : t[j] = s[k]
  BY <1>2, <1>4
<1>8. \A x \in D : n.items[x].child = IF x = c THEN Nth(t, 1) ELSE m.items[x].child
  <2>1. Nth(t, 1) = IF p = 1 THEN r ELSE s[1]
    BY <1>2, <1>4 DEF Nth
  <2>2. QED BY <1>5, <1>en, <2>1
<1>9. ASSUME NEW k \in 1 .. N
      PROVE  /\ n.items[t[k]].next = IF k < N THEN t[k + 1] ELSE Null
             /\ k > 1 => n.items[t[k]].prev = t[k - 1]
             /\ k = 1 /\ c \notin u => n.items[t[k]].prev = t[N]
  <2>a. (k < N => k + 1 \in 1 .. N) /\ (k > 1 => k - 1 \in 1 .. N) /\ N \in 1 .. N /\ k # k - 1 /\ k # k + 1
    BY <1>4
  <2>b. (p # 1 => p > 1 /\ p - 1 \in 1 .. N) /\ (p = N <=> ~(p < N))
    BY <1>3, <1>4
  <2>1. CASE k = p
    <3>1. t[k] = r /\ (k < N => t[k + 1] = s[p + 1]) /\ (k > 1 => t[k - 1] = s[p - 1])
          /\ t[N] = (IF p = N THEN r ELSE s[N])
      BY <1>2, <2>1, <2>a
    <3>2. n.items[r].next = m.items[i].next /\ n.items[r].prev = IF p = 1 /\ m.items[i].prev = i THEN r ELSE m.items[i].prev
      BY <1>5, <1>ri, <1>at
    <3>3. n.items[t[k]].next = IF k < N THEN t[k + 1] ELSE Null
      BY <1>at, <2>1, <3>1, <3>2
    <3>4. k > 1 => n.items[t[k]].prev = t[k - 1]
      BY <1>at, <2>1, <3>1, <3>2
    <3>5. k = 1 /\ c \notin u => n.items[t[k]].prev = t[N]
      <4>1. SUFFICES ASSUME k = 1, c \notin u PROVE n.items[t[k]].prev = t[N]
        OBVIOUS
      <4>2. m.items[i].prev = s[N] /\ i = s[1] /\ p = 1
        BY <1>en, <1>at, <2>1, <4>1
      <4>3. s[N] = s[1] <=> N = 1
        BY <1>4, <1>un, <2>a
      <4>4. QED BY <3>1, <3>2, <4>2, <4>3
    <3>6. QED BY <3>3, <3>4, <3>5
  <2>2. CASE k # p
    <3>1. t[k] = s[k] /\ s[k] \in D /\ s[k] # i /\ s[k] # r
      BY <1>2, <1>3, <1>in, <1>un, <1>at, <2>2
    <3>2. (p # 1 /\ s[k] = s[p - 1] <=> k + 1 = p)
      <4>1. (k = p - 1 <=> k + 1 = p) /\ (k + 1 = p => p # 1)
        BY <1>3, <1>4
      <4>2. QED BY <1>un, <2>b, <4>1
    <3>3. (p < N /\ s[k] = s[p + 1] <=> k - 1 = p)
      <4>1. (k = p + 1 <=> k - 1 = p) /\ (k - 1 = p => p < N)
        BY <1>3, <1>4
      <4>2. QED BY <1>un, <1>in4, <4>1
    <3>4. n.items[t[k]].next = IF k < N THEN t[k + 1] ELSE Null
      <4>1. n.items[s[k]].next = IF k + 1 = p THEN r ELSE m.items[s[k]].next
        BY <1>5, <3>1, <3>2
      <4>2. k + 1 = p => k < N
        BY <1>3, <1>4
      <4>3. k < N => t[k + 1] = IF k + 1 = p THEN r ELSE s[k + 1]
        BY <1>2, <2>a
      <4>4. QED BY <1>nx, <3>1, <4>1, <4>2, <4>3
    <3>5. k > 1 => n.items[t[k]].prev = t[k - 1]
      <4>1. SUFFICES ASSUME k > 1 PROVE n.items[t[k]].prev = t[k - 1]
        OBVIOUS
      <4>2. s[k] # s[1]
        BY <1>4, <1>un, <4>1
      <4>3. n.items[s[k]].prev = IF k - 1 = p THEN r ELSE m.items[s[k]].prev
        BY <1>5, <3>1, <3>3, <4>2
      <4>4. t[k - 1] = IF k - 1 = p THEN r ELSE s[k - 1]
        BY <1>2, <2>a, <4>1
      <4>5. QED BY <1>pv, <3>1, <4>1, <4>3, <4>4
    <3>6. k = 1 /\ c \notin u => n.items[t[k]].prev = t[N]
      <4>1. SUFFICES ASSUME k = 1, c \notin u PROVE n.items[t[k]].prev = t[N]
        OBVIOUS
      <4>2. k - 1 # p /\ p # 1
        BY <1>3, <2>2, <4>1
      <4>3. n.items[s[1]].prev = IF p = N THEN r ELSE m.items[s[1]].prev
        BY <1>5, <2>b, <3>1, <3>3, <4>1, <4>2
      <4>4. t[N] = IF p = N THEN r ELSE s[N]
        BY <1>2, <2>a
      <4>5. QED BY <1>en, <3>1, <4>1, <4>3, <4>4
    <3>7. QED BY <3>4, <3>5, <3>6
  <2>3. QED BY <2>1, <2>2
<1>10. ASSUME NEW k \in DOMAIN t
       PROVE  /\ n.items[t[k]].next = Nth(t, k + 1)
              /\ k > 1 => n.items[t[k]].prev = t[k - 1]
              /\ k = 1 /\ c \notin u => n.items[t[k]].prev = t[Len(t)]
  <2>1. k \in 1 .. N /\ Len(t) = N
    BY <1>2, <1>4
  <2>2. Nth(t, k + 1) = IF k < N THEN t[k + 1] ELSE Null
    BY <1>4, <2>1 DEF Nth
  <2>3. QED BY <1>9, <2>1, <2>2
<1>11. ASSUME NEW x \in D, \A k \in DOMAIN s : s[k] # x, \A k \in DOMAIN t : t[k] # x
       PROVE  n.items[x].next = m.items[x].next /\ n.items[x].prev = m.items[x].prev
  <2>1. x # i /\ x # s[1] /\ (p # 1 => x # s[p - 1]) /\ (p < N => x # s[p + 1])
    <3>1. p # 1 => p - 1 \in 1 .. N
      BY <1>3, <1>4
    <3>2. QED BY <1>3, <1>4, <1>in4, <1>at, <1>11, <3>1
  <2>2. x # r
    BY <1>2, <1>3, <1>4, <1>11
  <2>3. QED BY <1>5, <2>1, <2>2
<1>12. ASSUME NEW k \in DOMAIN s, \A j \in DOMAIN t : t[j] # s[k]
       PROVE  n.items[s[k]].next = Null /\ n.items[s[k]].prev = Null
  <2>1. k = p
    BY <1>2, <1>4, <1>12
  <2>2. QED BY <1>at, <1>5, <2>1
<1>13. Relinks(m, l, u, n, u, c, t)
  BY <1>2, <1>5, <1>6, <1>7, <1>8, <1>10, <1>11, <1>12 DEF Relinks, s, D
<1>14. Sound(n, [l EXCEPT ![c] = t], u)
  BY <1>13, Relinked
<1>15. QED BY <1>14 DEF n, t, s, i

-----------------------------------------------------------------------------
(* Lists of new items                                                      *)

(* One turn of the loops of cJSON_Create...Array and cJSON_Duplicate: the  *)
(* new item is the last, and the way from the first to it is not there yet *)
THEOREM LinkAppends ==
  ASSUME NEW m, NEW l, NEW u, Sound(m, l, u), NEW c \in DOMAIN m.items, ~m.items[c].ref, c \in u,
         NEW i \in Loose(l)
  PROVE  Sound(LinkNext(m, c, Nth(l[c], Len(l[c])), i), [l EXCEPT ![c] = Append(@, i)], u)
<1> DEFINE D == DOMAIN m.items
           s == l[c]
           N == Len(s)
           t == Append(s, i)
           n == LinkNext(m, c, Nth(s, N), i)
<1>1. Numbered(m, s, c, u) /\ Heap(m) /\ DOMAIN l = D
  BY Numbers
<1>2. /\ i \in D /\ i \in Nat /\ m.items[i].next = Null /\ m.items[i].prev = Null
      /\ (\A k \in DOMAIN s : s[k] # i) /\ m.items[c].child = Nth(s, 1)
  <2>1. Known(m, l, u, c)
    BY Facts
  <2>2. QED BY <2>1 DEF Known
<1>3. t \in Seq(D) /\ Len(t) = N + 1 /\ \A j \in 1 .. N + 1 : t[j] = IF j <= N THEN s[j] ELSE i
  <2>1. i \in D /\ s \in Seq(D)
    BY <1>1, <1>2 DEF Numbered
  <2> HIDE DEF s, D
  <2>2. QED BY <2>1, AppendIs
<1> HIDE DEF s, N, t
<1>4. N \in Nat /\ DOMAIN s = 1 .. N /\ DOMAIN t = 1 .. N + 1
  <2>1. N \in Nat /\ s \in Seq(D)
    BY <1>1 DEF Numbered, N
  <2>2. QED BY <1>3, <2>1 DEF N
<1>in. \A k \in 1 .. N : s[k] \in D /\ s[k] \in Nat /\ s[k] # Null /\ s[k] # i
  BY <1>1, <1>2, <1>4 DEF Numbered, N
<1>nx. \A k \in 1 .. N : m.items[s[k]].next = IF k < N THEN s[k + 1] ELSE Null
  BY <1>1 DEF Numbered, N
<1>pv. \A k \in 1 .. N : k > 1 => m.items[s[k]].prev = s[k - 1] /\ k - 1 \in 1 .. N
  BY <1>1 DEF Numbered, N
<1>un. \A j, k \in 1 .. N : s[j] = s[k] => j = k
  BY <1>1 DEF Numbered, N
<1>5. /\ Kept(m, n)
      /\ \A x \in D :
           /\ n.items[x].child = IF x = c THEN Nth(t, 1) ELSE m.items[x].child
           /\ n.items[x].next = IF N > 0 /\ x = s[N] THEN i ELSE m.items[x].next
           /\ n.items[x].prev = IF N > 0 /\ x = i THEN s[N] ELSE m.items[x].prev
  <2>1. CASE N = 0
    <3>1. Nth(s, N) = Null /\ Nth(t, 1) = i /\ c \in D
      BY <1>3, <1>4, <2>1 DEF Nth
    <3>2. n = Field(m, c, "child", i)
      BY <3>1 DEF LinkNext
    <3> HIDE DEF n
    <3>3. Kept(m, n) /\ \A x \in D :
            /\ n.items[x].child = IF x = c THEN i ELSE m.items[x].child
            /\ n.items[x].next = m.items[x].next /\ n.items[x].prev = m.items[x].prev
      BY <1>1, <1>2, <3>1, <3>2, ChildIs
    <3>4. QED BY <2>1, <3>1, <3>3
  <2>2. CASE N > 0
    <3> DEFINE a == Field(m, s[N], "next", i)
    <3>1. Nth(s, N) = s[N] /\ s[N] # Null /\ s[N] \in D /\ s[N] \in Nat /\ s[N] # i
      BY <1>4, <1>in, <2>2 DEF Nth
    <3>2. m.items[c].child = Nth(t, 1)
      BY <1>2, <1>3, <1>4, <2>2 DEF Nth
    <3>3. n = Field(a, i, "prev", s[N])
      BY <3>1 DEF LinkNext, SuffixObject
    <3>4. Heap(m) /\ s[N] \in DOMAIN m.items /\ i \in Nat /\ a = Field(m, s[N], "next", i)
      BY <1>1, <1>2, <3>1
    <3> HIDE DEF n, a
    <3>5. Kept(m, a) /\ Heap(a) /\ DOMAIN a.items = D /\ \A x \in D :
            /\ a.items[x].next = IF x = s[N] THEN i ELSE m.items[x].next
            /\ a.items[x].prev = m.items[x].prev /\ a.items[x].child = m.items[x].child
      BY <3>4, NextIs
    <3>6. Kept(a, n) /\ \A x \in D :
            /\ n.items[x].prev = IF x = i THEN s[N] ELSE a.items[x].prev
            /\ n.items[x].next = a.items[x].next /\ n.items[x].child = a.items[x].child
      BY <1>2, <3>1, <3>3, <3>5, PrevIs
    <3>7. Kept(m, n)
      BY <3>5, <3>6, KeptTwice
    <3>8. QED BY <2>2, <3>2, <3>5, <3>6, <3>7
  <2>3. QED BY <1>4, <2>1, <2>2
<1> HIDE DEF n, D
<1>6. ASSUME NEW j \in DOMAIN t
      PROVE  \/ j \in 1 .. N /\ j <= N /\ t[j] = s[j] /\ t[j] # i
             \/ j = N + 1 /\ ~(j <= N) /\ t[j] = i
  <2>1. (j \in 1 .. N /\ j <= N) \/ (j = N + 1 /\ ~(j <= N))
    BY <1>4
  <2>2. QED BY <1>3, <1>4, <1>in, <2>1
<1>7. \A j, k \in DOMAIN t : t[j] = t[k] => j = k
  BY <1>6, <1>un
<1>8. \A j \in DOMAIN t : t[j] \in Loose(l) \/ \E k \in DOMAIN s : t[j] = s[k]
  BY <1>4, <1>6
<1>9. ASSUME NEW k \in DOMAIN t
      PROVE  /\ n.items[t[k]].next = Nth(t, k + 1)
             /\ k > 1 => n.items[t[k]].prev = t[k - 1]
  <2>1. Nth(t, k + 1) = IF k <= N THEN t[k + 1] ELSE Null
    BY <1>4 DEF Nth
  <2>2. k > 1 => t[k - 1] = s[k - 1]
    <3>1. k > 1 => k - 1 \in 1 .. N + 1 /\ k - 1 <= N
      BY <1>4
    <3>2. QED BY <1>3, <3>1
  <2>3. CASE k = N + 1
    <3>1. t[k] = i /\ ~(k <= N) /\ k - 1 = N /\ (k > 1 <=> N > 0)
      BY <1>4, <1>6, <2>3
    <3>2. n.items[i].next = Null
      BY <1>2, <1>4, <1>5, <1>in
    <3>3. N > 0 => n.items[i].prev = s[N]
      BY <1>2, <1>5
    <3>4. QED BY <2>1, <2>2, <3>1, <3>2, <3>3
  <2>4. CASE k \in 1 .. N
    <3>1. t[k] = s[k] /\ s[k] \in D /\ s[k] # i /\ k <= N /\ N > 0 /\ N \in 1 .. N /\ (k < N \/ k = N)
      BY <1>4, <1>6, <1>in, <2>4
    <3>2. t[k + 1] = IF k < N THEN s[k + 1] ELSE i
      <4>1. k + 1 \in 1 .. N + 1 /\ (k + 1 <= N <=> k < N)
        BY <1>4, <2>4
      <4>2. QED BY <1>3, <4>1
    <3>3. n.items[s[k]].next = IF k = N THEN i ELSE m.items[s[k]].next
      BY <1>5, <1>un, <2>4, <3>1
    <3>4. n.items[s[k]].prev = m.items[s[k]].prev
      BY <1>5, <3>1
    <3>5. m.items[s[k]].next = IF k < N THEN s[k + 1] ELSE Null
      BY <1>nx, <2>4
    <3>6. n.items[t[k]].next = Nth(t, k + 1)
      BY <1>4, <2>1, <3>1, <3>2, <3>3, <3>5
    <3>7. k > 1 => n.items[t[k]].prev = t[k - 1]
      BY <1>pv, <2>2, <2>4, <3>1, <3>4
    <3>8. QED BY <3>6, <3>7
  <2>5. QED BY <1>4, <2>3, <2>4
<1>10. ASSUME NEW x \in D, \A k \in DOMAIN s : s[k] # x, \A k \in DOMAIN t : t[k] # x
       PROVE  n.items[x].next = m.items[x].next /\ n.items[x].prev = m.items[x].prev
  <2>1. N > 0 => x # s[N]
    BY <1>4, <1>10
  <2>2. x # i
    <3>1. N + 1 \in DOMAIN t /\ t[N + 1] = i
      BY <1>3, <1>4
    <3>2. QED BY <1>10, <3>1
  <2>3. QED BY <1>5, <2>1, <2>2
<1>11. \A k \in DOMAIN s : \E j \in DOMAIN t : t[j] = s[k]
  <2>1. SUFFICES ASSUME NEW k \in 1 .. N PROVE k \in DOMAIN t /\ t[k] = s[k]
    BY <1>4
  <2>2. k \in 1 .. N + 1 /\ k <= N
    BY <1>4
  <2>3. QED BY <1>3, <1>4, <2>2
<1>12. Relinks(m, l, u, n, u, c, t)
  BY <1>3, <1>5, <1>7, <1>8, <1>9, <1>10, <1>11 DEF Relinks, s, D
<1>13. Sound(n, [l EXCEPT ![c] = t], u)
  BY <1>12, Relinked
<1>14. QED BY <1>13 DEF n, t, s, N

(* Their end: the list is one that can be appended to.                     *)
THEOREM EndLinksLast ==
  ASSUME NEW m, NEW l, NEW u, Sound(m, l, u), NEW c \in DOMAIN m.items, ~m.items[c].ref
  PROVE  Sound(LinkEnd(m, c, Nth(l[c], Len(l[c]))), l, u \ {c})
<1> DEFINE D == DOMAIN m.items
           s == l[c]
           N == Len(s)
           n == LinkEnd(m, c, Nth(s, N))
<1>1. Numbered(m, s, c, u) /\ Heap(m) /\ DOMAIN l = D
  BY Numbers
<1>2. s \in Seq(D) /\ m.items[c].child = Nth(s, 1)
  <2>1. Known(m, l, u, c)
    BY Facts
  <2>2. QED BY <2>1 DEF Known
<1> HIDE DEF s, N
<1>4. N \in Nat /\ DOMAIN s = 1 .. N /\ N = Len(s)
  BY <1>2 DEF N
<1>in. \A k \in 1 .. N : s[k] \in D /\ s[k] \in Nat /\ s[k] # Null
  BY <1>1 DEF Numbered, N
<1>nx. \A k \in 1 .. N : m.items[s[k]].next = IF k < N THEN s[k + 1] ELSE Null
  BY <1>1 DEF Numbered, N
<1>pv. \A k \in 1 .. N : k > 1 => m.items[s[k]].prev = s[k - 1] /\ k - 1 \in 1 .. N
  BY <1>1 DEF Numbered, N
<1>un. \A j, k \in 1 .. N : s[j] = s[k] => j = k
  BY <1>1 DEF Numbered, N
<1>5. /\ Kept(m, n)
      /\ \A x \in D :
           /\ n.items[x].child = m.items[x].child
           /\ n.items[x].next = m.items[x].next
           /\ n.items[x].prev = IF N > 0 /\ x = s[1] THEN s[N] ELSE m.items[x].prev
  <2>1. CASE N = 0
    <3>1. n = m
      BY <1>4, <2>1 DEF LinkEnd, Nth
    <3> HIDE DEF n
    <3>2. QED BY <1>1, <2>1, <3>1, KeptSame
  <2>2. CASE N > 0
    <3>1. Nth(s, N) = s[N] /\ Nth(s, 1) = s[1] /\ s[N] # Null /\ s[1] \in D /\ s[N] \in Nat
      BY <1>4, <1>in, <2>2 DEF Nth
    <3>2. n = Field(m, s[1], "prev", s[N]) /\ s[1] \in DOMAIN m.items /\ Heap(m)
      BY <1>1, <1>2, <3>1 DEF LinkEnd
    <3> HIDE DEF n
    <3>3. Kept(m, n) /\ \A x \in DOMAIN m.items :
            /\ n.items[x].prev = IF x = s[1] THEN s[N] ELSE m.items[x].prev
            /\ n.items[x].next = m.items[x].next /\ n.items[x].child = m.items[x].child
      BY <3>1, <3>2, PrevIs
    <3>4. QED BY <2>2, <3>3
  <2>3. QED BY <1>4, <2>1, <2>2
<1> HIDE DEF n, D
<1>6. ASSUME NEW k \in DOMAIN s
      PROVE  /\ n.items[s[k]].next = Nth(s, k + 1)
             /\ k > 1 => n.items[s[k]].prev = s[k - 1]
             /\ k = 1 => n.items[s[k]].prev = s[N]
  <2>1. k \in 1 .. N /\ s[k] \in D /\ N > 0 /\ 1 \in 1 .. N
    BY <1>4, <1>in
  <2>2. Nth(s, k + 1) = IF k < N THEN s[k + 1] ELSE Null
    BY <1>4, <2>1 DEF Nth
  <2>3. k > 1 => s[k] # s[1]
    BY <1>un, <2>1
  <2>4. QED BY <1>5, <1>nx, <1>pv, <2>1, <2>2, <2>3
<1>7. ASSUME NEW x \in D, \A k \in DOMAIN s : s[k] # x
      PROVE  n.items[x].next = m.items[x].next /\ n.items[x].prev = m.items[x].prev
  BY <1>4, <1>5, <1>7
<1>8. \A j, k \in DOMAIN s : s[j] = s[k] => j = k
  BY <1>4, <1>un
<1>9. \A x \in D : n.items[x].child = IF x = c THEN Nth(s, 1) ELSE m.items[x].child
  BY <1>2, <1>5
<1>10. Relinks(m, l, u, n, u \ {c}, c, s)
  <2>1. Kept(m, n) /\ c \in D /\ ~m.items[c].ref /\ s \in Seq(D)
    BY <1>2, <1>5 DEF D
  <2>2. \A k \in DOMAIN s :
          /\ n.items[s[k]].next = Nth(s, k + 1)
          /\ k > 1 => n.items[s[k]].prev = s[k - 1]
          /\ k = 1 => n.items[s[k]].prev = s[Len(s)]
    BY <1>4, <1>6
  <2>3. QED BY <1>7, <1>8, <1>9, <2>1, <2>2 DEF Relinks, s, D
<1>11. Sound(n, [l EXCEPT ![c] = s], u \ {c})
  BY <1>10, Relinked
<1>12. [l EXCEPT ![c] = s] = l
  <2>1. l \in [D -> Seq(D)] /\ c \in D
    BY DEF Sound, Linked, D
  <2>2. QED BY <2>1 DEF s
<1>13. QED BY <1>11, <1>12 DEF n, s, N

(* Nothing has to be found in an empty list.                               *)
THEOREM EmptyHasEnd ==
  ASSUME NEW m, NEW l, NEW u, Sound(m, l, u), NEW w, \A c \in DOMAIN l \cap w : l[c] = <<>>
  PROVE  Sound(m, l, u \ w)
<1>1. ASSUME NEW c \in DOMAIN l, NEW k \in DOMAIN l[c]
      PROVE  /\ m.items[l[c][k]].next = Nth(l[c], k + 1)
             /\ k > 1 => m.items[l[c][k]].prev = l[c][k - 1]
             /\ k = 1 /\ c \notin u \ w => m.items[l[c][k]].prev = l[c][Len(l[c])]
  <2>1. c \notin w
    BY <1>1
  <2>2. QED BY <1>1, <2>1 DEF Sound, Linked
<1>2. QED BY <1>1 DEF Sound, Linked

-----------------------------------------------------------------------------
(* New items, and the texts that belong to items                           *)

(* cJSON_New_Item, and create_reference with what it copies: the new item  *)
(* is in no list and has none, and all others are as before.               *)
THEOREM NewIsLoose ==
  ASSUME NEW m, NEW l, NEW u, Sound(m, l, u), NEW i \in Nat \ {Null}, i \notin DOMAIN m.items,
         NEW x \in {Blank(t) : t \in Types} \cup {ReferenceTo(m.items[y]) : y \in DOMAIN m.items}
  PROVE  LET k == [y \in DOMAIN l \cup {i} |-> IF y = i THEN <<>> ELSE l[y]]
         IN  Sound(Allocate(m, i, x), k, u) /\ i \in Loose(k)
<1> DEFINE D == DOMAIN m.items
           E == D \cup {i}
           n == Allocate(m, i, x)
           k == [y \in E |-> IF y = i THEN <<>> ELSE l[y]]
<1>1. Heap(m) /\ Linked(m, l, u) /\ TextsCounted(m) /\ DOMAIN l = D /\ \A y \in D : l[y] \in Seq(D)
  BY DEF Sound, Linked
<1>2. /\ x \in Items /\ x.name = Null /\ x.next = Null /\ x.prev = Null
      /\ x.ref \/ (x.child = Null /\ ~x.text)
  <2>1. CASE x \in {Blank(t) : t \in Types}
    <3>1. PICK t \in Types : x = Blank(t)
      BY <2>1
    <3>2. QED BY <3>1 DEF Blank, Items, Null
  <2>2. CASE x \in {ReferenceTo(m.items[y]) : y \in DOMAIN m.items}
    <3>1. PICK y \in DOMAIN m.items : x = ReferenceTo(m.items[y])
      BY <2>2
    <3>2. m.items[y] \in Items
      BY <1>1 DEF Heap
    <3>3. QED BY <3>1, <3>2 DEF ReferenceTo, Items, Null
  <2>3. QED BY <2>1, <2>2
<1>3. /\ n.items = [y \in E |-> IF y = i THEN x ELSE m.items[y]] /\ n.strings = m.strings
      /\ n \in [items : [E -> Items], strings : Int, left : Int]
  <2> DEFINE S == [D -> Items]
             I == [y \in E |-> IF y = i THEN x ELSE m.items[y]]
             a == [m EXCEPT !.left = @ - 1]
  <2>1. m \in [items : S, strings : Int, left : Int] /\ I \in [E -> Items]
    BY <1>1, <1>2 DEF Heap
  <2>2. n = [a EXCEPT !.items = I]
    BY <2>1 DEF Allocate
  <2> HIDE DEF S, I, n
  <2>3. a \in [items : S, strings : Int, left : Int] /\ a.strings = m.strings
    BY <2>1
  <2> HIDE DEF a
  <2>4. n.items = I /\ n.strings = m.strings /\ n \in [items : [E -> Items], strings : Int, left : Int]
    BY <2>1, <2>2, <2>3
  <2>5. QED BY <2>4 DEF I
<1>4. /\ DOMAIN n.items = E /\ DOMAIN k = E
      /\ n.items[i] = x /\ k[i] = <<>>
      /\ \A y \in D : y # i /\ n.items[y] = m.items[y] /\ k[y] = l[y]
  BY <1>3
<1> HIDE DEF n, k
<1>5. Heap(n)
  <2>1. IsFiniteSet(E)
    BY <1>1, FS_AddElement DEF Heap
  <2>2. QED BY <1>1, <1>3, <1>4, <2>1 DEF Heap
<1>6. TextsCounted(n)
  <2>1. TextsOf(n) = TextsOf(m) /\ NamesOf(n) = NamesOf(m)
    BY <1>2, <1>4 DEF TextsOf, NamesOf
  <2>2. QED BY <1>1, <1>3, <2>1 DEF TextsCounted
<1>7. k \in [E -> Seq(E)]
  <2>1. \A y \in E : k[y] \in Seq(E)
    <3>1. \A y \in D : l[y] \in Seq(E)
      BY <1>1
    <3>2. <<>> \in Seq(E)
      OBVIOUS
    <3>3. QED BY <1>4, <3>1, <3>2
  <2>2. k = [y \in E |-> k[y]]
    BY DEF k
  <2>3. QED BY <2>1, <2>2
<1>8. \A y \in E : \A j \in DOMAIN k[y] : y \in D /\ k[y] = l[y] /\ j \in DOMAIN l[y] /\ k[y][j] \in D /\ k[y][j] # i
  <2>1. SUFFICES ASSUME NEW y \in E, NEW j \in DOMAIN k[y]
                 PROVE  y \in D /\ k[y] = l[y] /\ j \in DOMAIN l[y] /\ k[y][j] \in D /\ k[y][j] # i
    OBVIOUS
  <2>2. y # i
    BY <1>4, <2>1
  <2>3. QED BY <1>1, <1>4, <2>1, <2>2
<1>9. Disjoint(k)
  <2>1. Disjoint(l)
    BY <1>1 DEF Linked
  <2>2. SUFFICES ASSUME NEW c \in E, NEW d \in E, NEW j \in DOMAIN k[c], NEW h \in DOMAIN k[d], k[c][j] = k[d][h]
                 PROVE  c = d /\ j = h
    BY <1>4 DEF Disjoint
  <2>3. QED BY <1>1, <1>8, <2>1, <2>2 DEF Disjoint
<1>10. \A c \in E : IF n.items[c].ref THEN k[c] = <<>> ELSE n.items[c].child = Nth(k[c], 1)
  <2>1. \A c \in D : IF m.items[c].ref THEN l[c] = <<>> ELSE m.items[c].child = Nth(l[c], 1)
    BY <1>1 DEF Linked
  <2>2. Nth(<<>>, 1) = Null
    BY DEF Nth
  <2>3. QED BY <1>2, <1>4, <2>1, <2>2
<1>11. ASSUME NEW c \in E, NEW j \in DOMAIN k[c]
       PROVE  /\ n.items[k[c][j]].next = Nth(k[c], j + 1)
              /\ j > 1 => n.items[k[c][j]].prev = k[c][j - 1]
              /\ j = 1 /\ c \notin u => n.items[k[c][j]].prev = k[c][Len(k[c])]
  <2>1. c \in D /\ k[c] = l[c] /\ j \in DOMAIN l[c] /\ n.items[l[c][j]] = m.items[l[c][j]]
    BY <1>4, <1>8, <1>11
  <2>2. /\ m.items[l[c][j]].next = Nth(l[c], j + 1)
        /\ j > 1 => m.items[l[c][j]].prev = l[c][j - 1]
        /\ j = 1 /\ c \notin u => m.items[l[c][j]].prev = l[c][Len(l[c])]
    BY <1>1, <2>1 DEF Linked
  <2>3. QED BY <2>1, <2>2
<1>12. \A y \in Loose(k) : n.items[y].next = Null /\ n.items[y].prev = Null
  <2>1. SUFFICES ASSUME NEW y \in Loose(k), y # i PROVE n.items[y].next = Null /\ n.items[y].prev = Null
    BY <1>2, <1>4
  <2>2. y \in D /\ \A c \in E : \A j \in DOMAIN k[c] : k[c][j] # y
    BY <1>4, <2>1 DEF Loose
  <2>3. y \in Loose(l)
    BY <1>1, <1>4, <2>2 DEF Loose
  <2>4. QED BY <1>1, <1>4, <2>2, <2>3 DEF Linked
<1>13. i \in Loose(k)
  BY <1>4, <1>8 DEF Loose
<1>14. Linked(n, k, u)
  BY <1>4, <1>7, <1>9, <1>10, <1>11, <1>12 DEF Linked
<1>15. Sound(n, k, u)
  BY <1>5, <1>6, <1>14 DEF Sound
<1>16. QED BY <1>1, <1>13, <1>15 DEF n, k

(* n has the links of m, whatever its names and texts.                     *)
LinksKept(m, n) ==
  /\ Heap(n)
  /\ DOMAIN n.items = DOMAIN m.items
  /\ \A x \in DOMAIN m.items :
       /\ n.items[x].next = m.items[x].next /\ n.items[x].prev = m.items[x].prev
       /\ n.items[x].child = m.items[x].child
       /\ n.items[x].ref = m.items[x].ref

LEMMA NameIs ==
  ASSUME NEW m, Heap(m), NEW i \in DOMAIN m.items, NEW v \in Nat, NEW n, n = Field(m, i, "name", v)
  PROVE  /\ LinksKept(m, n) /\ n.strings = m.strings /\ n.left = m.left
         /\ \A x \in DOMAIN m.items :
              /\ n.items[x].name = IF x = i THEN v ELSE m.items[x].name
              /\ n.items[x].const = m.items[x].const
              /\ n.items[x].text = m.items[x].text
BY DEF Heap, Field, Items, LinksKept

LEMMA ConstIs ==
  ASSUME NEW m, Heap(m), NEW i \in DOMAIN m.items, NEW v \in BOOLEAN, NEW n, n = Field(m, i, "const", v)
  PROVE  /\ LinksKept(m, n) /\ n.strings = m.strings /\ n.left = m.left
         /\ n.items[i].const = v
         /\ \A x \in DOMAIN m.items :
              /\ x # i => n.items[x].const = m.items[x].const
              /\ n.items[x].name = m.items[x].name
              /\ n.items[x].text = m.items[x].text
BY DEF Heap, Field, Items, LinksKept

LEMMA TextIs ==
  ASSUME NEW m, Heap(m), NEW i \in DOMAIN m.items, NEW v \in BOOLEAN, NEW n, n = Field(m, i, "text", v)
  PROVE  /\ LinksKept(m, n) /\ n.strings = m.strings /\ n.left = m.left
         /\ n.items[i].text = v
         /\ \A x \in DOMAIN m.items :
              /\ x # i => n.items[x].text = m.items[x].text
              /\ n.items[x].name = m.items[x].name
              /\ n.items[x].const = m.items[x].const
<1> DEFINE D == DOMAIN m.items
           y == [m.items[i] EXCEPT !["text"] = v]
<1>1. m.items \in [D -> Items] /\ DOMAIN m = {"items", "strings", "left"} /\ m.items[i] \in Items
  BY DEF Heap
<1>2. y \in Items /\ y.text = v /\ y.name = m.items[i].name /\ y.const = m.items[i].const
      /\ y.next = m.items[i].next /\ y.prev = m.items[i].prev /\ y.child = m.items[i].child /\ y.ref = m.items[i].ref
  BY <1>1 DEF Items
<1> HIDE DEF y
<1>3. n = [m EXCEPT !.items = [m.items EXCEPT ![i] = y]]
  BY DEF Field, y
<1>4. n.items = [m.items EXCEPT ![i] = y] /\ n.strings = m.strings /\ n.left = m.left
  BY <1>1, <1>3
<1>5. Heap(n) /\ DOMAIN n.items = D
  BY <1>1, <1>2, <1>3, <1>4 DEF Heap
<1>6. \A x \in D : n.items[x] = IF x = i THEN y ELSE m.items[x]
  BY <1>1, <1>4
<1>7. QED BY <1>2, <1>4, <1>5, <1>6 DEF LinksKept

LEMMA StrDupIs ==
  ASSUME NEW m, Heap(m)
  PROVE  LET n == StrDup(m)
         IN  Heap(n) /\ n.items = m.items /\ n.strings = m.strings + 1 /\ n.left = m.left - 1
<1>1. DOMAIN m = {"items", "strings", "left"} /\ m.strings \in Int /\ m.left \in Int
  BY DEF Heap
<1> DEFINE n == StrDup(m)
<1>2. n.items = m.items /\ n.strings = m.strings + 1 /\ n.left = m.left - 1
  BY <1>1 DEF StrDup
<1> DEFINE S == [DOMAIN m.items -> Items]
<1>3. m \in [items : S, strings : Int, left : Int]
  BY DEF Heap
<1> HIDE DEF S
<1>4. n \in [items : S, strings : Int, left : Int]
  <2> DEFINE a == [m EXCEPT !.left = @ - 1]
  <2>1. a \in [items : S, strings : Int, left : Int]
    BY <1>1, <1>3
  <2>2. n = [a EXCEPT !.strings = @ + 1]
    BY <1>1 DEF StrDup
  <2> HIDE DEF a, n
  <2>3. [a EXCEPT !.strings = @ + 1] \in [items : S, strings : Int, left : Int]
    BY <2>1
  <2>4. QED BY <2>2, <2>3
<1> HIDE DEF n
<1>5. n \in [items : [DOMAIN n.items -> Items], strings : Int, left : Int]
  BY <1>2, <1>4 DEF S
<1>6. QED BY <1>2, <1>5 DEF Heap, n

LEMMA LinksKeptTwice ==
  ASSUME NEW m, NEW n, NEW o, LinksKept(m, n), LinksKept(n, o)
  PROVE  LinksKept(m, o)
BY DEF LinksKept

LEMMA Labelled ==
  ASSUME NEW m, NEW l, NEW u, Sound(m, l, u), NEW n, LinksKept(m, n), TextsCounted(n)
  PROVE  Sound(n, l, u)
<1> USE DEF LinksKept
<1>1. Linked(m, l, u) /\ l \in [DOMAIN m.items -> Seq(DOMAIN m.items)]
  BY DEF Sound, Linked
<1>2. \A c \in DOMAIN l : IF n.items[c].ref THEN l[c] = <<>> ELSE n.items[c].child = Nth(l[c], 1)
  BY <1>1 DEF Linked
<1>3. ASSUME NEW c \in DOMAIN l, NEW k \in DOMAIN l[c]
      PROVE  /\ n.items[l[c][k]].next = Nth(l[c], k + 1)
             /\ k > 1 => n.items[l[c][k]].prev = l[c][k - 1]
             /\ k = 1 /\ c \notin u => n.items[l[c][k]].prev = l[c][Len(l[c])]
  <2>1. l[c][k] \in DOMAIN m.items
    BY <1>1
  <2>2. QED BY <1>1, <1>3, <2>1 DEF Linked
<1>4. \A y \in Loose(l) : n.items[y].next = Null /\ n.items[y].prev = Null
  BY <1>1 DEF Linked, Loose
<1>5. QED BY <1>1, <1>2, <1>3, <1>4 DEF Linked, Sound

LEMMA NamesFinite ==
  ASSUME NEW m, Heap(m)
  PROVE  /\ IsFiniteSet(NamesOf(m)) /\ IsFiniteSet(TextsOf(m))
         /\ Cardinality(NamesOf(m)) \in Nat /\ Cardinality(TextsOf(m)) \in Nat
<1>1. NamesOf(m) \subseteq DOMAIN m.items /\ TextsOf(m) \subseteq DOMAIN m.items
  BY DEF NamesOf, TextsOf
<1>2. IsFiniteSet(NamesOf(m)) /\ IsFiniteSet(TextsOf(m))
  BY <1>1, FS_Subset DEF Heap
<1>3. QED BY <1>2, FS_CardinalityType

(* The text of a new item                                                  *)
THEOREM TextBelongs ==
  ASSUME NEW m, NEW l, NEW u, Sound(m, l, u),
         NEW i \in DOMAIN m.items, ~m.items[i].ref, ~m.items[i].text
  PROVE  Sound(Field(StrDup(m), i, "text", TRUE), l, u)
<1> DEFINE n == Field(StrDup(m), i, "text", TRUE)
<1>1. Heap(m) /\ TextsCounted(m)
  BY DEF Sound
<1> DEFINE d == StrDup(m)
           yes == TRUE
<1>d. Heap(d) /\ d.items = m.items /\ d.strings = m.strings + 1
  BY <1>1, StrDupIs
<1>t. yes \in BOOLEAN /\ n = Field(d, i, "text", yes) /\ i \in DOMAIN d.items
  BY <1>d
<1> HIDE DEF n, d, yes
<1>2. /\ LinksKept(d, n) /\ n.strings = d.strings /\ n.items[i].text = yes
      /\ \A x \in DOMAIN d.items :
           /\ x # i => n.items[x].text = d.items[x].text
           /\ n.items[x].name = d.items[x].name /\ n.items[x].const = d.items[x].const
  BY <1>d, <1>t, TextIs
<1>3. NamesOf(n) = NamesOf(m) /\ TextsOf(n) = TextsOf(m) \cup {i} /\ i \notin TextsOf(m)
  <2>1. DOMAIN n.items = DOMAIN m.items /\ \A y \in DOMAIN m.items :
          /\ n.items[y].ref = m.items[y].ref /\ n.items[y].name = m.items[y].name /\ n.items[y].const = m.items[y].const
          /\ y # i => n.items[y].text = m.items[y].text
    BY <1>d, <1>2 DEF LinksKept
  <2>2. NamesOf(n) = NamesOf(m)
    BY <2>1 DEF NamesOf
  <2>3. n.items[i].text
    BY <1>2 DEF yes
  <2>4. TextsOf(n) = TextsOf(m) \cup {i} /\ i \notin TextsOf(m)
    BY <2>1, <2>3 DEF TextsOf
  <2>5. QED BY <2>2, <2>4
<1>4. Cardinality(TextsOf(n)) = Cardinality(TextsOf(m)) + 1
  BY <1>1, <1>3, NamesFinite, FS_AddElement
<1>5. TextsCounted(n)
  <2>1. Cardinality(NamesOf(m)) \in Nat /\ Cardinality(TextsOf(m)) \in Nat
    BY <1>1, NamesFinite
  <2>2. m.strings \in Int
    BY <1>1 DEF Heap
  <2>3. QED BY <1>1, <1>d, <1>2, <1>3, <1>4, <2>1, <2>2 DEF TextsCounted
<1>6. LinksKept(m, n)
  BY <1>d, <1>2 DEF LinksKept
<1>7. QED BY <1>5, <1>6, Labelled DEF n, d

(* An item loses the name it has.                                          *)
LEMMA NameFreed ==
  ASSUME NEW m, Heap(m), TextsCounted(m), NEW i \in DOMAIN m.items
  PROVE  /\ Heap(FreeName(m, i)) /\ FreeName(m, i).items = m.items
         /\ IsFiniteSet(NamesOf(m) \ {i})
         /\ FreeName(m, i).strings = Cardinality(TextsOf(m)) + Cardinality(NamesOf(m) \ {i})
<1> DEFINE n == FreeName(m, i)
<1>1. IsFiniteSet(NamesOf(m)) /\ Cardinality(NamesOf(m)) \in Nat /\ Cardinality(TextsOf(m)) \in Nat
  BY NamesFinite
<1>2. CASE i \in NamesOf(m)
  <2>1. n = [m EXCEPT !.strings = @ - 1]
    BY <1>2 DEF FreeName, NamesOf
  <2>2. Cardinality(NamesOf(m) \ {i}) = Cardinality(NamesOf(m)) - 1 /\ IsFiniteSet(NamesOf(m) \ {i})
    BY <1>1, <1>2, FS_RemoveElement
  <2>3. Heap(n) /\ n.items = m.items /\ n.strings = m.strings - 1
    BY <2>1 DEF Heap
  <2>4. QED BY <1>1, <2>2, <2>3 DEF TextsCounted
<1>3. CASE i \notin NamesOf(m)
  <2>1. n = m
    BY <1>3 DEF FreeName, NamesOf
  <2>2. NamesOf(m) \ {i} = NamesOf(m)
    BY <1>3
  <2>3. QED BY <1>1, <2>1, <2>2 DEF TextsCounted
<1>4. QED BY <1>2, <1>3

(* The key of a member: the old one is freed, and the new one is the       *)
(* item's own unless it is constant.                                       *)
THEOREM KeyBelongs ==
  ASSUME NEW m, NEW l, NEW u, Sound(m, l, u), NEW i \in DOMAIN m.items,
         NEW name \in Nat \ {Null}, NEW constant \in BOOLEAN
  PROVE  Sound(Keyed(m, name, i, constant), l, u)
<1> DEFINE keyed == IF constant THEN m ELSE StrDup(m)
           f == FreeName(keyed, i)
           n == Keyed(m, name, i, constant)
<1>1. Heap(m) /\ TextsCounted(m)
  BY DEF Sound
<1>2. /\ Heap(f) /\ f.items = m.items /\ IsFiniteSet(NamesOf(m) \ {i})
      /\ f.strings = Cardinality(TextsOf(m)) + Cardinality(NamesOf(m) \ {i}) + (IF constant THEN 0 ELSE 1)
  <2> DEFINE g == FreeName(m, i)
  <2>1. /\ Heap(g) /\ g.items = m.items /\ IsFiniteSet(NamesOf(m) \ {i})
        /\ g.strings = Cardinality(TextsOf(m)) + Cardinality(NamesOf(m) \ {i})
    BY <1>1, NameFreed
  <2>2. Cardinality(TextsOf(m)) \in Nat /\ Cardinality(NamesOf(m) \ {i}) \in Nat
    BY <1>1, <2>1, NamesFinite, FS_CardinalityType
  <2>3. CASE constant
    BY <2>1, <2>2, <2>3
  <2>4. CASE ~constant
    <3> DEFINE d == StrDup(m)
    <3>1. Heap(d) /\ d.items = m.items /\ d.strings = m.strings + 1 /\ f = FreeName(d, i)
      BY <1>1, <2>4, StrDupIs
    <3> HIDE DEF d, f, g
    <3>2. d.strings \in Int /\ m.strings \in Int
      BY <1>1, <3>1 DEF Heap
    <3>3. f = (IF i \in NamesOf(m) THEN [d EXCEPT !.strings = @ - 1] ELSE d)
      BY <3>1 DEF FreeName, NamesOf
    <3>4. g = (IF i \in NamesOf(m) THEN [m EXCEPT !.strings = @ - 1] ELSE m)
      BY DEF FreeName, NamesOf, g
    <3>5. Heap(f) /\ f.items = m.items /\ f.strings = d.strings - (IF i \in NamesOf(m) THEN 1 ELSE 0)
      <4>1. CASE i \in NamesOf(m)
        BY <3>1, <3>2, <3>3, <4>1 DEF Heap
      <4>2. CASE i \notin NamesOf(m)
        BY <3>1, <3>2, <3>3, <4>2
      <4>3. QED BY <4>1, <4>2
    <3>6. g.strings = m.strings - (IF i \in NamesOf(m) THEN 1 ELSE 0)
      <4>1. CASE i \in NamesOf(m)
        BY <1>1, <3>2, <3>4, <4>1 DEF Heap
      <4>2. CASE i \notin NamesOf(m)
        BY <3>2, <3>4, <4>2
      <4>3. QED BY <4>1, <4>2
    <3>7. f.strings = g.strings + 1
      BY <3>1, <3>2, <3>5, <3>6
    <3>8. QED BY <2>1, <2>2, <2>4, <3>5, <3>7
  <2>5. QED BY <2>3, <2>4
<1> DEFINE g == Field(f, i, "name", name)
<1>3. n = Field(g, i, "const", constant) /\ g = Field(f, i, "name", name) /\ i \in DOMAIN f.items
  BY <1>2 DEF Keyed
<1> HIDE DEF f, g, n
<1>n. /\ LinksKept(f, g) /\ g.strings = f.strings
      /\ \A x \in DOMAIN f.items :
           /\ g.items[x].name = IF x = i THEN name ELSE f.items[x].name
           /\ g.items[x].const = f.items[x].const /\ g.items[x].text = f.items[x].text
  BY <1>2, <1>3, NameIs
<1>g. Heap(g) /\ DOMAIN g.items = DOMAIN m.items /\ i \in DOMAIN g.items
  BY <1>2, <1>n DEF LinksKept
<1>c. /\ LinksKept(g, n) /\ n.strings = g.strings /\ n.items[i].const = constant
      /\ \A x \in DOMAIN g.items :
           /\ x # i => n.items[x].const = g.items[x].const
           /\ n.items[x].name = g.items[x].name /\ n.items[x].text = g.items[x].text
  BY <1>3, <1>g, ConstIs
<1>4. /\ n.strings = f.strings /\ LinksKept(m, n) /\ n.items[i].const = constant /\ n.items[i].name = name
      /\ \A y \in DOMAIN m.items :
           /\ n.items[y].text = m.items[y].text
           /\ y # i => n.items[y].name = m.items[y].name /\ n.items[y].const = m.items[y].const
  <2>1. LinksKept(m, n)
    BY <1>2, <1>n, <1>g, <1>c DEF LinksKept
  <2>2. QED BY <1>2, <1>n, <1>g, <1>c, <2>1
<1>5. /\ TextsOf(n) = TextsOf(m)
      /\ constant => NamesOf(n) = NamesOf(m) \ {i}
      /\ ~constant => NamesOf(n) = (NamesOf(m) \ {i}) \cup {i}
  <2>1. DOMAIN n.items = DOMAIN m.items /\ \A y \in DOMAIN m.items : n.items[y].ref = m.items[y].ref
    BY <1>4 DEF LinksKept
  <2>2. TextsOf(n) = TextsOf(m)
    BY <1>4, <2>1 DEF TextsOf
  <2>3. constant => NamesOf(n) = NamesOf(m) \ {i}
    BY <1>4, <2>1 DEF NamesOf
  <2>4. ~constant => NamesOf(n) = (NamesOf(m) \ {i}) \cup {i}
    BY <1>4, <2>1 DEF NamesOf
  <2>5. QED BY <2>2, <2>3, <2>4
<1>6. TextsCounted(n)
  <2>1. Cardinality(TextsOf(m)) \in Nat /\ Cardinality(NamesOf(m) \ {i}) \in Nat
    BY <1>1, <1>2, NamesFinite, FS_CardinalityType
  <2>2. ~constant => Cardinality(NamesOf(n)) = Cardinality(NamesOf(m) \ {i}) + 1
    BY <1>2, <1>5, FS_AddElement
  <2>3. constant => Cardinality(NamesOf(n)) = Cardinality(NamesOf(m) \ {i})
    BY <1>5
  <2>4. n.strings = Cardinality(TextsOf(n)) + Cardinality(NamesOf(n))
    BY <1>2, <1>4, <1>5, <2>1, <2>2, <2>3
  <2>5. QED BY <2>4 DEF TextsCounted
<1>7. QED BY <1>4, <1>6, Labelled DEF n

(* add_item_to_object: the member is the last, and has its key.            *)
THEOREM AddKeepsMembers ==
  ASSUME NEW m, NEW l, NEW u, Sound(m, l, u),
         NEW c \in DOMAIN m.items \ u, ~m.items[c].ref, NEW i \in Loose(l),
         NEW name \in Nat \ {Null}, NEW constant \in BOOLEAN
  PROVE  Sound(AddItemToObject(m, c, name, i, constant), [l EXCEPT ![c] = Append(@, i)], u)
<1> DEFINE n == Keyed(m, name, i, constant)
<1>1. i \in DOMAIN m.items /\ Heap(m)
  BY DEF Sound, Linked, Loose
<1>2. Sound(n, l, u)
  BY <1>1, KeyBelongs
<1>3. n.items[c].ref = m.items[c].ref /\ DOMAIN n.items = DOMAIN m.items
  BY <1>1 DEF Keyed, Field, FreeName, StrDup, Heap, Items
<1> HIDE DEF n
<1>4. Sound(AddItemToArray(n, c, i), [l EXCEPT ![c] = Append(@, i)], u)
  BY <1>2, <1>3, AddAppends
<1>5. QED BY <1>4 DEF AddItemToObject, n

(* The naming in replace_item_in_object: the old name is freed, and the    *)
(* item has a new one of its own if there is memory for it.                *)
THEOREM RenamedOwnsName ==
  ASSUME NEW m, NEW l, NEW u, Sound(m, l, u), NEW i \in DOMAIN m.items, NEW name \in Nat \ {Null}
  PROVE  /\ Sound(Rename(m, i, name), l, u)
         /\ Rename(m, i, name).items[i].name = IF m.left = 0 THEN Null ELSE name
<1> DEFINE f == FreeName(m, i)
           g == Field(f, i, "const", FALSE)
           n == Rename(m, i, name)
<1>1. Heap(m) /\ TextsCounted(m)
  BY DEF Sound
<1>2. /\ Heap(f) /\ f.items = m.items /\ IsFiniteSet(NamesOf(m) \ {i})
      /\ f.strings = Cardinality(TextsOf(m)) + Cardinality(NamesOf(m) \ {i})
  BY <1>1, NameFreed
<1> DEFINE d == IF m.left = 0 THEN g ELSE StrDup(g)
           v == IF m.left = 0 THEN Null ELSE name
           no == FALSE
<1>3. n = Field(d, i, "name", v) /\ g = Field(f, i, "const", no) /\ i \in DOMAIN f.items /\ no \in BOOLEAN /\ v \in Nat
  BY <1>2 DEF Rename, Null
<1> HIDE DEF f, g, n, v, no, d
<1>c. /\ LinksKept(f, g) /\ g.strings = f.strings /\ g.items[i].const = no
      /\ \A x \in DOMAIN f.items :
           /\ x # i => g.items[x].const = f.items[x].const
           /\ g.items[x].name = f.items[x].name /\ g.items[x].text = f.items[x].text
  BY <1>2, <1>3, ConstIs
<1>g. Heap(g) /\ DOMAIN g.items = DOMAIN m.items
  BY <1>2, <1>c DEF LinksKept
<1>d. Heap(d) /\ d.items = g.items /\ d.strings = g.strings + (IF m.left = 0 THEN 0 ELSE 1)
  <2>1. g.strings \in Int
    BY <1>g DEF Heap
  <2>2. CASE m.left = 0
    BY <1>g, <2>1, <2>2 DEF d
  <2>3. CASE m.left # 0
    BY <1>g, <2>3, StrDupIs DEF d
  <2>4. QED BY <2>2, <2>3
<1>n. /\ LinksKept(d, n) /\ n.strings = d.strings
      /\ \A x \in DOMAIN d.items :
           /\ n.items[x].name = IF x = i THEN v ELSE d.items[x].name
           /\ n.items[x].const = d.items[x].const /\ n.items[x].text = d.items[x].text
  <2>1. i \in DOMAIN d.items
    BY <1>g, <1>d
  <2>2. QED BY <1>3, <1>d, <2>1, NameIs
<1>4. /\ n.strings = f.strings + (IF m.left = 0 THEN 0 ELSE 1) /\ LinksKept(m, n)
      /\ ~n.items[i].const /\ n.items[i].name = v
      /\ \A y \in DOMAIN m.items :
           /\ n.items[y].text = m.items[y].text
           /\ y # i => n.items[y].name = m.items[y].name /\ n.items[y].const = m.items[y].const
  <2>1. LinksKept(m, n)
    BY <1>2, <1>c, <1>g, <1>d, <1>n DEF LinksKept
  <2>2. ~n.items[i].const /\ n.items[i].name = v
    BY <1>2, <1>c, <1>g, <1>d, <1>n DEF no
  <2>3. \A y \in DOMAIN m.items :
          /\ n.items[y].text = m.items[y].text
          /\ y # i => n.items[y].name = m.items[y].name /\ n.items[y].const = m.items[y].const
    BY <1>2, <1>c, <1>g, <1>d, <1>n
  <2>4. n.strings = f.strings + (IF m.left = 0 THEN 0 ELSE 1)
    BY <1>c, <1>d, <1>n
  <2>5. QED BY <2>1, <2>2, <2>3, <2>4
<1>5. /\ TextsOf(n) = TextsOf(m)
      /\ m.left = 0 => NamesOf(n) = NamesOf(m) \ {i}
      /\ m.left # 0 => NamesOf(n) = (NamesOf(m) \ {i}) \cup {i}
  <2>1. DOMAIN n.items = DOMAIN m.items /\ \A y \in DOMAIN m.items : n.items[y].ref = m.items[y].ref
    BY <1>4 DEF LinksKept
  <2>2. TextsOf(n) = TextsOf(m)
    BY <1>4, <2>1 DEF TextsOf
  <2>3. m.left = 0 => NamesOf(n) = NamesOf(m) \ {i}
    BY <1>4, <2>1 DEF NamesOf, v
  <2>4. m.left # 0 => NamesOf(n) = (NamesOf(m) \ {i}) \cup {i}
    BY <1>4, <2>1 DEF NamesOf, v
  <2>5. QED BY <2>2, <2>3, <2>4
<1>6. TextsCounted(n)
  <2>1. Cardinality(TextsOf(m)) \in Nat /\ Cardinality(NamesOf(m) \ {i}) \in Nat
    BY <1>1, <1>2, NamesFinite, FS_CardinalityType
  <2>2. m.left # 0 => Cardinality(NamesOf(n)) = Cardinality(NamesOf(m) \ {i}) + 1
    BY <1>2, <1>5, FS_AddElement
  <2>3. m.left = 0 => Cardinality(NamesOf(n)) = Cardinality(NamesOf(m) \ {i})
    BY <1>5
  <2>4. n.strings = Cardinality(TextsOf(n)) + Cardinality(NamesOf(n))
    BY <1>2, <1>4, <1>5, <2>1, <2>2, <2>3
  <2>5. QED BY <2>4 DEF TextsCounted
<1>7. n.items[i].name = v
  BY <1>4
<1>8. QED BY <1>4, <1>6, <1>7, Labelled DEF n, v
=============================================================================
