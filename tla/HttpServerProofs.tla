-------------------------- MODULE HttpServerProofs --------------------------
(***************************************************************************)
(* The safety of the web server, for any number of slots, of clients, of   *)
(* requests, and any size of the control socket.                           *)
(***************************************************************************)
EXTENDS HttpServer, FiniteSetTheorems, TLAPS

-----------------------------------------------------------------------------
(* Slots are numbers, and a set of them that is not empty has a first and  *)
(* a last.  Both are minimal elements of the sets below, or above, each of *)
(* its elements, ordered by inclusion.                                     *)
LEMMA LeastElement ==
    ASSUME NEW S \in SUBSET Int, IsFiniteSet(S), S # {}
    PROVE  \E i \in S : \A j \in S : i <= j
<1> DEFINE Below(i) == {j \in S : j <= i}
           T == {Below(i) : i \in S}
<1>1. T \subseteq FiniteSubsetsOf(S)
  <2>1. \A i \in S : Below(i) \in SUBSET S
    OBVIOUS
  <2> QED BY <2>1, FS_FiniteSubsetsOfFinite
<1>2. PICK X \in T : \A Y \in T : <<Y, X>> \notin StrictSubsetOrdering(S)
  <2>1. T # {}
    OBVIOUS
  <2> QED BY <1>1, <2>1, FS_StrictSubsetOrderingWellFounded, WFMin
<1>3. PICK i \in S : X = Below(i)
  OBVIOUS
<1>4. ASSUME NEW j \in S, j < i
      PROVE  FALSE
  <2>1. Below(j) \subseteq X /\ i \in X /\ i \notin Below(j)
    <3>1. \A k \in S : k \in Int /\ (k \in Below(i) <=> k <= i) /\ (k \in Below(j) <=> k <= j)
      OBVIOUS
    <3>2. Below(i) \subseteq S /\ Below(j) \subseteq S
      OBVIOUS
    <3> HIDE DEF Below
    <3> QED BY <1>3, <1>4, <3>1, <3>2
  <2>2. <<Below(j), X>> \in StrictSubsetOrdering(S)
    <3>1. Below(j) \in SUBSET S /\ X \in SUBSET S
      OBVIOUS
    <3>2. Below(j) # X
      BY <2>1
    <3> HIDE DEF Below, T
    <3> QED BY <2>1, <3>1, <3>2 DEF StrictSubsetOrdering
  <2> QED BY <1>2, <2>2
<1> QED BY <1>4

LEMMA GreatestElement ==
    ASSUME NEW S \in SUBSET Int, IsFiniteSet(S), S # {}
    PROVE  \E i \in S : \A j \in S : j <= i
<1> DEFINE Above(i) == {j \in S : i <= j}
           T == {Above(i) : i \in S}
<1>1. T \subseteq FiniteSubsetsOf(S)
  <2>1. \A i \in S : Above(i) \in SUBSET S
    OBVIOUS
  <2> QED BY <2>1, FS_FiniteSubsetsOfFinite
<1>2. PICK X \in T : \A Y \in T : <<Y, X>> \notin StrictSubsetOrdering(S)
  <2>1. T # {}
    OBVIOUS
  <2> QED BY <1>1, <2>1, FS_StrictSubsetOrderingWellFounded, WFMin
<1>3. PICK i \in S : X = Above(i)
  OBVIOUS
<1>4. ASSUME NEW j \in S, i < j
      PROVE  FALSE
  <2>1. Above(j) \subseteq X /\ i \in X /\ i \notin Above(j)
    <3>1. \A k \in S : k \in Int /\ (k \in Above(i) <=> i <= k) /\ (k \in Above(j) <=> j <= k)
      OBVIOUS
    <3>2. Above(i) \subseteq S /\ Above(j) \subseteq S
      OBVIOUS
    <3> HIDE DEF Above
    <3> QED BY <1>3, <1>4, <3>1, <3>2
  <2>2. <<Above(j), X>> \in StrictSubsetOrdering(S)
    <3>1. Above(j) \in SUBSET S /\ X \in SUBSET S
      OBVIOUS
    <3>2. Above(j) # X
      BY <2>1
    <3> HIDE DEF Above, T
    <3> QED BY <2>1, <3>1, <3>2 DEF StrictSubsetOrdering
  <2> QED BY <1>2, <2>2
<1> QED BY <1>4

LEMMA SlotsFinite ==
    /\ IsFiniteSet(Slots) /\ Cardinality(Slots) = MaxOpenSockets
    /\ \A S \in SUBSET Slots : IsFiniteSet(S)
<1>1. IsFiniteSet(1..MaxOpenSockets) /\ Cardinality(1..MaxOpenSockets) = MaxOpenSockets
  <2>1. MaxOpenSockets \in Int /\ 1 \in Int /\ ~(1 > MaxOpenSockets)
    BY ServerAssumption
  <2>2. MaxOpenSockets - 1 + 1 = MaxOpenSockets
    BY <2>1
  <2> QED BY <2>1, <2>2, FS_Interval, Zenon
<1> QED BY <1>1, FS_Subset DEF Slots

LEMMA FirstSlot ==
    ASSUME NEW S \in SUBSET Slots, S # {}
    PROVE  First(S) \in S /\ \A j \in S : First(S) <= j
<1>1. S \in SUBSET Int
  BY ServerAssumption DEF Slots
<1>2. \E i \in S : \A j \in S : i <= j
  BY <1>1, SlotsFinite, LeastElement
<1> QED BY <1>2 DEF First

-----------------------------------------------------------------------------
(* What the loop over the sessions asks of the slots, in terms of the      *)
(* slots themselves.                                                       *)
SlotsTyped == slots \in [Slots -> Conns \cup {None}]
OneSlotEach == \A i, j \in Slots : slots[i] = slots[j] /\ slots[i] # None => i = j

LEMMA SlotOfIt ==
    ASSUME SlotsTyped, OneSlotEach, NEW i \in Slots, slots[i] # None
    PROVE  slots[i] \in Sessions /\ SlotOf(slots[i]) = i
BY DEF SlotsTyped, OneSlotEach, Sessions, SlotOf

(* The session behind the one in slot p, or from the start if p is 0.      *)
LEMMA AfterIsNext ==
    ASSUME SlotsTyped, OneSlotEach, NEW p \in 0..MaxOpenSockets, NEW c,
           IF p = 0 THEN c = None ELSE c # None /\ slots[p] = c
    PROVE  \/ After(c) = None /\ \A i \in Slots : i > p => slots[i] = None
           \/ \E n \in Slots : /\ n > p /\ slots[n] = After(c) /\ After(c) # None
                               /\ \A i \in Slots : p < i /\ i < n => slots[i] = None
<1> DEFINE rest == {i \in Slots : i > p /\ slots[i] # None}
<1>1. (IF c \in Sessions THEN SlotOf(c) ELSE 0) = p
  <2>1. CASE p = 0
    BY <2>1 DEF Sessions
  <2>2. CASE p # 0
    <3>1. p \in Slots
      BY <2>2, ServerAssumption DEF Slots
    <3> QED BY <2>2, <3>1, SlotOfIt
  <2> QED BY <2>1, <2>2
<1>2. After(c) = IF rest = {} THEN None ELSE slots[First(rest)]
  BY <1>1 DEF After
<1>3. CASE rest = {}
  BY <1>2, <1>3
<1>4. CASE rest # {}
  <2>1. First(rest) \in rest /\ \A j \in rest : First(rest) <= j
    BY <1>4, FirstSlot
  <2>2. \A i \in Slots : p < i /\ i < First(rest) => slots[i] = None
    BY <2>1, ServerAssumption DEF Slots
  <2> HIDE DEF rest
  <2>3. First(rest) \in Slots /\ First(rest) > p /\ slots[First(rest)] # None
    BY <2>1 DEF rest
  <2> QED BY <1>2, <1>4, <2>2, <2>3
<1> QED BY <1>3, <1>4

(* The session before the one in slot q, whose place in the loop is p.     *)
LEMMA PrecedingIsLast ==
    ASSUME SlotsTyped, OneSlotEach, NEW q \in Slots, slots[q] # None
    PROVE  \E p \in 0..MaxOpenSockets :
             /\ p < q
             /\ IF p = 0 THEN Preceding(slots[q]) = None
                         ELSE slots[p] = Preceding(slots[q]) /\ slots[p] # None
             /\ \A i \in Slots : p < i /\ i < q => slots[i] = None
<1> DEFINE taken == {i \in Slots : i < q /\ slots[i] # None}
           Last == CHOOSE i \in taken : \A j \in taken : j <= i
<1>1. SlotOf(slots[q]) = q
  BY SlotOfIt
<1>2. Preceding(slots[q]) = IF taken = {} THEN None ELSE slots[Last]
  BY <1>1 DEF Preceding
<1>3. CASE taken = {}
  <2>1. 0 \in 0..MaxOpenSockets /\ 0 < q
    BY ServerAssumption DEF Slots
  <2> QED BY <1>2, <1>3, <2>1
<1>4. CASE taken # {}
  <2>1. taken \in SUBSET Int /\ IsFiniteSet(taken)
    BY SlotsFinite, ServerAssumption DEF Slots
  <2>2. Last \in taken /\ \A j \in taken : j <= Last
    BY <1>4, <2>1, GreatestElement
  <2> HIDE DEF Last
  <2>3. Last \in Slots /\ Last < q /\ slots[Last] # None
    BY <2>2
  <2>4. \A i \in Slots : Last < i /\ i < q => slots[i] = None
    BY <2>2, <2>3, ServerAssumption DEF Slots
  <2>5. Last \in 0..MaxOpenSockets /\ Last # 0
    BY <2>3, ServerAssumption DEF Slots
  <2> HIDE DEF taken
  <2> QED BY <1>2, <1>4, <2>3, <2>4, <2>5
<1> QED BY <1>3, <1>4
-----------------------------------------------------------------------------
(* The inductive invariant.  Its parts need each other: a new session gets *)
(* a socket that no slot has because who waits in the backlog is not open. *)

(* What is selected is there, and a server that is down has no clients.    *)
Ready ==
    /\ pc = "ctrl" /\ ctrlSet => ctrl # <<>>
    /\ listenSet => backlog # <<>>

(* The connections of the backlog wait, each once.                         *)
Backlog ==
    /\ \A k \in 1..Len(backlog) : peer[backlog[k]] = "waiting"
    /\ \A j, k \in 1..Len(backlog) : backlog[j] = backlog[k] => j = k

Down ==
    /\ caller = "off" <=> pc = "none"
    /\ pc \in {"exit", "stopped"} => caller = "stopping"
    /\ \A k \in 1..Len(ctrl) : ctrl[k].kind = "shutdown" => caller = "stopping"
    /\ pc \in {"none", "stopped"} =>
          ctrl = <<>> /\ backlog = <<>> /\ \A c \in Conns : peer[c] = "away"

(* The loop over the sessions is at slot p, or before the first slot: the  *)
(* readable sessions up to p are done, of the ones behind it none is.      *)
At(p) ==
    /\ IF p = 0 THEN fd = None ELSE slots[p] = fd /\ fd # None
    /\ \A i \in Slots : slots[i] # None =>
          /\ i <= p /\ slots[i] \in readSet => slots[i] \in done
          /\ i > p => slots[i] \notin done

Loop ==
    /\ pc \in {"sessions", "purge"} => \E p \in 0..MaxOpenSockets : At(p)
    /\ pc = "purge" => fd # None
    /\ NobodySkipped

(* Who has served a request is a session, and its counter is greater than  *)
(* that of those that did so before.                                       *)
Ranked ==
    /\ \A k \in 1..Len(served) : served[k] \in Sessions
    /\ \A j, k \in 1..Len(served) : served[j] = served[k] => j = k
    /\ \A j, k \in 1..Len(served) : \A h, i \in Slots :
          j < k /\ slots[h] = served[j] /\ slots[i] = served[k] => lru[h] < lru[i]
    /\ ~counted => served = <<>>

(* When applications queue nothing, the only messages are that of          *)
(* httpd_stop and that of the purge, which is looked at in the pass after. *)
Mail ==
    ~Works =>
    /\ \A k \in 1..Len(ctrl) :
          \/ ctrl[k].kind = "shutdown"
          \/ /\ ctrl[k].kind = "close"
             /\ pc = "select" \/ (pc = "ctrl" /\ ctrlSet) \/ pc = "exit"
             /\ pc # "exit" => slots[ctrl[k].slot] \in {ctrl[k].for, None}
    /\ \A j, k \in 1..Len(ctrl) : ctrl[j].kind = ctrl[k].kind => j = k
    /\ Mailbox >= 2 => ShutdownNotLost

Inv == TypeOK /\ SlotsMatchSockets /\ Ready /\ Backlog /\ Down /\ Loop /\ Ranked /\ Mail
-----------------------------------------------------------------------------
(* The history of service without one session keeps its order.             *)
LEMMA UnservedKeepsOrder ==
    ASSUME served \in Seq(Conns), NEW c,
           \A j, k \in 1..Len(served) : served[j] = served[k] => j = k
    PROVE  /\ Unserved(c) \in Seq(Conns)
           /\ \E f \in [1..Len(Unserved(c)) -> 1..Len(served)] :
                /\ \A k \in 1..Len(Unserved(c)) : Unserved(c)[k] = served[f[k]] /\ Unserved(c)[k] # c
                /\ \A j, k \in 1..Len(Unserved(c)) : j < k => f[j] < f[k]
           /\ served = <<>> => Unserved(c) = <<>>
<1>1. CASE ~ \E k \in 1..Len(served) : served[k] = c
  <2>1. Unserved(c) = served
    BY <1>1 DEF Unserved
  <2> DEFINE f == [k \in 1..Len(served) |-> k]
  <2>2. f \in [1..Len(served) -> 1..Len(served)]
    OBVIOUS
  <2>3. \A k \in 1..Len(served) : f[k] = k
    OBVIOUS
  <2> HIDE DEF f
  <2>4. Len(served) \in Nat
    OBVIOUS
  <2>5. \A j, k \in 1..Len(served) : j < k => f[j] < f[k]
    BY <2>3
  <2> QED BY <1>1, <2>1, <2>2, <2>3, <2>5
<1>2. CASE \E k \in 1..Len(served) : served[k] = c
  <2> DEFINE at == CHOOSE k \in 1..Len(served) : served[k] = c
             f == [k \in 1..(Len(served) - 1) |-> IF k < at THEN k ELSE k + 1]
  <2>1. at \in 1..Len(served) /\ served[at] = c
    BY <1>2
  <2>2. Unserved(c) = [k \in 1..(Len(served) - 1) |-> served[IF k < at THEN k ELSE k + 1]]
    BY <1>2 DEF Unserved
  <2> HIDE DEF at
  <2>3. Len(served) \in Nat \ {0}
    BY <2>1
  <2>4. /\ f \in [1..(Len(served) - 1) -> 1..Len(served)]
        /\ \A k \in 1..(Len(served) - 1) : f[k] = (IF k < at THEN k ELSE k + 1)
    BY <2>1, <2>3
  <2> HIDE DEF f
  <2>5. \A k \in 1..(Len(served) - 1) : Unserved(c)[k] = served[f[k]]
    BY <2>2, <2>4
  <2>6. \A k \in 1..(Len(served) - 1) : f[k] # at
    BY <2>1, <2>4
  <2>7. \A k \in 1..(Len(served) - 1) : served[f[k]] # c
    BY <2>1, <2>4, <2>6
  <2>8. \A j, k \in 1..(Len(served) - 1) : j < k => f[j] < f[k]
    BY <2>1, <2>3, <2>4
  <2>9. Unserved(c) \in Seq(Conns) /\ Len(Unserved(c)) = Len(served) - 1
    <3>1. \A k \in 1..(Len(served) - 1) : served[f[k]] \in Conns
      BY <2>4
    <3>2. Unserved(c) = [k \in 1..(Len(served) - 1) |-> served[f[k]]]
      BY <2>2, <2>4
    <3>3. Len(served) - 1 \in Nat
      BY <2>3
    <3> QED BY <3>1, <3>2, <3>3
  <2>10. served # <<>>
    BY <2>3
  <2>11. f \in [1..Len(Unserved(c)) -> 1..Len(served)]
    BY <2>4, <2>9
  <2>12. \A k \in 1..Len(Unserved(c)) : Unserved(c)[k] = served[f[k]] /\ Unserved(c)[k] # c
    BY <2>5, <2>7, <2>9
  <2>13. \A j, k \in 1..Len(Unserved(c)) : j < k => f[j] < f[k]
    BY <2>8, <2>9
  <2> QED BY <2>9, <2>10, <2>11, <2>12, <2>13
<1> QED BY <1>1, <1>2

(* A close frees one slot and one socket, and disturbs nothing else.       *)
LEMMA CloseSessionKeeps ==
    ASSUME TypeOK, SlotsMatchSockets, Backlog, Ranked, NEW q \in Slots, slots[q] # None,
           CloseSession(slots[q])
    PROVE  /\ slots' = [slots EXCEPT ![q] = None]
           /\ slots' \in [Slots -> Conns \cup {None}]
           /\ peer' \in [Conns -> {"away", "waiting", "open", "left"}]
           /\ inbox' \in [Conns -> Requests \cup {"none", "request"}]
           /\ served' \in Seq(Conns)
           /\ SlotsMatchSockets' /\ Backlog' /\ Ranked'
<1> DEFINE c == slots[q]
<1>1. c \in Conns /\ c # None
  BY DEF TypeOK
<1>2. slots' = [slots EXCEPT ![q] = None]
  <2>1. \A i \in Slots : slots[i] = c <=> i = q
    BY DEF SlotsMatchSockets
  <2> QED BY <2>1 DEF CloseSession, Deleted, TypeOK
<1>3. /\ slots' \in [Slots -> Conns \cup {None}]
      /\ peer' \in [Conns -> {"away", "waiting", "open", "left"}]
      /\ inbox' \in [Conns -> Requests \cup {"none", "request"}]
  BY <1>1, <1>2 DEF TypeOK, CloseSession
<1>4. Sessions' = Sessions \ {c}
  <2>1. \A d : d \in Sessions' <=> d # None /\ \E i \in Slots : i # q /\ slots[i] = d
    BY <1>2 DEF Sessions, TypeOK
  <2>2. \A i \in Slots : slots[i] = c <=> i = q
    BY DEF SlotsMatchSockets
  <2>3. \A d : d \in Sessions <=> d # None /\ \E i \in Slots : slots[i] = d
    BY DEF Sessions
  <2> HIDE DEF c
  <2> QED BY <2>1, <2>2, <2>3
<1>5. SlotsMatchSockets'
  <2>1. \A i, j \in Slots : slots'[i] = slots'[j] /\ slots'[i] # None => i = j
    BY <1>2 DEF SlotsMatchSockets, TypeOK
  <2>2. Sessions' = {d \in Conns : peer'[d] \in {"open", "left"}}
    <3>1. peer' = [peer EXCEPT ![c] = "away"]
      BY DEF CloseSession
    <3> QED BY <1>1, <1>4, <3>1 DEF SlotsMatchSockets, TypeOK
  <2> QED BY <2>1, <2>2 DEF SlotsMatchSockets
<1>6. Backlog'
  <2>1. c \in Sessions
    BY <1>1 DEF Sessions
  <2>2. peer[c] \in {"open", "left"}
    BY <1>1, <2>1 DEF SlotsMatchSockets
  <2>3. \A k \in 1..Len(backlog) : backlog[k] # c /\ backlog[k] \in Conns
    BY <2>2 DEF Backlog, TypeOK
  <2>4. \A k \in 1..Len(backlog) : peer'[backlog[k]] = "waiting"
    BY <1>1, <2>3 DEF Backlog, CloseSession, TypeOK
  <2> QED BY <2>4 DEF Backlog, CloseSession
<1>7. served' \in Seq(Conns) /\ Ranked'
  <2>1. served \in Seq(Conns) /\ \A j, k \in 1..Len(served) : served[j] = served[k] => j = k
    BY DEF TypeOK, Ranked
  <2>2. served' = Unserved(c) /\ counted' = counted /\ lru' = lru
    BY DEF CloseSession
  <2>3. PICK f \in [1..Len(served') -> 1..Len(served)] :
           /\ \A k \in 1..Len(served') : served'[k] = served[f[k]] /\ served'[k] # c
           /\ \A j, k \in 1..Len(served') : j < k => f[j] < f[k]
    BY <2>1, <2>2, UnservedKeepsOrder
  <2>4. served' \in Seq(Conns) /\ (served = <<>> => served' = <<>>)
    BY <2>1, <2>2, UnservedKeepsOrder
  <2>5. \A k \in 1..Len(served') : served'[k] \in Sessions'
    BY <1>4, <2>3 DEF Ranked
  <2>6. \A j, k \in 1..Len(served') : served'[j] = served'[k] => j = k
    <3>1. \A j, k \in 1..Len(served') : served'[j] = served'[k] => f[j] = f[k]
      BY <2>1, <2>3
    <3>2. Len(served') \in Nat /\ Len(served) \in Nat
      BY <2>1, <2>4
    <3> QED BY <2>3, <3>1, <3>2
  <2>7. ASSUME NEW j \in 1..Len(served'), NEW k \in 1..Len(served'), NEW h \in Slots, NEW i \in Slots,
               j < k, slots'[h] = served'[j], slots'[i] = served'[k]
        PROVE  lru'[h] < lru'[i]
    <3>1. served'[j] # None /\ served'[k] # None
      BY <2>4, ServerAssumption
    <3>2. slots[h] = served[f[j]] /\ slots[i] = served[f[k]]
      BY <1>2, <2>3, <2>7, <3>1 DEF TypeOK
    <3>3. f[j] < f[k]
      BY <2>3, <2>7
    <3> QED BY <2>2, <2>3, <3>2, <3>3 DEF Ranked
  <2> QED BY <2>2, <2>4, <2>5, <2>6, <2>7 DEF Ranked
<1> QED BY <1>2, <1>3, <1>5, <1>6, <1>7
-----------------------------------------------------------------------------
LEMMA SmallerSubset ==
    ASSUME NEW T, IsFiniteSet(T), NEW S \in SUBSET T, NEW x \in T, x \notin S
    PROVE  Cardinality(S) < Cardinality(T)
<1>1. IsFiniteSet(S) /\ Cardinality(S) <= Cardinality(T) /\ Cardinality(S) # Cardinality(T)
  BY FS_Subset
<1>2. Cardinality(S) \in Nat /\ Cardinality(T) \in Nat
  BY <1>1, FS_CardinalityType
<1> QED BY <1>1, <1>2

(* The counter that a request gives its session stays within the slots,    *)
(* is greater than all others, and changes no order among them.            *)
LEMMA CountedRanks ==
    ASSUME TypeOK, SlotsMatchSockets, NEW q \in Slots, slots[q] # None
    PROVE  /\ Counted(slots[q]) \in [Slots -> 0..MaxOpenSockets]
           /\ counted => \A i \in Slots \ {q} : Counted(slots[q])[i] < Counted(slots[q])[q]
           /\ \A h, i \in Slots \ {q} :
                 lru[h] < lru[i] => Counted(slots[q])[h] < Counted(slots[q])[i]
<1> DEFINE others == Slots \ {q}
           old == {lru[j] : j \in others}
           Least(v) == {w \in old \ {0} : w < v}
           Rank(v) == Cardinality(Least(v)) + 1
           new == [j \in Slots |-> IF j = q THEN (IF counted THEN Cardinality(old \ {0}) + 1 ELSE 0)
                                   ELSE (IF lru[j] = 0 THEN 0 ELSE Rank(lru[j]))]
<1>1. Counted(slots[q]) = new
  <2>1. SlotOf(slots[q]) = q
    BY SlotOfIt DEF TypeOK, SlotsMatchSockets, SlotsTyped, OneSlotEach
  <2> QED BY <2>1 DEF Counted
<1>2. IsFiniteSet(others) /\ Cardinality(others) = MaxOpenSockets - 1
  BY SlotsFinite, FS_RemoveElement
<1>3. IsFiniteSet(old) /\ Cardinality(old) <= MaxOpenSockets - 1
  <2> DEFINE f == [j \in others |-> lru[j]]
  <2>1. f \in [others -> old] /\ \A v \in old : \E j \in others : f[j] = v
    OBVIOUS
  <2>2. f \in Surjection(others, old)
    BY <2>1 DEF Surjection
  <2> HIDE DEF f, old, others
  <2> QED BY <1>2, <2>2, FS_Surjection
<1>4. \A S \in SUBSET old : IsFiniteSet(S) /\ Cardinality(S) \in 0..(MaxOpenSockets - 1)
  <2> SUFFICES ASSUME NEW S \in SUBSET old
               PROVE  IsFiniteSet(S) /\ Cardinality(S) \in 0..(MaxOpenSockets - 1)
    OBVIOUS
  <2> HIDE DEF old
  <2>1. IsFiniteSet(S) /\ Cardinality(S) <= Cardinality(old)
    BY <1>3, FS_Subset
  <2>2. Cardinality(S) \in Nat /\ Cardinality(old) \in Nat
    BY <1>3, <2>1, FS_CardinalityType
  <2> QED BY <1>3, <2>1, <2>2, ServerAssumption
<1>5. \A i \in others : lru[i] \in old /\ lru[i] \in 0..MaxOpenSockets
  BY DEF TypeOK
<1>6. /\ old \ {0} \in SUBSET old
      /\ \A v : Least(v) \in SUBSET old
  OBVIOUS
<1>7. old \subseteq Nat
  BY <1>5, ServerAssumption DEF TypeOK
<1>8. \A v \in old \ {0} : /\ Cardinality(Least(v)) < Cardinality(old \ {0})
                           /\ \A w \in old \ {0} : w < v => Cardinality(Least(w)) < Cardinality(Least(v))
  <2> SUFFICES ASSUME NEW v \in old \ {0}
               PROVE  /\ Cardinality(Least(v)) < Cardinality(old \ {0})
                      /\ \A w \in old \ {0} : w < v => Cardinality(Least(w)) < Cardinality(Least(v))
    OBVIOUS
  <2>1. Least(v) \in SUBSET (old \ {0}) /\ v \notin Least(v)
    BY <1>7
  <2>2. Cardinality(Least(v)) < Cardinality(old \ {0})
    BY <1>4, <1>6, <2>1, SmallerSubset
  <2>3. ASSUME NEW w \in old \ {0}, w < v
        PROVE  Cardinality(Least(w)) < Cardinality(Least(v))
    <3>1. Least(w) \in SUBSET Least(v) /\ w \in Least(v) /\ w \notin Least(w)
      BY <1>7, <2>3
    <3> QED BY <1>4, <1>6, <3>1, SmallerSubset
  <2> QED BY <2>2, <2>3
<1> HIDE DEF Least
<1>9. \A v : Cardinality(Least(v)) \in 0..(MaxOpenSockets - 1)
  BY <1>4, <1>6
<1>10. Cardinality(old \ {0}) \in 0..(MaxOpenSockets - 1)
  BY <1>4, <1>6
<1> HIDE DEF old
<1>11. new \in [Slots -> 0..MaxOpenSockets]
  BY <1>9, <1>10, ServerAssumption
<1>12. counted => \A i \in others : new[i] < new[q]
  <2> SUFFICES ASSUME counted, NEW i \in others
               PROVE  new[i] < new[q]
    OBVIOUS
  <2>1. new[q] = Cardinality(old \ {0}) + 1
    OBVIOUS
  <2>2. new[i] = IF lru[i] = 0 THEN 0 ELSE Rank(lru[i])
    OBVIOUS
  <2>3. lru[i] # 0 => lru[i] \in old \ {0}
    BY <1>5
  <2>4. lru[i] # 0 => Cardinality(Least(lru[i])) < Cardinality(old \ {0})
    BY <1>8, <2>3
  <2> HIDE DEF new
  <2> QED BY <1>9, <1>10, <2>1, <2>2, <2>4, ServerAssumption
<1>13. \A h, i \in others : lru[h] < lru[i] => new[h] < new[i]
  <2> SUFFICES ASSUME NEW h \in others, NEW i \in others, lru[h] < lru[i]
               PROVE  new[h] < new[i]
    OBVIOUS
  <2>1. lru[h] \in old /\ lru[i] \in old \ {0}
    BY <1>5, ServerAssumption
  <2>2. new[i] = Rank(lru[i]) /\ new[h] = IF lru[h] = 0 THEN 0 ELSE Rank(lru[h])
    BY <2>1
  <2>3. lru[h] # 0 => Cardinality(Least(lru[h])) < Cardinality(Least(lru[i]))
    BY <1>8, <2>1
  <2> QED BY <1>9, <2>2, <2>3, ServerAssumption
<1> QED BY <1>1, <1>11, <1>12, <1>13
(* A request served: the session's counter and the history move together.  *)
LEMMA SucceedKeeps ==
    ASSUME TypeOK, SlotsMatchSockets, Ranked, NEW q \in Slots, slots[q] # None, Succeed(slots[q])
    PROVE  /\ lru' \in [Slots -> 0..MaxOpenSockets]
           /\ served' \in Seq(Conns)
           /\ SlotsMatchSockets' /\ Ranked'
<1> DEFINE c == slots[q]
           u == Unserved(c)
<1>1. c \in Conns /\ c \in Sessions
  BY DEF TypeOK, Sessions
<1>2. /\ lru' = Counted(c) /\ counted' = TRUE /\ served' = Append(u, c)
      /\ slots' = slots /\ peer' = peer
  BY DEF Succeed
<1>3. served \in Seq(Conns) /\ \A j, k \in 1..Len(served) : served[j] = served[k] => j = k
  BY DEF TypeOK, Ranked
<1>4. u \in Seq(Conns) /\ (served = <<>> => u = <<>>)
  BY <1>3, UnservedKeepsOrder
<1>5. PICK f \in [1..Len(u) -> 1..Len(served)] :
        /\ \A k \in 1..Len(u) : u[k] = served[f[k]] /\ u[k] # c
        /\ \A j, k \in 1..Len(u) : j < k => f[j] < f[k]
  BY <1>3, UnservedKeepsOrder
<1>6. /\ lru' \in [Slots -> 0..MaxOpenSockets]
      /\ counted => \A i \in Slots \ {q} : lru'[i] < lru'[q]
      /\ \A h, i \in Slots \ {q} : lru[h] < lru[i] => lru'[h] < lru'[i]
  BY <1>2, CountedRanks
<1>7. Sessions' = Sessions
  BY <1>2 DEF Sessions
<1>8. SlotsMatchSockets'
  BY <1>2, <1>7 DEF SlotsMatchSockets
<1> HIDE DEF u
<1>9. /\ served' \in Seq(Conns) /\ Len(served') = Len(u) + 1 /\ Len(u) \in Nat
      /\ served'[Len(u) + 1] = c
      /\ \A k \in 1..Len(u) : served'[k] = u[k]
  BY <1>1, <1>2, <1>4
<1>10. \A k \in 1..Len(served') : served'[k] \in Sessions
  <2>1. \A k \in 1..Len(u) : u[k] \in Sessions
    BY <1>5 DEF Ranked
  <2> QED BY <1>1, <1>9, <2>1
<1>11. \A j, k \in 1..Len(u) : u[j] = u[k] => j = k
  <2>1. \A j, k \in 1..Len(u) : u[j] = u[k] => f[j] = f[k]
    BY <1>3, <1>5
  <2>2. \A j \in 1..Len(u) : f[j] \in Int /\ j \in Int
    BY <1>3, <1>5
  <2> QED BY <1>5, <2>1, <2>2
<1>12. \A j, k \in 1..Len(served') : served'[j] = served'[k] => j = k
  BY <1>5, <1>9, <1>11
<1>13. ASSUME NEW j \in 1..Len(served'), NEW k \in 1..Len(served'), NEW h \in Slots, NEW i \in Slots,
              j < k, slots'[h] = served'[j], slots'[i] = served'[k]
       PROVE  lru'[h] < lru'[i]
  <2>1. j \in 1..Len(u) /\ slots[h] = u[j] /\ h # q
    BY <1>2, <1>5, <1>9, <1>13
  <2>2. CASE k \in 1..Len(u)
    <3>1. slots[i] = u[k] /\ i # q
      BY <1>2, <1>5, <1>9, <1>13, <2>2
    <3>2. lru[h] < lru[i]
      BY <1>5, <1>13, <2>1, <2>2, <3>1 DEF Ranked
    <3> QED BY <1>6, <2>1, <3>1, <3>2
  <2>3. CASE k = Len(u) + 1
    <3>1. i = q
      <4>1. slots[i] = slots[q]
        BY <1>2, <1>9, <1>13, <2>3
      <4> QED BY <4>1 DEF SlotsMatchSockets
    <3>2. counted
      <4>1. u # <<>>
        BY <2>1
      <4> QED BY <1>4, <4>1 DEF Ranked
    <3> QED BY <1>6, <2>1, <3>1, <3>2
  <2> QED BY <1>9, <2>2, <2>3
<1>14. Ranked'
  BY <1>2, <1>7, <1>10, <1>12, <1>13 DEF Ranked
<1> QED BY <1>6, <1>8, <1>9, <1>14
-----------------------------------------------------------------------------
(* What is posted, and what is in the socket then.                         *)
LEMMA PostedKeeps ==
    ASSUME ctrl \in Seq(Messages), Len(ctrl) <= Mailbox, NEW m \in Messages
    PROVE  /\ Posted(m) \in Seq(Messages) /\ Len(Posted(m)) <= Mailbox
           /\ ctrl # <<>> => Posted(m) # <<>>
           /\ \A k \in 1..Len(Posted(m)) :
                 Posted(m)[k] = m \/ (k \in 1..Len(ctrl) /\ Posted(m)[k] = ctrl[k])
           /\ \/ Len(ctrl) >= Mailbox /\ Posted(m) = ctrl
              \/ /\ Len(ctrl) < Mailbox /\ Posted(m) = Append(ctrl, m)
                 /\ Len(Posted(m)) = Len(ctrl) + 1
                 /\ \A k \in 1..Len(ctrl) : Posted(m)[k] = ctrl[k]
                 /\ Posted(m)[Len(ctrl) + 1] = m
<1>1. CASE Len(ctrl) < Mailbox
  <2>1. Posted(m) = Append(ctrl, m)
    BY <1>1 DEF Posted
  <2> QED BY <1>1, <2>1, ServerAssumption
<1>2. CASE ~(Len(ctrl) < Mailbox)
  <2>1. Posted(m) = ctrl
    BY <1>2 DEF Posted
  <2> QED BY <1>2, <2>1, ServerAssumption
<1> QED BY <1>1, <1>2

LEMMA MessagesTyped ==
    ASSUME TypeOK
    PROVE  /\ Work \in Messages /\ Shutdown \in Messages
           /\ \A i \in Slots : Close(i) \in Messages
BY ServerAssumption DEF TypeOK, Messages, Work, Shutdown, Close, Slots

(* The first of the slots with the least counter.                          *)
LEMMA LruSlotIsLeast ==
    ASSUME TypeOK
    PROVE  LruSlot \in Slots /\ \A j \in Slots : lru[LruSlot] <= lru[j]
<1> DEFINE least == {i \in Slots : \A j \in Slots : lru[i] <= lru[j]}
           values == {lru[i] : i \in Slots}
<1>1. values \in SUBSET Int /\ values # {} /\ IsFiniteSet(values)
  <2>1. values \in SUBSET (0..MaxOpenSockets)
    BY DEF TypeOK
  <2>2. IsFiniteSet(0..MaxOpenSockets)
    BY FS_Interval, ServerAssumption
  <2>3. 1 \in Slots
    BY ServerAssumption DEF Slots
  <2>4. values # {}
    BY <2>3
  <2> HIDE DEF values
  <2>5. IsFiniteSet(values)
    BY <2>1, <2>2, FS_Subset
  <2> QED BY <2>1, <2>4, <2>5, ServerAssumption
<1>2. \E v \in values : \A w \in values : v <= w
  <2> HIDE DEF values
  <2> QED BY <1>1, LeastElement
<1>3. least # {}
  BY <1>2
<1>4. least \in SUBSET Slots
  OBVIOUS
<1>5. First(least) \in least
  <2> HIDE DEF least
  <2> QED BY <1>3, <1>4, FirstSlot
<1> QED BY <1>5 DEF LruSlot

-----------------------------------------------------------------------------
(* The initial state, and one lemma for each action.                       *)
LEMMA InitInv == Init => Inv
<1> SUFFICES ASSUME Init PROVE Inv
  OBVIOUS
<1>1. TypeOK
  <2>1. <<>> \in Seq(Messages) /\ <<>> \in Seq(Conns) /\ Len(<<>>) = 0
    OBVIOUS
  <2>2. 0 \in 0..MaxOpenSockets /\ 0 <= Mailbox
    BY ServerAssumption
  <2> QED BY <2>1, <2>2 DEF Init, TypeOK
<1>2. SlotsMatchSockets
  BY DEF Init, SlotsMatchSockets, Sessions
<1>3. Ready /\ Backlog /\ Down
  BY DEF Init, Ready, Backlog, Down
<1>4. Loop /\ Ranked
  BY DEF Init, Loop, NobodySkipped, Ranked
<1>5. Mail
  BY DEF Init, Mail, ShutdownNotLost
<1> QED BY <1>1, <1>2, <1>3, <1>4, <1>5 DEF Inv

LEMMA StartStep == Inv /\ Start => Inv'
<1> SUFFICES ASSUME Inv, Start PROVE Inv'
  OBVIOUS
<1> USE DEF callerVars, sessionVars, passVars, clientVars
<1>1. pc = "none" /\ pc' = "select" /\ caller' = "running"
  BY DEF Inv, Start, Down
<1>2. TypeOK'
  BY ServerAssumption DEF Inv, Start, TypeOK
<1>3. SlotsMatchSockets'
  <2>1. \A c \in Conns : peer'[c] = "away"
    BY <1>1 DEF Inv, Down, Start
  <2>2. Sessions' = {} /\ \A i \in Slots : slots'[i] = None
    BY DEF Start, Sessions
  <2> QED BY <2>1, <2>2 DEF SlotsMatchSockets
<1>4. Ready' /\ Backlog' /\ Down'
  BY <1>1 DEF Inv, Start, Ready, Backlog, Down
<1>5. Loop' /\ Ranked'
  BY <1>1 DEF Start, Loop, NobodySkipped, Ranked
<1>6. Mail'
  BY <1>1 DEF Start, Mail, ShutdownNotLost
<1> QED BY <1>2, <1>3, <1>4, <1>5, <1>6 DEF Inv

LEMMA StopStep == Inv /\ Stop => Inv'
<1> SUFFICES ASSUME Inv, Stop PROVE Inv'
  OBVIOUS
<1> USE DEF callerVars, sessionVars, passVars, clientVars
<1>1. /\ ctrl \in Seq(Messages) /\ Len(ctrl) <= Mailbox
      /\ Shutdown \in Messages /\ ctrl' = Posted(Shutdown)
  BY MessagesTyped DEF Inv, TypeOK, Stop
<1>2. TypeOK'
  <2>1. ctrl' \in Seq(Messages) /\ Len(ctrl') <= Mailbox
    BY <1>1, PostedKeeps
  <2> QED BY <2>1 DEF Inv, Stop, TypeOK
<1>3. SlotsMatchSockets' /\ Backlog' /\ Ranked' /\ Down'
  <2>1. SlotsMatchSockets' /\ Backlog' /\ Ranked'
    BY DEF Inv, Stop, SlotsMatchSockets, Sessions, Backlog, Ranked
  <2>2. Down'
    BY DEF Inv, Stop, Down
  <2> QED BY <2>1, <2>2
<1>4. Ready'
  <2>1. ctrl # <<>> => ctrl' # <<>>
    BY <1>1, PostedKeeps
  <2> QED BY <2>1 DEF Inv, Stop, Ready
<1>5. Loop'
  BY DEF Inv, Stop, Loop, At, NobodySkipped, Sessions
<1>6. Mail'
  <2> SUFFICES ASSUME ~Works PROVE Mail'
    BY DEF Mail
  <2>1. \A k \in 1..Len(ctrl) :
          /\ ctrl[k].kind = "close"
          /\ pc = "select" \/ (pc = "ctrl" /\ ctrlSet)
          /\ slots[ctrl[k].slot] \in {ctrl[k].for, None}
    BY DEF Inv, Mail, Stop, Down
  <2>2. \A j, k \in 1..Len(ctrl) : ctrl[j].kind = ctrl[k].kind => j = k
    BY DEF Inv, Mail
  <2>3. Shutdown.kind = "shutdown" /\ "shutdown" # "close"
    BY DEF Shutdown
  <2>4. pc' = pc /\ slots' = slots /\ ctrlSet' = ctrlSet /\ caller' = "stopping"
    BY DEF Stop
  <2>5. CASE Len(ctrl) >= Mailbox /\ ctrl' = ctrl
    <3>1. Len(ctrl) <= 1
      BY <1>1, <2>1, <2>2
    <3>2. ~(Mailbox >= 2)
      BY <1>1, <2>5, <3>1, ServerAssumption
    <3> QED BY <2>1, <2>2, <2>4, <2>5, <3>2 DEF Mail
  <2>6. CASE /\ Len(ctrl') = Len(ctrl) + 1
             /\ \A k \in 1..Len(ctrl) : ctrl'[k] = ctrl[k]
             /\ ctrl'[Len(ctrl) + 1] = Shutdown
    <3>1. Len(ctrl) \in Nat
      BY <1>1
    <3>2. ShutdownNotLost'
      BY <2>3, <2>6, <3>1 DEF ShutdownNotLost
    <3>3. \A k \in 1..Len(ctrl') :
            \/ ctrl'[k].kind = "shutdown" /\ k = Len(ctrl) + 1
            \/ k \in 1..Len(ctrl) /\ ctrl'[k] = ctrl[k]
      BY <2>3, <2>6, <3>1
    <3>4. \A j, k \in 1..Len(ctrl') : ctrl'[j].kind = ctrl'[k].kind => j = k
      BY <2>1, <2>2, <2>3, <3>3
    <3> QED BY <2>1, <2>4, <3>2, <3>3, <3>4 DEF Mail
  <2> QED BY <1>1, <2>5, <2>6, PostedKeeps
<1> QED BY <1>2, <1>3, <1>4, <1>5, <1>6 DEF Inv

LEMMA StopReturnsStep == Inv /\ StopReturns => Inv'
<1> SUFFICES ASSUME Inv, StopReturns PROVE Inv'
  OBVIOUS
<1> USE DEF callerVars, sessionVars, passVars, clientVars
<1>1. TypeOK'
  BY DEF Inv, StopReturns, TypeOK
<1>2. SlotsMatchSockets' /\ Backlog' /\ Ranked' /\ Ready' /\ Down'
  BY DEF Inv, StopReturns, SlotsMatchSockets, Sessions, Backlog, Ranked, Ready, Down
<1>3. Loop'
  BY DEF StopReturns, Loop, NobodySkipped
<1>4. Mail'
  <2>1. ctrl = <<>>
    BY DEF Inv, Down, StopReturns
  <2> QED BY <2>1 DEF Inv, Mail, StopReturns, ShutdownNotLost
<1> QED BY <1>1, <1>2, <1>3, <1>4 DEF Inv
LEMMA AppQueuesStep == Inv /\ AppQueues => Inv'
<1> SUFFICES ASSUME Inv, AppQueues PROVE Inv'
  OBVIOUS
<1> USE DEF callerVars, sessionVars, passVars, clientVars
<1>1. PICK m \in Messages : m.kind # "shutdown" /\ ctrl' = Posted(m)
  <2>1. CASE ctrl' = Posted(Work)
    BY <2>1, MessagesTyped DEF Inv, Work
  <2>2. CASE \E c \in Sessions : ctrl' = Posted(Close(SlotOf(c)))
    <3>1. PICK i \in Slots : slots[i] # None /\ ctrl' = Posted(Close(SlotOf(slots[i])))
      BY <2>2 DEF Sessions
    <3>2. SlotOf(slots[i]) = i
      BY <3>1, SlotOfIt DEF Inv, TypeOK, SlotsMatchSockets, SlotsTyped, OneSlotEach
    <3> QED BY <3>1, <3>2, MessagesTyped DEF Inv, Close
  <2> QED BY <2>1, <2>2 DEF AppQueues
<1>2. ctrl' \in Seq(Messages) /\ Len(ctrl') <= Mailbox /\ (ctrl # <<>> => ctrl' # <<>>)
  BY <1>1, PostedKeeps DEF Inv, TypeOK
<1>3. TypeOK'
  BY <1>2 DEF Inv, AppQueues, TypeOK
<1>4. SlotsMatchSockets' /\ Backlog' /\ Ranked' /\ Ready'
  BY <1>2 DEF Inv, AppQueues, SlotsMatchSockets, Sessions, Backlog, Ranked, Ready
<1>7. Down'
  <2>1. pc \notin {"none", "exit", "stopped"} /\ caller = "running"
    BY DEF Inv, AppQueues, Down
  <2>2. \A k \in 1..Len(ctrl) : ctrl[k].kind # "shutdown"
    BY <2>1 DEF Inv, Down
  <2>3. \A k \in 1..Len(ctrl') : ctrl'[k].kind # "shutdown"
    BY <1>1, <2>2, PostedKeeps DEF Inv, TypeOK
  <2> QED BY <2>1, <2>3 DEF AppQueues, Down
<1>5. Loop'
  BY DEF Inv, AppQueues, Loop, At, NobodySkipped, Sessions
<1>6. Mail'
  BY DEF AppQueues, Mail
<1> QED BY <1>3, <1>4, <1>5, <1>6, <1>7 DEF Inv

LEMMA SelectStep == Inv /\ Select => Inv'
<1> SUFFICES ASSUME Inv, Select PROVE Inv'
  OBVIOUS
<1> USE DEF callerVars, sessionVars, passVars, clientVars
<1>1. TypeOK'
  <2>1. readSet' \in SUBSET Conns
    BY DEF Inv, TypeOK, Select, Readable, Sessions
  <2>2. ctrlSet' \in BOOLEAN /\ listenSet' \in BOOLEAN
    BY DEF Select, CtrlReady
  <2> QED BY <2>1, <2>2 DEF Inv, Select, TypeOK
<1>2. SlotsMatchSockets' /\ Backlog' /\ Ranked' /\ Down'
  BY DEF Inv, Select, SlotsMatchSockets, Sessions, Backlog, Ranked, Down
<1>5. /\ ctrlSet' => ctrl # <<>>
      /\ ctrl # <<>> => ctrlSet'
      /\ listenSet' => backlog # <<>>
  BY Zenon DEF Select, CtrlReady
<1>6. Ready'
  BY <1>5 DEF Select, Ready
<1>3. Loop'
  BY DEF Select, Loop, NobodySkipped
<1>4. Mail'
  <2> SUFFICES ASSUME ~Works PROVE Mail'
    BY DEF Mail
  <2>1. \A k \in 1..Len(ctrl) : ctrlSet'
    BY <1>5 DEF Inv, TypeOK
  <2> QED BY <2>1 DEF Inv, Mail, Select, ShutdownNotLost
<1> QED BY <1>1, <1>2, <1>3, <1>4, <1>6 DEF Inv

(* The start of a pass: the loop is before the first slot, nobody is done. *)
LEMMA PassStarts == fd = None /\ done = {} => At(0)
BY ServerAssumption DEF At, Slots

LEMMA ProcessCtrlStep == Inv /\ ProcessCtrl => Inv'
<1> SUFFICES ASSUME Inv, ProcessCtrl PROVE Inv'
  OBVIOUS
<1> USE DEF callerVars, sessionVars, passVars, clientVars
<1>1. Loop'
  <2>1. At(0)' /\ 0 \in 0..MaxOpenSockets
    BY PassStarts, ServerAssumption DEF ProcessCtrl, At, Slots
  <2>2. pc' \in {"sessions", "exit"}
    BY DEF ProcessCtrl
  <2> QED BY <2>1, <2>2 DEF Loop, NobodySkipped
<1>2. CASE ~ctrlSet
  <2>1. TypeOK'
    BY <1>2 DEF Inv, ProcessCtrl, TypeOK
  <2>2. SlotsMatchSockets' /\ Backlog' /\ Ranked' /\ Ready' /\ Down'
    BY <1>2 DEF Inv, ProcessCtrl, SlotsMatchSockets, Sessions, Backlog, Ranked, Ready, Down
  <2>3. Mail'
    BY <1>2 DEF Inv, ProcessCtrl, Mail, ShutdownNotLost
  <2> QED BY <1>1, <2>1, <2>2, <2>3 DEF Inv
<1>3. CASE ctrlSet
  <2> DEFINE m == Head(ctrl)
  <2>1. ctrl # <<>> /\ ctrl \in Seq(Messages) /\ ctrl' = Tail(ctrl)
    BY <1>3 DEF Inv, Ready, TypeOK, ProcessCtrl
  <2>2. /\ m \in Messages /\ m = ctrl[1] /\ 1 \in 1..Len(ctrl)
        /\ ctrl' \in Seq(Messages) /\ Len(ctrl') = Len(ctrl) - 1
        /\ \A k \in 1..Len(ctrl') : k + 1 \in 1..Len(ctrl) /\ ctrl'[k] = ctrl[k + 1]
    BY <2>1
  <2>3. m.slot \in Slots /\ m.kind \in {"close", "work", "shutdown"}
    BY <2>2 DEF Messages
  <2>4. Len(ctrl') <= Mailbox
    BY <2>1, <2>2, ServerAssumption DEF Inv, TypeOK
  <2>5. Len(ctrl) \in Nat /\ Len(ctrl') \in Nat
    BY <2>1, <2>2
  <2>6. ~Works => \A k \in 1..Len(ctrl') :
            /\ m.kind = "shutdown" => ctrl'[k].kind = "close"
            /\ m.kind = "close" => ctrl'[k].kind = "shutdown"
            /\ \A j \in 1..Len(ctrl') : ctrl'[j].kind = ctrl'[k].kind => j = k
    <3> HIDE DEF m
    <3> SUFFICES ASSUME ~Works, NEW k \in 1..Len(ctrl')
                 PROVE  /\ m.kind = "shutdown" => ctrl'[k].kind = "close"
                        /\ m.kind = "close" => ctrl'[k].kind = "shutdown"
                        /\ \A j \in 1..Len(ctrl') : ctrl'[j].kind = ctrl'[k].kind => j = k
      OBVIOUS
    <3>1. \A i, j \in 1..Len(ctrl) : ctrl[j].kind = ctrl[i].kind => j = i
      BY DEF Inv, Mail
    <3>2. \A i \in 1..Len(ctrl) : ctrl[i].kind \in {"shutdown", "close"}
      BY DEF Inv, Mail
    <3>3. k + 1 # 1 /\ k + 1 \in 1..Len(ctrl) /\ ctrl'[k] = ctrl[k + 1] /\ m = ctrl[1] /\ k \in Nat
      BY <2>2, <2>5
    <3>4. m.kind # ctrl'[k].kind
      BY <2>2, <3>1, <3>3
    <3>5. \A j \in 1..Len(ctrl') : ctrl'[j].kind = ctrl'[k].kind => j = k
      BY <2>2, <2>5, <3>1, <3>3
    <3> QED BY <3>2, <3>3, <3>4, <3>5
  <2>8. Down'
    <3>1. pc \notin {"none", "exit", "stopped"} /\ caller' = caller
      BY DEF ProcessCtrl
    <3>2. pc' = "sessions" \/ (pc' = "exit" /\ m.kind = "shutdown")
      BY <1>3 DEF ProcessCtrl
    <3>3. \A k \in 1..Len(ctrl') : ctrl'[k].kind = "shutdown" => caller = "stopping"
      BY <2>2 DEF Inv, Down
    <3> QED BY <2>2, <3>1, <3>2, <3>3 DEF Inv, ProcessCtrl, Down
  <2>7. CASE m.kind = "shutdown" /\ pc' = "exit" /\ UNCHANGED <<sessionVars, clientVars>>
    <3>1. TypeOK'
      BY <2>2, <2>4, <2>7 DEF Inv, ProcessCtrl, TypeOK
    <3>2. SlotsMatchSockets' /\ Backlog' /\ Ranked' /\ Ready'
      BY <2>7 DEF Inv, ProcessCtrl, SlotsMatchSockets, Sessions, Backlog, Ranked, Ready
    <3>3. Mail'
      <4> SUFFICES ASSUME ~Works PROVE Mail'
        BY DEF Mail
      <4> QED BY <2>6, <2>7 DEF ProcessCtrl, Mail, ShutdownNotLost
    <3> QED BY <1>1, <2>8, <3>1, <3>2, <3>3 DEF Inv
  <2>9. CASE m.kind = "close" /\ slots[m.slot] # None /\ pc' = "sessions" /\ CloseSession(slots[m.slot])
    <3> HIDE DEF m
    <3>1. /\ slots' \in [Slots -> Conns \cup {None}]
          /\ peer' \in [Conns -> {"away", "waiting", "open", "left"}]
          /\ inbox' \in [Conns -> Requests \cup {"none", "request"}]
          /\ served' \in Seq(Conns)
          /\ SlotsMatchSockets' /\ Backlog' /\ Ranked'
      BY <2>3, <2>9, CloseSessionKeeps DEF Inv
    <3>2. /\ lru' = lru /\ counted' = counted /\ pending' = pending /\ backlog' = backlog
      BY <2>9 DEF CloseSession
    <3>3. TypeOK'
      BY <2>2, <2>4, <3>1, <3>2 DEF Inv, ProcessCtrl, TypeOK
    <3>4. Ready'
      BY <2>9, <3>2 DEF Inv, ProcessCtrl, Ready
    <3>5. Mail'
      BY <2>6, <2>9 DEF Inv, ProcessCtrl, Mail, ShutdownNotLost
    <3> QED BY <1>1, <2>8, <3>1, <3>3, <3>4, <3>5 DEF Inv
  <2>10. CASE /\ m.kind = "work" \/ (m.kind = "close" /\ slots[m.slot] = None)
              /\ pc' = "sessions" /\ UNCHANGED <<sessionVars, clientVars>>
    <3> HIDE DEF m
    <3>1. TypeOK'
      BY <2>2, <2>4, <2>10 DEF Inv, ProcessCtrl, TypeOK
    <3>2. SlotsMatchSockets' /\ Backlog' /\ Ranked' /\ Ready'
      BY <2>10 DEF Inv, ProcessCtrl, SlotsMatchSockets, Sessions, Backlog, Ranked, Ready
    <3>3. Mail'
      <4> SUFFICES ASSUME ~Works PROVE Mail'
        BY DEF Mail
      <4>1. m.kind = "close"
        BY <2>2, <2>10 DEF Inv, Mail
      <4> QED BY <2>2, <2>5, <2>6, <2>10, <4>1 DEF Inv, ProcessCtrl, Mail, ShutdownNotLost
    <3> QED BY <1>1, <2>8, <3>1, <3>2, <3>3 DEF Inv
  <2> QED BY <1>3, <2>7, <2>9, <2>10 DEF ProcessCtrl
<1> QED BY <1>2, <1>3
-----------------------------------------------------------------------------
(* The loop is at slot p and looks at the session in slot q, which is the  *)
(* next one, or the same while the rest of a body is purged.               *)
Reached(p, q) ==
    /\ p \in 0..MaxOpenSockets /\ At(p)
    /\ q \in Slots /\ slots[q] # None /\ p <= q
    /\ \A i \in Slots : p < i /\ i < q => slots[i] = None

LEMMA SucceedStep ==
    ASSUME Inv, pc \in {"sessions", "purge"}, NEW p, NEW q, Reached(p, q), Succeed(slots[q]),
           done' = done \cup {slots[q]} \/ (done' = done /\ p = q),
           pending' \in [Slots -> BOOLEAN],
           inbox' \in [Conns -> Requests \cup {"none", "request"}],
           UNCHANGED <<callerVars, passVars, ctrl>>
    PROVE  Inv'
<1> USE DEF callerVars, passVars
<1> DEFINE c == slots[q]
<1>1. /\ lru' \in [Slots -> 0..MaxOpenSockets]
      /\ served' \in Seq(Conns)
      /\ SlotsMatchSockets' /\ Ranked'
  BY SucceedKeeps DEF Inv, Reached
<1>2. /\ slots' = slots /\ peer' = peer /\ backlog' = backlog
      /\ fd' = c /\ pc' = "sessions" /\ counted' = TRUE
  BY DEF Succeed
<1>3. q \in Slots /\ c \in Conns /\ c # None
  BY DEF Inv, TypeOK, Reached
<1>4. TypeOK'
  BY <1>1, <1>2, <1>3 DEF Inv, TypeOK
<1>5. Ready' /\ Backlog' /\ Down' /\ Mail'
  BY <1>2 DEF Inv, Ready, Backlog, Down, Mail, ShutdownNotLost
<1>6. Loop'
  <2>1. \A i \in Slots : slots[i] = c => i = q
    BY <1>3 DEF Inv, SlotsMatchSockets
  <2>2. p \in Int /\ q \in 1..MaxOpenSockets /\ p <= q
    BY ServerAssumption DEF Reached, Slots
  <2>3. ASSUME NEW i \in Slots, slots[i] # None, i <= q, slots[i] \in readSet
        PROVE  slots[i] \in done'
    <3>1. CASE i = q /\ done' = done \cup {c}
      BY <3>1
    <3>2. CASE ~(i = q /\ done' = done \cup {c})
      <4>1. i <= p
        BY <2>2, <2>3, <3>2 DEF Reached, Slots
      <4> QED BY <2>3, <4>1 DEF Reached, At
    <3> QED BY <3>1, <3>2
  <2>4. ASSUME NEW i \in Slots, slots[i] # None, i > q
        PROVE  slots[i] \notin done'
    <3>1. i > p /\ slots[i] # c
      BY <2>1, <2>2, <2>4 DEF Slots
    <3>2. slots[i] \notin done
      BY <2>4, <3>1 DEF Reached, At
    <3> QED BY <3>1, <3>2
  <2>5. At(q)'
    BY <1>2, <1>3, <2>2, <2>3, <2>4 DEF At
  <2>6. q \in 0..MaxOpenSockets
    BY <2>2
  <2> QED BY <1>2, <2>5, <2>6 DEF Loop, NobodySkipped
<1> QED BY <1>1, <1>4, <1>5, <1>6 DEF Inv

LEMMA FailStep ==
    ASSUME Inv, pc \in {"sessions", "purge"}, NEW p, NEW q, Reached(p, q), Fail(slots[q]),
           done' = done \cup {slots[q]} \/ done' = done,
           UNCHANGED <<callerVars, passVars, ctrl>>
    PROVE  Inv'
<1> USE DEF callerVars, passVars
<1> DEFINE c == slots[q]
<1>1. /\ slots' = [slots EXCEPT ![q] = None]
      /\ slots' \in [Slots -> Conns \cup {None}]
      /\ peer' \in [Conns -> {"away", "waiting", "open", "left"}]
      /\ inbox' \in [Conns -> Requests \cup {"none", "request"}]
      /\ served' \in Seq(Conns)
      /\ SlotsMatchSockets' /\ Backlog' /\ Ranked'
  BY CloseSessionKeeps DEF Inv, Reached, Fail
<1>2. /\ fd' = Preceding(c) /\ pc' = "sessions"
      /\ lru' = lru /\ counted' = counted /\ pending' = pending /\ backlog' = backlog
  BY DEF Fail, CloseSession
<1>3. q \in Slots /\ c \in Conns /\ c # None
  BY DEF Inv, TypeOK, Reached
<1>4. PICK n \in 0..MaxOpenSockets :
             /\ n < q
             /\ IF n = 0 THEN fd' = None
                         ELSE slots[n] = fd' /\ slots[n] # None
             /\ \A i \in Slots : n < i /\ i < q => slots[i] = None
  BY <1>2, <1>3, PrecedingIsLast DEF Inv, TypeOK, SlotsMatchSockets, SlotsTyped, OneSlotEach
<1>5. n \in Int /\ p \in Int /\ q \in 1..MaxOpenSockets /\ p <= q /\ (n # 0 => n \in Slots)
  BY ServerAssumption DEF Reached, Slots
<1>6. TypeOK'
  <2>1. fd' \in Conns \cup {None}
    BY <1>4, <1>5 DEF Inv, TypeOK
  <2> QED BY <1>1, <1>2, <1>3, <2>1 DEF Inv, TypeOK
<1>7. Ready' /\ Down' /\ Mail'
  BY <1>2 DEF Inv, Ready, Down, Mail, ShutdownNotLost
<1>8. Loop'
  <2>1. \A i \in Slots : slots'[i] # None => i # q /\ slots'[i] = slots[i] /\ slots[i] # c
    BY <1>1, <1>3 DEF Inv, TypeOK, SlotsMatchSockets
  <2>2. ASSUME NEW i \in Slots, slots'[i] # None, i <= n, slots'[i] \in readSet
        PROVE  slots'[i] \in done'
    <3>1. i < q /\ slots[i] # None
      BY <1>4, <1>5, <2>1, <2>2 DEF Slots
    <3>2. i <= p
      BY <1>5, <3>1 DEF Reached, Slots
    <3> QED BY <2>1, <2>2, <3>2 DEF Reached, At
  <2>3. ASSUME NEW i \in Slots, slots'[i] # None, i > n
        PROVE  slots'[i] \notin done'
    <3>1. i > q
      BY <1>4, <1>5, <2>1, <2>3 DEF Slots
    <3>2. i > p
      BY <1>5, <3>1 DEF Slots
    <3>3. slots[i] \notin done /\ slots[i] # c /\ slots'[i] = slots[i]
      BY <2>1, <2>3, <3>2 DEF Reached, At
    <3> QED BY <3>3
  <2>4. n # 0 => slots'[n] = fd' /\ fd' # None
    BY <1>1, <1>4, <1>5 DEF Inv, TypeOK
  <2>5. At(n)'
    BY <1>4, <2>2, <2>3, <2>4 DEF At
  <2> QED BY <1>2, <2>5 DEF Loop, NobodySkipped
<1> QED BY <1>1, <1>6, <1>7, <1>8 DEF Inv
LEMMA SessionStep == Inv /\ Session => Inv'
<1> SUFFICES ASSUME Inv, Session PROVE Inv'
  OBVIOUS
<1> USE DEF callerVars, sessionVars, passVars, clientVars
<1>1. PICK p \in 0..MaxOpenSockets : At(p)
  BY DEF Inv, Loop, Session
<1>2. \/ After(fd) = None /\ \A i \in Slots : i > p => slots[i] = None
      \/ \E n \in Slots : /\ n > p /\ slots[n] = After(fd) /\ After(fd) # None
                          /\ \A i \in Slots : p < i /\ i < n => slots[i] = None
  <2>1. IF p = 0 THEN fd = None ELSE fd # None /\ slots[p] = fd
    BY <1>1 DEF At
  <2> QED BY <2>1, AfterIsNext DEF Inv, TypeOK, SlotsMatchSockets, SlotsTyped, OneSlotEach
<1>3. CASE After(fd) = None /\ \A i \in Slots : i > p => slots[i] = None
  <2>1. /\ pc = "sessions" /\ pc' = "accept"
        /\ UNCHANGED <<fd, done, slots, lru, counted, pending, served, peer, inbox, backlog,
                       caller, lruPurge, readSet, ctrlSet, listenSet, ctrl>>
    BY <1>3 DEF Session
  <2>2. TypeOK'
    BY <2>1 DEF Inv, TypeOK
  <2>3. SlotsMatchSockets' /\ Backlog' /\ Ranked' /\ Ready' /\ Down' /\ Mail'
    BY <2>1 DEF Inv, SlotsMatchSockets, Sessions, Backlog, Ranked, Ready, Down, Mail, ShutdownNotLost
  <2>4. \A c \in readSet \cap Sessions : c \in done
    <3> SUFFICES ASSUME NEW c \in readSet \cap Sessions PROVE c \in done
      OBVIOUS
    <3>1. PICK i \in Slots : slots[i] = c /\ c # None
      BY DEF Sessions
    <3>2. i <= p
      BY <1>3, <3>1, ServerAssumption DEF Slots
    <3> QED BY <1>1, <3>1, <3>2 DEF At
  <2>5. Loop'
    BY <2>1, <2>4 DEF Loop, NobodySkipped, Sessions
  <2> QED BY <2>2, <2>3, <2>5 DEF Inv
<1>4. ASSUME NEW n \in Slots, n > p, slots[n] = After(fd), After(fd) # None,
             \A i \in Slots : p < i /\ i < n => slots[i] = None
      PROVE  Inv'
  <2> DEFINE c == slots[n]
  <2>1. Reached(p, n) /\ c # None /\ c \in Conns
    BY <1>1, <1>4, ServerAssumption DEF Reached, Inv, TypeOK, Slots
  <2>2. SlotOf(c) = n
    BY <2>1, SlotOfIt DEF Inv, TypeOK, SlotsMatchSockets, SlotsTyped, OneSlotEach
  <2>3. CASE /\ c \notin readSet /\ fd' = c
             /\ UNCHANGED <<pc, done, sessionVars, clientVars>>
    <3>1. pc = "sessions" /\ UNCHANGED <<callerVars, passVars, ctrl>>
      BY DEF Session
    <3>2. TypeOK'
      BY <2>1, <2>3, <3>1 DEF Inv, TypeOK
    <3>3. SlotsMatchSockets' /\ Backlog' /\ Ranked' /\ Ready' /\ Down' /\ Mail'
      BY <2>3, <3>1 DEF Inv, SlotsMatchSockets, Sessions, Backlog, Ranked, Ready, Down, Mail, ShutdownNotLost
    <3>4. \A i \in Slots : slots[i] # None =>
             /\ i <= n /\ slots[i] \in readSet => slots[i] \in done
             /\ i > n => slots[i] \notin done
      <4> SUFFICES ASSUME NEW i \in Slots, slots[i] # None
                   PROVE  /\ i <= n /\ slots[i] \in readSet => slots[i] \in done
                          /\ i > n => slots[i] \notin done
        OBVIOUS
      <4>1. i <= p \/ i = n \/ i > n
        BY <1>4, ServerAssumption DEF Slots
      <4>2. i > n => i > p
        BY <1>4, ServerAssumption DEF Slots
      <4>3. i = n => slots[i] \notin readSet
        BY <2>3
      <4>4. i > n => ~(i <= n)
        BY ServerAssumption DEF Slots
      <4> QED BY <1>1, <4>1, <4>2, <4>3, <4>4 DEF At
    <3>5. At(n)' /\ n \in 0..MaxOpenSockets /\ n # 0
      BY <2>1, <2>3, <3>1, <3>4, ServerAssumption DEF At, Slots
    <3>6. Loop'
      BY <2>3, <3>1, <3>5 DEF Loop, NobodySkipped
    <3> QED BY <3>2, <3>3, <3>6 DEF Inv
  <2>4. CASE Process(c)
    <3>1. /\ pc = "sessions" /\ UNCHANGED <<callerVars, passVars, ctrl>>
          /\ done' = done \cup {c}
      BY <2>4 DEF Session, Process
    <3>2. CASE Fail(c)
      BY <2>1, <3>1, <3>2, FailStep
    <3>3. ASSUME Succeed(c), pending' \in [Slots -> BOOLEAN],
                 inbox' \in [Conns -> Requests \cup {"none", "request"}]
          PROVE  Inv'
      BY <2>1, <3>1, <3>3, SucceedStep
    <3>4. CASE pending' = [pending EXCEPT ![n] = FALSE] /\ inbox' = inbox /\ Succeed(c)
      BY <3>3, <3>4 DEF Inv, TypeOK
    <3>5. CASE inbox' = [inbox EXCEPT ![c] = "none"] /\ pending' = pending /\ Succeed(c)
      BY <2>1, <3>3, <3>5 DEF Inv, TypeOK
    <3>6. CASE /\ \/ inbox' = [inbox EXCEPT ![c] = "none"] /\ pending' = [pending EXCEPT ![n] = TRUE]
                  \/ inbox' = [inbox EXCEPT ![c] = "request"] /\ pending' = pending
               /\ Succeed(c)
      BY <2>1, <3>3, <3>6 DEF Inv, TypeOK
    <3>7. CASE /\ inbox' = [inbox EXCEPT ![c] = "none"] /\ pc' = "purge" /\ fd' = c
               /\ UNCHANGED <<sessionVars, peer, backlog>>
      <4>1. TypeOK'
        BY <2>1, <3>1, <3>7 DEF Inv, TypeOK
      <4>2. SlotsMatchSockets' /\ Backlog' /\ Ranked' /\ Ready' /\ Down' /\ Mail'
        BY <3>1, <3>7 DEF Inv, SlotsMatchSockets, Sessions, Backlog, Ranked, Ready, Down, Mail, ShutdownNotLost
      <4>3. \A i \in Slots : slots[i] # None =>
             /\ i <= n /\ slots[i] \in readSet => slots[i] \in done'
             /\ i > n => slots[i] \notin done'
        <5> SUFFICES ASSUME NEW i \in Slots, slots[i] # None
                     PROVE  /\ i <= n /\ slots[i] \in readSet => slots[i] \in done'
                            /\ i > n => slots[i] \notin done'
          OBVIOUS
        <5>1. i <= p \/ i = n \/ i > n
          BY <1>4, ServerAssumption DEF Slots
        <5>2. i > n => i > p /\ ~(i <= n) /\ slots[i] # c
          BY <1>4, ServerAssumption DEF Slots, Inv, SlotsMatchSockets
        <5> QED BY <1>1, <3>1, <5>1, <5>2 DEF At
      <4>4. At(n)' /\ n \in 0..MaxOpenSockets
        BY <2>1, <3>1, <3>7, <4>3, ServerAssumption DEF At, Slots
      <4>5. Loop'
        BY <2>1, <3>7, <4>4 DEF Loop, NobodySkipped
      <4> QED BY <4>1, <4>2, <4>5 DEF Inv
    <3> QED BY <2>2, <2>4, <3>2, <3>4, <3>5, <3>6, <3>7 DEF Process
  <2> QED BY <1>4, <2>1, <2>3, <2>4 DEF Session
<1> QED BY <1>2, <1>3, <1>4

LEMMA PurgeStep == Inv /\ Purge => Inv'
<1> SUFFICES ASSUME Inv, Purge PROVE Inv'
  OBVIOUS
<1>1. pc = "purge" /\ UNCHANGED <<callerVars, passVars, ctrl>> /\ done' = done
  BY DEF Purge
<1>2. PICK q \in Slots : Reached(q, q) /\ slots[q] = fd
  BY <1>1, ServerAssumption DEF Inv, Loop, At, Reached, Slots
<1>3. CASE inbox' = inbox /\ pending' = pending /\ Succeed(fd)
  <2>1. /\ pending' \in [Slots -> BOOLEAN]
        /\ inbox' \in [Conns -> Requests \cup {"none", "request"}]
    BY <1>3 DEF Inv, TypeOK
  <2> QED BY <1>1, <1>2, <1>3, <2>1, SucceedStep
<1>4. CASE Fail(fd)
  BY <1>1, <1>2, <1>4, FailStep
<1> QED BY <1>3, <1>4 DEF Purge
LEMMA AcceptStep == Inv /\ Accept => Inv'
<1> SUFFICES ASSUME Inv, Accept PROVE Inv'
  OBVIOUS
<1> USE DEF callerVars
<1>1. /\ pc = "accept" /\ pc' = "select" /\ caller' = caller /\ lruPurge' = lruPurge
      /\ readSet' = {} /\ ctrlSet' = FALSE /\ listenSet' = FALSE /\ fd' = None /\ done' = {}
  BY DEF Accept
<1>2. Loop'
  BY <1>1 DEF Loop, NobodySkipped
<1>3. CASE UNCHANGED <<sessionVars, clientVars, ctrl>>
  <2>1. /\ UNCHANGED <<slots, lru, counted, pending, served, peer, inbox, backlog, ctrl>>
    BY <1>3 DEF sessionVars, clientVars
  <2>2. TypeOK'
    BY <1>1, <2>1 DEF Inv, TypeOK
  <2>3. SlotsMatchSockets' /\ Backlog' /\ Ranked' /\ Ready' /\ Down' /\ Mail'
    BY <1>1, <2>1 DEF Inv, SlotsMatchSockets, Sessions, Backlog, Ranked, Ready, Down, Mail, ShutdownNotLost
  <2> QED BY <1>2, <2>2, <2>3 DEF Inv
<1>4. CASE listenSet /\ Free # {} /\ AcceptInto(First(Free))
  <2> DEFINE n == First(Free)
             c == Head(backlog)
  <2>1. n \in Slots /\ slots[n] = None
    <3>1. Free \in SUBSET Slots
      BY DEF Free
    <3>2. First(Free) \in Free
      BY <1>4, <3>1, FirstSlot
    <3> QED BY <3>2 DEF Free
  <2>2. backlog # <<>> /\ backlog \in Seq(Conns)
    BY <1>4 DEF Inv, Ready, TypeOK
  <2>3. /\ c \in Conns /\ c = backlog[1] /\ 1 \in 1..Len(backlog)
        /\ Tail(backlog) \in Seq(Conns) /\ Len(Tail(backlog)) = Len(backlog) - 1
        /\ \A k \in 1..Len(Tail(backlog)) : k + 1 \in 1..Len(backlog) /\ Tail(backlog)[k] = backlog[k + 1]
    BY <2>2
  <2>4. c # None /\ peer[c] = "waiting"
    BY <2>3, ServerAssumption DEF Inv, Backlog
  <2>5. /\ backlog' = Tail(backlog) /\ slots' = [slots EXCEPT ![n] = c]
        /\ lru' = [lru EXCEPT ![n] = 0] /\ pending' = [pending EXCEPT ![n] = FALSE]
        /\ peer' = [peer EXCEPT ![c] = "open"]
        /\ UNCHANGED <<counted, served, inbox, ctrl>>
    BY <1>4 DEF AcceptInto
  <2> HIDE DEF n, c
  <2>6. TypeOK'
    <3>1. 0 \in 0..MaxOpenSockets
      BY ServerAssumption
    <3> QED BY <1>1, <2>1, <2>3, <2>5, <3>1 DEF Inv, TypeOK
  <2>7. c \notin Sessions
    BY <2>4 DEF Inv, SlotsMatchSockets
  <2>8. \A i \in Slots : slots[i] # c
    BY <2>4, <2>7 DEF Sessions
  <2>9. Sessions' = Sessions \cup {c}
    <3>1. \A d : d \in Sessions' <=> d # None /\ \E i \in Slots : slots'[i] = d
      BY DEF Sessions
    <3>2. \A d : d \in Sessions <=> d # None /\ \E i \in Slots : slots[i] = d
      BY DEF Sessions
    <3>3. \A i \in Slots : slots'[i] = IF i = n THEN c ELSE slots[i]
      BY <2>5 DEF Inv, TypeOK
    <3> QED BY <2>1, <2>4, <3>1, <3>2, <3>3
  <2>10. SlotsMatchSockets'
    <3>1. \A i, j \in Slots : slots'[i] = slots'[j] /\ slots'[i] # None => i = j
      BY <2>1, <2>5, <2>8 DEF Inv, SlotsMatchSockets, TypeOK
    <3>2. Sessions' = {d \in Conns : peer'[d] \in {"open", "left"}}
      BY <2>3, <2>5, <2>9 DEF Inv, SlotsMatchSockets, TypeOK
    <3> QED BY <3>1, <3>2 DEF SlotsMatchSockets
  <2>11. Backlog'
    <3>1. Len(backlog) \in Nat
      BY <2>2
    <3>2. \A j, k \in 1..Len(backlog') : backlog'[j] = backlog'[k] => j = k
      <4>1. \A j, k \in 1..Len(backlog) : backlog[j] = backlog[k] => j = k
        BY DEF Inv, Backlog
      <4> QED BY <2>3, <2>5, <3>1, <4>1
    <3>3. ASSUME NEW k \in 1..Len(backlog')
          PROVE  peer'[backlog'[k]] = "waiting"
      <4>1. k + 1 \in 1..Len(backlog) /\ backlog'[k] = backlog[k + 1] /\ k + 1 # 1
        BY <2>3, <2>5, <3>1
      <4>2. peer[backlog[k + 1]] = "waiting" /\ backlog[k + 1] # c /\ backlog[k + 1] \in Conns
        BY <2>2, <2>3, <4>1 DEF Inv, Backlog
      <4> QED BY <2>5, <4>1, <4>2 DEF Inv, TypeOK
    <3> QED BY <3>2, <3>3 DEF Backlog
  <2>12. Ranked'
    <3>1. \A k \in 1..Len(served) : served[k] \in Sessions
      BY DEF Inv, Ranked
    <3>2. ASSUME NEW j \in 1..Len(served), NEW k \in 1..Len(served), NEW h \in Slots, NEW i \in Slots,
                 j < k, slots'[h] = served[j], slots'[i] = served[k]
          PROVE  lru'[h] < lru'[i]
      <4>1. h # n /\ i # n
        BY <2>1, <2>5, <2>7, <3>1, <3>2 DEF Inv, TypeOK
      <4>2. slots[h] = served[j] /\ slots[i] = served[k] /\ lru'[h] = lru[h] /\ lru'[i] = lru[i]
        BY <2>5, <3>2, <4>1 DEF Inv, TypeOK
      <4> QED BY <3>2, <4>2 DEF Inv, Ranked
    <3>3. \A k \in 1..Len(served) : served[k] \in Sessions'
      BY <2>9, <3>1
    <3> QED BY <2>5, <3>2, <3>3 DEF Inv, Ranked
  <2>13. Ready' /\ Down' /\ Mail'
    BY <1>1, <2>5 DEF Inv, Ready, Down, Mail, ShutdownNotLost
  <2> QED BY <1>2, <2>6, <2>10, <2>11, <2>12, <2>13 DEF Inv
<1>5. CASE ctrl' = Posted(Close(LruSlot)) /\ UNCHANGED <<sessionVars, clientVars>>
  <2>1. /\ UNCHANGED <<slots, lru, counted, pending, served, peer, inbox, backlog>>
    BY <1>5 DEF sessionVars, clientVars
  <2> DEFINE m == Close(LruSlot)
  <2>2. /\ m \in Messages /\ m.kind = "close" /\ LruSlot \in Slots
        /\ m.slot = LruSlot /\ m.for = slots[LruSlot]
    BY MessagesTyped, LruSlotIsLeast DEF Inv, Close
  <2>3. ctrl \in Seq(Messages) /\ Len(ctrl) <= Mailbox /\ ctrl' = Posted(m)
    BY <1>5 DEF Inv, TypeOK
  <2> HIDE DEF m
  <2>4. /\ ctrl' \in Seq(Messages) /\ Len(ctrl') <= Mailbox
        /\ \A k \in 1..Len(ctrl') : ctrl'[k] = m \/ (k \in 1..Len(ctrl) /\ ctrl'[k] = ctrl[k])
    BY <2>2, <2>3, PostedKeeps
  <2>5. TypeOK'
    BY <1>1, <2>1, <2>4 DEF Inv, TypeOK
  <2>6. SlotsMatchSockets' /\ Backlog' /\ Ranked' /\ Ready'
    BY <1>1, <2>1 DEF Inv, SlotsMatchSockets, Sessions, Backlog, Ranked, Ready
  <2>7. Down'
    <3>1. pc \notin {"none", "exit", "stopped"} /\ pc' \notin {"none", "exit", "stopped"}
      BY <1>1
    <3>2. \A k \in 1..Len(ctrl') : ctrl'[k].kind = "shutdown" => caller = "stopping"
      BY <2>2, <2>4 DEF Inv, Down
    <3> QED BY <1>1, <3>1, <3>2 DEF Inv, Down
  <2>8. Mail'
    <3> SUFFICES ASSUME ~Works PROVE Mail'
      BY DEF Mail
    <3>1. \A k \in 1..Len(ctrl) : ctrl[k].kind = "shutdown"
      BY <1>1 DEF Inv, Mail
    <3>2. \A j, k \in 1..Len(ctrl) : j = k
      BY <3>1 DEF Inv, Mail
    <3>3. CASE ctrl' = ctrl
      BY <1>1, <2>1, <3>1, <3>2, <3>3 DEF Inv, Mail, ShutdownNotLost
    <3>4. CASE /\ Len(ctrl') = Len(ctrl) + 1
               /\ \A k \in 1..Len(ctrl) : ctrl'[k] = ctrl[k]
               /\ ctrl'[Len(ctrl) + 1] = m
      <4>1. Len(ctrl) \in Nat
        BY <2>3
      <4>2. \A k \in 1..Len(ctrl') :
              \/ k \in 1..Len(ctrl) /\ ctrl'[k] = ctrl[k] /\ ctrl'[k].kind = "shutdown"
              \/ k = Len(ctrl) + 1 /\ ctrl'[k] = m /\ ctrl'[k].kind = "close"
        BY <2>2, <3>1, <3>4, <4>1
      <4>3. \A j, k \in 1..Len(ctrl') : ctrl'[j].kind = ctrl'[k].kind => j = k
        BY <3>2, <4>2
      <4>4. \A k \in 1..Len(ctrl') :
              \/ ctrl'[k].kind = "shutdown"
              \/ ctrl'[k].kind = "close" /\ slots'[ctrl'[k].slot] = ctrl'[k].for
        BY <2>1, <2>2, <4>2
      <4>5. Mailbox >= 2 => ShutdownNotLost'
        <5>1. \A k \in 1..Len(ctrl) : k \in 1..Len(ctrl') /\ ctrl'[k] = ctrl[k]
          BY <3>4, <4>1
        <5> QED BY <1>1, <5>1 DEF Inv, Mail, ShutdownNotLost
      <4> QED BY <1>1, <4>3, <4>4, <4>5 DEF Mail
    <3> QED BY <2>2, <2>3, <3>3, <3>4, PostedKeeps
  <2> QED BY <1>2, <2>5, <2>6, <2>7, <2>8 DEF Inv
<1> QED BY <1>3, <1>4, <1>5 DEF Accept, AcceptConn

LEMMA ExitStep == Inv /\ Exit => Inv'
<1> SUFFICES ASSUME Inv, Exit PROVE Inv'
  OBVIOUS
<1> USE DEF callerVars
<1>1. <<>> \in Seq(Messages) /\ <<>> \in Seq(Conns) /\ Len(<<>>) = 0 /\ 0 <= Mailbox
  BY ServerAssumption
<1>2. TypeOK'
  BY <1>1 DEF Inv, Exit, TypeOK
<1>3. SlotsMatchSockets'
  <2>1. Sessions' = {} /\ \A i \in Slots : slots'[i] = None
    BY DEF Exit, Sessions
  <2>2. \A c \in Conns : peer'[c] = "away"
    BY DEF Exit
  <2> QED BY <2>1, <2>2 DEF SlotsMatchSockets
<1>4. Ready' /\ Backlog' /\ Ranked' /\ Loop'
  BY DEF Exit, Ready, Backlog, Ranked, Loop, NobodySkipped
<1>5. Down' /\ Mail'
  BY DEF Inv, Exit, Down, Mail, ShutdownNotLost
<1> QED BY <1>2, <1>3, <1>4, <1>5 DEF Inv

LEMMA ClientStep ==
    ASSUME Inv, NEW c \in Conns, ClientConnects(c) \/ ClientSends(c) \/ ClientLeaves(c)
    PROVE  Inv'
<1> USE DEF callerVars, sessionVars, passVars
<1>1. UNCHANGED <<caller, lruPurge, pc, slots, lru, counted, pending, served,
                  readSet, ctrlSet, listenSet, fd, done, ctrl>>
  BY DEF ClientConnects, ClientSends, ClientLeaves
<1>2. Sessions' = Sessions /\ Ranked' /\ Loop' /\ Mail'
  BY <1>1 DEF Inv, Sessions, Ranked, Loop, At, NobodySkipped, Mail, ShutdownNotLost
<1>3. CASE ClientConnects(c)
  <2>1. /\ peer[c] = "away" /\ ServerOpen /\ inbox' = inbox
        /\ peer' = [peer EXCEPT ![c] = "waiting"] /\ backlog' = Append(backlog, c)
    BY <1>3 DEF ClientConnects
  <2>2. /\ backlog \in Seq(Conns) /\ backlog' \in Seq(Conns) /\ Len(backlog) \in Nat
        /\ Len(backlog') = Len(backlog) + 1 /\ backlog'[Len(backlog) + 1] = c
        /\ \A k \in 1..Len(backlog) : backlog'[k] = backlog[k] /\ backlog[k] \in Conns
    BY <2>1 DEF Inv, TypeOK
  <2>3. \A k \in 1..Len(backlog) : backlog[k] # c
    BY <2>1 DEF Inv, Backlog
  <2>4. TypeOK'
    BY <1>1, <2>1, <2>2 DEF Inv, TypeOK
  <2>5. SlotsMatchSockets'
    BY <1>1, <1>2, <2>1 DEF Inv, SlotsMatchSockets, TypeOK
  <2>6. Backlog'
    <3>1. \A j, k \in 1..Len(backlog') : backlog'[j] = backlog'[k] => j = k
      <4>1. \A j, k \in 1..Len(backlog) : backlog[j] = backlog[k] => j = k
        BY DEF Inv, Backlog
      <4> QED BY <2>2, <2>3, <4>1
    <3>2. \A k \in 1..Len(backlog') : peer'[backlog'[k]] = "waiting"
      <4>1. \A k \in 1..Len(backlog) : peer[backlog[k]] = "waiting"
        BY DEF Inv, Backlog
      <4> QED BY <2>1, <2>2, <2>3, <4>1 DEF Inv, TypeOK
    <3> QED BY <3>1, <3>2 DEF Backlog
  <2>7. Ready' /\ Down'
    <3>1. backlog' # <<>>
      BY <2>2
    <3> QED BY <1>1, <2>1, <3>1 DEF Inv, Ready, Down, ServerOpen
  <2> QED BY <1>2, <2>4, <2>5, <2>6, <2>7 DEF Inv
<1>4. CASE ClientSends(c)
  <2>1. TypeOK'
    BY <1>1, <1>4 DEF Inv, TypeOK, ClientSends
  <2>2. SlotsMatchSockets' /\ Backlog' /\ Ready' /\ Down'
    BY <1>1, <1>2, <1>4 DEF Inv, ClientSends, SlotsMatchSockets, Backlog, Ready, Down
  <2> QED BY <1>2, <2>1, <2>2 DEF Inv
<1>5. CASE ClientLeaves(c)
  <2>1. TypeOK'
    BY <1>1, <1>5 DEF Inv, TypeOK, ClientLeaves
  <2>2. SlotsMatchSockets'
    BY <1>1, <1>2, <1>5 DEF Inv, ClientLeaves, SlotsMatchSockets, TypeOK
  <2>3. Backlog'
    BY <1>5 DEF Inv, ClientLeaves, Backlog, TypeOK
  <2>4. Ready' /\ Down'
    BY <1>1, <1>5 DEF Inv, ClientLeaves, Ready, Down
  <2> QED BY <1>2, <2>1, <2>2, <2>3, <2>4 DEF Inv
<1> QED BY <1>3, <1>4, <1>5

LEMMA NextInv == Inv /\ [Next]_vars => Inv'
<1> SUFFICES ASSUME Inv, [Next]_vars PROVE Inv'
  OBVIOUS
<1>1. CASE UNCHANGED vars
  <2> USE <1>1 DEF vars
  <2>1. TypeOK' /\ SlotsMatchSockets' /\ Ready' /\ Backlog'
    BY DEF Inv, TypeOK, SlotsMatchSockets, Sessions, Ready, Backlog
  <2>2. Down' /\ Loop' /\ Ranked' /\ Mail'
    BY DEF Inv, Down, Loop, At, NobodySkipped, Ranked, Sessions, Mail, ShutdownNotLost
  <2> QED BY <2>1, <2>2 DEF Inv
<1>2. CASE Start \/ Stop \/ StopReturns \/ AppQueues
  BY <1>2, StartStep, StopStep, StopReturnsStep, AppQueuesStep
<1>3. CASE Server
  BY <1>3, SelectStep, ProcessCtrlStep, SessionStep, PurgeStep, AcceptStep, ExitStep DEF Server
<1>4. CASE \E c \in Conns : ClientConnects(c) \/ ClientSends(c) \/ ClientLeaves(c)
  BY <1>4, ClientStep
<1> QED BY <1>1, <1>2, <1>3, <1>4 DEF Next

LEMMA Invariant == Spec => []Inv
BY InitInv, NextInv, PTL DEF Spec

-----------------------------------------------------------------------------
(* Every variable keeps its type; of these the counters of the sessions    *)
(* need an argument, and the control socket, which never overflows.        *)
THEOREM TypeCorrect == Spec => []TypeOK
<1>1. Inv => TypeOK
  BY DEF Inv
<1> QED BY <1>1, Invariant, PTL

(* httpd_sess_new, httpd_sess_delete, httpd_accept_conn and the end of     *)
(* httpd_thread leak no socket and no slot.                                *)
THEOREM NoLeak == Spec => []SlotsMatchSockets
<1>1. Inv => SlotsMatchSockets
  BY DEF Inv
<1> QED BY <1>1, Invariant, PTL

(* The loop of httpd_server over the sessions, which deletes some of them, *)
(* comes to every readable one, and to none a second time.                 *)
THEOREM PassesAreComplete == Spec => []OncePerPass
<1>1. ASSUME Inv PROVE NobodySkipped
  BY <1>1 DEF Inv, Loop
<1>2. ASSUME Inv PROVE NeverTwice
  <2> SUFFICES ASSUME pc = "sessions" PROVE After(fd) \notin done
    BY DEF NeverTwice
  <2>1. PICK p \in 0..MaxOpenSockets : At(p)
    BY <1>2 DEF Inv, Loop
  <2>2. IF p = 0 THEN fd = None ELSE fd # None /\ slots[p] = fd
    BY <2>1 DEF At
  <2>3. \/ After(fd) = None
        \/ \E n \in Slots : n > p /\ slots[n] = After(fd) /\ After(fd) # None
    BY <1>2, <2>2, AfterIsNext DEF Inv, TypeOK, SlotsMatchSockets, SlotsTyped, OneSlotEach
  <2>4. None \notin done
    BY <1>2, ServerAssumption DEF Inv, TypeOK
  <2> QED BY <2>1, <2>3, <2>4 DEF At
<1>3. Inv => OncePerPass
  BY <1>1, <1>2 DEF OncePerPass
<1> QED BY <1>3, Invariant, PTL

(* httpd_sess_close_lru picks, of the sessions that have served a request, *)
(* the one that did so longest ago, or one that has served none.           *)
THEOREM PurgeInOrder == Spec => PurgeOrder
<1> DEFINE Step == \A i \in Slots : Accept /\ ctrl' = Append(ctrl, Close(i))
                      => \A k \in 2..Len(served) : served[k] # slots[i]
<1>1. Inv /\ [Next]_vars => [Step]_vars
  <2> SUFFICES ASSUME Inv, NEW i \in Slots, Accept, ctrl' = Append(ctrl, Close(i)),
                      NEW k \in 2..Len(served)
               PROVE  served[k] # slots[i]
    OBVIOUS
  <2>1. ctrl \in Seq(Messages) /\ Close(i) \in Messages
    BY MessagesTyped DEF Inv, TypeOK
  <2>2. ctrl' # ctrl
    <3>1. Len(Append(ctrl, Close(i))) = Len(ctrl) + 1 /\ Len(ctrl) \in Nat
      BY <2>1
    <3> QED BY <3>1
  <2>3. Free = {} /\ ctrl' = Posted(Close(LruSlot))
    BY <2>2 DEF Accept, AcceptConn, AcceptInto
  <2>4. LruSlot \in Slots /\ \A j \in Slots : lru[LruSlot] <= lru[j]
    BY LruSlotIsLeast DEF Inv
  <2>5. i = LruSlot
    <3>1. Close(LruSlot) \in Messages
      BY <2>4, MessagesTyped DEF Inv
    <3>2. Append(ctrl, Close(LruSlot)) = Append(ctrl, Close(i))
      BY <2>2, <2>3 DEF Posted
    <3>3. Close(LruSlot) = Close(i)
      BY <2>1, <3>1, <3>2
    <3>4. Close(LruSlot).slot = LruSlot /\ Close(i).slot = i
      BY DEF Close
    <3> QED BY <3>3, <3>4
  <2>6. 1 \in 1..Len(served) /\ k \in 1..Len(served) /\ 1 < k
    BY DEF Inv, TypeOK
  <2>7. PICK h \in Slots : slots[h] = served[1]
    BY <2>6 DEF Inv, Ranked, Sessions
  <2>8. served[k] = slots[i] => lru[h] < lru[i]
    BY <2>6, <2>7 DEF Inv, Ranked
  <2>9. lru[i] <= lru[h] /\ lru[i] \in 0..MaxOpenSockets /\ lru[h] \in 0..MaxOpenSockets
    BY <2>4, <2>5, <2>7 DEF Inv, TypeOK
  <2> QED BY <2>8, <2>9, ServerAssumption
<1> QED BY <1>1, Invariant, PTL DEF Spec, PurgeOrder

(* When no task of the application queues work, the message of the purge   *)
(* finds the session it was meant for.                                     *)
THEOREM PurgeHits == Spec => [](~Works => CloseHitsTarget)
<1>1. Inv => (~Works => CloseHitsTarget)
  <2> SUFFICES ASSUME Inv, ~Works, pc = "ctrl", ctrlSet, Head(ctrl).kind = "close"
               PROVE  slots[Head(ctrl).slot] \in {Head(ctrl).for, None}
    BY DEF CloseHitsTarget
  <2>1. ctrl \in Seq(Messages) /\ ctrl # <<>>
    BY DEF Inv, TypeOK, Ready
  <2>2. Head(ctrl) = ctrl[1] /\ 1 \in 1..Len(ctrl)
    BY <2>1
  <2> QED BY <2>2 DEF Inv, Mail
<1> QED BY <1>1, Invariant, PTL

(* And the message of httpd_stop has room in a control socket that holds   *)
(* two: the purge never has more than one under way.                       *)
THEOREM ShutdownArrives == Spec => [](~Works /\ Mailbox >= 2 => ShutdownNotLost)
<1>1. Inv => (~Works /\ Mailbox >= 2 => ShutdownNotLost)
  BY DEF Inv, Mail
<1> QED BY <1>1, Invariant, PTL
=============================================================================
