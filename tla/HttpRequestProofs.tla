-------------------------- MODULE HttpRequestProofs --------------------------
(***************************************************************************)
(* What module HttpRequest checks on some streams of two requests, proved  *)
(* of every stream, every cut of it into blocks and every size of the      *)
(* buffers: the parser stays in step with the text, requests are refused   *)
(* for a reason, and handlers get them as Framing says.  Requests have a   *)
(* header (HeadersSent): without one, last stays where cb_url left it,     *)
(* and the end of the headers is not where the code looks for it.          *)
(*                                                                         *)
(* First the shape of a text (Layout), then the invariant (ParserInv) with *)
(* one lemma for each callback and each step, then what it shows.          *)
(***************************************************************************)
EXTENDS HttpRequest, SequenceTheorems, FiniteSetTheorems, WellFoundedInduction, TLAPS

(* Induction up to a bound: its step is taken at the least number that is  *)
(* not in S, which exists because inclusion among finite sets is well      *)
(* founded.                                                                *)
LEMMA Induction ==
    ASSUME NEW n \in Nat, NEW S, 0 \in S, \A i \in 0 .. n - 1 : i \in S => i + 1 \in S
    PROVE  \A i \in 0 .. n : i \in S
  <1> DEFINE Up(i) == 0 .. i
             T == {Up(i) : i \in (0 .. n) \ S}
             R == StrictSubsetOrdering(0 .. n)
  <1>1. SUFFICES ASSUME T # {}
                 PROVE  FALSE
    BY Zenon
  <1>2. T \subseteq FiniteSubsetsOf(0 .. n) /\ IsWellFoundedOn(R, FiniteSubsetsOf(0 .. n))
    <2>1. IsFiniteSet(0 .. n)
      BY FS_Interval
    <2>2. \A i \in 0 .. n : Up(i) \in SUBSET (0 .. n)
      OBVIOUS
    <2>3. QED
      BY <2>1, <2>2, FS_FiniteSubsetsOfFinite, FS_StrictSubsetOrderingWellFounded
  <1>3. PICK X \in T : \A Y \in T : <<Y, X>> \notin R
    <2> HIDE DEF T, R
    <2> QED
      BY <1>1, <1>2, WFMin
  <1>4. PICK i \in (0 .. n) \ S : X = Up(i)
    OBVIOUS
  <1>5. i # 0 /\ i - 1 \in (0 .. n) \ S
    OBVIOUS
  <1>6. Up(i - 1) \in T
    BY <1>5
  <1>7. Up(i - 1) \in SUBSET (0 .. n) /\ Up(i) \in SUBSET (0 .. n)
        /\ Up(i - 1) \subseteq Up(i) /\ i \in Up(i) /\ i \notin Up(i - 1)
    BY <1>5
  <1>8. <<Up(i - 1), Up(i)>> \in R
    <2> HIDE DEF Up
    <2> QED
      BY <1>7 DEF StrictSubsetOrdering
  <1>9. QED
    BY <1>3, <1>4, <1>6, <1>8

(* A function on an interval from 1 is a sequence.                         *)
LEMMA IsASequence ==
    ASSUME NEW S, NEW n \in Nat, NEW f \in [1 .. n -> S]
    PROVE  f \in Seq(S)
  BY SeqDef

(* The elements of two sequences one behind the other.                     *)
LEMMA Concatenated ==
    ASSUME NEW S, NEW s \in Seq(S), NEW t \in Seq(S)
    PROVE  /\ s \o t \in Seq(S) /\ Len(s \o t) = Len(s) + Len(t)
           /\ \A i \in 1 .. Len(s) : (s \o t)[i] = s[i]
           /\ \A j \in 1 .. Len(t) : (s \o t)[Len(s) + j] = t[j]
  <1>1. s \o t \in Seq(S) /\ Len(s \o t) = Len(s) + Len(t)
    OBVIOUS
  <1>2. \A i \in 1 .. Len(s) : (s \o t)[i] = s[i]
    OBVIOUS
  <1>3. \A j \in 1 .. Len(t) : (s \o t)[Len(s) + j] = t[j]
    OBVIOUS
  <1>4. QED
    BY <1>1, <1>2, <1>3

(* What FlattenSeq chooses: the sequences up to each one, joined.          *)
Joined(g, ss, k) == g = [i \in 1 .. k |-> IF i = 1 THEN ss[i] ELSE g[i - 1] \o ss[i]]

(* FlattenSeq is CHOSEN, and so there has to be what it chooses: by        *)
(* induction over the prefixes.                                            *)
LEMMA JoinedExists ==
    ASSUME NEW ss, NEW n \in Nat \ {0}
    PROVE  \E g : Joined(g, ss, n)
  <1> DEFINE K == {k \in 1 .. n : \E g : Joined(g, ss, k)} \cup {0}
  <1>1. ASSUME NEW k \in 0 .. n - 1, k \in K
        PROVE  k + 1 \in K
    <2>1. CASE k = 0
      <3>1. Joined([i \in 1 .. 1 |-> ss[i]], ss, 1)
        BY DEF Joined
      <3>2. QED
        BY <2>1, <3>1
    <2>2. CASE k # 0
      <3>1. PICK g : Joined(g, ss, k)
        BY <1>1, <2>2
      <3> DEFINE h == [i \in 1 .. k + 1 |-> IF i = k + 1 THEN g[k] \o ss[k + 1] ELSE g[i]]
      <3>2. \A i \in 1 .. k + 1 : h[i] = IF i = 1 THEN ss[i] ELSE h[i - 1] \o ss[i]
        <4>1. \A i \in 1 .. k : g[i] = IF i = 1 THEN ss[i] ELSE g[i - 1] \o ss[i]
          BY <3>1 DEF Joined
        <4>2. ASSUME NEW i \in 1 .. k + 1
              PROVE  h[i] = IF i = 1 THEN ss[i] ELSE h[i - 1] \o ss[i]
          <5>1. CASE i = k + 1
            <6>1. h[k + 1] = g[k] \o ss[k + 1] /\ h[k] = g[k]
              <7>1. k + 1 \in 1 .. k + 1 /\ k \in 1 .. k + 1 /\ k # k + 1
                BY <2>2
              <7>2. QED
                BY <7>1
            <6>x. k + 1 # 1 /\ (k + 1) - 1 = k
              BY <2>2
            <6> HIDE DEF h
            <6>2. QED
              BY <5>1, <6>1, <6>x
          <5>2. CASE i \in 1 .. k
            <6>1. h[i] = g[i] /\ (i # 1 => h[i - 1] = g[i - 1])
              BY <5>2
            <6> HIDE DEF h
            <6>2. QED
              BY <4>1, <5>2, <6>1
          <5>3. QED
            BY <5>1, <5>2
        <4>3. QED
          BY <4>2
      <3>3. h = [i \in 1 .. k + 1 |-> h[i]]
        OBVIOUS
      <3>4. Joined(h, ss, k + 1)
        <4> HIDE DEF h
        <4> QED
          BY <3>2, <3>3 DEF Joined
      <3> HIDE DEF h
      <3>5. QED
        BY <3>4
    <2>3. QED
      BY <2>1, <2>2
  <1>2. \A k \in 0 .. n : k \in K
    <2>1. 0 \in K
      OBVIOUS
    <2> HIDE DEF K
    <2>2. QED
      BY <1>1, <2>1, Induction
  <1>3. QED
    BY <1>2

(* Where the parts of a flattened sequence end.                            *)
EndsAt(e, ss) ==
    /\ e \in [0 .. Len(ss) -> Nat] /\ e[0] = 0
    /\ \A n \in 1 .. Len(ss) : e[n] = e[n - 1] + Len(ss[n])

(* What EndsAt says of one part.                                           *)
LEMMA OnePart ==
    ASSUME NEW S, NEW ss \in Seq(Seq(S)), NEW e, EndsAt(e, ss), NEW n \in 1 .. Len(ss)
    PROVE  /\ ss[n] \in Seq(S) /\ Len(ss[n]) \in Nat /\ e[n] \in Nat /\ e[n - 1] \in Nat
           /\ e[n] = e[n - 1] + Len(ss[n])
  <1>1. ss[n] \in Seq(S)
    BY ElementOfSeq
  <1>2. Len(ss[n]) \in Nat
    BY <1>1, LenProperties
  <1>3. n \in 0 .. Len(ss) /\ n - 1 \in 0 .. Len(ss)
    OBVIOUS
  <1>4. e[n] \in Nat /\ e[n - 1] \in Nat /\ e[n] = e[n - 1] + Len(ss[n])
    BY <1>3 DEF EndsAt
  <1>5. QED
    BY <1>1, <1>2, <1>4

(* A sequence of sequences has ends: by induction over its prefixes.       *)
LEMMA EndsExist ==
    ASSUME NEW S, NEW ss \in Seq(Seq(S))
    PROVE  \E e : EndsAt(e, ss)
  <1> DEFINE EndsTo(e, k) == /\ e \in [0 .. k -> Nat] /\ e[0] = 0
                           /\ \A n \in 1 .. k : e[n] = e[n - 1] + Len(ss[n])
             K == {k \in 0 .. Len(ss) : \E e : EndsTo(e, k)}
  <1>1. Len(ss) \in Nat
    OBVIOUS
  <1>2. 0 \in K
    <2>1. EndsTo([n \in 0 .. 0 |-> 0], 0)
      OBVIOUS
    <2> HIDE DEF EndsTo
    <2>2. QED
      BY <1>1, <2>1
  <1>3. ASSUME NEW k \in 0 .. Len(ss) - 1, k \in K
        PROVE  k + 1 \in K
    <2>1. PICK e : EndsTo(e, k)
      BY <1>3
    <2>2. k \in Nat /\ k + 1 \in 1 .. Len(ss) /\ (k + 1) - 1 = k
      BY <1>1
    <2>3. Len(ss[k + 1]) \in Nat
      BY <2>2, ElementOfSeq, LenProperties
    <2> DEFINE f == [n \in 0 .. k + 1 |-> IF n = k + 1 THEN e[k] + Len(ss[k + 1]) ELSE e[n]]
    <2>4. f \in [0 .. k + 1 -> Nat]
      <3>1. \A n \in 0 .. k + 1 : n # k + 1 => n \in 0 .. k
        BY <2>2
      <3>2. e[k] + Len(ss[k + 1]) \in Nat /\ \A n \in 0 .. k : e[n] \in Nat
        BY <2>1, <2>2, <2>3
      <3>3. QED
        BY <3>1, <3>2
    <2>5. f[0] = 0
      BY <2>1, <2>2
    <2>6. ASSUME NEW n \in 1 .. k + 1
          PROVE  f[n] = f[n - 1] + Len(ss[n])
      <3>1. CASE n = k + 1
        <4>1. f[k + 1] = e[k] + Len(ss[k + 1]) /\ f[k] = e[k]
          BY <2>2
        <4> HIDE DEF f
        <4>2. QED
          BY <3>1, <4>1, <2>2
      <3>2. CASE n # k + 1
        <4>1. f[n] = e[n] /\ f[n - 1] = e[n - 1] /\ n \in 1 .. k
          BY <2>2, <3>2
        <4>2. \A i \in 1 .. k : e[i] = e[i - 1] + Len(ss[i])
          BY <2>1
        <4> HIDE DEF f
        <4>3. QED
          BY <4>1, <4>2
      <3>3. QED
        BY <3>1, <3>2
    <2> HIDE DEF f
    <2>7. EndsTo(f, k + 1)
      BY <2>4, <2>5, <2>6
    <2> HIDE DEF EndsTo
    <2>8. QED
      BY <2>2, <2>7
  <1> HIDE DEF K
  <1>4. Len(ss) \in K
    <2>1. \A k \in 0 .. Len(ss) : k \in K
      BY <1>1, <1>2, <1>3, Induction
    <2>2. QED
      BY <1>1, <2>1
  <1>5. QED
    BY <1>4 DEF K, EndsAt

(* No part ends before an earlier one.                                     *)
LEMMA EndsGrow ==
    ASSUME NEW S, NEW ss \in Seq(Seq(S)), NEW e, EndsAt(e, ss), NEW k \in 0 .. Len(ss)
    PROVE  \A i \in 0 .. k : e[i] <= e[k]
  <1> DEFINE D == {i \in 0 .. k : e[k - i] <= e[k]}
  <1>1. k \in Nat /\ Len(ss) \in Nat
    OBVIOUS
  <1>2. e[k] \in Nat
    BY <1>1 DEF EndsAt
  <1>3. 0 \in D
    <2>1. e[k - 0] = e[k] /\ 0 \in 0 .. k
      OBVIOUS
    <2>2. QED
      BY <1>2, <2>1
  <1>4. ASSUME NEW i \in 0 .. k - 1, i \in D
        PROVE  i + 1 \in D
    <2>1. k - i \in 1 .. Len(ss) /\ (k - i) - 1 = k - (i + 1) /\ i + 1 \in 0 .. k
      BY <1>1
    <2>2. /\ e[k - i] = e[k - (i + 1)] + Len(ss[k - i]) /\ Len(ss[k - i]) \in Nat
          /\ e[k - (i + 1)] \in Nat /\ e[k - i] \in Nat
      BY <2>1, OnePart
    <2>3. e[k - i] <= e[k]
      BY <1>4
    <2>4. \A a, b, l, d \in Nat : a = b + l /\ a <= d => b <= d
      OBVIOUS
    <2>5. e[k - (i + 1)] <= e[k]
      BY <1>2, <2>2, <2>3, <2>4, Zenon
    <2>6. QED
      BY <2>1, <2>5
  <1> HIDE DEF D
  <1>5. \A i \in 0 .. k : i \in D
    BY <1>1, <1>3, <1>4, Induction
  <1>6. ASSUME NEW i \in 0 .. k
        PROVE  e[i] <= e[k]
    <2>1. k - i \in 0 .. k /\ k - (k - i) = i
      OBVIOUS
    <2>2. QED
      BY <1>5, <2>1 DEF D
  <1>7. QED
    BY <1>6

(* Every position is in one of the parts.                                  *)
LEMMA PartOf ==
    ASSUME NEW S, NEW ss \in Seq(Seq(S)), NEW e, EndsAt(e, ss), NEW p \in 1 .. e[Len(ss)]
    PROVE  \E n \in 1 .. Len(ss) : e[n - 1] < p /\ p <= e[n]
  <1> DEFINE K == {n \in 0 .. Len(ss) : e[n] < p}
  <1>1. Len(ss) \in Nat /\ e[0] = 0 /\ e[Len(ss)] \in Nat
    BY DEF EndsAt
  <1>2. SUFFICES ASSUME ~\E n \in 1 .. Len(ss) : e[n - 1] < p /\ p <= e[n]
                 PROVE  FALSE
    OBVIOUS
  <1>3. 0 \in K
    BY <1>1
  <1>4. ASSUME NEW n \in 0 .. Len(ss) - 1, n \in K
        PROVE  n + 1 \in K
    <2>1. n + 1 \in 1 .. Len(ss) /\ (n + 1) - 1 = n /\ n + 1 \in 0 .. Len(ss)
      BY <1>1
    <2>2. ~(p <= e[n + 1]) /\ e[n + 1] \in Nat
      BY <1>2, <1>4, <2>1, OnePart
    <2>3. QED
      BY <1>1, <2>1, <2>2
  <1>5. Len(ss) \in K
    <2> HIDE DEF K
    <2>1. \A n \in 0 .. Len(ss) : n \in K
      BY <1>1, <1>3, <1>4, Induction
    <2>2. QED
      BY <1>1, <2>1
  <1>6. QED
    BY <1>1, <1>5

(* A flattened sequence has the elements of its parts, in their order.     *)
LEMMA Flattened ==
    ASSUME NEW S, NEW ss \in Seq(Seq(S)), NEW e, EndsAt(e, ss)
    PROVE  /\ FlattenSeq(ss) \in Seq(S) /\ Len(FlattenSeq(ss)) = e[Len(ss)]
           /\ \A n \in 1 .. Len(ss) : \A j \in 1 .. Len(ss[n]) :
                  FlattenSeq(ss)[e[n - 1] + j] = ss[n][j]
  <1>1. CASE Len(ss) = 0
    <2>1. ss = <<>>
      BY <1>1
    <2>2. FlattenSeq(ss) = <<>>
      BY <2>1 DEF FlattenSeq
    <2>3. QED
      BY <2>1, <2>2 DEF EndsAt
  <1>2. CASE Len(ss) # 0
    <2> DEFINE g == CHOOSE f : Joined(f, ss, Len(ss))
    <2>1. FlattenSeq(ss) = g[Len(ss)]
      BY <1>2 DEF FlattenSeq, Joined
    <2>2. Joined(g, ss, Len(ss))
      <3>1. Len(ss) \in Nat \ {0}
        BY <1>2
      <3>2. QED
        BY <3>1, JoinedExists
    <2> HIDE DEF g
    <2>3. \A i \in 1 .. Len(ss) : g[i] = IF i = 1 THEN ss[i] ELSE g[i - 1] \o ss[i]
      BY <2>2 DEF Joined
    <2>a. \A n \in 1 .. Len(ss) :
             /\ ss[n] \in Seq(S) /\ Len(ss[n]) \in Nat /\ e[n] \in Nat /\ e[n - 1] \in Nat
             /\ e[n] = e[n - 1] + Len(ss[n])
      BY OnePart
    <2>b. Len(ss) \in Nat /\ e[0] = 0
      BY DEF EndsAt
    <2> DEFINE Right(k) ==
            /\ g[k] \in Seq(S) /\ Len(g[k]) = e[k]
            /\ \A n \in 1 .. k : \A j \in 1 .. Len(ss[n]) : g[k][e[n - 1] + j] = ss[n][j]
        K == {k \in 1 .. Len(ss) : Right(k)} \cup {0}
    <2>4. ASSUME NEW k \in 0 .. Len(ss) - 1, k \in K
          PROVE  Right(k + 1)
      <3>1. CASE k = 0
        <4>1. g[1] = ss[1] /\ e[1] = e[0] + Len(ss[1]) /\ e[0] = 0 /\ ss[1] \in Seq(S)
          BY <1>2, <2>3, <2>a, <2>b
        <4>2. Len(ss[1]) \in Nat
          BY <4>1
        <4>3. QED
          BY <3>1, <4>1, <4>2
      <3>2. CASE k # 0
        <4>1. Right(k)
          BY <2>4, <3>2
        <4> DEFINE s == g[k]
                   t == ss[k + 1]
        <4>x. k + 1 \in 1 .. Len(ss) /\ k + 1 # 1 /\ (k + 1) - 1 = k /\ k \in 1 .. Len(ss)
          BY <2>b, <3>2
        <4>2. g[k + 1] = s \o t /\ Len(s) = e[k]
          <5>1. g[k + 1] = g[k] \o ss[k + 1]
            BY <2>3, <4>x
          <5>2. ss[k + 1] \in Seq(S)
            BY <2>a, <4>x
          <5>3. QED
            BY <5>1, <5>2, <4>1
        <4>y. s \in Seq(S)
          BY <4>1
        <4>z. t \in Seq(S)
          BY <2>a, <4>x
        <4>3. e[k + 1] = e[k] + Len(t) /\ e[k] \in Nat /\ Len(t) \in Nat
          BY <2>a, <4>x
        <4>4. \A n \in 1 .. k : \A j \in 1 .. Len(ss[n]) :
                 s[e[n - 1] + j] = ss[n][j]
          BY <4>1
        <4>5. \A n \in 1 .. k : \A j \in 1 .. Len(ss[n]) : e[n - 1] + j \in 1 .. Len(s)
          <5>1. \A i \in 0 .. k : e[i] <= e[k]
            BY <4>x, EndsGrow
          <5>2. ASSUME NEW n \in 1 .. k, NEW j \in 1 .. Len(ss[n])
                PROVE  e[n - 1] + j \in 1 .. Len(s)
            <6>2. e[n] <= e[k]
              BY <5>1
            <6>3. e[n] = e[n - 1] + Len(ss[n]) /\ e[n - 1] \in Nat /\ Len(ss[n]) \in Nat
              <7>1. n \in 1 .. Len(ss)
                BY <2>b
              <7>2. QED
                BY <2>a, <7>1
            <6>4. e[k] \in Nat /\ Len(s) = e[k] /\ j \in 1 .. Len(ss[n])
              BY <4>2, <4>3
            <6> HIDE DEF s
            <6>5. j \in Nat /\ j >= 1 /\ j <= Len(ss[n]) /\ e[n] \in Nat
              BY <6>3, <6>4
            <6>6. e[n - 1] + j \in Nat /\ 1 <= e[n - 1] + j /\ e[n - 1] + j <= e[n]
              BY <6>3, <6>5
            <6>7. e[n - 1] + j <= e[k]
              BY <6>2, <6>4, <6>5, <6>6
            <6>8. QED
              BY <6>4, <6>6, <6>7
          <5>3. QED
            BY <5>2
        <4> HIDE DEF s, t
        <4>6. \A n \in 1 .. k : \A j \in 1 .. Len(ss[n]) : (s \o t)[e[n - 1] + j] = ss[n][j]
          <5>1. \A i \in 1 .. Len(s) : (s \o t)[i] = s[i]
            BY <4>y, <4>z, Concatenated
          <5>2. QED
            BY <5>1, <4>4, <4>5
        <4>7. \A j \in 1 .. Len(t) : (s \o t)[e[k] + j] = t[j]
          <5>1. \A j \in 1 .. Len(t) : (s \o t)[Len(s) + j] = t[j]
            BY <4>y, <4>z, Concatenated
          <5>2. QED
            BY <4>2, <5>1
        <4>8. s \o t \in Seq(S) /\ Len(s \o t) = e[k] + Len(t)
          <5>1. s \o t \in Seq(S) /\ Len(s \o t) = Len(s) + Len(t)
            BY <4>y, <4>z, Concatenated
          <5>2. QED
            BY <5>1, <4>2
        <4>9. \A n \in 1 .. k + 1 : \A j \in 1 .. Len(ss[n]) : (s \o t)[e[n - 1] + j] = ss[n][j]
          <5>1. ASSUME NEW n \in 1 .. k + 1, NEW j \in 1 .. Len(ss[n])
                PROVE  (s \o t)[e[n - 1] + j] = ss[n][j]
            <6>0. n \in 1 .. k \/ n = k + 1
              BY <4>x
            <6>1. CASE n \in 1 .. k
              BY <4>6, <6>1
            <6>2. CASE n = k + 1
              <7>1. n - 1 = k /\ ss[n] = t
                BY <6>2, <4>x DEF t
              <7>2. QED
                BY <4>7, <7>1
            <6>3. QED
              BY <6>0, <6>1, <6>2
          <5>2. QED
            BY <5>1
        <4> HIDE DEF Right
        <4>10. Right(k + 1)
          BY <4>2, <4>3, <4>8, <4>9 DEF Right
        <4>11. QED
          BY <4>10
      <3>3. QED
        BY <3>1, <3>2
    <2>5. \A k \in 0 .. Len(ss) : k \in K
      <3>1. 0 \in K /\ \A k \in 0 .. Len(ss) - 1 : k \in K => k + 1 \in K
        <4>1. ASSUME NEW k \in 0 .. Len(ss) - 1, k \in K
              PROVE  k + 1 \in K
          <5>1. k + 1 \in 1 .. Len(ss)
            BY <2>b
          <5>3. Right(k + 1)
            BY <2>4, <4>1
          <5> HIDE DEF Right
          <5>2. QED
            BY <5>1, <5>3
        <4>2. QED
          BY <4>1
      <3>2. Len(ss) \in Nat
        OBVIOUS
      <3> HIDE DEF K
      <3>3. QED
        BY <3>1, <3>2, Induction
    <2>6. Right(Len(ss))
      <3>1. Len(ss) \in K /\ Len(ss) # 0
        BY <1>2, <2>5
      <3> HIDE DEF Right
      <3>2. QED
        BY <3>1
    <2>7. QED
      BY <2>1, <2>6
  <1>3. QED
    BY <1>1, <1>2

(* A sequence that is two others, one behind the other.                    *)
Joint(S, k, s, t) ==
    /\ k \in Seq(S) /\ Len(k) = Len(s) + Len(t)
    /\ \A i \in 1 .. Len(s) : k[i] = s[i]
    /\ \A j \in 1 .. Len(t) : k[Len(s) + j] = t[j]

(* Two sequences are joint.                                                *)
LEMMA Joined2 ==
    ASSUME NEW S, NEW s \in Seq(S), NEW t \in Seq(S)
    PROVE  Joint(S, s \o t, s, t)
  BY Concatenated DEF Joint

-----------------------------------------------------------------------------
(* The kinds of the bytes of a request.                                    *)

KindSet == {"m", "u", "l", "f", "c", "v", "n", "b"}

(* A run of one kind.                                                      *)
LEMMA Repeated ==
    ASSUME NEW kind \in KindSet, NEW n \in Nat
    PROVE  /\ Repeat(kind, n) \in Seq(KindSet) /\ Len(Repeat(kind, n)) = n
           /\ \A i \in 1 .. n : Repeat(kind, n)[i] = kind
  BY DEF Repeat

(* A byte that is alone.                                                   *)
LEMMA OneKind ==
    ASSUME NEW kind \in KindSet
    PROVE  <<kind>> \in Seq(KindSet) /\ Len(<<kind>>) = 1 /\ <<kind>>[1] = kind
  OBVIOUS

(* The first line: the method, the URI, the rest.                          *)
LEMMA LineShape ==
    ASSUME NEW r \in Requests
    PROVE  /\ LineKinds(r) \in Seq(KindSet) /\ Len(LineKinds(r)) = r.url + 2
           /\ LineKinds(r)[1] = "m" /\ LineKinds(r)[r.url + 2] = "l"
           /\ \A j \in 2 .. r.url + 1 : LineKinds(r)[j] = "u"
  <1> DEFINE m == <<"m">>
             u == Repeat("u", r.url)
             l == <<"l">>
  <1>1. r.url \in Nat
    BY DEF Requests
  <1>2. m \in Seq(KindSet) /\ Len(m) = 1 /\ m[1] = "m"
    BY OneKind DEF KindSet
  <1>3. l \in Seq(KindSet) /\ Len(l) = 1 /\ l[1] = "l"
    BY OneKind DEF KindSet
  <1>4. u \in Seq(KindSet) /\ Len(u) = r.url /\ \A i \in 1 .. r.url : u[i] = "u"
    <2>1. "u" \in KindSet
      BY DEF KindSet
    <2>2. QED
      BY <1>1, <2>1, Repeated, Zenon
  <1>5. LineKinds(r) = (m \o u) \o l
    BY DEF LineKinds
  <1> HIDE DEF m, u, l
  <1> DEFINE mu == m \o u
             k == mu \o l
  <1>6. /\ mu \in Seq(KindSet) /\ Len(mu) = 1 + r.url
        /\ mu[1] = "m" /\ \A i \in 1 .. r.url : mu[1 + i] = "u"
    <2> HIDE DEF mu
    <2>1. /\ mu \in Seq(KindSet) /\ Len(mu) = 1 + r.url
          /\ \A i \in 1 .. 1 : mu[i] = m[i]
          /\ \A i \in 1 .. r.url : mu[1 + i] = u[i]
      <3>1. Joint(KindSet, mu, m, u)
        BY <1>2, <1>4, Joined2 DEF mu
      <3>2. QED
        BY <1>2, <1>4, <3>1 DEF Joint
    <2>2. 1 \in 1 .. 1
      OBVIOUS
    <2>3. QED
      BY <1>2, <1>4, <2>1, <2>2, Zenon
  <1> HIDE DEF mu, k
  <1>7. /\ k \in Seq(KindSet) /\ Len(k) = r.url + 2
        /\ \A i \in 1 .. 1 + r.url : k[i] = mu[i]
        /\ k[(1 + r.url) + 1] = "l"
    <2>1. 1 + r.url \in Nat /\ (1 + r.url) + 1 = r.url + 2
      BY <1>1
    <2>2. /\ k \in Seq(KindSet) /\ Len(k) = (1 + r.url) + 1
          /\ \A i \in 1 .. 1 + r.url : k[i] = mu[i]
          /\ \A i \in 1 .. 1 : k[(1 + r.url) + i] = l[i]
      <3>1. Joint(KindSet, k, mu, l)
        BY <1>3, <1>6, Joined2 DEF k
      <3>2. QED
        BY <1>3, <1>6, <3>1 DEF Joint
    <2>4. QED
      BY <1>3, <2>1, <2>2
  <1>8. \A j \in 2 .. r.url + 1 : mu[j] = "u"
    <2>1. ASSUME NEW j \in 2 .. r.url + 1
          PROVE  mu[j] = "u"
      <3>1. j - 1 \in 1 .. r.url /\ 1 + (j - 1) = j
        BY <1>1
      <3>2. QED
        BY <1>6, <3>1
    <2>2. QED
      BY <2>1
  <1>9. /\ k[1] = "m" /\ k[r.url + 2] = "l"
        /\ \A j \in 2 .. r.url + 1 : k[j] = "u"
    <2>1. (1 + r.url) + 1 = r.url + 2 /\ 1 \in 1 .. 1 + r.url
      BY <1>1
    <2>2. \A j \in 2 .. r.url + 1 : j \in 1 .. 1 + r.url
      BY <1>1
    <2>3. k[1] = mu[1] /\ mu[1] = "m"
      BY <1>6, <1>7, <2>1
    <2>4. QED
      BY <1>7, <1>8, <2>1, <2>2, <2>3
  <1>10. QED
    BY <1>5, <1>7, <1>9 DEF k, mu

(* The headers that requests consist of.                                   *)
Headers == [field : Nat, value : Nat]

(* A header: the field, the colon, the value and the end of line.          *)
LEMMA HeaderShape ==
    ASSUME NEW h \in Headers
    PROVE  LET k == HeaderKinds(h) IN
           /\ k \in Seq(KindSet) /\ Len(k) = h.field + h.value + 2
           /\ \A j \in 1 .. Len(k) :
                  /\ j <= h.field => k[j] = "f"
                  /\ j = h.field + 1 => k[j] = "c"
                  /\ j > h.field + 1 /\ j < Len(k) => k[j] = "v"
                  /\ j = Len(k) => k[j] = "n"
  <1> DEFINE f == Repeat("f", h.field)
             c == <<"c">>
             v == Repeat("v", h.value)
             n == <<"n">>
  <1>1. h.field \in Nat /\ h.value \in Nat
    BY DEF Headers
  <1>2. f \in Seq(KindSet) /\ Len(f) = h.field /\ \A i \in 1 .. h.field : f[i] = "f"
    <2>1. "f" \in KindSet
      BY DEF KindSet
    <2>2. QED
      BY <1>1, <2>1, Repeated, Zenon
  <1>3. v \in Seq(KindSet) /\ Len(v) = h.value /\ \A i \in 1 .. h.value : v[i] = "v"
    <2>1. "v" \in KindSet
      BY DEF KindSet
    <2>2. QED
      BY <1>1, <2>1, Repeated, Zenon
  <1>4. c \in Seq(KindSet) /\ Len(c) = 1 /\ c[1] = "c"
    BY OneKind DEF KindSet
  <1>5. n \in Seq(KindSet) /\ Len(n) = 1 /\ n[1] = "n"
    BY OneKind DEF KindSet
  <1>6. HeaderKinds(h) = ((f \o c) \o v) \o n
    BY DEF HeaderKinds
  <1> HIDE DEF f, c, v, n
  <1> DEFINE fc == f \o c
             fcv == fc \o v
             k == fcv \o n
  <1> HIDE DEF fc, fcv, k
  <1>7. /\ fc \in Seq(KindSet) /\ Len(fc) = h.field + 1
        /\ \A i \in 1 .. h.field : fc[i] = "f"
        /\ fc[h.field + 1] = "c"
    <2>1. /\ fc \in Seq(KindSet) /\ Len(fc) = h.field + 1
          /\ \A i \in 1 .. h.field : fc[i] = f[i]
          /\ \A i \in 1 .. 1 : fc[h.field + i] = c[i]
      <3>1. Joint(KindSet, fc, f, c)
        BY <1>2, <1>4, Joined2 DEF fc
      <3>2. QED
        BY <1>2, <1>4, <3>1 DEF Joint
    <2>2. QED
      BY <1>2, <1>4, <2>1
  <1>8. /\ fcv \in Seq(KindSet) /\ Len(fcv) = h.field + 1 + h.value
        /\ \A i \in 1 .. h.field + 1 : fcv[i] = fc[i]
        /\ \A i \in 1 .. h.value : fcv[h.field + 1 + i] = "v"
    <2>1. /\ fcv \in Seq(KindSet) /\ Len(fcv) = (h.field + 1) + h.value
          /\ \A i \in 1 .. h.field + 1 : fcv[i] = fc[i]
          /\ \A i \in 1 .. h.value : fcv[(h.field + 1) + i] = v[i]
      <3>1. Joint(KindSet, fcv, fc, v)
        BY <1>3, <1>7, Joined2 DEF fcv
      <3>2. QED
        BY <1>3, <1>7, <3>1 DEF Joint
    <2>2. QED
      BY <1>3, <2>1
  <1>9. /\ k \in Seq(KindSet) /\ Len(k) = h.field + h.value + 2
        /\ \A i \in 1 .. h.field + 1 + h.value : k[i] = fcv[i]
        /\ k[h.field + h.value + 2] = "n"
    <2>1. /\ k \in Seq(KindSet) /\ Len(k) = Len(fcv) + 1
          /\ \A i \in 1 .. Len(fcv) : k[i] = fcv[i]
          /\ k[Len(fcv) + 1] = "n"
      <3>1. Joint(KindSet, k, fcv, n)
        BY <1>5, <1>8, Joined2 DEF k
      <3>2. QED
        BY <1>5, <1>8, <3>1 DEF Joint
    <2>2. Len(fcv) + 1 = h.field + h.value + 2
      BY <1>1, <1>8
    <2>3. QED
      BY <1>8, <2>1, <2>2
  <1>w. Len(k) \in Nat
    BY <1>1, <1>9
  <1>10. ASSUME NEW j \in 1 .. Len(k)
         PROVE  /\ j <= h.field => k[j] = "f"
                /\ j = h.field + 1 => k[j] = "c"
                /\ j > h.field + 1 /\ j < Len(k) => k[j] = "v"
                /\ j = Len(k) => k[j] = "n"
    <2>1. CASE j <= h.field
      <3>1. j \in 1 .. h.field /\ j \in 1 .. h.field + 1 /\ j \in 1 .. h.field + 1 + h.value
        BY <1>1, <1>w, <2>1
      <3>2. k[j] = "f"
        BY <1>7, <1>8, <1>9, <3>1
      <3>3. j # h.field + 1 /\ ~(j > h.field + 1) /\ j # Len(k)
        BY <1>1, <1>9, <2>1
      <3>4. QED
        BY <3>2, <3>3
    <2>2. CASE j = h.field + 1
      <3>1. j \in 1 .. h.field + 1 /\ j \in 1 .. h.field + 1 + h.value
        BY <1>1, <1>w, <2>2
      <3>2. k[j] = "c"
        BY <1>7, <1>8, <1>9, <2>2, <3>1
      <3>3. ~(j <= h.field) /\ ~(j > h.field + 1) /\ j # Len(k)
        BY <1>1, <1>9, <2>2
      <3>4. QED
        BY <3>2, <3>3
    <2>3. CASE j > h.field + 1 /\ j < Len(k)
      <3>1. j - (h.field + 1) \in 1 .. h.value /\ h.field + 1 + (j - (h.field + 1)) = j
            /\ j \in 1 .. h.field + 1 + h.value
        <4>1. Len(k) = h.field + h.value + 2 /\ h.field \in Nat /\ h.value \in Nat /\ j \in Nat
          BY <1>1, <1>9
        <4> HIDE DEF k
        <4>2. QED
          BY <2>3, <4>1
      <3>2. fcv[h.field + 1 + (j - (h.field + 1))] = "v"
        BY <1>8, <3>1
      <3>3. k[j] = "v"
        BY <1>9, <3>1, <3>2
      <3>4. ~(j <= h.field) /\ j # h.field + 1 /\ j # Len(k)
        BY <1>1, <1>9, <2>3
      <3>5. QED
        BY <3>3, <3>4
    <2>4. CASE j = Len(k)
      BY <1>1, <1>9, <2>4
    <2>5. j <= h.field \/ j = h.field + 1 \/ (j > h.field + 1 /\ j < Len(k)) \/ j = Len(k)
      BY <1>1, <1>w
    <2>6. QED
      BY <2>1, <2>2, <2>3, <2>4, <2>5
  <1>11. QED
    BY <1>6, <1>9, <1>10 DEF k, fcv, fc

(* The kinds that follow each other in headers none of whose parts is      *)
(* empty.                                                                  *)
Follow == {<<"f", "f">>, <<"f", "c">>, <<"c", "v">>, <<"v", "v">>, <<"v", "n">>,
           <<"n", "f">>, <<"n", "n">>}

(* The bytes of one header: only the last one is an end of line.           *)
OneHeader(k) ==
    /\ k \in Seq(KindSet) /\ Len(k) >= 2
    /\ \A i \in 1 .. Len(k) : k[i] \in {"f", "c", "v", "n"} /\ (k[i] = "n" <=> i = Len(k))

(* The bytes of headers none of whose parts is empty.                      *)
Regular(k) ==
    k[1] = "f" /\ \A i \in 1 .. Len(k) - 1 : <<k[i], k[i + 1]>> \in Follow

(* A header has one end of line, and its parts follow each other.          *)
LEMMA HeaderIsOne ==
    ASSUME NEW h \in Headers
    PROVE  OneHeader(HeaderKinds(h)) /\ (h.field > 0 /\ h.value > 0 => Regular(HeaderKinds(h)))
  <1> DEFINE k == HeaderKinds(h)
  <1>1. /\ k \in Seq(KindSet) /\ Len(k) = h.field + h.value + 2
        /\ \A j \in 1 .. Len(k) :
               /\ j <= h.field => k[j] = "f"
               /\ j = h.field + 1 => k[j] = "c"
               /\ j > h.field + 1 /\ j < Len(k) => k[j] = "v"
               /\ j = Len(k) => k[j] = "n"
    BY HeaderShape
  <1>2. h.field \in Nat /\ h.value \in Nat
    BY DEF Headers
  <1> HIDE DEF k
  <1>3. ASSUME NEW j \in 1 .. Len(k)
        PROVE  k[j] \in {"f", "c", "v", "n"} /\ (k[j] = "n" <=> j = Len(k))
    <2>1. j <= h.field \/ j = h.field + 1 \/ (j > h.field + 1 /\ j < Len(k)) \/ j = Len(k)
      BY <1>1, <1>2
    <2>2. j <= h.field \/ j = h.field + 1 => j # Len(k)
      BY <1>1, <1>2
    <2>3. QED
      BY <1>1, <1>2, <2>1, <2>2
  <1>4. OneHeader(k)
    BY <1>1, <1>2, <1>3 DEF OneHeader
  <1>5. ASSUME h.field > 0, h.value > 0
        PROVE  Regular(k)
    <2>1. k[1] = "f"
      BY <1>1, <1>2, <1>5
    <2>2. ASSUME NEW i \in 1 .. Len(k) - 1
          PROVE  <<k[i], k[i + 1]>> \in Follow
      <3>1. i \in 1 .. Len(k) /\ i + 1 \in 1 .. Len(k)
        BY <1>1, <1>2
      <3>2. CASE i < h.field
        <4>1. k[i] = "f" /\ k[i + 1] = "f"
          BY <1>1, <1>2, <3>1, <3>2
        <4>2. QED
          BY <4>1 DEF Follow
      <3>3. CASE i = h.field
        <4>1. k[i] = "f" /\ k[i + 1] = "c"
          BY <1>1, <1>2, <3>1, <3>3
        <4>2. QED
          BY <4>1 DEF Follow
      <3>4. CASE i = h.field + 1
        <4>1. k[i] = "c" /\ k[i + 1] = "v"
          <5>1. i + 1 > h.field + 1 /\ i + 1 < Len(k)
            BY <1>1, <1>2, <1>5, <3>4
          <5>2. QED
            BY <1>1, <3>1, <3>4, <5>1
        <4>2. QED
          BY <4>1 DEF Follow
      <3>5. CASE i > h.field + 1 /\ i + 1 < Len(k)
        <4>0. i + 1 > h.field + 1 /\ i < Len(k)
          BY <1>1, <1>2, <3>5
        <4>1. k[i] = "v" /\ k[i + 1] = "v"
          BY <1>1, <3>1, <3>5, <4>0
        <4>2. QED
          BY <4>1 DEF Follow
      <3>6. CASE i > h.field + 1 /\ i + 1 = Len(k)
        <4>0. i < Len(k)
          BY <1>1, <1>2, <3>6
        <4>1. k[i] = "v" /\ k[i + 1] = "n"
          BY <1>1, <3>1, <3>6, <4>0
        <4>2. QED
          BY <4>1 DEF Follow
      <3>7. QED
        BY <1>1, <1>2, <3>1, <3>2, <3>3, <3>4, <3>5, <3>6
    <2>3. QED
      BY <2>1, <2>2 DEF Regular
  <1>6. QED
    BY <1>4, <1>5 DEF k

(* No field and no value is empty: http_parser takes no others in the      *)
(* model.                                                                  *)
Filled(r) == \A i \in DOMAIN r.headers : r.headers[i].field > 0 /\ r.headers[i].value > 0

(* The headers of a request, up to and with the empty line: two ends of    *)
(* line come one after the other only there.                               *)
HeadersWhole(k) ==
    /\ k \in Seq(KindSet) /\ Len(k) >= 3 /\ k[Len(k)] = "n"
    /\ \A j \in 1 .. Len(k) : k[j] \in {"f", "c", "v", "n"}
    /\ k[1] # "n" /\ k[Len(k) - 1] = "n"
    /\ \A j \in 1 .. Len(k) - 1 : k[j] = "n" /\ k[j + 1] = "n" => j + 1 = Len(k)

(* So it is with the headers of a request, if it has any: by induction     *)
(* over them.                                                              *)
LEMMA HeadersShape ==
    ASSUME NEW r \in Requests, r.headers # <<>>
    PROVE  HeadersWhole(HeadersKinds(r)) /\ (Filled(r) => Regular(HeadersKinds(r)))
  <1> DEFINE ss == [i \in DOMAIN r.headers |-> HeaderKinds(r.headers[i])]
             q == Len(ss)
             fl == FlattenSeq(ss)
             nl == <<"n">>
             k == fl \o nl
  <1>1. /\ r.headers \in Seq(Headers) /\ DOMAIN r.headers = 1 .. Len(r.headers)
        /\ Len(r.headers) \in Nat \ {0}
    BY DEF Requests, Headers
  <1>2. \A i \in 1 .. Len(r.headers) : r.headers[i] \in Headers
    BY <1>1
  <1>3. \A i \in 1 .. Len(r.headers) : HeaderKinds(r.headers[i]) \in Seq(KindSet)
    BY <1>2, HeaderIsOne DEF OneHeader
  <1>4. ss \in Seq(Seq(KindSet)) /\ q = Len(r.headers)
    <2>1. ss \in [1 .. Len(r.headers) -> Seq(KindSet)]
      BY <1>1, <1>3
    <2> HIDE DEF ss
    <2>2. ss \in Seq(Seq(KindSet))
      BY <1>1, <2>1, SeqDef
    <2>3. QED
      BY <1>1, <2>1, <2>2
  <1>5. \A i \in 1 .. q : /\ OneHeader(ss[i])
                          /\ Filled(r) => Regular(ss[i])
    <2>1. ASSUME NEW i \in 1 .. Len(r.headers)
          PROVE  OneHeader(ss[i]) /\ (Filled(r) => Regular(ss[i]))
      <3>1. ss[i] = HeaderKinds(r.headers[i])
        BY <1>1
      <3>2. Filled(r) => r.headers[i].field > 0 /\ r.headers[i].value > 0
        BY <1>1 DEF Filled
      <3> HIDE DEF ss
      <3>3. QED
        BY <1>2, <3>1, <3>2, HeaderIsOne
    <2>2. QED
      BY <1>4, <2>1
  <1>x. HeadersKinds(r) = k
    BY DEF HeadersKinds
  <1>y. q \in Nat \ {0}
    BY <1>1, <1>4
  <1> HIDE DEF ss, q
  <1>6. PICK e : EndsAt(e, ss)
    BY <1>4, EndsExist
  <1>7. /\ fl \in Seq(KindSet) /\ Len(fl) = e[q]
        /\ \A n \in 1 .. q : \A j \in 1 .. Len(ss[n]) : fl[e[n - 1] + j] = ss[n][j]
    BY <1>4, <1>6, Flattened DEF q
  <1> HIDE DEF fl
  <1>8. \A n \in 1 .. q : /\ Len(ss[n]) \in Nat /\ e[n] \in Nat /\ e[n - 1] \in Nat
                          /\ e[n] = e[n - 1] + Len(ss[n])
    BY <1>4, <1>6, OnePart DEF q
  <1>9. Joint(KindSet, k, fl, nl) /\ Len(nl) = 1 /\ nl[1] = "n"
    <2>1. nl \in Seq(KindSet) /\ Len(nl) = 1 /\ nl[1] = "n"
      BY OneKind DEF KindSet
    <2> HIDE DEF nl
    <2>2. QED
      BY <1>7, <2>1, Joined2
  <1> HIDE DEF nl, k
  <1>10. /\ k \in Seq(KindSet) /\ Len(k) = e[q] + 1 /\ k[e[q] + 1] = "n"
         /\ \A j \in 1 .. e[q] : k[j] = fl[j]
    BY <1>7, <1>9 DEF Joint
  <1>11. e[0] = 0 /\ e[q] \in Nat /\ \A n \in 1 .. q : e[n] <= e[q]
    <2>1. e[0] = 0
      BY <1>6 DEF EndsAt
    <2>2. \A n \in 0 .. q : e[n] <= e[q]
      BY <1>4, <1>6, <1>y, EndsGrow DEF q
    <2>3. QED
      BY <2>1, <2>2, <1>8, <1>y
  <1>12. \A n \in 1 .. q : \A j \in 1 .. Len(ss[n]) :
            e[n - 1] + j \in 1 .. e[q] /\ k[e[n - 1] + j] = ss[n][j]
    <2>1. ASSUME NEW n \in 1 .. q, NEW j \in 1 .. Len(ss[n])
          PROVE  e[n - 1] + j \in 1 .. e[q] /\ k[e[n - 1] + j] = ss[n][j]
      <3>1. e[n - 1] + j \in 1 .. e[q]
        BY <1>8, <1>11
      <3>2. QED
        BY <1>7, <1>10, <3>1
    <2>2. QED
      BY <2>1
  <1>13. ASSUME NEW j \in 1 .. e[q]
         PROVE  \E n \in 1 .. q : \E i \in 1 .. Len(ss[n]) : j = e[n - 1] + i
    <2>1. PICK n \in 1 .. q : e[n - 1] < j /\ j <= e[n]
      BY <1>4, <1>6, PartOf DEF q
    <2>2. j - e[n - 1] \in 1 .. Len(ss[n]) /\ j = e[n - 1] + (j - e[n - 1])
      BY <1>8, <2>1
    <2>3. QED
      BY <2>2
  <1>14. ASSUME NEW j \in 1 .. e[q]
         PROVE  /\ k[j] \in {"f", "c", "v", "n"}
                /\ k[j] = "n" /\ k[j + 1] = "n" => j = e[q]
                /\ Filled(r) => <<k[j], k[j + 1]>> \in Follow
    <2>0. PICK n \in 1 .. q : \E i \in 1 .. Len(ss[n]) : j = e[n - 1] + i
      BY <1>13
    <2>1. PICK i \in 1 .. Len(ss[n]) : j = e[n - 1] + i
      BY <2>0
    <2>2. k[j] = ss[n][i]
      BY <1>12, <2>1
    <2>3. /\ Len(ss[n]) >= 2 /\ ss[n][i] \in {"f", "c", "v", "n"} /\ (ss[n][i] = "n" <=> i = Len(ss[n]))
      BY <1>5, <2>1 DEF OneHeader
    <2>4. CASE i # Len(ss[n])
      <3>1. i + 1 \in 1 .. Len(ss[n]) /\ j + 1 = e[n - 1] + (i + 1)
        <4>1. Len(ss[n]) \in Nat /\ e[n - 1] \in Nat
          BY <1>8
        <4>2. QED
          BY <2>1, <2>4, <4>1
      <3>2. k[j + 1] = ss[n][i + 1]
        BY <1>12, <3>1
      <3>3. Filled(r) => <<ss[n][i], ss[n][i + 1]>> \in Follow
        BY <1>5, <1>8, <2>4 DEF Regular
      <3>4. QED
        BY <2>2, <2>3, <2>4, <3>2, <3>3
    <2>5. CASE i = Len(ss[n]) /\ n # q
      <3>1. n + 1 \in 1 .. q /\ (n + 1) - 1 = n /\ j = e[n]
        BY <1>8, <1>y, <2>1, <2>5
      <3>2. OneHeader(ss[n + 1]) /\ (Filled(r) => Regular(ss[n + 1])) /\ Len(ss[n + 1]) \in Nat
        BY <1>5, <1>8, <3>1
      <3>3. Len(ss[n + 1]) >= 2 /\ 1 \in 1 .. Len(ss[n + 1]) /\ ss[n + 1][1] # "n"
            /\ (Filled(r) => ss[n + 1][1] = "f")
        BY <3>2 DEF OneHeader, Regular
      <3>4. k[j + 1] = ss[n + 1][1]
        BY <1>12, <3>1, <3>3
      <3>5. k[j] = "n"
        BY <2>2, <2>3, <2>5
      <3>6. QED
        BY <3>3, <3>4, <3>5 DEF Follow
    <2>6. CASE i = Len(ss[n]) /\ n = q
      <3>1. j = e[q] /\ k[j] = "n" /\ k[j + 1] = "n"
        BY <1>8, <1>10, <2>1, <2>2, <2>3, <2>6
      <3>2. QED
        BY <3>1 DEF Follow
    <2>7. QED
      BY <2>4, <2>5, <2>6
  <1>15. e[q] >= 2 /\ k[1] # "n" /\ (Filled(r) => k[1] = "f") /\ k[e[q]] = "n"
    <2>1. OneHeader(ss[1]) /\ (Filled(r) => Regular(ss[1])) /\ 1 \in 1 .. q /\ 1 - 1 = 0
      BY <1>5, <1>y
    <2>2. Len(ss[1]) >= 2 /\ 1 \in 1 .. Len(ss[1]) /\ ss[1][1] # "n" /\ (Filled(r) => ss[1][1] = "f")
      BY <1>8, <2>1 DEF OneHeader, Regular
    <2>3. k[0 + 1] = ss[1][1] /\ e[1] = 0 + Len(ss[1]) /\ e[1] <= e[q]
      BY <1>8, <1>11, <1>12, <2>1, <2>2
    <2>4. q \in 1 .. q /\ OneHeader(ss[q]) /\ Len(ss[q]) \in Nat /\ e[q] = e[q - 1] + Len(ss[q])
      BY <1>5, <1>8, <1>y
    <2>5. Len(ss[q]) \in 1 .. Len(ss[q]) /\ ss[q][Len(ss[q])] = "n"
      BY <2>4 DEF OneHeader
    <2>6. k[e[q]] = "n"
      BY <1>12, <2>4, <2>5
    <2>7. QED
      BY <1>8, <1>11, <2>1, <2>2, <2>3, <2>6
  <1>16. HeadersWhole(k)
    <2>1. Len(k) = e[q] + 1 /\ Len(k) - 1 = e[q] /\ Len(k) >= 3
      BY <1>10, <1>11, <1>15
    <2>2. \A j \in 1 .. Len(k) : k[j] \in {"f", "c", "v", "n"}
      <3>1. \A j \in 1 .. Len(k) : j \in 1 .. e[q] \/ j = e[q] + 1
        BY <1>11, <2>1
      <3>2. QED
        BY <1>10, <1>14, <3>1
    <2>3. \A j \in 1 .. e[q] : k[j] = "n" /\ k[j + 1] = "n" => j + 1 = Len(k)
      BY <1>14, <2>1
    <2>4. QED
      BY <1>10, <1>15, <2>1, <2>2, <2>3 DEF HeadersWhole
  <1>17. Filled(r) => Regular(k)
    <2>1. Len(k) - 1 = e[q]
      BY <1>10, <1>11
    <2>2. Filled(r) => \A i \in 1 .. e[q] : <<k[i], k[i + 1]>> \in Follow
      BY <1>14
    <2>3. Filled(r) => k[1] = "f"
      BY <1>15
    <2>4. QED
      BY <2>1, <2>2, <2>3 DEF Regular
  <1>18. QED
    BY <1>16, <1>17, <1>x

(* A whole request, its first line up to l and its headers up to h.        *)
LineLength(r) == r.url + 2
HeadLength(r) == LineLength(r) + Len(HeadersKinds(r))

RequestWhole(r, k) ==
    LET l == LineLength(r)
        h == HeadLength(r)
    IN  /\ l >= 2 /\ l \in Nat /\ h \in Nat /\ h >= l + 3
        /\ k \in Seq(KindSet) /\ Len(k) = h + r.body
        /\ k[1] = "m" /\ k[l] = "l" /\ k[l + 1] # "n" /\ k[h - 1] = "n" /\ k[h] = "n"
        /\ \A j \in 2 .. l - 1 : k[j] = "u"
        /\ \A j \in l + 1 .. h : k[j] \in {"f", "c", "v", "n"}
        /\ \A j \in l + 1 .. h - 1 : k[j] = "n" /\ k[j + 1] = "n" => j + 1 = h
        /\ \A j \in h + 1 .. h + r.body : k[j] = "b"
        /\ Filled(r) => /\ k[l + 1] = "f"
                        /\ \A j \in l + 1 .. h - 1 : <<k[j], k[j + 1]>> \in Follow

(* A whole request is its first line, its headers and its body.            *)
LEMMA RequestShape ==
    ASSUME NEW r \in Requests, r.headers # <<>>
    PROVE  RequestWhole(r, Kinds(r))
  <1> DEFINE a == LineKinds(r)
             b == HeadersKinds(r)
             c == Repeat("b", r.body)
             ab == a \o b
             k == ab \o c
             l == LineLength(r)
             h == HeadLength(r)
  <1>1. r.url \in Nat /\ r.body \in Nat
    BY DEF Requests
  <1>2. /\ a \in Seq(KindSet) /\ Len(a) = l /\ a[1] = "m" /\ a[l] = "l"
        /\ \A j \in 2 .. l - 1 : a[j] = "u"
    <2>1. l - 1 = r.url + 1
      BY <1>1 DEF LineLength
    <2>2. QED
      BY <2>1, LineShape DEF LineLength
  <1>3. HeadersWhole(b) /\ (Filled(r) => Regular(b))
    BY HeadersShape
  <1>4. c \in Seq(KindSet) /\ Len(c) = r.body /\ \A j \in 1 .. r.body : c[j] = "b"
    <2>1. "b" \in KindSet
      BY DEF KindSet
    <2>2. QED
      BY <1>1, <2>1, Repeated, Zenon
  <1>5. Kinds(r) = k
    BY DEF Kinds
  <1>6. l \in Nat /\ l >= 2 /\ h = l + Len(b)
    BY <1>1 DEF LineLength, HeadLength
  <1> HIDE DEF a, b, c, l, h
  <1>7. Joint(KindSet, ab, a, b)
    BY <1>2, <1>3, Joined2 DEF HeadersWhole
  <1> HIDE DEF ab
  <1>8. ab \in Seq(KindSet) /\ Joint(KindSet, k, ab, c)
    <2>1. ab \in Seq(KindSet)
      BY <1>7 DEF Joint
    <2>2. QED
      BY <1>4, <2>1, Joined2
  <1> HIDE DEF k
  <1>9. /\ Len(b) \in Nat /\ Len(b) >= 3 /\ h \in Nat /\ h >= l + 3 /\ Len(ab) = h
        /\ k \in Seq(KindSet) /\ Len(k) = h + r.body
    BY <1>1, <1>2, <1>3, <1>4, <1>6, <1>7, <1>8 DEF Joint, HeadersWhole
  <1>10. \A j \in 1 .. l : k[j] = a[j]
    <2>1. \A j \in 1 .. l : ab[j] = a[j] /\ j \in 1 .. h
      BY <1>2, <1>6, <1>7, <1>9 DEF Joint
    <2>2. QED
      BY <2>1, <1>8, <1>9 DEF Joint
  <1>11. \A j \in 1 .. Len(b) : k[l + j] = b[j]
    <2>1. \A j \in 1 .. Len(b) : ab[l + j] = b[j]
      BY <1>2, <1>7 DEF Joint
    <2>2. \A j \in 1 .. Len(b) : l + j \in 1 .. h
      BY <1>6, <1>9
    <2>3. \A j \in 1 .. h : k[j] = ab[j]
      BY <1>8, <1>9 DEF Joint
    <2>4. QED
      BY <2>1, <2>2, <2>3
  <1>12. \A j \in h + 1 .. h + r.body : k[j] = "b"
    <2>1. \A j \in 1 .. r.body : k[h + j] = "b"
      BY <1>4, <1>8, <1>9 DEF Joint
    <2>2. \A j \in h + 1 .. h + r.body : j - h \in 1 .. r.body /\ h + (j - h) = j
      BY <1>1, <1>9
    <2>3. QED
      BY <2>1, <2>2
  <1>13. \A j \in l + 1 .. h : j - l \in 1 .. Len(b) /\ k[j] = b[j - l]
    <2>1. \A j \in l + 1 .. h : j - l \in 1 .. Len(b) /\ l + (j - l) = j
      BY <1>6, <1>9
    <2>2. QED
      BY <1>11, <2>1
  <1>14. \A j \in l + 1 .. h - 1 :
            j - l \in 1 .. Len(b) - 1 /\ k[j] = b[j - l] /\ k[j + 1] = b[(j - l) + 1]
    <2>1. \A j \in l + 1 .. h - 1 : /\ j - l \in 1 .. Len(b) - 1 /\ j + 1 \in l + 1 .. h
                                    /\ j \in l + 1 .. h /\ (j + 1) - l = (j - l) + 1
      BY <1>6, <1>9
    <2>2. QED
      BY <1>13, <2>1
  <1>15. k[1] = "m" /\ k[l] = "l" /\ \A j \in 2 .. l - 1 : k[j] = "u"
    <2>1. 1 \in 1 .. l /\ l \in 1 .. l /\ \A j \in 2 .. l - 1 : j \in 1 .. l
      BY <1>6
    <2>2. QED
      BY <1>2, <1>10, <2>1
  <1>16. k[l + 1] = b[1] /\ k[h - 1] = "n" /\ k[h] = "n"
    <2>1. /\ l + 1 \in l + 1 .. h /\ (l + 1) - l = 1
          /\ h - 1 \in l + 1 .. h /\ (h - 1) - l = Len(b) - 1
          /\ h \in l + 1 .. h /\ h - l = Len(b)
      BY <1>6, <1>9
    <2>2. k[l + 1] = b[1] /\ k[h - 1] = b[Len(b) - 1] /\ k[h] = b[Len(b)]
      BY <1>13, <2>1
    <2>3. QED
      BY <1>3, <2>2 DEF HeadersWhole
  <1>17. b[1] # "n" /\ (Filled(r) => b[1] = "f")
    BY <1>3 DEF HeadersWhole, Regular
  <1>18. \A j \in l + 1 .. h : k[j] \in {"f", "c", "v", "n"}
    BY <1>3, <1>13 DEF HeadersWhole
  <1>19. \A j \in l + 1 .. h - 1 : k[j] = "n" /\ k[j + 1] = "n" => j + 1 = h
    <2>1. \A j \in l + 1 .. h - 1 : (j - l) + 1 = Len(b) => j + 1 = h
      BY <1>6, <1>9
    <2>2. \A i \in 1 .. Len(b) - 1 : b[i] = "n" /\ b[i + 1] = "n" => i + 1 = Len(b)
      BY <1>3 DEF HeadersWhole
    <2>3. QED
      BY <1>14, <2>1, <2>2
  <1>20. Filled(r) => \A j \in l + 1 .. h - 1 : <<k[j], k[j + 1]>> \in Follow
    <2>1. Filled(r) => \A i \in 1 .. Len(b) - 1 : <<b[i], b[i + 1]>> \in Follow
      BY <1>3 DEF Regular
    <2>2. QED
      BY <1>14, <2>1
  <1>21. RequestWhole(r, k)
    BY <1>6, <1>9, <1>12, <1>15, <1>16, <1>17, <1>18, <1>19, <1>20 DEF RequestWhole, l, h
  <1>22. QED
    BY <1>5, <1>21

-----------------------------------------------------------------------------
(* The text of a client.                                                   *)

Bytes == [req : Nat, kind : KindSet]

Parts(rs)    == [n \in DOMAIN rs |-> RequestText(rs, n)]
EndsOf(rs)   == CHOOSE e : EndsAt(e, Parts(rs))

(* Where the n-th request begins, and its first line, its headers and the  *)
(* request end.                                                            *)
Start(rs, n)   == EndsOf(rs)[n - 1]
LineEnd(rs, n) == Start(rs, n) + LineLength(rs[n])
HeadEnd(rs, n) == Start(rs, n) + HeadLength(rs[n])
End(rs, n)     == EndsOf(rs)[n]

Layout(rs, t, n) ==
    LET b == Start(rs, n)
        l == LineEnd(rs, n)
        h == HeadEnd(rs, n)
        e == End(rs, n)
    IN  /\ b \in Nat /\ l \in Nat /\ h \in Nat /\ e \in Nat
        /\ l = b + rs[n].url + 2 /\ h >= l + 3 /\ h = l + Len(HeadersKinds(rs[n]))
        /\ e = h + rs[n].body /\ e <= Len(t)
        /\ \A p \in 1 .. Len(t) : t[p].req = n <=> p \in b + 1 .. e
        /\ t[b + 1].kind = "m" /\ t[l].kind = "l" /\ t[l + 1].kind # "n"
        /\ t[h - 1].kind = "n" /\ t[h].kind = "n"
        /\ \A p \in b + 2 .. l - 1 : t[p].kind = "u"
        /\ \A p \in l + 1 .. h : t[p].kind \in {"f", "c", "v", "n"}
        /\ \A p \in l + 1 .. h - 1 : t[p].kind = "n" /\ t[p + 1].kind = "n" => p + 1 = h
        /\ \A p \in h + 1 .. e : t[p].kind = "b"
        /\ Filled(rs[n]) => /\ t[l + 1].kind = "f"
                            /\ \A p \in l + 1 .. h - 1 : <<t[p].kind, t[p + 1].kind>> \in Follow

(* The text of a client is its requests, one behind the other.             *)
LEMMA TextShape ==
    ASSUME NEW rs \in Seq(Requests), \A n \in 1 .. Len(rs) : rs[n].headers # <<>>
    PROVE  /\ TextOf(rs) \in Seq(Bytes) /\ EndsOf(rs) \in [0 .. Len(rs) -> Nat]
           /\ EndsOf(rs)[0] = 0 /\ Len(TextOf(rs)) = EndsOf(rs)[Len(rs)]
           /\ \A n \in 1 .. Len(rs) : Layout(rs, TextOf(rs), n)
  <1> DEFINE ss == Parts(rs)
             q == Len(rs)
             e == EndsOf(rs)
             t == TextOf(rs)
  <1>1. q \in Nat /\ DOMAIN rs = 1 .. q
    OBVIOUS
  <1>2. ASSUME NEW n \in 1 .. q
        PROVE  /\ RequestWhole(rs[n], Kinds(rs[n])) /\ rs[n] \in Requests /\ rs[n].body \in Nat
               /\ rs[n].url \in Nat /\ HeadersKinds(rs[n]) \in Seq(KindSet)
    <2>1. rs[n] \in Requests
      BY <1>1, ElementOfSeq
    <2>2. rs[n].headers # <<>>
      BY <1>1
    <2>3. rs[n].body \in Nat /\ rs[n].url \in Nat
      BY <2>1 DEF Requests
    <2>4. RequestWhole(rs[n], Kinds(rs[n]))
      BY <2>1, <2>2, RequestShape
    <2>5. HeadersKinds(rs[n]) \in Seq(KindSet)
      BY <2>1, <2>2, HeadersShape DEF HeadersWhole
    <2>6. QED
      BY <2>1, <2>3, <2>4, <2>5
  <1>3. ASSUME NEW n \in 1 .. q
        PROVE  /\ ss[n] \in Seq(Bytes) /\ Len(ss[n]) = Len(Kinds(rs[n]))
               /\ \A j \in 1 .. Len(ss[n]) : ss[n][j] = [req |-> n, kind |-> Kinds(rs[n])[j]]
    <2> DEFINE k == Kinds(rs[n])
    <2>1. k \in Seq(KindSet)
      BY <1>2 DEF RequestWhole
    <2>2. ss[n] = [i \in DOMAIN k |-> [req |-> n, kind |-> k[i]]]
      BY <1>1 DEF Parts, RequestText
    <2> HIDE DEF k, ss
    <2>3. DOMAIN k = 1 .. Len(k) /\ Len(k) \in Nat /\ \A i \in 1 .. Len(k) : k[i] \in KindSet
      BY <2>1
    <2>4. ss[n] \in [1 .. Len(k) -> Bytes]
      <3>1. \A i \in 1 .. Len(k) : [req |-> n, kind |-> k[i]] \in Bytes
        BY <1>1, <2>3 DEF Bytes
      <3>2. QED
        BY <2>2, <2>3, <3>1
    <2>5. ss[n] \in Seq(Bytes) /\ Len(ss[n]) = Len(k)
      BY <2>3, <2>4, SeqDef
    <2>6. QED
      BY <2>2, <2>3, <2>5 DEF k
  <1>4. ss \in Seq(Seq(Bytes)) /\ Len(ss) = q
    <2>1. ss = [n \in 1 .. q |-> ss[n]]
      BY <1>1 DEF Parts
    <2> HIDE DEF ss
    <2>2. ss \in [1 .. q -> Seq(Bytes)]
      BY <1>3, <2>1
    <2>3. QED
      BY <1>1, <2>2, SeqDef
  <1>5. t = FlattenSeq(ss)
    BY DEF TextOf, Parts
  <1> HIDE DEF ss, q, e, t
  <1>6. EndsAt(e, ss)
    BY <1>4, EndsExist DEF EndsOf, e, ss
  <1>7. /\ t \in Seq(Bytes) /\ Len(t) = e[q]
        /\ \A n \in 1 .. q : \A j \in 1 .. Len(ss[n]) : t[e[n - 1] + j] = ss[n][j]
    <2>1. /\ t \in Seq(Bytes) /\ Len(t) = e[Len(ss)]
          /\ \A n \in 1 .. Len(ss) : \A j \in 1 .. Len(ss[n]) : t[e[n - 1] + j] = ss[n][j]
      <3>1. /\ FlattenSeq(ss) \in Seq(Bytes) /\ Len(FlattenSeq(ss)) = e[Len(ss)]
            /\ \A n \in 1 .. Len(ss) : \A j \in 1 .. Len(ss[n]) :
                   FlattenSeq(ss)[e[n - 1] + j] = ss[n][j]
        <4>1. ss \in Seq(Seq(Bytes)) /\ EndsAt(e, ss)
          BY <1>4, <1>6
        <4>2. FlattenSeq(ss) \in Seq(Bytes) /\ Len(FlattenSeq(ss)) = e[Len(ss)]
          BY <4>1, Flattened
        <4>3. \A n \in 1 .. Len(ss) : \A j \in 1 .. Len(ss[n]) :
                  FlattenSeq(ss)[e[n - 1] + j] = ss[n][j]
          BY <4>1, Flattened
        <4>4. QED
          BY <4>2, <4>3
      <3>2. QED
        BY <1>5, <3>1
    <2>2. QED
      BY <1>4, <2>1
  <1>8. e \in [0 .. q -> Nat] /\ e[0] = 0
    BY <1>4, <1>6 DEF EndsAt
  <1>9. \A n \in 1 .. q : /\ Len(ss[n]) \in Nat /\ e[n] \in Nat /\ e[n - 1] \in Nat
                          /\ e[n] = e[n - 1] + Len(ss[n]) /\ e[n] <= e[q]
    <2>1. \A n \in 1 .. q : /\ Len(ss[n]) \in Nat /\ e[n] \in Nat /\ e[n - 1] \in Nat
                            /\ e[n] = e[n - 1] + Len(ss[n])
      BY <1>4, <1>6, OnePart
    <2>2. \A n \in 0 .. q : e[n] <= e[q]
      BY <1>1, <1>4, <1>6, EndsGrow
    <2>3. QED
      BY <1>1, <2>1, <2>2
  <1>p. ASSUME NEW p \in 1 .. Len(t)
        PROVE  \E m \in 1 .. q : e[m - 1] < p /\ p <= e[m] /\ t[p].req = m
    <2>0. p \in 1 .. e[Len(ss)]
      BY <1>4, <1>7
    <2>1. PICK m \in 1 .. Len(ss) : e[m - 1] < p /\ p <= e[m]
      BY <1>4, <1>6, <2>0, PartOf
    <2>m. m \in 1 .. q
      BY <1>4
    <2>2. e[m - 1] \in Nat /\ Len(ss[m]) \in Nat /\ e[m] = e[m - 1] + Len(ss[m])
      BY <1>9, <2>m
    <2>3. p - e[m - 1] \in 1 .. Len(ss[m]) /\ e[m - 1] + (p - e[m - 1]) = p
      BY <2>1, <2>2
    <2>4. t[p] = ss[m][p - e[m - 1]]
      BY <1>7, <2>3, <2>m
    <2>5. ss[m][p - e[m - 1]] = [req |-> m, kind |-> Kinds(rs[m])[p - e[m - 1]]]
      BY <1>3, <2>3, <2>m
    <2>6. t[p].req = m
      BY <2>4, <2>5
    <2>7. QED
      BY <2>1, <2>6, <2>m
  <1>10. ASSUME NEW n \in 1 .. q
         PROVE  Layout(rs, t, n)
    <2> DEFINE k == Kinds(rs[n])
               b == e[n - 1]
               l == LineLength(rs[n])
               h == HeadLength(rs[n])
               y == rs[n].body
               B == b
               L == b + l
               H == b + h
               E == e[n]
    <2>1. RequestWhole(rs[n], k) /\ y \in Nat /\ rs[n].url \in Nat
      BY <1>2
    <2>2. /\ l \in Nat /\ h \in Nat /\ l >= 2 /\ h >= l + 3 /\ Len(k) = h + y
          /\ l = rs[n].url + 2 /\ h = l + Len(HeadersKinds(rs[n]))
      BY <2>1 DEF RequestWhole, LineLength, HeadLength
    <2>3. b \in Nat /\ E = b + (h + y) /\ E <= Len(t) /\ Len(ss[n]) = h + y
      <3>1. Len(ss[n]) = h + y
        BY <1>3, <2>2
      <3>2. b \in Nat /\ E = b + Len(ss[n]) /\ E <= Len(t)
        BY <1>7, <1>9
      <3>3. QED
        BY <3>1, <3>2
    <2>4. \A j \in 1 .. h + y : t[b + j].kind = k[j] /\ t[b + j].req = n
      <3>1. \A j \in 1 .. Len(ss[n]) : t[b + j] = [req |-> n, kind |-> k[j]]
        BY <1>3, <1>7
      <3> HIDE DEF k, b, h, y
      <3>2. ASSUME NEW j \in 1 .. h + y
            PROVE  t[b + j].kind = k[j] /\ t[b + j].req = n
        <4>1. t[b + j] = [req |-> n, kind |-> k[j]]
          BY <2>3, <3>1
        <4>2. QED
          BY <4>1
      <3>3. QED
        BY <3>2
    <2>7. /\ k[1] = "m" /\ k[l] = "l" /\ k[l + 1] # "n" /\ k[h - 1] = "n" /\ k[h] = "n"
          /\ \A j \in 2 .. l - 1 : k[j] = "u"
          /\ \A j \in l + 1 .. h : k[j] \in {"f", "c", "v", "n"}
          /\ \A j \in l + 1 .. h - 1 : k[j] = "n" /\ k[j + 1] = "n" => j + 1 = h
          /\ \A j \in h + 1 .. h + y : k[j] = "b"
          /\ Filled(rs[n]) => /\ k[l + 1] = "f"
                              /\ \A j \in l + 1 .. h - 1 : <<k[j], k[j + 1]>> \in Follow
      BY <2>1 DEF RequestWhole
    <2>6. Start(rs, n) = B /\ LineEnd(rs, n) = L /\ HeadEnd(rs, n) = H /\ End(rs, n) = E
      BY DEF Start, LineEnd, HeadEnd, End, e
    <2>a. B = b /\ L = b + l /\ H = b + h
      OBVIOUS
    <2> HIDE DEF k, b, l, h, y, B, L, H, E
    <2>n. /\ b \in Nat /\ l \in Nat /\ h \in Nat /\ y \in Nat /\ l >= 2 /\ h >= l + 3
          /\ E = b + (h + y) /\ B = b /\ L = b + l /\ H = b + h
      BY <2>1, <2>2, <2>3, <2>a, Zenon
    <2>8. /\ B \in Nat /\ L \in Nat /\ H \in Nat /\ E \in Nat
          /\ H >= L + 3 /\ E = H + y /\ L >= B + 2
      BY <2>n
    <2>b. L = B + rs[n].url + 2
      <3>1. l = rs[n].url + 2 /\ rs[n].url \in Nat
        BY <2>1, <2>2
      <3> DEFINE u == rs[n].url
      <3> HIDE DEF u
      <3>2. l = u + 2 /\ u \in Nat
        BY <3>1 DEF u
      <3>3. L = B + u + 2
        BY <2>n, <3>2
      <3>4. QED
        BY <3>3 DEF u
    <2>c. H = L + Len(HeadersKinds(rs[n]))
      <3> DEFINE u == Len(HeadersKinds(rs[n]))
      <3> HIDE DEF u
      <3>1. h = l + u /\ u \in Nat
        <4>1. HeadersKinds(rs[n]) \in Seq(KindSet)
          BY <1>2
        <4>2. QED
          BY <2>2, <4>1, LenProperties DEF u
      <3>2. H = L + u
        BY <2>n, <3>1
      <3>3. QED
        BY <3>2 DEF u
    <2>9. \A p \in B + 1 .. E : /\ p - b \in 1 .. h + y
                                /\ t[p].kind = k[p - b] /\ t[p].req = n
      <3>1. \A p \in B + 1 .. E : p - b \in 1 .. h + y /\ b + (p - b) = p
        BY <2>n
      <3>2. QED
        BY <2>4, <3>1
    <2>5. \A p \in 1 .. Len(t) : t[p].req = n <=> p \in B + 1 .. E
      <3>2. ASSUME NEW p \in 1 .. Len(t), t[p].req = n
            PROVE  p \in B + 1 .. E
        <4>1. PICK m \in 1 .. q : e[m - 1] < p /\ p <= e[m] /\ t[p].req = m
          BY <1>p
        <4>2. e[m - 1] = B /\ e[m] = E
          BY <3>2, <4>1, <2>a DEF b, E
        <4>3. QED
          BY <4>1, <4>2, <2>8
      <3>3. QED
        BY <2>9, <3>2
    <2>10. /\ t[B + 1].kind = "m" /\ t[L].kind = "l" /\ t[L + 1].kind # "n"
           /\ t[H - 1].kind = "n" /\ t[H].kind = "n"
      <3>1. /\ B + 1 \in B + 1 .. E /\ L \in B + 1 .. E /\ L + 1 \in B + 1 .. E /\ H - 1 \in B + 1 .. E
            /\ H \in B + 1 .. E
        BY <2>n
      <3>x. /\ (B + 1) - b = 1 /\ L - b = l /\ (L + 1) - b = l + 1 /\ (H - 1) - b = h - 1 /\ H - b = h
        BY <2>n
      <3>2. QED
        BY <2>7, <2>9, <3>1, <3>x
    <2>11. \A p \in B + 2 .. L - 1 : t[p].kind = "u"
      <3>1. \A p \in B + 2 .. L - 1 : p \in B + 1 .. E /\ p - b \in 2 .. l - 1
        BY <2>n
      <3>2. QED
        BY <2>7, <2>9, <3>1
    <2>12. \A p \in L + 1 .. H : t[p].kind \in {"f", "c", "v", "n"}
      <3>1. \A p \in L + 1 .. H : p \in B + 1 .. E /\ p - b \in l + 1 .. h
        BY <2>n
      <3>2. QED
        BY <2>7, <2>9, <3>1
    <2>13. \A p \in H + 1 .. E : t[p].kind = "b"
      <3>1. \A p \in H + 1 .. E : p \in B + 1 .. E /\ p - b \in h + 1 .. h + y
        BY <2>n
      <3>2. QED
        BY <2>7, <2>9, <3>1
    <2>14. \A p \in L + 1 .. H - 1 : /\ p - b \in l + 1 .. h - 1 /\ t[p].kind = k[p - b]
                                     /\ t[p + 1].kind = k[(p - b) + 1] /\ ((p - b) + 1 = h => p + 1 = H)
      <3>1. \A p \in L + 1 .. H - 1 : /\ p \in B + 1 .. E /\ p + 1 \in B + 1 .. E /\ p - b \in l + 1 .. h - 1
                                      /\ (p + 1) - b = (p - b) + 1 /\ ((p - b) + 1 = h => p + 1 = H)
        BY <2>n
      <3>2. QED
        BY <2>9, <3>1
    <2>15. \A p \in L + 1 .. H - 1 : t[p].kind = "n" /\ t[p + 1].kind = "n" => p + 1 = H
      BY <2>7, <2>14
    <2>16. Filled(rs[n]) => /\ t[L + 1].kind = "f"
                            /\ \A p \in L + 1 .. H - 1 : <<t[p].kind, t[p + 1].kind>> \in Follow
      <3>1. L + 1 \in B + 1 .. E /\ (L + 1) - b = l + 1
        BY <2>n
      <3>2. QED
        BY <2>7, <2>9, <2>14, <3>1
    <2>19. QED
      BY <2>b, <2>c, <2>3, <2>5, <2>6, <2>8, <2>10, <2>11, <2>12, <2>13, <2>15, <2>16 DEF Layout, y
  <1>11. QED
    BY <1>7, <1>8, <1>10 DEF t, e, q

-----------------------------------------------------------------------------
(* The request that is being read, and where its parts end in the text.    *)

(* What is assumed of the streams: every request has a header, and (for    *)
(* the refusals alone) no name and no value is empty.                      *)
HeadersSent == \A rs \in Streams : \A n \in 1 .. Len(rs) : rs[n].headers # <<>>
AllFilled   == \A rs \in Streams : \A n \in 1 .. Len(rs) : Filled(rs[n])

(* The request that comes next, and where it and its parts end.            *)
Asked      == requests[served + 1]
Begin      == EndsOf(requests)[served]
LineTo     == LineEnd(requests, served + 1)
HeadTo     == HeadEnd(requests, served + 1)
Finish     == End(requests, served + 1)
UrlLength  == Asked.url
BodyLength == Asked.body
Coming     == served < Len(requests)

(* The client sends one of the streams, of which so many requests were     *)
(* served.                                                                 *)
Sent == requests \in Streams /\ text = TextOf(requests) /\ served \in 0 .. Len(requests)

(* Up to the first header the scratch buffer begins with the request, then *)
(* with the headers (Origin). The parser has read up to Read; the buffer   *)
(* holds so many bytes (Held), of which it has got so many (Got). Ends of  *)
(* line before the last string are overwritten (Erased).                   *)
Early  == status \in {"IDLE", "URL"}
Origin == IF Early THEN Begin ELSE LineTo
Read   == IF parsed = 0 THEN Begin ELSE parsed
Held   == IF pc = "execute" THEN Len(buf) ELSE offset
Got    == IF pc = "execute" THEN cursor ELSE offset + (IF paused THEN preParsed ELSE 0)

KindAt(p)  == text[p].kind
Erased(j)  == ~Early /\ j < last.at /\ KindAt(Origin + j) = "n"

(* The strings that begin behind the first one.                            *)
StartsIn(t, b, p) == {j \in 2 .. p - b : t[b + j].kind # "n" /\ t[b + (j - 1)].kind = "n"}

(* Pending data is the end of what was received.                           *)
Queue == /\ Len(pending) <= taken
         /\ \A i \in 1 .. Len(pending) : pending[i] = (taken - Len(pending)) + i

(* The scratch buffer is the piece of the text from Origin on, pending     *)
(* data comes right behind it, and the parser is within it.                *)
Window ==
    /\ taken - Len(pending) = Origin + Held
    /\ Read = Origin + Got
    /\ Held <= Len(buf)
    /\ \A j \in 1 .. Held : buf[j] = IF Erased(j) THEN 0 ELSE Origin + j

(* Between blocks: pending data comes first, and what was parsed before a  *)
(* pause begins it.                                                        *)
Reading ==
    /\ pending # <<>> => offset = 0
    /\ paused => offset = 0 /\ preParsed \in 1 .. Len(pending) /\ last.at = 1

(* Within a block.                                                         *)
Parsing ==
    /\ pending = <<>> /\ ~paused /\ offset <= cursor /\ Len(buf) - offset <= BlockSize

(* The parser is before the request, or in its first line.                 *)
AtStart  == grammar = "start" /\ status = "IDLE" /\ parsed = 0
AtMethod == grammar = "method" /\ status = "IDLE" /\ Coming /\ parsed = Begin + 1
AtUrl ==
    /\ grammar = "url" /\ status = "URL" /\ Coming
    /\ parsed \in Begin + 2 .. LineTo - 1
    /\ last.at = 2 /\ last.length = parsed - (Begin + 1)
AtLine ==
    /\ grammar = "line" /\ status = "URL" /\ Coming /\ parsed = LineTo
    /\ last.at = 2 /\ last.length = UrlLength
Opening == (AtStart \/ AtMethod \/ AtUrl \/ AtLine) /\ hdrs = 0 /\ uri = {}

(* The parser is in the headers: http_parser and the callbacks agree       *)
(* where, last is the string it is in or has just read, no end of line is  *)
(* left in that, and the strings before it have been counted.              *)
AtHeader(g, s, k, more) ==
    /\ grammar = g /\ status = s /\ KindAt(parsed) = k
    /\ LineTo + last.at + last.length = parsed + more
InHeaders ==
    /\ Coming /\ parsed \in LineTo + 1 .. HeadTo - 1
    /\ \/ AtHeader("field", "HDR_FIELD", "f", 1) \/ AtHeader("colon", "HDR_FIELD", "c", 0)
       \/ AtHeader("value", "HDR_VALUE", "v", 1) \/ AtHeader("line", "HDR_VALUE", "n", 0)
    /\ last.at >= 1
    /\ \A p \in LineTo + last.at .. parsed : KindAt(p) = "n" => grammar = "line" /\ p = parsed
    /\ hdrs = Cardinality(StartsIn(text, LineTo, parsed))
    /\ uri = Where(text, served + 1, {"u"})

(* The parser is where a body begins.                                      *)
AtBody ==
    /\ grammar = "body" /\ status = "BODY" /\ Coming /\ parsed = HeadTo /\ BodyLength > 0
    /\ LineTo + last.at = HeadTo + 1
    /\ hdrs = Cardinality(StartsIn(text, LineTo, HeadTo)) + 1
    /\ uri = Where(text, served + 1, {"u"}) /\ remaining = BodyLength
Stage == Opening \/ InHeaders \/ AtBody

(* The invariant: between requests, pending data begins with the next one; *)
(* while one is handled, with what is left of its body; while one is       *)
(* parsed, the buffers are a window on the text and the parser is where    *)
(* they say it is.                                                         *)
ParserInv ==
    /\ TypeOK /\ Sent /\ Queue
    /\ pc = "idle" => taken - Len(pending) = Begin
    /\ pc \in {"handler", "purge"} => served >= 1 /\ (taken - Len(pending)) + remaining = Begin
    /\ pc \in {"read", "execute"} => Window /\ Stage
    /\ pc = "read" => Reading
    /\ pc = "execute" => Parsing

(* The layout of the request that is being read.                           *)
Here ==
    /\ Begin \in Nat /\ LineTo \in Nat /\ HeadTo \in Nat /\ Finish \in Nat
    /\ UrlLength \in Nat /\ BodyLength \in Nat
    /\ LineTo = Begin + UrlLength + 2 /\ HeadTo >= LineTo + 3 /\ Finish = HeadTo + BodyLength
    /\ Finish <= Len(text)

(* The kinds of its bytes.                                                 *)
KindsHere ==
    /\ KindAt(Begin + 1) = "m" /\ KindAt(LineTo) = "l" /\ KindAt(LineTo + 1) # "n"
    /\ KindAt(HeadTo - 1) = "n" /\ KindAt(HeadTo) = "n"
    /\ \A p \in Begin + 2 .. LineTo - 1 : KindAt(p) = "u"
    /\ \A p \in LineTo + 1 .. HeadTo : KindAt(p) \in {"f", "c", "v", "n"}
    /\ \A p \in LineTo + 1 .. HeadTo - 1 :
          KindAt(p) = "n" /\ KindAt(p + 1) = "n" => p + 1 = HeadTo
    /\ \A p \in HeadTo + 1 .. Finish : KindAt(p) = "b"

(* Which bytes are of that request.                                        *)
Owner == \A p \in 1 .. Len(text) : text[p].req = served + 1 <=> p \in Begin + 1 .. Finish

(* Which kinds follow each other in its headers.                           *)
Order ==
    /\ KindAt(LineTo + 1) = "f"
    /\ \A p \in LineTo + 1 .. HeadTo - 1 : <<KindAt(p), KindAt(p + 1)>> \in Follow

(* What TextShape says of the text of this connection.                     *)
LEMMA TextFacts ==
    ASSUME HeadersSent, Sent
    PROVE  /\ requests \in Seq(Requests) /\ \A n \in 1 .. Len(requests) : requests[n].headers # <<>>
           /\ text \in Seq(Bytes) /\ Len(text) \in Nat /\ Len(requests) \in Nat
           /\ EndsOf(requests) \in [0 .. Len(requests) -> Nat]
           /\ EndsOf(requests)[0] = 0 /\ Len(text) = EndsOf(requests)[Len(requests)]
           /\ \A n \in 1 .. Len(requests) : Layout(requests, text, n)
  <1>1. requests \in Seq(Requests) /\ \A n \in 1 .. Len(requests) : requests[n].headers # <<>>
    BY StreamsAssumption DEF HeadersSent, Sent
  <1>2. /\ text \in Seq(Bytes) /\ EndsOf(requests) \in [0 .. Len(requests) -> Nat]
        /\ EndsOf(requests)[0] = 0 /\ Len(text) = EndsOf(requests)[Len(requests)]
        /\ \A n \in 1 .. Len(requests) : Layout(requests, text, n)
    BY <1>1, TextShape DEF Sent
  <1>3. Len(text) \in Nat /\ Len(requests) \in Nat
    BY <1>1, <1>2, LenProperties
  <1>4. QED
    BY <1>1, <1>2, <1>3

(* There is a place where the last request ended, and it is the end of the *)
(* text when no request is left.                                           *)
LEMMA EndIsThere ==
    ASSUME HeadersSent, Sent
    PROVE  /\ Begin \in Nat /\ Len(text) \in Nat
           /\ ~Coming => served = Len(requests) /\ Begin = Len(text)
           /\ Coming => served + 1 \in 1 .. Len(requests)
  <1>1. /\ Len(text) \in Nat /\ Len(requests) \in Nat
        /\ EndsOf(requests) \in [0 .. Len(requests) -> Nat]
        /\ Len(text) = EndsOf(requests)[Len(requests)] /\ served \in 0 .. Len(requests)
    BY TextFacts DEF Sent
  <1>2. Begin \in Nat
    BY <1>1 DEF Begin
  <1>3. Coming => served + 1 \in 1 .. Len(requests)
    BY <1>1 DEF Coming
  <1>4. ~Coming => served = Len(requests)
    BY <1>1 DEF Coming
  <1>5. QED
    BY <1>1, <1>2, <1>3, <1>4 DEF Begin

(* The layout of the text, for the request that is being read.             *)
LEMMA HereItIs ==
    ASSUME HeadersSent, Sent, Coming
    PROVE  /\ Here /\ KindsHere /\ Owner /\ (Filled(Asked) => Order)
           /\ Asked \in Requests /\ HeadTo = LineTo + Len(HeadersKinds(Asked))
  <1>1. served + 1 \in 1 .. Len(requests) /\ Layout(requests, text, served + 1)
    BY EndIsThere, TextFacts
  <1>2. served \in Nat /\ (served + 1) - 1 = served
    BY TextFacts DEF Sent
  <1>3. Asked \in Requests
    BY <1>1, TextFacts, ElementOfSeq DEF Asked
  <1>4. UrlLength \in Nat /\ BodyLength \in Nat
    BY <1>3 DEF Requests, UrlLength, BodyLength
  <1>5. Begin = Start(requests, served + 1)
    BY <1>2 DEF Begin, Start
  <1>6. Here /\ HeadTo = LineTo + Len(HeadersKinds(Asked))
    <2>1. /\ Begin \in Nat /\ LineTo \in Nat /\ HeadTo \in Nat /\ Finish \in Nat
          /\ LineTo = Begin + UrlLength + 2 /\ HeadTo >= LineTo + 3 /\ Finish = HeadTo + BodyLength
          /\ Finish <= Len(text)  /\ HeadTo = LineTo + Len(HeadersKinds(Asked))
      BY <1>1, <1>5 DEF Layout, LineTo, HeadTo, Finish, UrlLength, BodyLength, Asked
    <2>2. QED
      BY <1>4, <2>1 DEF Here
  <1>7. KindsHere
    BY <1>1, <1>5 DEF Layout, LineTo, HeadTo, Finish, KindsHere, KindAt
  <1>8. Owner
    BY <1>1, <1>5 DEF Layout, Finish, Owner
  <1>9. Filled(Asked) => Order
    BY <1>1, <1>5 DEF Layout, LineTo, HeadTo, Order, KindAt, Asked
  <1>10. QED
    BY <1>3, <1>6, <1>7, <1>8, <1>9

(* What http_parser_execute has before it.                                 *)
Ahead ==
    /\ Coming /\ Origin \in Nat /\ cursor \in Nat /\ Len(buf) \in Nat /\ At \in 1 .. Len(buf)
    /\ Read = Origin + cursor /\ taken = Origin + Len(buf) /\ taken <= Len(text)
    /\ Read + 1 \in Begin + 1 .. Finish
    /\ \A j \in At .. Len(buf) : buf[j] = Origin + j /\ Kind(j) = KindAt(Origin + j)
    /\ At = cursor + 1 /\ buf[At] = Read + 1 /\ Kind(At) = KindAt(Read + 1)

(* The types that arithmetic needs, out of TypeOK.                         *)
LEMMA StageTypes ==
    ASSUME TypeOK
    PROVE  /\ Len(buf) \in Nat /\ cursor \in Nat /\ cursor <= Len(buf) /\ Len(pending) \in Nat
           /\ taken \in Nat /\ taken <= Len(text) /\ last.at \in Nat /\ last.length \in Nat
           /\ offset \in Nat /\ offset <= Scratch /\ preParsed \in Nat /\ parsed \in Nat
           /\ Scratch \in Nat /\ BlockSize \in Nat /\ BlockSize > 0 /\ BlockSize <= Scratch
           /\ hdrs \in Nat /\ remaining \in Nat /\ served \in Nat /\ MaxUri \in Nat
           /\ Len(buf) <= Scratch
  <1>1. Len(buf) \in Nat /\ Len(pending) \in Nat
    BY LenProperties DEF TypeOK
  <1>2. QED
    BY <1>1, SizesAssumption DEF TypeOK, Notes

(* The parser is within the request, at its head or in its headers, and    *)
(* has not passed the string it has noted.                                 *)
LEMMA StageFacts ==
    ASSUME HeadersSent, Sent, TypeOK, Stage, Coming
    PROVE  /\ Read \in Begin .. Finish - 1
           /\ Early <=> Opening
           /\ Opening => Read < HeadTo
           /\ ~Opening => parsed \in LineTo + 1 .. HeadTo /\ Read = parsed
           /\ ~Opening => LineTo + last.at <= parsed + 1
  <1>1. Here
    BY HereItIs
  <1>2. parsed \in Nat /\ last.at \in Nat /\ last.length \in Nat
    BY StageTypes
  <1>3. CASE Opening
    <2>1. Early
      BY <1>3 DEF Opening, AtStart, AtMethod, AtUrl, AtLine, Early
    <2>2. Read \in Begin .. LineTo
      BY <1>1, <1>2, <1>3 DEF Opening, AtStart, AtMethod, AtUrl, AtLine, Here, Read
    <2>3. QED
      BY <1>1, <1>3, <2>1, <2>2 DEF Here
  <1>4. CASE ~Opening
    <2>1. ~Early
      BY <1>4 DEF Stage, InHeaders, AtBody, AtHeader, Early
    <2>2. parsed \in LineTo + 1 .. HeadTo
      BY <1>1, <1>4 DEF Stage, InHeaders, AtBody, Here
    <2>3. Read = parsed
      BY <1>1, <2>2 DEF Read, Here
    <2>4. LineTo + last.at <= parsed + 1
      <3>1. CASE InHeaders
        <4>1. LineTo + last.at + last.length = parsed + 1 \/ LineTo + last.at + last.length = parsed + 0
          BY <3>1 DEF InHeaders, AtHeader
        <4>2. LineTo \in Nat
          BY <1>1 DEF Here
        <4>3. QED
          BY <1>2, <4>1, <4>2
      <3>2. CASE AtBody
        BY <1>1, <1>2, <3>2 DEF AtBody, Here
      <3>3. QED
        BY <1>4, <3>1, <3>2 DEF Stage
    <2>5. Read <= Finish - 1
      <3>1. CASE InHeaders
        BY <1>1, <2>3, <3>1 DEF InHeaders, Here
      <3>2. CASE AtBody
        BY <1>1, <2>3, <3>2 DEF AtBody, Here
      <3>3. QED
        BY <1>4, <3>1, <3>2 DEF Stage
    <2>6. QED
      BY <1>1, <1>4, <2>1, <2>2, <2>3, <2>4, <2>5 DEF Here
  <1>5. QED
    BY <1>3, <1>4

(* While http_parser executes, the next byte of the block is the next byte *)
(* of the text, the same request is going on, and nothing of the rest of   *)
(* the block has been overwritten.                                         *)
LEMMA Comes ==
    ASSUME HeadersSent, ParserInv, Executing
    PROVE  Ahead
  <1>1. TypeOK /\ Sent /\ Window /\ Stage /\ Parsing /\ pc = "execute" /\ cursor < Len(buf)
    BY DEF ParserInv, Executing
  <1>2. /\ Len(buf) \in Nat /\ cursor \in Nat /\ taken \in Nat /\ taken <= Len(text)
        /\ last.at \in Nat
    BY <1>1, StageTypes
  <1>3. Held = Len(buf) /\ Got = cursor
    BY <1>1 DEF Held, Got
  <1>4. Begin \in Nat /\ Len(text) \in Nat
    BY <1>1, EndIsThere
  <1>5. Len(pending) = 0
    BY <1>1 DEF Parsing
  <1>6. taken - 0 = Origin + Len(buf) /\ Read = Origin + cursor
    BY <1>1, <1>3, <1>5 DEF Window
  <1>7. Coming
    <2>1. SUFFICES ASSUME ~Coming
                   PROVE  FALSE
      OBVIOUS
    <2>2. AtStart
      BY <1>1, <2>1 DEF Stage, Opening, InHeaders, AtBody, AtMethod, AtUrl, AtLine
    <2>3. Origin = Begin /\ Read = Begin
      BY <2>2 DEF AtStart, Origin, Read, Early
    <2>4. Begin = Len(text)
      BY <1>1, <2>1, EndIsThere
    <2>5. QED
      BY <1>1, <1>2, <1>4, <1>6, <2>3, <2>4
  <1>8. Here
    BY <1>1, <1>7, HereItIs
  <1>9. Origin \in Nat
    BY <1>4, <1>8 DEF Origin, Here
  <1>10. /\ Read \in Begin .. Finish - 1
         /\ Early <=> Opening
         /\ ~Opening => Read = parsed
         /\ ~Opening => LineTo + last.at <= parsed + 1
    BY <1>1, <1>7, StageFacts
  <1>11. At \in 1 .. Len(buf) /\ At = cursor + 1
    BY <1>1, <1>2 DEF At
  <1>12. \A j \in At .. Len(buf) : buf[j] = Origin + j /\ buf[j] # 0
    <2>1. ASSUME NEW j \in At .. Len(buf)
          PROVE  ~Erased(j)
      <3>1. CASE Early
        BY <3>1 DEF Erased
      <3>2. CASE ~Early
        <4>1. Origin = LineTo /\ LineTo + last.at <= Origin + cursor + 1
          BY <1>6, <1>10, <3>2 DEF Origin
        <4>2. ~(j < last.at)
          BY <1>2, <1>9, <1>11, <4>1
        <4>3. QED
          BY <4>2 DEF Erased
      <3>3. QED
        BY <3>1, <3>2
    <2>2. \A j \in At .. Len(buf) : j \in 1 .. Held /\ Origin + j # 0
      BY <1>2, <1>3, <1>9, <1>11
    <2>3. QED
      BY <1>1, <2>1, <2>2 DEF Window
  <1>13. \A j \in At .. Len(buf) : Kind(j) = KindAt(Origin + j)
    BY <1>12 DEF Kind, KindAt
  <1>14. At \in At .. Len(buf) /\ Origin + At = Read + 1
    BY <1>2, <1>6, <1>9, <1>11
  <1>15. Read + 1 \in Begin + 1 .. Finish
    BY <1>8, <1>10 DEF Here
  <1>16. taken = Origin + Len(buf)
    BY <1>2, <1>6, <1>9
  <1>17. buf[At] = Read + 1 /\ Kind(At) = KindAt(Read + 1)
    BY <1>12, <1>13, <1>14
  <1>18. QED
    BY <1>2, <1>6, <1>7, <1>9, <1>11, <1>12, <1>13, <1>15, <1>16, <1>17 DEF Ahead

(* The run of one kind that a token is.                                    *)
LEMMA RunEnds ==
    ASSUME Len(buf) \in Nat, cursor \in Nat, cursor < Len(buf)
    PROVE  /\ RunEnd \in At .. Len(buf)
           /\ \A i \in At .. RunEnd : Kind(i) = Kind(At)
           /\ RunEnd = Len(buf) \/ Kind(RunEnd + 1) # Kind(At)
  <1> DEFINE Good(j) == /\ \A i \in At .. j : Kind(i) = Kind(At)
                        /\ j = Len(buf) \/ Kind(j + 1) # Kind(At)
             m == Len(buf) - At
             S == {d \in 0 .. m : \A i \in At .. At + d : Kind(i) = Kind(At)}
  <1>0. At \in Nat /\ At <= Len(buf) /\ m \in Nat
    BY DEF At
  <1>1. SUFFICES \E j \in At .. Len(buf) : Good(j)
    <2> HIDE DEF Good
    <2>1. RunEnd = CHOOSE j \in At .. Len(buf) : Good(j)
      BY DEF RunEnd, Good
    <2>2. RunEnd \in At .. Len(buf) /\ Good(RunEnd)
      BY <1>1, <2>1
    <2>3. QED
      BY <2>2 DEF Good
  <1>2. SUFFICES ASSUME ~\E j \in At .. Len(buf) : Good(j)
                 PROVE  FALSE
    OBVIOUS
  <1>3. 0 \in S
    BY <1>0
  <1>4. ASSUME NEW d \in 0 .. m - 1, d \in S
        PROVE  d + 1 \in S
    <2>1. At + d \in At .. Len(buf) /\ At + d # Len(buf) /\ d + 1 \in 0 .. m
      BY <1>0
    <2>2. \A i \in At .. At + d : Kind(i) = Kind(At)
      BY <1>4
    <2>3. Kind((At + d) + 1) = Kind(At)
      BY <1>2, <2>1, <2>2
    <2>4. ASSUME NEW i \in At .. At + (d + 1)
          PROVE  Kind(i) = Kind(At)
      <3>1. i \in At .. At + d \/ i = (At + d) + 1
        BY <1>0
      <3>2. QED
        BY <2>2, <2>3, <3>1
    <2>5. QED
      BY <2>1, <2>4
  <1>5. m \in S
    <2> HIDE DEF S, m
    <2>1. \A d \in 0 .. m : d \in S
      BY <1>0, <1>3, <1>4, Induction
    <2>2. QED
      BY <1>0, <2>1
  <1>6. At + m = Len(buf) /\ Len(buf) \in At .. Len(buf)
    BY <1>0
  <1>7. \A i \in At .. Len(buf) : Kind(i) = Kind(At)
    <2>1. \A i \in At .. At + m : Kind(i) = Kind(At)
      BY <1>5
    <2> HIDE DEF m
    <2>2. QED
      BY <1>6, <2>1
  <1>8. QED
    BY <1>2, <1>6, <1>7

(* A step that leaves the request and the text alone.                      *)
LEMMA SameRequest ==
    ASSUME UNCHANGED <<requests, text, served>>
    PROVE  /\ Begin' = Begin /\ LineTo' = LineTo /\ HeadTo' = HeadTo /\ Finish' = Finish
           /\ UrlLength' = UrlLength /\ BodyLength' = BodyLength /\ (Coming' <=> Coming)
           /\ Asked' = Asked /\ (Sent => Sent')
  BY DEF Begin, LineTo, HeadTo, Finish, UrlLength, BodyLength, Coming, Asked, Sent

(* The kinds of bytes stay with the text.                                  *)
LEMMA SameKinds ==
    ASSUME UNCHANGED text
    PROVE  \A p : KindAt(p)' = KindAt(p)
  BY DEF KindAt

(* The rule that a byte is accepted by.                                    *)
LEMMA Rule ==
    ASSUME Accepted(Kind(At))
    PROVE  <<grammar, Kind(At), Becomes>> \in Rules
  <1> DEFINE P(r) == r[1] = grammar /\ r[2] = Kind(At)
             c == CHOOSE r \in Rules : P(r)
  <1>1. c \in Rules /\ P(c)
    <2>1. \E r \in Rules : P(r)
      BY DEF Accepted
    <2> HIDE DEF P
    <2>2. QED
      BY <2>1
  <1>2. \A r \in Rules : r = <<r[1], r[2], r[3]>>
    BY DEF Rules
  <1>3. Becomes = c[3]
    BY DEF Becomes
  <1> HIDE DEF c
  <1>4. QED
    BY <1>1, <1>2, <1>3

(* A run ends before the first byte of another kind.                       *)
LEMMA RunWithin ==
    ASSUME Ahead, NEW stop \in Nat, Read < stop, KindAt(stop) # Kind(At)
    PROVE  /\ Origin + RunEnd < stop /\ RunEnd \in At .. Len(buf) /\ Run \in Nat \ {0}
           /\ RunEnd = cursor + Run
           /\ \A p \in Read + 1 .. Origin + RunEnd : KindAt(p) = Kind(At)
  <1>1. /\ Origin \in Nat /\ cursor \in Nat /\ Len(buf) \in Nat /\ Read = Origin + cursor
        /\ At = cursor + 1 /\ At \in 1 .. Len(buf)
        /\ \A j \in At .. Len(buf) : Kind(j) = KindAt(Origin + j)
    BY DEF Ahead
  <1>2. RunEnd \in At .. Len(buf) /\ \A i \in At .. RunEnd : Kind(i) = Kind(At)
    BY <1>1, RunEnds
  <1>3. Run \in Nat \ {0} /\ RunEnd = cursor + Run
    BY <1>1, <1>2 DEF Run
  <1>4. ASSUME NEW p \in Read + 1 .. Origin + RunEnd
        PROVE  KindAt(p) = Kind(At)
    <2>1. p - Origin \in At .. RunEnd /\ p - Origin \in At .. Len(buf) /\ Origin + (p - Origin) = p
      BY <1>1, <1>2
    <2>2. QED
      BY <1>1, <1>2, <2>1
  <1>5. Origin + RunEnd < stop
    <2>1. stop \notin Read + 1 .. Origin + RunEnd
      BY <1>4
    <2>2. QED
      BY <1>1, <1>2, <2>1
  <1>6. QED
    BY <1>2, <1>3, <1>4, <1>5

(* The parser goes on to position k of the block.                          *)
LEMMA Advances ==
    ASSUME HeadersSent, ParserInv, Ahead, pc = "execute", NEW k \in At .. Len(buf),
           UNCHANGED <<requests, text, served, taken, pending, pc, offset, paused, preParsed>>,
           Parsed(k), Early' <=> Early,
           buf' \in Seq(0 .. Len(text)), Len(buf') = Len(buf),
           \A j \in 1 .. Len(buf) : buf'[j] = IF Erased(j)' THEN 0 ELSE Origin + j
    PROVE  /\ Sent' /\ Queue' /\ Window' /\ Parsing'
           /\ parsed' = Origin + k /\ cursor' = k /\ Origin' = Origin
           /\ cursor' \in 0 .. Len(buf') /\ parsed' \in 0 .. Len(text)
  <1>0. /\ Coming /\ Origin \in Nat /\ cursor \in Nat /\ Len(buf) \in Nat /\ At = cursor + 1
        /\ Read = Origin + cursor /\ taken = Origin + Len(buf) /\ taken <= Len(text)
        /\ Len(text) \in Nat
    BY EndIsThere DEF Ahead, ParserInv
  <1>1. Sent' /\ Origin' = Origin
    BY SameRequest DEF Origin, ParserInv
  <1>2. Queue'
    BY DEF Queue, ParserInv
  <1>3. buf[k] = Origin + k /\ k \in Nat /\ Origin + k <= taken
    BY <1>0 DEF Ahead
  <1>4. parsed' = Origin + k /\ cursor' = k
    BY <1>3 DEF Parsed
  <1>5. Held' = Len(buf) /\ Got' = k
    BY <1>4 DEF Held, Got
  <1>6. Read' = parsed'
    BY <1>0, <1>3, <1>4 DEF Read
  <1>7. pending = <<>> /\ ~paused /\ offset <= cursor /\ Len(buf) - offset <= BlockSize
    BY DEF ParserInv, Parsing
  <1>8. Window'
    <2>1. taken' - Len(pending') = Origin' + Held'
      BY <1>0, <1>1, <1>5, <1>7
    <2>2. Read' = Origin' + Got'
      BY <1>1, <1>4, <1>5, <1>6
    <2>3. Held' <= Len(buf')
      BY <1>0, <1>5
    <2>4. \A j \in 1 .. Held' : buf'[j] = IF Erased(j)' THEN 0 ELSE Origin' + j
      BY <1>1, <1>5
    <2>5. QED
      BY <2>1, <2>2, <2>3, <2>4 DEF Window
  <1>9. Parsing'
    <2>1. offset \in Nat
      BY StageTypes DEF ParserInv
    <2>2. offset <= k
      BY <1>0, <1>7, <2>1
    <2>3. QED
      BY <1>4, <1>7, <2>2 DEF Parsing
  <1>10. cursor' \in 0 .. Len(buf') /\ parsed' \in 0 .. Len(text)
    BY <1>0, <1>3, <1>4
  <1>11. QED
    BY <1>1, <1>2, <1>4, <1>8, <1>9, <1>10

(* Strings can be counted.                                                 *)
LEMMA StartsFinite ==
    ASSUME NEW t, NEW b \in Nat, NEW p \in Nat
    PROVE  IsFiniteSet(StartsIn(t, b, p)) /\ Cardinality(StartsIn(t, b, p)) \in Nat
  <1>1. IsFiniteSet(2 .. p - b)
    BY FS_Interval
  <1>2. StartsIn(t, b, p) \subseteq 2 .. p - b
    BY DEF StartsIn
  <1>3. QED
    BY <1>1, <1>2, FS_Subset, FS_CardinalityType

(* No string begins between p and q: their number stays.                   *)
LEMMA StartsStay ==
    ASSUME NEW t, NEW b \in Nat, NEW p \in Nat, NEW q \in Nat, p <= q, b <= p,
           \A r \in p + 1 .. q : t[r].kind = "n" \/ t[r - 1].kind # "n"
    PROVE  StartsIn(t, b, q) = StartsIn(t, b, p)
  <1>1. ASSUME NEW j \in StartsIn(t, b, q)
        PROVE  j \in StartsIn(t, b, p)
    <2>1. j \in 2 .. q - b /\ t[b + j].kind # "n" /\ t[b + (j - 1)].kind = "n"
      BY <1>1 DEF StartsIn
    <2>2. (b + j) - 1 = b + (j - 1)
      BY <2>1
    <2>3. b + j \notin p + 1 .. q
      BY <2>1, <2>2
    <2>4. j \in 2 .. p - b
      BY <2>1, <2>3
    <2>5. QED
      BY <2>1, <2>4 DEF StartsIn
  <1>2. ASSUME NEW j \in StartsIn(t, b, p)
        PROVE  j \in StartsIn(t, b, q)
    <2>1. j \in 2 .. p - b /\ t[b + j].kind # "n" /\ t[b + (j - 1)].kind = "n"
      BY <1>2 DEF StartsIn
    <2>2. j \in 2 .. q - b
      BY <2>1
    <2>3. QED
      BY <2>1, <2>2 DEF StartsIn
  <1>3. QED
    BY <1>1, <1>2

(* One string begins between p and q.                                      *)
LEMMA StartsOne ==
    ASSUME NEW t, NEW b \in Nat, NEW p \in Nat, NEW q \in Nat, b < p, p < q,
           t[p].kind = "n", t[p + 1].kind # "n",
           \A r \in p + 2 .. q : t[r].kind = "n" \/ t[r - 1].kind # "n"
    PROVE  Cardinality(StartsIn(t, b, q)) = Cardinality(StartsIn(t, b, p)) + 1
  <1> DEFINE j == (p + 1) - b
  <1>1. StartsIn(t, b, q) = StartsIn(t, b, p + 1)
    <2>1. \A r \in (p + 1) + 1 .. q : t[r].kind = "n" \/ t[r - 1].kind # "n"
      OBVIOUS
    <2>2. p + 1 \in Nat /\ p + 1 <= q /\ b <= p + 1
      OBVIOUS
    <2>3. QED
      BY <2>1, <2>2, StartsStay
  <1>2. j \notin StartsIn(t, b, p)
    BY DEF StartsIn
  <1>3. StartsIn(t, b, p + 1) = StartsIn(t, b, p) \cup {j}
    <2>1. j \in 2 .. (p + 1) - b /\ b + j = p + 1 /\ b + (j - 1) = p
      OBVIOUS
    <2>2. \A i : i \in 2 .. (p + 1) - b <=> i \in 2 .. p - b \/ i = j
      OBVIOUS
    <2>3. j \in StartsIn(t, b, p + 1)
      <3> HIDE DEF j
      <3> QED
        BY <2>1 DEF StartsIn
    <2> HIDE DEF j
    <2>4. QED
      BY <2>2, <2>3 DEF StartsIn
  <1>4. QED
    BY <1>1, <1>2, <1>3, StartsFinite, FS_AddElement

(* What is erased of the block depends on the request, the status and the  *)
(* last position.                                                          *)
LEMMA ErasedSame ==
    ASSUME UNCHANGED <<requests, text, served>>, Early' <=> Early, Early \/ last'.at = last.at
    PROVE  \A j : Erased(j)' <=> Erased(j)
  <1>1. Origin' = Origin
    BY SameRequest DEF Origin
  <1>2. QED
    BY <1>1 DEF Erased, KindAt

(* The block as the parser has found it.                                   *)
LEMMA BlockIs ==
    ASSUME ParserInv, pc = "execute"
    PROVE  /\ \A j \in 1 .. Len(buf) : buf[j] = IF Erased(j) THEN 0 ELSE Origin + j
           /\ buf \in Seq(0 .. Len(text)) /\ Len(buf) \in Nat
           /\ Stage /\ TypeOK /\ Sent
  BY LenProperties DEF ParserInv, Window, Held, TypeOK

(* The variables a callback may change keep their types.                   *)
LEMMA ParsedTypes ==
    ASSUME TypeOK,
           UNCHANGED <<text, taken, pending, pc, offset, paused, preParsed, served, refused>>,
           remaining' = remaining \/ remaining' \in Nat,
           buf' \in Seq(0 .. Len(text)), Len(buf') = Len(buf),
           cursor' \in 0 .. Len(buf'), parsed' \in 0 .. Len(text),
           grammar' \in Grammar, status' \in Status, hdrs' \in Nat,
           last' \in Notes,
           uri' = uri
    PROVE  TypeOK'
  BY DEF TypeOK, Notes

(* What follows when nothing but the parser's place changes.               *)
LEMMA StillParsing ==
    ASSUME HeadersSent, ParserInv, Executing, NEW k \in At .. Len(buf),
           UNCHANGED <<requests, text, served, taken, pending, pc, offset, paused, preParsed,
                       refused, uri>>,
           remaining' = remaining \/ remaining' \in Nat,
           Parsed(k), Early' <=> Early,
           buf' \in Seq(0 .. Len(text)), Len(buf') = Len(buf),
           \A j \in 1 .. Len(buf) : buf'[j] = IF Erased(j)' THEN 0 ELSE Origin + j,
           parsed' = Origin + k => /\ grammar' \in Grammar /\ status' \in Status /\ hdrs' \in Nat
                                   /\ last' \in Notes
                                   /\ Stage'
    PROVE  ParserInv'
  <1>1. Ahead /\ pc = "execute" /\ TypeOK
    BY Comes DEF Executing, ParserInv
  <1>2. /\ Sent' /\ Queue' /\ Window' /\ Parsing' /\ parsed' = Origin + k
        /\ cursor' \in 0 .. Len(buf') /\ parsed' \in 0 .. Len(text)
    BY <1>1, Advances
  <1>3. TypeOK'
    BY <1>1, <1>2, ParsedTypes
  <1>4. Stage' /\ pc' = "execute"
    BY <1>1, <1>2
  <1>5. QED
    BY <1>2, <1>3, <1>4 DEF ParserInv

AtSomeHeader ==
    \/ AtHeader("field", "HDR_FIELD", "f", 1) \/ AtHeader("colon", "HDR_FIELD", "c", 0)
    \/ AtHeader("value", "HDR_VALUE", "v", 1) \/ AtHeader("line", "HDR_VALUE", "n", 0)

(* The parser goes on within a header.                                     *)
LEMMA Extends ==
    ASSUME HeadersSent, ParserInv, InHeaders, grammar # "line",
           NEW q \in parsed + 1 .. HeadTo - 1, parsed' = q,
           UNCHANGED <<requests, text, served, hdrs, uri>>,
           AtSomeHeader', last'.at \in Nat, last'.at >= 1,
           last'.at = last.at \/ LineTo + last'.at = parsed + 1,
           \A p \in parsed + 1 .. q : KindAt(p) = "n" => grammar' = "line" /\ p = q
    PROVE  InHeaders'
  <1>1. Coming /\ Here /\ Sent /\ parsed \in LineTo + 1 .. HeadTo - 1
    BY HereItIs DEF ParserInv, InHeaders
  <1>2. KindAt(parsed) # "n"
    BY DEF InHeaders, AtHeader
  <1>3. LineTo \in Nat /\ HeadTo \in Nat /\ parsed \in Nat /\ q \in Nat /\ q \in LineTo + 1 .. HeadTo - 1
    BY <1>1 DEF Here
  <1>4. LineTo' = LineTo /\ HeadTo' = HeadTo /\ Coming'
    BY <1>1, SameRequest
  <1>5. ASSUME NEW p \in LineTo + last'.at .. q, KindAt(p) = "n"
        PROVE  grammar' = "line" /\ p = q
    <2>1. CASE p \in parsed + 1 .. q
      BY <1>5, <2>1
    <2>2. CASE p \notin parsed + 1 .. q
      <3>1. p <= parsed /\ p \in Nat
        BY <1>3, <1>5, <2>2
      <3>2. last'.at = last.at
        BY <1>3, <3>1
      <3>3. p \in LineTo + last.at .. parsed
        BY <3>1, <3>2
      <3>4. QED
        BY <1>5, <3>3 DEF InHeaders
    <2>3. QED
      BY <2>1, <2>2
  <1>6. StartsIn(text, LineTo, q) = StartsIn(text, LineTo, parsed)
    <2>1. ASSUME NEW r \in parsed + 1 .. q
          PROVE  text[r].kind = "n" \/ text[r - 1].kind # "n"
      <3>1. CASE r - 1 = parsed
        BY <1>2, <3>1 DEF KindAt
      <3>2. CASE r - 1 # parsed
        <4>1. r - 1 \in parsed + 1 .. q /\ r - 1 # q
          BY <1>3, <3>2
        <4>2. QED
          BY <4>1 DEF KindAt
      <3>3. QED
        BY <3>1, <3>2
    <2>2. parsed <= q /\ LineTo <= parsed
      BY <1>1, <1>3
    <2>3. LineTo \in Nat /\ parsed \in Nat /\ q \in Nat
      BY <1>3
    <2>4. QED
      BY <2>1, <2>2, <2>3, StartsStay, ZenonT(40)
  <1>7. hdrs' = Cardinality(StartsIn(text', LineTo', parsed'))
    BY <1>4, <1>6 DEF InHeaders
  <1>8. uri' = Where(text, served + 1, {"u"})'
    BY DEF InHeaders, Where
  <1>9. \A p \in LineTo' + last'.at .. parsed' : KindAt(p)' = "n" => grammar' = "line" /\ p = parsed'
    BY <1>4, <1>5, SameKinds
  <1>10. QED
    BY <1>3, <1>4, <1>7, <1>8, <1>9 DEF InHeaders, AtSomeHeader

(* What the grammar says of the stage.                                     *)
LEMMA StageIs ==
    ASSUME Stage
    PROVE  /\ grammar \in Grammar /\ status \in Status
           /\ grammar = "start" => Opening /\ AtStart
           /\ grammar = "method" => Opening /\ AtMethod
           /\ grammar = "url" => Opening /\ AtUrl
           /\ grammar = "line" /\ Early => Opening /\ AtLine
           /\ grammar = "line" /\ ~Early => InHeaders /\ AtHeader("line", "HDR_VALUE", "n", 0)
           /\ grammar = "field" => InHeaders /\ AtHeader("field", "HDR_FIELD", "f", 1)
           /\ grammar = "colon" => InHeaders /\ AtHeader("colon", "HDR_FIELD", "c", 0)
           /\ grammar = "value" => InHeaders /\ AtHeader("value", "HDR_VALUE", "v", 1)
           /\ grammar = "body" => AtBody
  BY DEF Stage, Opening, AtStart, AtMethod, AtUrl, AtLine, InHeaders, AtHeader, AtBody, Early,
         Grammar, Status

(* Bytes between the tokens keep the parser in its place.                  *)
LEMMA PunctuationKeeps ==
    ASSUME HeadersSent, ParserInv, Punctuation
    PROVE  ParserInv'
  <1>1. Executing /\ Accepted(Kind(At)) /\ Parsed(At) /\ grammar' = Becomes
    BY DEF Punctuation
  <1>2. Ahead
    BY <1>1, Comes
  <1>3. /\ Stage /\ TypeOK /\ Sent /\ pc = "execute" /\ buf \in Seq(0 .. Len(text)) /\ Len(buf) \in Nat
        /\ \A j \in 1 .. Len(buf) : buf[j] = IF Erased(j) THEN 0 ELSE Origin + j
    BY <1>1, BlockIs DEF Executing
  <1>4. /\ Coming /\ Origin \in Nat /\ At \in 1 .. Len(buf) /\ At = cursor + 1 /\ cursor \in Nat
        /\ Read = Origin + cursor /\ Kind(At) = KindAt(Read + 1)
    BY <1>2 DEF Ahead
  <1>5. Here /\ KindsHere
    BY <1>3, <1>4, HereItIs
  <1>6. /\ UNCHANGED <<requests, text, served, taken, pending, pc, offset, paused, preParsed,
                       refused, remaining, uri, buf, hdrs, status, last>>
    BY DEF Punctuation, streamVars, requestVars, heardVars
  <1>7. Early' <=> Early
    BY <1>6 DEF Early
  <1>8. \A j \in 1 .. Len(buf) : buf'[j] = IF Erased(j)' THEN 0 ELSE Origin + j
    BY <1>3, <1>6, <1>7, ErasedSame
  <1>9. <<grammar, Kind(At), grammar'>> \in Rules
    BY <1>1, Rule
  <1>10. \/ grammar = "start" /\ Kind(At) = "m" /\ grammar' = "method"
         \/ grammar = "url" /\ Kind(At) = "l" /\ grammar' = "line"
         \/ grammar = "field" /\ Kind(At) = "c" /\ grammar' = "colon"
         \/ grammar = "value" /\ Kind(At) = "n" /\ grammar' = "line"
    <2>1. Kind(At) \in {"m", "l", "c"} \/ <<grammar, Kind(At)>> = <<"value", "n">>
      BY DEF Punctuation
    <2>2. QED
      BY <1>9, <2>1 DEF Rules
  <1>11. \A p : KindAt(p)' = KindAt(p)
    BY <1>6, SameKinds
  <1>12. /\ Begin' = Begin /\ LineTo' = LineTo /\ HeadTo' = HeadTo /\ UrlLength' = UrlLength /\ Coming'
    BY <1>4, <1>6, SameRequest
  <1>13. ASSUME parsed' = Origin + At
         PROVE  Stage'
    <2>1. parsed' = Read + 1
      BY <1>4, <1>13
    <2>2. CASE grammar = "start" /\ Kind(At) = "m" /\ grammar' = "method"
      <3>1. Opening /\ AtStart
        BY <1>3, <2>2, StageIs
      <3>2. Read = Begin
        BY <3>1 DEF AtStart, Read
      <3>3. AtMethod'
        BY <1>6, <1>12, <2>1, <2>2, <3>1, <3>2 DEF AtStart, AtMethod
      <3>4. QED
        BY <1>6, <3>1, <3>3 DEF Stage, Opening
    <2>3. CASE grammar = "url" /\ Kind(At) = "l" /\ grammar' = "line"
      <3>1. Opening /\ AtUrl
        BY <1>3, <2>3, StageIs
      <3>2. Read = parsed /\ parsed \in Begin + 2 .. LineTo - 1
        BY <1>5, <3>1 DEF AtUrl, Read, Here
      <3>3. Read + 1 = LineTo
        <4>1. KindAt(Read + 1) = "l"
          BY <1>4, <2>3
        <4>2. Read + 1 \notin Begin + 2 .. LineTo - 1
          BY <1>5, <4>1 DEF KindsHere
        <4>3. QED
          BY <1>5, <3>2, <4>2 DEF Here
      <3>4. last.length = UrlLength
        BY <1>5, <3>1, <3>2, <3>3 DEF AtUrl, Here
      <3>5. AtLine'
        BY <1>6, <1>12, <2>1, <2>3, <3>1, <3>3, <3>4 DEF AtUrl, AtLine
      <3>6. QED
        BY <1>6, <3>1, <3>5 DEF Stage, Opening
    <2>4. CASE grammar = "field" /\ Kind(At) = "c" /\ grammar' = "colon"
      <3>1. InHeaders /\ AtHeader("field", "HDR_FIELD", "f", 1)
        BY <1>3, <2>4, StageIs
      <3>2. Read = parsed /\ parsed \in LineTo + 1 .. HeadTo - 1
        BY <1>5, <3>1 DEF InHeaders, Read, Here
      <3>3. parsed + 1 \in parsed + 1 .. HeadTo - 1
        <4>1. parsed + 1 # HeadTo
          BY <1>4, <1>5, <2>4, <3>2 DEF KindsHere
        <4>2. QED
          BY <1>5, <3>2, <4>1 DEF Here
      <3>4. AtHeader("colon", "HDR_FIELD", "c", 0)'
        <4>1. KindAt(parsed)' = "c"
          BY <1>4, <1>6, <2>1, <2>4 DEF KindAt
        <4>2. LineTo' + last'.at + last'.length = parsed' + 0
          BY <1>5, <1>6, <1>12, <2>1, <3>1, <3>2 DEF AtHeader, Here
        <4>3. QED
          BY <1>6, <2>4, <3>1, <4>1, <4>2 DEF AtHeader
      <3>5. \A p \in parsed + 1 .. parsed' : KindAt(p) = "n" => grammar' = "line" /\ p = parsed'
        BY <1>4, <1>5, <2>1, <2>4, <3>2 DEF Here
      <3>6. last'.at = last.at /\ last'.at \in Nat /\ last'.at >= 1
        BY <1>3, <1>6, <3>1, StageTypes DEF InHeaders
      <3>7. InHeaders'
        BY <1>6, <2>1, <2>4, <3>1, <3>2, <3>3, <3>4, <3>5, <3>6, Extends DEF AtSomeHeader
      <3>8. QED
        BY <3>7 DEF Stage
    <2>5. CASE grammar = "value" /\ Kind(At) = "n" /\ grammar' = "line"
      <3>1. InHeaders /\ AtHeader("value", "HDR_VALUE", "v", 1)
        BY <1>3, <2>5, StageIs
      <3>2. Read = parsed /\ parsed \in LineTo + 1 .. HeadTo - 1
        BY <1>5, <3>1 DEF InHeaders, Read, Here
      <3>3. parsed + 1 \in parsed + 1 .. HeadTo - 1
        <4>1. parsed # HeadTo - 1
          BY <1>5, <3>1 DEF KindsHere, AtHeader
        <4>2. QED
          BY <1>5, <3>2, <4>1 DEF Here
      <3>4. AtHeader("line", "HDR_VALUE", "n", 0)'
        <4>1. KindAt(parsed)' = "n"
          BY <1>4, <1>6, <2>1, <2>5 DEF KindAt
        <4>2. LineTo' + last'.at + last'.length = parsed' + 0
          BY <1>5, <1>6, <1>12, <2>1, <3>1, <3>2 DEF AtHeader, Here
        <4>3. QED
          BY <1>6, <2>5, <3>1, <4>1, <4>2 DEF AtHeader
      <3>5. \A p \in parsed + 1 .. parsed' : KindAt(p) = "n" => grammar' = "line" /\ p = parsed'
        BY <1>4, <1>5, <2>1, <2>5, <3>2 DEF Here
      <3>6. last'.at = last.at /\ last'.at \in Nat /\ last'.at >= 1
        BY <1>3, <1>6, <3>1, StageTypes DEF InHeaders
      <3>7. InHeaders'
        BY <1>6, <2>1, <2>5, <3>1, <3>2, <3>3, <3>4, <3>5, <3>6, Extends DEF AtSomeHeader
      <3>8. QED
        BY <3>7 DEF Stage
    <2>6. QED
      BY <1>10, <2>2, <2>3, <2>4, <2>5
  <1>14. /\ grammar' \in Grammar /\ status' \in Status /\ hdrs' \in Nat
         /\ last' \in Notes
    BY <1>3, <1>6, <1>10 DEF TypeOK, Grammar
  <1>15. At \in At .. Len(buf) /\ buf' \in Seq(0 .. Len(text)) /\ Len(buf') = Len(buf)
    BY <1>3, <1>4, <1>6
  <1>16. QED
    BY <1>1, <1>6, <1>7, <1>8, <1>13, <1>14, <1>15, StillParsing

(* A connection that is closed keeps what it had.                          *)
LEMMA Closes ==
    ASSUME ParserInv, pc' = "closed", refused' \in BOOLEAN,
           UNCHANGED <<streamVars, taken, pending, buf, offset, cursor, parserVars,
                       requestVars, heardVars>>
    PROVE  ParserInv'
  <1>1. /\ UNCHANGED <<requests, text, served, taken, pending, buf, offset, cursor, grammar, parsed,
                       status, last, paused, preParsed, hdrs, uri, remaining>>
    BY DEF streamVars, parserVars, requestVars, heardVars
  <1>2. Sent' /\ Queue'
    BY <1>1, SameRequest DEF ParserInv, Queue
  <1>3. TypeOK'
    BY <1>1 DEF ParserInv, TypeOK, Notes
  <1>4. QED
    BY <1>2, <1>3 DEF ParserInv

(* What has been parsed of the URI when its next bytes are, all of which   *)
(* are of the request.                                                     *)
LEMMA UrlRun ==
    ASSUME HeadersSent, ParserInv, Token("u")
    PROVE  /\ Opening /\ Early /\ Becomes = "url" /\ Origin = Begin
           /\ (IF status = "IDLE" THEN At ELSE last.at) = 2
           /\ Run + (IF status = "IDLE" THEN 0 ELSE last.length) = RunEnd - 1
           /\ Begin + RunEnd \in Begin + 2 .. LineTo - 1 /\ RunEnd \in At .. Len(buf)
           /\ RunEnd \in Nat /\ RunEnd >= 1 /\ status \in {"IDLE", "URL"}
  <1>1. Executing /\ Accepted(Kind(At)) /\ Kind(At) = "u"
    BY DEF Token
  <1>2. Ahead
    BY <1>1, Comes
  <1>3. Stage /\ TypeOK /\ Sent /\ Len(buf) \in Nat
    BY <1>1, BlockIs DEF Executing
  <1>4. /\ Coming /\ Origin \in Nat /\ At \in 1 .. Len(buf) /\ At = cursor + 1 /\ cursor \in Nat
        /\ Read = Origin + cursor /\ Kind(At) = KindAt(Read + 1)
    BY <1>2 DEF Ahead
  <1>5. Here /\ KindsHere
    BY <1>3, <1>4, HereItIs
  <1>6. <<grammar, "u", Becomes>> \in Rules
    BY <1>1, Rule
  <1>7. Opening /\ Becomes = "url" /\ (AtMethod \/ AtUrl)
    BY <1>3, <1>6, StageIs DEF Rules
  <1>8. Early /\ Origin = Begin /\ status \in {"IDLE", "URL"}
    BY <1>7 DEF AtMethod, AtUrl, Early, Origin
  <1>9. Read < LineTo /\ LineTo \in Nat /\ KindAt(LineTo) # Kind(At)
    <2>1. Read \in Begin .. LineTo - 1
      <3>1. CASE AtMethod
        BY <1>5, <3>1 DEF AtMethod, Read, Here
      <3>2. CASE AtUrl
        BY <1>5, <3>2 DEF AtUrl, Read, Here
      <3>3. QED
        BY <1>7, <3>1, <3>2
    <2>2. QED
      BY <1>1, <1>5, <2>1 DEF Here, KindsHere
  <1>10. /\ Origin + RunEnd < LineTo /\ RunEnd \in At .. Len(buf) /\ Run \in Nat \ {0}
         /\ RunEnd = cursor + Run
    BY <1>2, <1>9, RunWithin
  <1>11. RunEnd \in Nat /\ RunEnd >= 1
    BY <1>3, <1>4, <1>10
  <1>12. CASE AtMethod
    <2>1. cursor = 1
      BY <1>4, <1>5, <1>8, <1>12 DEF AtMethod, Read, Here
    <2>2. At = 2 /\ Run + 0 = RunEnd - 1
      BY <1>4, <1>10, <2>1
    <2>3. Begin + RunEnd \in Begin + 2 .. LineTo - 1
      BY <1>5, <1>8, <1>9, <1>10, <1>11, <2>1 DEF Here
    <2>4. QED
      BY <1>7, <1>8, <1>10, <1>11, <1>12, <2>2, <2>3 DEF AtMethod
  <1>13. CASE AtUrl
    <2>1. last.at = 2 /\ last.length = parsed - (Begin + 1) /\ status = "URL"
      BY <1>13 DEF AtUrl
    <2>2. cursor = parsed - Begin /\ parsed \in Begin + 2 .. LineTo - 1
      BY <1>4, <1>5, <1>8, <1>13 DEF AtUrl, Read, Here
    <2>3. Run + last.length = RunEnd - 1
      BY <1>5, <1>10, <2>1, <2>2 DEF Here
    <2>4. Begin + RunEnd \in Begin + 2 .. LineTo - 1
      BY <1>5, <1>8, <1>9, <1>10, <1>11, <2>2 DEF Here
    <2>5. QED
      BY <1>7, <1>8, <1>10, <1>11, <2>1, <2>3, <2>4
  <1>14. QED
    BY <1>7, <1>12, <1>13

(* cb_url: a part of the URI is parsed and the whole of it noted, or the   *)
(* URI is too long.                                                        *)
LEMMA CbUrlKeeps ==
    ASSUME HeadersSent, ParserInv, CbUrl
    PROVE  ParserInv'
  <1>1. Executing /\ Token("u")
    BY DEF CbUrl, Token
  <1>2. /\ Stage /\ TypeOK /\ Sent /\ buf \in Seq(0 .. Len(text)) /\ Len(buf) \in Nat
        /\ \A j \in 1 .. Len(buf) : buf[j] = IF Erased(j) THEN 0 ELSE Origin + j
    BY <1>1, BlockIs DEF Executing
  <1>3. Coming /\ cursor \in Nat /\ At = cursor + 1
    BY <1>1, Comes DEF Ahead
  <1>4. Here
    BY <1>2, <1>3, HereItIs
  <1>5. /\ Opening /\ Early /\ Becomes = "url" /\ Origin = Begin
        /\ (IF status = "IDLE" THEN At ELSE last.at) = 2
        /\ Run + (IF status = "IDLE" THEN 0 ELSE last.length) = RunEnd - 1
        /\ Begin + RunEnd \in Begin + 2 .. LineTo - 1 /\ RunEnd \in At .. Len(buf)
        /\ RunEnd \in Nat /\ RunEnd >= 1
    BY <1>1, UrlRun
  <1>6. CASE Refuse
    BY <1>6, Closes DEF Refuse
  <1>7. CASE ~Refuse
    <2>1. Note("URL", 2, RunEnd - 1) /\ UNCHANGED <<buf, hdrs>>
      BY <1>5, <1>7 DEF CbUrl
    <2>2. /\ UNCHANGED <<requests, text, served, taken, pending, pc, offset, paused, preParsed,
                         refused, remaining, uri, buf, hdrs>>
          /\ status' = "URL" /\ last' = [at |-> 2, length |-> RunEnd - 1] /\ grammar' = "url"
          /\ Parsed(RunEnd)
      BY <1>5, <2>1 DEF Note, streamVars, heardVars
    <2>3. Early'
      BY <2>2 DEF Early
    <2>4. \A j \in 1 .. Len(buf) : buf'[j] = IF Erased(j)' THEN 0 ELSE Origin + j
      BY <1>2, <1>5, <2>2, <2>3, ErasedSame
    <2>5. ASSUME parsed' = Origin + RunEnd
          PROVE  Stage'
      <3>1. /\ Begin' = Begin /\ LineTo' = LineTo /\ Coming'
        BY <1>3, <2>2, SameRequest
      <3>2. parsed' - (Begin + 1) = RunEnd - 1
        BY <1>4, <1>5, <2>5 DEF Here
      <3>3. AtUrl'
        BY <1>5, <2>2, <2>5, <3>1, <3>2 DEF AtUrl
      <3>4. QED
        BY <1>5, <2>2, <3>3 DEF Stage, Opening
    <2>6. last' \in Notes
      <3>1. Len(buf) <= Scratch /\ Scratch \in Nat
        BY <1>2, StageTypes
      <3>2. RunEnd <= Scratch
        BY <1>2, <1>3, <1>5, <3>1
      <3>3. 2 \in 0 .. Scratch + 1 /\ RunEnd - 1 \in 0 .. Scratch
        BY <1>5, <3>1, <3>2
      <3>4. QED
        BY <2>2, <3>3 DEF Notes
    <2>7. grammar' \in Grammar /\ status' \in Status /\ hdrs' \in Nat
      BY <1>2, <2>2 DEF TypeOK, Grammar, Status
    <2>8. buf' \in Seq(0 .. Len(text)) /\ Len(buf') = Len(buf)
      BY <1>2, <2>2
    <2>9. QED
      BY <1>1, <1>5, <2>2, <2>3, <2>4, <2>5, <2>6, <2>7, <2>8, StillParsing
  <1>8. QED
    BY <1>6, <1>7

(* Where the URI is in the text.                                           *)
LEMMA UrlPlace ==
    ASSUME HeadersSent, Sent, Coming
    PROVE  Where(text, served + 1, {"u"}) = Begin + 2 .. LineTo - 1
  <1>1. Here /\ KindsHere /\ Owner /\ text \in Seq(Bytes) /\ Len(text) \in Nat
    BY HereItIs, TextFacts
  <1>2. DOMAIN text = 1 .. Len(text)
    BY <1>1
  <1>3. ASSUME NEW p \in Where(text, served + 1, {"u"})
        PROVE  p \in Begin + 2 .. LineTo - 1
    <2>1. p \in 1 .. Len(text) /\ text[p].req = served + 1 /\ KindAt(p) = "u"
      BY <1>2, <1>3 DEF Where, KindAt
    <2>2. p \in Begin + 1 .. Finish
      BY <1>1, <2>1 DEF Owner
    <2>3. p # Begin + 1 /\ p # LineTo /\ p \notin LineTo + 1 .. HeadTo /\ p \notin HeadTo + 1 .. Finish
      BY <1>1, <2>1 DEF KindsHere
    <2>4. QED
      BY <1>1, <2>2, <2>3 DEF Here
  <1>4. ASSUME NEW p \in Begin + 2 .. LineTo - 1
        PROVE  p \in Where(text, served + 1, {"u"})
    <2>1. p \in 1 .. Len(text) /\ p \in Begin + 1 .. Finish
      BY <1>1 DEF Here
    <2>2. text[p].req = served + 1 /\ text[p].kind = "u"
      BY <1>1, <2>1 DEF Owner, KindsHere, KindAt
    <2>3. QED
      BY <1>2, <2>1, <2>2 DEF Where
  <1>5. QED
    BY <1>3, <1>4

(* The URI that the callbacks have noted is the one of the request.        *)
LEMMA UrlNoted ==
    ASSUME HeadersSent, ParserInv, Executing, AtLine
    PROVE  /\ UriNoted = Where(text, served + 1, {"u"}) /\ UriNoted \subseteq 0 .. Len(text)
           /\ last.length \in Nat /\ Cardinality(UriNoted) = last.length
  <1>1. Ahead /\ Coming /\ Sent /\ TypeOK
    BY Comes DEF AtLine, ParserInv
  <1>2. Here /\ Len(text) \in Nat
    BY <1>1, HereItIs, EndIsThere
  <1>3. /\ \A j \in 1 .. Len(buf) : buf[j] = IF Erased(j) THEN 0 ELSE Origin + j
        /\ Len(buf) \in Nat
    BY BlockIs DEF Executing
  <1>4. Early /\ Origin = Begin /\ \A j : ~Erased(j)
    BY DEF AtLine, Early, Origin, Erased
  <1>5. /\ cursor \in Nat /\ cursor <= Len(buf) /\ Read = Begin + cursor
    BY <1>1, <1>3, <1>4 DEF Ahead
  <1>6. Read = LineTo
    BY <1>2 DEF AtLine, Read, Here
  <1>7. last.at = 2 /\ last.length = UrlLength /\ cursor = UrlLength + 2
    BY <1>2, <1>5, <1>6 DEF AtLine, Here
  <1>8. \A i \in 2 .. UrlLength + 1 : buf[i] = Begin + i
    <2>1. \A i \in 2 .. UrlLength + 1 : i \in 1 .. Len(buf)
      BY <1>2, <1>3, <1>5, <1>7 DEF Here
    <2>2. QED
      BY <1>3, <1>4, <2>1
  <1>9. 2 + UrlLength - 1 = UrlLength + 1
    BY <1>2 DEF Here
  <1>10. UriNoted = {Begin + i : i \in 2 .. UrlLength + 1}
    BY <1>7, <1>8, <1>9 DEF UriNoted
  <1>11. {Begin + i : i \in 2 .. UrlLength + 1} = Begin + 2 .. LineTo - 1
    <2>1. \A i \in 2 .. UrlLength + 1 : Begin + i \in Begin + 2 .. LineTo - 1
      BY <1>2 DEF Here
    <2>2. \A p \in Begin + 2 .. LineTo - 1 : p - Begin \in 2 .. UrlLength + 1 /\ Begin + (p - Begin) = p
      BY <1>2 DEF Here
    <2>3. QED
      BY <2>1, <2>2
  <1>12. Cardinality(Begin + 2 .. LineTo - 1) = UrlLength
    <2>1. Begin + 2 \in Int /\ LineTo - 1 \in Int
      BY <1>2 DEF Here
    <2>2. CASE UrlLength = 0
      <3>1. Begin + 2 > LineTo - 1
        BY <1>2, <2>2 DEF Here
      <3>2. QED
        BY <2>1, <2>2, <3>1, FS_Interval
    <2>3. CASE UrlLength # 0
      <3>1. ~(Begin + 2 > LineTo - 1) /\ (LineTo - 1) - (Begin + 2) + 1 = UrlLength
        BY <1>2, <2>3 DEF Here
      <3>2. QED
        BY <2>1, <3>1, FS_Interval
    <2>4. QED
      BY <2>2, <2>3
  <1>13. Begin + 2 .. LineTo - 1 \subseteq 0 .. Len(text)
    BY <1>2 DEF Here
  <1>14. QED
    BY <1>1, <1>2, <1>7, <1>10, <1>11, <1>12, <1>13, UrlPlace DEF Here

(* The rest of a sequence.                                                 *)
LEMMA FromIs ==
    ASSUME NEW S, NEW b \in Seq(S), NEW at \in 1 .. Len(b) + 1
    PROVE  /\ From(b, at) \in Seq(S) /\ Len(From(b, at)) = (Len(b) + 1) - at
           /\ \A i \in 1 .. Len(From(b, at)) : From(b, at)[i] = b[(at - 1) + i]
  <1>1. Len(b) \in Nat /\ at \in Nat
    OBVIOUS
  <1>2. CASE at = Len(b) + 1
    <2>1. From(b, at) = <<>>
      BY <1>1, <1>2 DEF From
    <2>2. (Len(b) + 1) - at = 0 /\ Len(<<>>) = 0 /\ <<>> \in Seq(S) /\ 1 .. 0 = {}
      BY <1>1, <1>2
    <2>3. From(b, at) \in Seq(S) /\ Len(From(b, at)) = 0
      BY <2>1, <2>2
    <2>4. QED
      BY <2>2, <2>3
  <1>3. CASE at # Len(b) + 1
    <2>1. From(b, at) = SubSeq(b, at, Len(b))
      BY DEF From
    <2>2. at \in 1 .. Len(b)
      BY <1>1, <1>3
    <2>3. /\ SubSeq(b, at, Len(b)) \in Seq(S) /\ Len(SubSeq(b, at, Len(b))) = (Len(b) - at) + 1
          /\ \A i \in 1 .. (Len(b) - at) + 1 : SubSeq(b, at, Len(b))[i] = b[(at + i) - 1]
      <3>1. SubSeq(b, at, Len(b)) = [i \in 1 .. (Len(b) - at) + 1 |-> b[(at + i) - 1]]
        BY <1>1, <2>2
      <3>2. \A i \in 1 .. (Len(b) - at) + 1 : (at + i) - 1 \in 1 .. Len(b)
        BY <1>1, <2>2
      <3>3. \A i \in 1 .. Len(b) : b[i] \in S
        OBVIOUS
      <3>4. (Len(b) - at) + 1 \in Nat
        BY <1>1, <2>2
      <3>5. SubSeq(b, at, Len(b)) \in [1 .. (Len(b) - at) + 1 -> S]
        BY <3>1, <3>2, <3>3
      <3>6. SubSeq(b, at, Len(b)) \in Seq(S)
        BY <3>4, <3>5, SeqDef
      <3>7. QED
        BY <3>1, <3>4, <3>6
    <2>4. (Len(b) - at) + 1 = (Len(b) + 1) - at /\ \A i \in Nat : (at + i) - 1 = (at - 1) + i
      BY <1>1
    <2>5. From(b, at) \in Seq(S) /\ Len(From(b, at)) = (Len(b) + 1) - at
      BY <2>1, <2>3, <2>4
    <2>6. ASSUME NEW i \in 1 .. Len(From(b, at))
          PROVE  From(b, at)[i] = b[(at - 1) + i]
      <3>1. i \in 1 .. (Len(b) - at) + 1 /\ i \in Nat
        BY <1>1, <2>4, <2>5
      <3>2. From(b, at)[i] = b[(at + i) - 1]
        BY <2>1, <2>3, <3>1
      <3>3. QED
        BY <2>4, <3>1, <3>2
    <2>7. QED
      BY <2>5, <2>6
  <1>4. QED
    BY <1>2, <1>3

(* What is pushed back of the block comes again as it was.                 *)
LEMMA PushedBack ==
    ASSUME NEW S, NEW b \in Seq(S), NEW at \in 1 .. Len(b) + 1, pending = <<>>,
           PushBack(b, at)
    PROVE  /\ pending' \in Seq(S) /\ Len(pending') = (Len(b) + 1) - at
           /\ \A i \in 1 .. Len(pending') : pending'[i] = b[(at - 1) + i]
  <1>1. Len(b) \in Nat /\ at \in Nat
    OBVIOUS
  <1>2. CASE at = Len(b) + 1
    <2>1. pending' = <<>>
      BY <1>1, <1>2 DEF PushBack, Unparsed
    <2>2. QED
      BY <1>1, <1>2, <2>1
  <1>3. CASE at # Len(b) + 1
    <2>1. pending' = From(b, at)
      BY <1>1, <1>3 DEF PushBack, Unparsed
    <2>2. QED
      BY <2>1, FromIs
  <1>4. QED
    BY <1>2, <1>3

(* The pause at the first header: the headers begin the buffer anew.       *)
LEMMA FirstHeaderKeeps ==
    ASSUME HeadersSent, ParserInv, Token("f"), status = "URL", Verified, FirstHeader
    PROVE  ParserInv'
  <1> DEFINE end == IF RunEnd < Len(buf) /\ Kind(RunEnd + 1) = "c" THEN RunEnd + 1 ELSE RunEnd
  <1>1. Executing /\ Accepted(Kind(At)) /\ Kind(At) = "f"
    BY DEF Token
  <1>2. Ahead
    BY <1>1, Comes
  <1>3. /\ Stage /\ TypeOK /\ Sent /\ Parsing /\ pc = "execute" /\ buf \in Seq(0 .. Len(text))
        /\ Len(buf) \in Nat
    BY <1>1, BlockIs DEF Executing, ParserInv
  <1>4. /\ Coming /\ Origin \in Nat /\ At \in 1 .. Len(buf) /\ At = cursor + 1 /\ cursor \in Nat
        /\ Read = Origin + cursor /\ Kind(At) = KindAt(Read + 1)
        /\ taken = Origin + Len(buf) /\ taken <= Len(text)
        /\ \A j \in At .. Len(buf) : buf[j] = Origin + j /\ Kind(j) = KindAt(Origin + j)
    BY <1>2 DEF Ahead
  <1>5. Here /\ KindsHere
    BY <1>3, <1>4, HereItIs
  <1>6. Opening /\ AtLine
    <2>1. <<grammar, "f", Becomes>> \in Rules
      BY <1>1, Rule
    <2>2. Early
      BY DEF Early
    <2>3. grammar \in {"line", "field"}
      BY <2>1 DEF Rules
    <2>4. grammar # "field"
      BY <1>3, StageIs DEF AtHeader
    <2>5. QED
      BY <1>3, <2>2, <2>3, <2>4, StageIs
  <1>7. Origin = Begin /\ Read = LineTo /\ LineTo = Begin + cursor
    BY <1>4, <1>5, <1>6 DEF AtLine, Origin, Early, Read, Here
  <1>8. /\ Begin + RunEnd < HeadTo /\ RunEnd \in At .. Len(buf) /\ Run \in Nat \ {0}
        /\ RunEnd = cursor + Run
        /\ \A p \in LineTo + 1 .. Begin + RunEnd : KindAt(p) = "f"
    <2>1. HeadTo \in Nat /\ Read < HeadTo /\ KindAt(HeadTo) # Kind(At)
      BY <1>1, <1>5, <1>7 DEF Here, KindsHere
    <2>2. QED
      BY <1>1, <1>2, <1>7, <2>1, RunWithin
  <1>9. /\ UNCHANGED <<requests, text, served, taken, buf, hdrs, remaining, refused>>
        /\ uri' = UriNoted /\ status' = "HDR_FIELD" /\ last' = [at |-> 1, length |-> Run]
        /\ PushBack(buf, At) /\ paused' = TRUE /\ preParsed' = PreParsed(At, end)
        /\ grammar' = (IF end > RunEnd THEN "colon" ELSE "field") /\ Parsed(end)
        /\ offset' = 0 /\ pc' = "read"
    BY DEF FirstHeader, streamVars, heardVars
  <1>10. /\ Begin' = Begin /\ LineTo' = LineTo /\ HeadTo' = HeadTo /\ Coming' /\ Sent'
    BY <1>3, <1>4, <1>9, SameRequest
  <1>11. /\ end \in At .. Len(buf) /\ end >= RunEnd /\ Begin + end < HeadTo
         /\ end = RunEnd => KindAt(Begin + end) = "f"
         /\ end # RunEnd => end = RunEnd + 1 /\ KindAt(Begin + end) = "c"
    <2>1. CASE RunEnd < Len(buf) /\ Kind(RunEnd + 1) = "c"
      <3>1. end = RunEnd + 1 /\ end \in At .. Len(buf)
        BY <1>3, <1>4, <1>8, <2>1
      <3>2. KindAt(Begin + end) = "c"
        BY <1>4, <1>7, <2>1, <3>1
      <3>3. Begin + end # HeadTo
        BY <1>5, <3>2 DEF KindsHere
      <3> HIDE DEF end
      <3>4. QED
        BY <1>4, <1>5, <1>8, <3>1, <3>2, <3>3 DEF Here
    <2>2. CASE ~(RunEnd < Len(buf) /\ Kind(RunEnd + 1) = "c")
      <3>1. end = RunEnd
        BY <2>2
      <3>2. Begin + RunEnd \in LineTo + 1 .. Begin + RunEnd
        BY <1>4, <1>5, <1>7, <1>8 DEF Here
      <3> HIDE DEF end
      <3>3. QED
        BY <1>4, <1>8, <3>1, <3>2
    <2>3. QED
      BY <2>1, <2>2
  <1> HIDE DEF end
  <1>12. end \in Nat /\ RunEnd \in Nat /\ Begin \in Nat /\ LineTo \in Nat /\ HeadTo \in Nat /\ taken \in Nat
    BY <1>3, <1>4, <1>5, <1>8, <1>11, StageTypes DEF Here
  <1>13. /\ pending' \in Seq(0 .. Len(text)) /\ Len(pending') = Len(buf) - cursor
         /\ \A i \in 1 .. Len(pending') : pending'[i] = LineTo + i
    <2>1. pending = <<>> /\ At \in 1 .. Len(buf) + 1
      BY <1>3, <1>4 DEF Parsing
    <2>2. /\ pending' \in Seq(0 .. Len(text)) /\ Len(pending') = (Len(buf) + 1) - At
          /\ \A i \in 1 .. Len(pending') : pending'[i] = buf[(At - 1) + i]
      BY <1>3, <1>9, <2>1, PushedBack
    <2>3. Len(pending') = Len(buf) - cursor
      BY <1>3, <1>4, <2>2
    <2>4. ASSUME NEW i \in 1 .. Len(pending')
          PROVE  pending'[i] = LineTo + i
      <3>1. (At - 1) + i \in At .. Len(buf) /\ Begin + ((At - 1) + i) = LineTo + i
        BY <1>3, <1>4, <1>7, <1>12, <2>3
      <3>2. buf[(At - 1) + i] = Origin + ((At - 1) + i)
        BY <1>4, <3>1
      <3>3. QED
        BY <1>7, <2>2, <3>1, <3>2
    <2>5. QED
      BY <2>2, <2>3, <2>4
  <1>14. parsed' = Begin + end /\ cursor' = end
    <2>1. buf[end] = Origin + end
      BY <1>4, <1>11
    <2>2. QED
      BY <1>7, <1>9, <2>1 DEF Parsed
  <1>15. preParsed' = end - cursor /\ preParsed' \in 1 .. Len(pending')
    <2>0. preParsed' = PreParsed(At, end)
      BY <1>9
    <2>1. preParsed' = ((Len(buf) + 1) - At) - (Len(buf) - end)
      BY <1>3, <1>4, <1>11, <1>12, <2>0 DEF PreParsed, Unparsed
    <2>2. /\ Len(buf) \in Nat /\ cursor \in Nat /\ end \in Nat /\ At = cursor + 1
          /\ At <= end /\ end <= Len(buf)
      BY <1>3, <1>4, <1>11, <1>12
    <2>3. preParsed' = end - cursor
      BY <2>1, <2>2
    <2>4. end - cursor \in 1 .. Len(buf) - cursor
      BY <2>2
    <2>5. QED
      BY <1>13, <2>3, <2>4
  <1>16. taken' - Len(pending') = LineTo
    BY <1>3, <1>4, <1>7, <1>9, <1>12, <1>13
  <1>17. Queue'
    <2>1. Len(pending') <= taken'
      BY <1>3, <1>4, <1>9, <1>12, <1>13
    <2>2. QED
      BY <1>9, <1>13, <1>16, <2>1 DEF Queue
  <1>18. Window' /\ Reading'
    <2>1. ~Early' /\ Origin' = LineTo /\ Held' = 0 /\ Got' = 0 + preParsed'
      BY <1>9, <1>10 DEF Early, Origin, Held, Got
    <2>2. Read' = parsed'
      BY <1>4, <1>11, <1>12, <1>14 DEF Read
    <2>3. Read' = Origin' + Got'
      BY <1>4, <1>7, <1>12, <1>14, <1>15, <2>1, <2>2
    <2>4. taken' - Len(pending') = Origin' + Held' /\ Held' <= Len(buf')
      BY <1>3, <1>9, <1>12, <1>16, <2>1
    <2>5. Window'
      BY <2>1, <2>3, <2>4 DEF Window
    <2>6. QED
      BY <1>9, <1>15, <2>5 DEF Reading
  <1>19. InHeaders'
    <2>1. parsed' \in LineTo + 1 .. HeadTo - 1
      BY <1>4, <1>7, <1>11, <1>12, <1>14
    <2>2. \A p \in LineTo + 1 .. parsed' : KindAt(p) # "n"
      <3>1. \A p \in LineTo + 1 .. parsed' : p \in LineTo + 1 .. Begin + RunEnd \/ p = parsed'
        BY <1>11, <1>12, <1>14
      <3>2. KindAt(parsed') # "n"
        BY <1>11, <1>14
      <3>3. QED
        BY <1>8, <3>1, <3>2
    <2>3. last'.at = 1 /\ last'.length = Run
      BY <1>9
    <2>4. AtHeader("field", "HDR_FIELD", "f", 1)' \/ AtHeader("colon", "HDR_FIELD", "c", 0)'
      <3>1. CASE end = RunEnd
        <4>1. grammar' = "field" /\ KindAt(parsed)' = "f"
          BY <1>9, <1>11, <1>12, <1>14, <3>1 DEF KindAt
        <4>2. LineTo' + last'.at + last'.length = parsed' + 1
          BY <1>4, <1>7, <1>8, <1>10, <1>12, <1>14, <2>3, <3>1
        <4>3. QED
          BY <1>9, <4>1, <4>2 DEF AtHeader
      <3>2. CASE end # RunEnd
        <4>1. grammar' = "colon" /\ KindAt(parsed)' = "c"
          BY <1>9, <1>11, <1>12, <1>14, <3>2 DEF KindAt
        <4>2. LineTo' + last'.at + last'.length = parsed' + 0
          BY <1>4, <1>7, <1>8, <1>10, <1>11, <1>12, <1>14, <2>3, <3>2
        <4>3. QED
          BY <1>9, <4>1, <4>2 DEF AtHeader
      <3>3. QED
        BY <3>1, <3>2
    <2>5. hdrs' = Cardinality(StartsIn(text', LineTo', parsed'))
      <3>1. StartsIn(text, LineTo, parsed') = {}
        <4>1. ASSUME NEW j \in StartsIn(text, LineTo, parsed')
              PROVE  FALSE
          <5>1. j \in 2 .. parsed' - LineTo /\ text[LineTo + (j - 1)].kind = "n"
            BY <4>1 DEF StartsIn
          <5>2. j \in 2 .. parsed' - LineTo
            BY <5>1
          <5>3. parsed' \in Nat
            BY <1>12, <2>1
          <5>4. \A q, b \in Nat : \A i \in 2 .. q - b : b + (i - 1) \in b + 1 .. q
            OBVIOUS
          <5>5. LineTo + (j - 1) \in LineTo + 1 .. parsed'
            BY <1>12, <5>2, <5>3, <5>4
          <5>6. QED
            BY <2>2, <5>1, <5>5 DEF KindAt
        <4>2. QED
          BY <4>1
      <3>2. hdrs' = 0
        BY <1>6, <1>9 DEF Opening
      <3>3. QED
        BY <1>9, <1>10, <3>1, <3>2, FS_EmptySet
    <2>6. uri' = Where(text, served + 1, {"u"})'
      <3>1. uri' = Where(text, served + 1, {"u"})
        BY <1>1, <1>6, <1>9, UrlNoted
      <3>2. QED
        BY <1>9, <3>1 DEF Where
    <2>7. \A p \in LineTo' + last'.at .. parsed' : KindAt(p)' # "n"
      BY <1>9, <1>10, <2>2, <2>3, SameKinds
    <2>8. QED
      BY <1>10, <2>1, <2>3, <2>4, <2>5, <2>6, <2>7 DEF InHeaders
  <1>20. TypeOK'
    <2>1. /\ Len(buf) <= Scratch /\ Scratch \in Nat /\ BlockSize \in Nat /\ offset \in Nat
          /\ taken \in Nat /\ Len(text) \in Nat
      BY <1>3, StageTypes, EndIsThere
    <2>2. Len(pending') <= BlockSize
      BY <1>3, <1>4, <1>13, <2>1 DEF Parsing
    <2>3. last' \in Notes
      <3>1. 1 \in 0 .. Scratch + 1 /\ Run \in 0 .. Scratch
        BY <1>3, <1>4, <1>8, <2>1
      <3>2. QED
        BY <1>9, <3>1 DEF Notes
    <2>4. cursor' \in 0 .. Len(buf') /\ parsed' \in 0 .. Len(text') /\ preParsed' \in 0 .. BlockSize
      BY <1>3, <1>4, <1>7, <1>9, <1>11, <1>12, <1>14, <1>15, <2>1, <2>2
    <2>5. uri' \subseteq 0 .. Len(text') /\ Cardinality(uri') <= MaxUri
      BY <1>1, <1>6, <1>9, UrlNoted DEF Verified
    <2>6. grammar' \in Grammar /\ status' \in Status /\ offset' \in 0 .. Scratch
      BY <1>9, <2>1 DEF Grammar, Status
    <2>7. QED
      BY <1>3, <1>9, <1>13, <2>2, <2>3, <2>4, <2>5, <2>6 DEF TypeOK
  <1>21. QED
    BY <1>9, <1>10, <1>17, <1>18, <1>19, <1>20 DEF ParserInv, Stage

(* A token within the headers.                                             *)
LEMMA HeaderRun ==
    ASSUME HeadersSent, ParserInv, Executing, InHeaders, Kind(At) # "n"
    PROVE  /\ LineTo \in Nat /\ HeadTo \in Nat /\ cursor \in Nat /\ Origin = LineTo /\ ~Early
           /\ parsed = LineTo + cursor /\ At = cursor + 1 /\ parsed \in Nat
           /\ Run \in Nat \ {0} /\ RunEnd = cursor + Run /\ RunEnd \in At .. Len(buf)
           /\ RunEnd \in Nat /\ Run <= Scratch /\ RunEnd <= Scratch /\ Scratch \in Nat
           /\ LineTo + RunEnd \in parsed + 1 .. HeadTo - 1
           /\ \A p \in parsed + 1 .. LineTo + RunEnd : KindAt(p) = Kind(At)
           /\ KindAt(LineTo + RunEnd) = Kind(At)
  <1>1. Ahead /\ Coming /\ Sent /\ TypeOK
    BY Comes DEF ParserInv, InHeaders
  <1>2. Here /\ KindsHere
    BY <1>1, HereItIs
  <1>3. ~Early /\ Origin = LineTo
    BY DEF InHeaders, AtHeader, Early, Origin
  <1>4. parsed \in LineTo + 1 .. HeadTo - 1 /\ Read = parsed
    BY <1>2 DEF InHeaders, Read, Here
  <1>5. cursor \in Nat /\ Read = Origin + cursor /\ At = cursor + 1 /\ At \in 1 .. Len(buf)
    BY <1>1 DEF Ahead
  <1>6. LineTo \in Nat /\ HeadTo \in Nat /\ KindAt(HeadTo) # Kind(At) /\ Read < HeadTo
    BY <1>2, <1>4 DEF Here, KindsHere
  <1>7. /\ Origin + RunEnd < HeadTo /\ RunEnd \in At .. Len(buf) /\ Run \in Nat \ {0}
        /\ RunEnd = cursor + Run
        /\ \A p \in Read + 1 .. Origin + RunEnd : KindAt(p) = Kind(At)
    BY <1>1, <1>6, RunWithin
  <1>8. Len(buf) \in Nat /\ Len(buf) <= Scratch /\ Scratch \in Nat
    BY <1>1, StageTypes
  <1>9. RunEnd \in Nat /\ Run <= Scratch /\ RunEnd <= Scratch
    BY <1>5, <1>7, <1>8
  <1>10. LineTo + RunEnd \in parsed + 1 .. HeadTo - 1 /\ LineTo + RunEnd \in parsed + 1 .. LineTo + RunEnd
    BY <1>3, <1>4, <1>5, <1>6, <1>7, <1>9
  <1>11. KindAt(LineTo + RunEnd) = Kind(At)
    BY <1>3, <1>4, <1>7, <1>10
  <1>12. QED
    BY <1>3, <1>4, <1>5, <1>6, <1>7, <1>8, <1>9, <1>10, <1>11

(* The ends of line behind the parser have been erased, but for the one it *)
(* may have stopped at.                                                    *)
LEMMA EndsErased ==
    ASSUME HeadersSent, ParserInv, InHeaders, cursor \in Nat, Origin = LineTo, LineTo \in Nat, ~Early,
           parsed = LineTo + cursor, At = cursor + 1, Len(buf) \in Nat, NEW j \in 1 .. Len(buf)
    PROVE  j < At /\ KindAt(LineTo + j) = "n" <=> Erased(j) \/ (j = cursor /\ KindAt(parsed) = "n")
  <1>2. last.at \in Nat /\ last.length \in Nat
    BY StageTypes DEF ParserInv
  <1>4. Erased(j) <=> j < last.at /\ KindAt(LineTo + j) = "n"
    BY DEF Erased
  <1>5. last.at <= At
    <2>1. LineTo + last.at + last.length = parsed + 1 \/ LineTo + last.at + last.length = parsed + 0
      BY DEF InHeaders, AtHeader
    <2>2. QED
      BY <1>2, <2>1
  <1>6. CASE j < last.at
    <2>1. j < At
      BY <1>2, <1>5, <1>6
    <2>2. j = cursor => LineTo + j = parsed
      OBVIOUS
    <2>3. QED
      BY <1>4, <1>6, <2>1, <2>2
  <1>7. CASE ~(j < last.at) /\ j < cursor
    <2>1. LineTo + j \in LineTo + last.at .. parsed /\ LineTo + j # parsed
      BY <1>2, <1>7
    <2>2. KindAt(LineTo + j) # "n"
      BY <2>1 DEF InHeaders
    <2>3. QED
      BY <1>4, <1>7, <2>2
  <1>8. CASE ~(j < last.at) /\ j = cursor
    <2>1. j < At /\ LineTo + j = parsed
      BY <1>8
    <2>2. QED
      BY <1>4, <1>8, <2>1
  <1>9. CASE ~(j < last.at) /\ j > cursor
    <2>1. ~(j < At) /\ j # cursor
      BY <1>9
    <2>2. QED
      BY <1>4, <1>9, <2>1
  <1>10. QED
    BY <1>2, <1>6, <1>7, <1>8, <1>9

(* The bytes erased of a block when a new string begins.                   *)
LEMMA ErasedMoves ==
    ASSUME HeadersSent, ParserInv, InHeaders, cursor \in Nat, Origin = LineTo, LineTo \in Nat, ~Early,
           parsed = LineTo + cursor, At = cursor + 1, Len(buf) \in Nat,
           UNCHANGED <<requests, text, served>>, ~Early', last'.at = At, NEW j \in 1 .. Len(buf)
    PROVE  Erased(j)' <=> Erased(j) \/ (j = cursor /\ KindAt(parsed) = "n")
  <1>1. Origin' = Origin
    BY SameRequest DEF Origin
  <1>2. Erased(j)' <=> j < At /\ KindAt(LineTo + j) = "n"
    BY <1>1 DEF Erased, KindAt
  <1>3. QED
    BY <1>2, EndsErased

(* Erase overwrites what it should and nothing else.                       *)
LEMMA Erases ==
    ASSUME buf \in Seq(0 .. Len(text)), Len(text) \in Nat, NEW a \in Nat, NEW b \in Nat
    PROVE  /\ Erase(buf, a, b) \in Seq(0 .. Len(text)) /\ Len(Erase(buf, a, b)) = Len(buf)
           /\ \A i \in 1 .. Len(buf) : Erase(buf, a, b)[i] = IF i \in a .. b THEN 0 ELSE buf[i]
  <1> DEFINE S == 0 .. Len(text)
  <1>0. 0 \in S
    OBVIOUS
  <1> HIDE DEF S
  <1>1. Len(buf) \in Nat /\ DOMAIN buf = 1 .. Len(buf) /\ \A i \in 1 .. Len(buf) : buf[i] \in S
    BY DEF S
  <1>2. Erase(buf, a, b) = [i \in 1 .. Len(buf) |-> IF i \in a .. b THEN 0 ELSE buf[i]]
    BY <1>1 DEF Erase
  <1>3. Erase(buf, a, b) \in [1 .. Len(buf) -> S]
    BY <1>0, <1>1, <1>2
  <1>4. Erase(buf, a, b) \in Seq(S) /\ Len(Erase(buf, a, b)) = Len(buf)
    BY <1>1, <1>3, SeqDef
  <1>5. QED
    BY <1>2, <1>4 DEF S

(* A token, or the rest of one, that leaves the block as it is.            *)
LEMMA TokenKeeps ==
    ASSUME HeadersSent, ParserInv, Executing, InHeaders, Kind(At) \in {"f", "v"},
           NEW st, NEW at \in Nat, NEW length \in Nat,
           Note(st, at, length), UNCHANGED <<buf, hdrs>>, grammar # "line",
           \/ at = last.at /\ length = last.length + Run /\ LineTo + last.at + last.length = parsed + 1
           \/ at = At /\ length = Run,
           \/ st = "HDR_FIELD" /\ Kind(At) = "f" /\ Becomes = "field"
           \/ st = "HDR_VALUE" /\ Kind(At) = "v" /\ Becomes = "value"
    PROVE  ParserInv'
  <1>1. /\ LineTo \in Nat /\ HeadTo \in Nat /\ cursor \in Nat /\ Origin = LineTo /\ ~Early
        /\ parsed = LineTo + cursor /\ At = cursor + 1 /\ parsed \in Nat
        /\ Run \in Nat \ {0} /\ RunEnd = cursor + Run /\ RunEnd \in At .. Len(buf)
        /\ RunEnd \in Nat /\ Run <= Scratch /\ RunEnd <= Scratch /\ Scratch \in Nat
        /\ LineTo + RunEnd \in parsed + 1 .. HeadTo - 1
        /\ \A p \in parsed + 1 .. LineTo + RunEnd : KindAt(p) = Kind(At)
        /\ KindAt(LineTo + RunEnd) = Kind(At)
    BY HeaderRun
  <1>2. /\ Stage /\ TypeOK /\ Sent /\ pc = "execute" /\ buf \in Seq(0 .. Len(text)) /\ Len(buf) \in Nat
        /\ \A j \in 1 .. Len(buf) : buf[j] = IF Erased(j) THEN 0 ELSE Origin + j
    BY BlockIs DEF Executing
  <1>3. /\ UNCHANGED <<requests, text, served, taken, pending, pc, offset, paused, preParsed,
                       refused, remaining, uri, buf, hdrs>>
        /\ status' = st /\ last' = [at |-> at, length |-> length] /\ grammar' = Becomes
        /\ Parsed(RunEnd)
    BY DEF Note, streamVars, heardVars
  <1>4. last'.at = at /\ last'.length = length
    BY <1>3
  <1>5. ~Early'
    BY <1>3 DEF Early
  <1>6. last.at \in Nat /\ last.at >= 1 /\ last.length \in Nat
    BY <1>2, StageTypes DEF InHeaders
  <1>7. KindAt(parsed) # "n"
    BY DEF InHeaders, AtHeader
  <1>8. \A j \in 1 .. Len(buf) : buf'[j] = IF Erased(j)' THEN 0 ELSE Origin + j
    <2>1. CASE at = last.at
      BY <1>1, <1>2, <1>3, <1>4, <1>5, <2>1, ErasedSame
    <2>2. CASE at = At
      <3>1. \A j \in 1 .. Len(buf) : Erased(j)' <=> Erased(j)
        BY <1>1, <1>2, <1>3, <1>4, <1>5, <1>7, <2>2, ErasedMoves
      <3>2. QED
        BY <1>2, <1>3, <3>1
    <2>3. QED
      BY <2>1, <2>2
  <1>9. ASSUME parsed' = Origin + RunEnd
        PROVE  Stage'
    <2>1. parsed' = LineTo + RunEnd /\ LineTo' = LineTo
      BY <1>1, <1>3, <1>9, SameRequest
    <2>2. LineTo + at + length = parsed' + 1
      <3>0. LineTo \in Nat /\ cursor \in Nat /\ Run \in Nat /\ RunEnd = cursor + Run /\ parsed = LineTo + cursor
        BY <1>1
      <3>1. CASE at = last.at /\ length = last.length + Run /\ LineTo + last.at + last.length = parsed + 1
        <4>1. LineTo + last.at + (last.length + Run) = (LineTo + (cursor + Run)) + 1
          BY <1>6, <3>0, <3>1
        <4>2. QED
          BY <2>1, <3>0, <3>1, <4>1
      <3>2. CASE at = At /\ length = Run
        <4>1. LineTo + (cursor + 1) + Run = (LineTo + (cursor + Run)) + 1
          BY <3>0
        <4>2. QED
          BY <1>1, <2>1, <3>2, <4>1
      <3>3. QED
        BY <3>1, <3>2
    <2>3. KindAt(parsed)' = Kind(At)
      BY <1>1, <1>3, <2>1 DEF KindAt
    <2>4. AtSomeHeader'
      BY <1>3, <1>4, <2>1, <2>2, <2>3 DEF AtHeader, AtSomeHeader
    <2>5. \A p \in parsed + 1 .. LineTo + RunEnd : KindAt(p) = "n" => grammar' = "line" /\ p = LineTo + RunEnd
      BY <1>1
    <2>6. last'.at \in Nat /\ last'.at >= 1 /\ (last'.at = last.at \/ LineTo + last'.at = parsed + 1)
      BY <1>1, <1>4, <1>6
    <2>7. InHeaders'
      BY <1>1, <1>3, <2>1, <2>4, <2>5, <2>6, Extends
    <2>8. QED
      BY <2>7 DEF Stage
  <1>10. last' \in Notes
    <2>1. last'.at \in 0 .. Scratch + 1 /\ last'.length \in 0 .. Scratch
      <3>1. CASE at = last.at /\ length = last.length + Run /\ LineTo + last.at + last.length = parsed + 1
        <4>0. LineTo \in Nat /\ cursor \in Nat /\ parsed = LineTo + cursor
          BY <1>1
        <4>1. last.at + last.length = cursor + 1
          BY <1>6, <3>1, <4>0
        <4>2. last.length + Run <= RunEnd /\ last.at <= RunEnd
          BY <1>1, <1>6, <4>1
        <4>3. last'.at = last.at /\ last'.length = last.length + Run
          BY <1>4, <3>1
        <4>4. /\ RunEnd \in Nat /\ Run \in Nat /\ last.at \in Nat /\ last.length \in Nat
              /\ Scratch \in Nat /\ RunEnd <= Scratch
          BY <1>1, <1>6
        <4>5. QED
          BY <4>2, <4>3, <4>4
      <3>2. CASE at = At /\ length = Run
        BY <1>1, <1>4, <3>2
      <3>3. QED
        BY <3>1, <3>2
    <2>2. QED
      BY <1>3, <1>4, <2>1 DEF Notes
  <1>11. grammar' \in Grammar /\ status' \in Status /\ hdrs' \in Nat
    BY <1>2, <1>3 DEF TypeOK, Grammar, Status
  <1>12. buf' \in Seq(0 .. Len(text)) /\ Len(buf') = Len(buf)
    BY <1>2, <1>3
  <1>13. Early' <=> Early
    BY <1>1, <1>5
  <1>14. QED
    BY <1>1, <1>3, <1>8, <1>9, <1>10, <1>11, <1>12, <1>13, StillParsing

(* A further header: the end of line before it ends the last string.       *)
LEMMA NextHeaderKeeps ==
    ASSUME HeadersSent, ParserInv, Token("f"), status = "HDR_VALUE",
           buf' = Terminated(buf, last.at + last.length, cursor), hdrs' = hdrs + 1,
           Note("HDR_FIELD", At, Run)
    PROVE  ParserInv'
  <1>1. Executing /\ Accepted(Kind(At)) /\ Kind(At) = "f"
    BY DEF Token
  <1>2. /\ Stage /\ TypeOK /\ Sent /\ pc = "execute" /\ buf \in Seq(0 .. Len(text)) /\ Len(buf) \in Nat
        /\ \A j \in 1 .. Len(buf) : buf[j] = IF Erased(j) THEN 0 ELSE Origin + j
    BY <1>1, BlockIs DEF Executing
  <1>3. <<grammar, "f", Becomes>> \in Rules
    BY <1>1, Rule
  <1>4. InHeaders /\ AtHeader("line", "HDR_VALUE", "n", 0) /\ grammar = "line" /\ Becomes = "field"
    <2>1. grammar \in {"line", "field"} /\ Becomes = "field"
      BY <1>3 DEF Rules
    <2>2. grammar # "field"
      BY <1>2, StageIs DEF AtHeader
    <2>3. ~Early
      BY DEF Early
    <2>4. QED
      BY <1>2, <2>1, <2>2, <2>3, StageIs
  <1>5. /\ LineTo \in Nat /\ HeadTo \in Nat /\ cursor \in Nat /\ Origin = LineTo /\ ~Early
        /\ parsed = LineTo + cursor /\ At = cursor + 1 /\ parsed \in Nat
        /\ Run \in Nat \ {0} /\ RunEnd = cursor + Run /\ RunEnd \in At .. Len(buf)
        /\ RunEnd \in Nat /\ Run <= Scratch /\ RunEnd <= Scratch /\ Scratch \in Nat
        /\ LineTo + RunEnd \in parsed + 1 .. HeadTo - 1
        /\ \A p \in parsed + 1 .. LineTo + RunEnd : KindAt(p) = "f"
        /\ KindAt(LineTo + RunEnd) = "f"
    BY <1>1, <1>4, HeaderRun
  <1>6. /\ UNCHANGED <<requests, text, served, taken, pending, pc, offset, paused, preParsed,
                       refused, remaining, uri>>
        /\ status' = "HDR_FIELD" /\ last' = [at |-> At, length |-> Run] /\ grammar' = "field"
        /\ Parsed(RunEnd)
    BY <1>4 DEF Note, streamVars, heardVars
  <1>7. last'.at = At /\ last'.length = Run /\ ~Early'
    BY <1>6 DEF Early
  <1>8. last.at \in Nat /\ last.length \in Nat /\ last.at + last.length = cursor
    <2>1. last.at \in Nat /\ last.length \in Nat
      BY <1>2, StageTypes
    <2>2. LineTo + last.at + last.length = parsed + 0
      BY <1>4 DEF AtHeader
    <2>3. LineTo \in Nat /\ cursor \in Nat /\ parsed = LineTo + cursor
      BY <1>5
    <2>4. QED
      BY <2>1, <2>2, <2>3
  <1>9. KindAt(parsed) = "n"
    BY <1>4 DEF AtHeader
  <1>10. /\ buf' \in Seq(0 .. Len(text)) /\ Len(buf') = Len(buf)
         /\ \A j \in 1 .. Len(buf) : buf'[j] = IF j \in cursor .. cursor THEN 0 ELSE buf[j]
    <2>1. buf' = Erase(buf, cursor, cursor) /\ 0 \in 0 .. Len(text)
      BY <1>2, <1>8, EndIsThere DEF Terminated
    <2>2. cursor \in Nat /\ Len(text) \in Nat
      BY <1>2, <1>5, EndIsThere
    <2>3. /\ Erase(buf, cursor, cursor) \in Seq(0 .. Len(text)) /\ Len(Erase(buf, cursor, cursor)) = Len(buf)
          /\ \A i \in 1 .. Len(buf) : Erase(buf, cursor, cursor)[i] = IF i \in cursor .. cursor THEN 0 ELSE buf[i]
      <3>1. buf \in Seq(0 .. Len(text))
        BY <1>2
      <3>2. QED
        BY <2>2, <3>1, Erases, Zenon
    <2>4. QED
      BY <2>1, <2>3, Zenon
  <1>11. \A j \in 1 .. Len(buf) : buf'[j] = IF Erased(j)' THEN 0 ELSE Origin + j
    <2>1. \A j \in 1 .. Len(buf) : Erased(j)' <=> Erased(j) \/ (j = cursor /\ KindAt(parsed) = "n")
      BY <1>2, <1>4, <1>5, <1>6, <1>7, ErasedMoves
    <2>2. \A j \in 1 .. Len(buf) : j \in cursor .. cursor <=> j = cursor
      BY <1>5
    <2>3. QED
      BY <1>2, <1>9, <1>10, <2>1, <2>2
  <1>12. ASSUME parsed' = Origin + RunEnd
         PROVE  Stage'
    <2>1. parsed' = LineTo + RunEnd /\ LineTo' = LineTo /\ HeadTo' = HeadTo /\ Coming'
      BY <1>4, <1>5, <1>6, <1>12, SameRequest DEF InHeaders
    <2>2. LineTo' + last'.at + last'.length = parsed' + 1
      <3>1. LineTo \in Nat /\ cursor \in Nat /\ Run \in Nat /\ RunEnd = cursor + Run
        BY <1>5
      <3>2. LineTo + (cursor + 1) + Run = (LineTo + (cursor + Run)) + 1
        BY <3>1
      <3>3. QED
        BY <1>5, <1>7, <2>1, <3>1, <3>2
    <2>3. KindAt(parsed)' = "f"
      BY <1>5, <1>6, <2>1 DEF KindAt
    <2>4. AtHeader("field", "HDR_FIELD", "f", 1)'
      BY <1>6, <2>2, <2>3 DEF AtHeader
    <2>5. \A p \in LineTo' + last'.at .. parsed' : KindAt(p)' # "n"
      <3>1. LineTo + At = parsed + 1
        BY <1>5
      <3>2. QED
        BY <1>5, <1>6, <1>7, <2>1, <3>1, SameKinds
    <2>6. hdrs' = Cardinality(StartsIn(text', LineTo', parsed'))
      <3>1. Cardinality(StartsIn(text, LineTo, LineTo + RunEnd)) = Cardinality(StartsIn(text, LineTo, parsed)) + 1
        <4>1. text[parsed].kind = "n"
          BY <1>9 DEF KindAt
        <4>2. \A p \in parsed + 1 .. LineTo + RunEnd : text[p].kind # "n"
          BY <1>5 DEF KindAt
        <4>3. parsed + 1 \in parsed + 1 .. LineTo + RunEnd /\ LineTo + RunEnd \in Nat
              /\ parsed < LineTo + RunEnd
          BY <1>5
        <4>4. LineTo < parsed
          BY <1>4, <1>5 DEF InHeaders
        <4>5. \A r \in parsed + 2 .. LineTo + RunEnd : r - 1 \in parsed + 1 .. LineTo + RunEnd
          BY <1>5, <4>3
        <4>6. QED
          BY <1>5, <4>1, <4>2, <4>3, <4>4, <4>5, StartsOne
      <3>2. hdrs = Cardinality(StartsIn(text, LineTo, parsed))
        BY <1>4 DEF InHeaders
      <3>3. QED
        BY <1>6, <2>1, <3>1, <3>2
    <2>7. uri' = Where(text, served + 1, {"u"})'
      BY <1>4, <1>6 DEF InHeaders, Where
    <2>8. parsed' \in LineTo' + 1 .. HeadTo' - 1 /\ last'.at >= 1
      BY <1>5, <1>7, <2>1
    <2>9. InHeaders'
      BY <2>1, <2>4, <2>5, <2>6, <2>7, <2>8 DEF InHeaders
    <2>10. QED
      BY <2>9 DEF Stage
  <1>13. last' \in Notes
    <2>1. At \in 0 .. Scratch + 1 /\ Run \in 0 .. Scratch
      BY <1>5
    <2>2. QED
      BY <1>6, <2>1 DEF Notes
  <1>14. grammar' \in Grammar /\ status' \in Status /\ hdrs' \in Nat
    <2>1. hdrs \in Nat
      BY <1>2, StageTypes
    <2>2. QED
      BY <1>6, <2>1 DEF Grammar, Status
  <1>15. QED
    BY <1>1, <1>5, <1>6, <1>7, <1>10, <1>11, <1>12, <1>13, <1>14, StillParsing

(* cb_header_field: the first one, a further one, or the rest of one.      *)
LEMMA CbHeaderFieldKeeps ==
    ASSUME HeadersSent, ParserInv, CbHeaderField
    PROVE  ParserInv'
  <1>1. Token("f") /\ Executing /\ Accepted(Kind(At)) /\ Kind(At) = "f"
    BY DEF CbHeaderField, Token
  <1>2. CASE status = "URL" /\ Verified /\ FirstHeader
    BY <1>1, <1>2, FirstHeaderKeeps
  <1>3. CASE Refuse
    BY <1>3, Closes DEF Refuse
  <1>4. CASE status = "HDR_VALUE" /\ buf' = Terminated(buf, last.at + last.length, cursor)
             /\ hdrs' = hdrs + 1 /\ Note("HDR_FIELD", At, Run)
    BY <1>1, <1>4, NextHeaderKeeps
  <1>5. CASE status = "HDR_FIELD" /\ Note("HDR_FIELD", last.at, last.length + Run) /\ UNCHANGED <<buf, hdrs>>
    <2>1. Stage /\ TypeOK
      BY <1>1, BlockIs DEF Executing
    <2>2. <<grammar, "f", Becomes>> \in Rules
      BY <1>1, Rule
    <2>3. grammar \in {"line", "field"} /\ Becomes = "field"
      BY <2>2 DEF Rules
    <2>4. ~Early
      BY <1>5 DEF Early
    <2>5. grammar = "field"
      BY <1>5, <2>1, <2>3, <2>4, StageIs DEF AtHeader
    <2>6. InHeaders /\ LineTo + last.at + last.length = parsed + 1
      BY <2>1, <2>5, StageIs DEF AtHeader
    <2>7. last.at \in Nat /\ last.length + Run \in Nat
      <3>1. Run \in Nat \ {0}
        BY <1>1, <2>6, HeaderRun
      <3>2. last.at \in Nat /\ last.length \in Nat
        BY <2>1, StageTypes
      <3>3. QED
        BY <3>1, <3>2
    <2>8. QED
      BY <1>1, <1>5, <2>3, <2>5, <2>6, <2>7, TokenKeeps
  <1>6. QED
    BY <1>2, <1>3, <1>4, <1>5 DEF CbHeaderField

(* cb_header_value.                                                        *)
LEMMA CbHeaderValueKeeps ==
    ASSUME HeadersSent, ParserInv, CbHeaderValue
    PROVE  ParserInv'
  <1>1. Token("v") /\ Executing /\ Accepted(Kind(At)) /\ Kind(At) = "v" /\ UNCHANGED <<buf, hdrs>>
    BY DEF CbHeaderValue, Token
  <1>2. Stage /\ TypeOK
    BY <1>1, BlockIs DEF Executing
  <1>3. <<grammar, "v", Becomes>> \in Rules
    BY <1>1, Rule
  <1>4. grammar \in {"colon", "value"} /\ Becomes = "value"
    BY <1>3 DEF Rules
  <1>5. InHeaders
    BY <1>2, <1>4, StageIs
  <1>6. Run \in Nat \ {0} /\ At \in Nat
    <2>1. Run \in Nat \ {0} /\ cursor \in Nat /\ At = cursor + 1
      BY <1>1, <1>5, HeaderRun
    <2>2. QED
      BY <2>1
  <1>7. last.at \in Nat /\ last.length \in Nat
    BY <1>2, StageTypes
  <1>8. CASE status = "HDR_FIELD" /\ Note("HDR_VALUE", At, Run)
    BY <1>1, <1>4, <1>5, <1>6, <1>8, TokenKeeps
  <1>9. CASE status = "HDR_VALUE" /\ Note("HDR_VALUE", last.at, last.length + Run)
    <2>1. grammar = "value"
      BY <1>2, <1>4, <1>9, StageIs DEF AtHeader
    <2>2. LineTo + last.at + last.length = parsed + 1
      BY <1>2, <2>1, StageIs DEF AtHeader
    <2>3. last.length + Run \in Nat
      BY <1>6, <1>7
    <2>4. QED
      BY <1>1, <1>4, <1>5, <1>7, <1>9, <2>1, <2>2, <2>3, TokenKeeps
  <1>10. QED
    BY <1>8, <1>9 DEF CbHeaderValue

(* A request goes to its handler, what is behind it back to the session.   *)
LEMMA HandsOver ==
    ASSUME HeadersSent, ParserInv, Executing, CallHandler, UNCHANGED uri,
           NEW m \in At .. Len(buf) + 1, PushBack(buf', m),
           buf' \in Seq(0 .. Len(text)), Len(buf') = Len(buf),
           \A j \in m .. Len(buf) : buf'[j] = Origin + j,
           remaining' \in Nat, Origin + (m - 1) + remaining' = Finish,
           Parsed(At), grammar' \in Grammar, hdrs' \in Nat
    PROVE  ParserInv'
  <1>1. Ahead /\ TypeOK /\ Sent /\ Parsing
    BY Comes DEF ParserInv, Executing
  <1>2. /\ Coming /\ Origin \in Nat /\ At \in 1 .. Len(buf) /\ At = cursor + 1 /\ cursor \in Nat
        /\ taken = Origin + Len(buf) /\ taken <= Len(text) /\ Len(buf) \in Nat
        /\ buf[At] = Read + 1 /\ Read = Origin + cursor
    BY <1>1 DEF Ahead
  <1>3. Len(text) \in Nat /\ taken \in Nat /\ served \in Nat /\ Here
    BY <1>1, <1>2, EndIsThere, StageTypes, HereItIs
  <1>4. /\ UNCHANGED <<requests, text, taken, offset, paused, preParsed, refused>>
        /\ pc' = "handler" /\ status' = "COMPLETE" /\ last' = [at |-> 0, length |-> 0]
        /\ served' = served + 1
    BY DEF CallHandler, streamVars
  <1>5. /\ pending' \in Seq(0 .. Len(text)) /\ Len(pending') = (Len(buf) + 1) - m
        /\ \A i \in 1 .. Len(pending') : pending'[i] = buf'[(m - 1) + i]
    <2>1. pending = <<>> /\ m \in 1 .. Len(buf') + 1
      BY <1>1, <1>2 DEF Parsing
    <2>2. QED
      BY <2>1, PushedBack, ZenonT(40)
  <1>6. m \in Nat /\ (Len(buf) + 1) - m \in Nat /\ m >= 1
    BY <1>2
  <1>7. taken' - Len(pending') = Origin + (m - 1)
    BY <1>2, <1>4, <1>5, <1>6
  <1>8. Queue'
    <2>1. Len(pending') <= taken'
      BY <1>2, <1>3, <1>4, <1>5, <1>6
    <2>2. ASSUME NEW i \in 1 .. Len(pending')
          PROVE  pending'[i] = (taken' - Len(pending')) + i
      <3>1. (m - 1) + i \in m .. Len(buf) /\ Origin + ((m - 1) + i) = (Origin + (m - 1)) + i
        BY <1>2, <1>5, <1>6
      <3>2. QED
        BY <1>5, <1>7, <3>1
    <2>3. QED
      BY <2>1, <2>2 DEF Queue
  <1>9. Begin' = Finish /\ Sent' /\ served' >= 1
    <2>1. Begin' = Finish
      BY <1>4 DEF Begin, Finish, End
    <2>2. served + 1 \in 0 .. Len(requests)
      <3>1. served + 1 \in 1 .. Len(requests)
        BY <1>1, <1>2, EndIsThere
      <3>2. QED
        BY <3>1
    <2>3. QED
      BY <1>1, <1>3, <1>4, <2>1, <2>2 DEF Sent
  <1>10. TypeOK'
    <2>1. /\ Len(buf) <= Scratch /\ Scratch \in Nat /\ BlockSize \in Nat /\ offset \in Nat
      BY <1>1, StageTypes
    <2>2. Len(pending') <= BlockSize
      <3>1. Len(buf) - offset <= BlockSize /\ offset <= cursor
        BY <1>1 DEF Parsing
      <3>2. (Len(buf) + 1) - m <= BlockSize
        BY <1>2, <1>6, <2>1, <3>1
      <3>3. QED
        BY <1>5, <3>2
    <2>3. cursor' \in 0 .. Len(buf') /\ parsed' \in 0 .. Len(text')
      BY <1>2, <1>3, <1>4 DEF Parsed
    <2>4. last' \in Notes
      <3>1. 0 \in 0 .. Scratch + 1 /\ 0 \in 0 .. Scratch
        BY <2>1
      <3>2. QED
        BY <1>4, <3>1 DEF Notes
    <2>5. /\ taken' \in 0 .. Len(text') /\ pending' \in Seq(0 .. Len(text')) /\ buf' \in Seq(0 .. Len(text'))
          /\ Len(buf') <= Scratch /\ offset' \in 0 .. Scratch
      BY <1>1, <1>4, <1>5, <2>1 DEF TypeOK
    <2>6. /\ pc' \in {"idle", "read", "execute", "handler", "purge", "closed"} /\ status' \in Status
          /\ paused' \in BOOLEAN /\ preParsed' \in 0 .. BlockSize /\ refused' \in BOOLEAN
          /\ served' \in Nat
      BY <1>1, <1>3, <1>4 DEF TypeOK, Status
    <2>7. uri' \subseteq 0 .. Len(text') /\ Cardinality(uri') <= MaxUri
      BY <1>1, <1>4 DEF TypeOK
    <2>8. QED
      BY <2>2, <2>3, <2>4, <2>5, <2>6, <2>7 DEF TypeOK
  <1>11. (taken' - Len(pending')) + remaining' = Begin'
    BY <1>7, <1>9
  <1>12. QED
    BY <1>4, <1>8, <1>9, <1>10, <1>11 DEF ParserInv

(* cb_on_body: the handler is called and the body, of which no byte is     *)
(* consumed, pushed back.                                                  *)
LEMMA CbOnBodyKeeps ==
    ASSUME HeadersSent, ParserInv, CbOnBody
    PROVE  ParserInv'
  <1>1. Executing /\ grammar = "body" /\ PushBack(buf, At) /\ Parsed(At) /\ CallHandler
        /\ UNCHANGED <<buf, hdrs, uri, remaining, grammar>>
    BY DEF CbOnBody
  <1>2. Ahead
    BY <1>1, Comes
  <1>3. /\ Stage /\ TypeOK /\ Sent /\ pc = "execute" /\ buf \in Seq(0 .. Len(text)) /\ Len(buf) \in Nat
    BY <1>1, BlockIs DEF Executing
  <1>4. AtBody
    BY <1>1, <1>3, StageIs
  <1>5. /\ Coming /\ Origin \in Nat /\ At \in 1 .. Len(buf) /\ At = cursor + 1 /\ cursor \in Nat
        /\ Read = Origin + cursor
        /\ \A j \in At .. Len(buf) : buf[j] = Origin + j
    BY <1>2 DEF Ahead
  <1>6. Here
    BY <1>3, <1>5, HereItIs
  <1>7. Read = HeadTo /\ remaining = BodyLength
    BY <1>4, <1>6 DEF AtBody, Read, Here
  <1>8. Origin + (At - 1) + remaining = Finish /\ remaining \in Nat
    <2>1. Origin + cursor = HeadTo /\ remaining \in Nat /\ Finish = HeadTo + remaining
      BY <1>5, <1>6, <1>7 DEF Here
    <2>2. QED
      BY <1>5, <1>6, <2>1 DEF Here
  <1>9. grammar' \in Grammar /\ hdrs' \in Nat
    BY <1>1, <1>3, StageTypes DEF TypeOK
  <1>10. At \in At .. Len(buf) + 1 /\ PushBack(buf', At)
    BY <1>1, <1>3, <1>5 DEF PushBack, Unparsed, From
  <1>11. QED
    BY <1>1, <1>3, <1>5, <1>8, <1>9, <1>10, HandsOver

(* Where the headers end, and what the block holds up to there.            *)
LEMMA HeadersEnd ==
    ASSUME HeadersSent, ParserInv, Executing, grammar = "line", Kind(At) = "n"
    PROVE  /\ InHeaders /\ AtHeader("line", "HDR_VALUE", "n", 0) /\ ~Early /\ Origin = LineTo
           /\ Here /\ LineTo \in Nat /\ HeadTo \in Nat
           /\ cursor \in Nat \ {0} /\ At = cursor + 1 /\ At \in 1 .. Len(buf) /\ Len(buf) \in Nat
           /\ parsed = LineTo + cursor /\ parsed \in Nat /\ HeadTo = LineTo + At
           /\ KindAt(parsed) = "n" /\ KindAt(HeadTo) = "n"
           /\ last.at + last.length = cursor /\ last.at \in 1 .. cursor
           /\ Kind(cursor) = "n" /\ buf[At] = HeadTo /\ status = "HDR_VALUE"
           /\ \A j \in 1 .. Len(buf) : buf[j] = IF Erased(j) THEN 0 ELSE LineTo + j
           /\ \A j \in At .. Len(buf) : buf[j] = LineTo + j
  <1>1. Ahead
    BY Comes
  <1>2. /\ Stage /\ TypeOK /\ Sent /\ pc = "execute" /\ Len(buf) \in Nat
        /\ \A j \in 1 .. Len(buf) : buf[j] = IF Erased(j) THEN 0 ELSE Origin + j
    BY BlockIs DEF Executing
  <1>3. /\ Coming /\ Origin \in Nat /\ At \in 1 .. Len(buf) /\ At = cursor + 1 /\ cursor \in Nat
        /\ Read = Origin + cursor /\ Kind(At) = KindAt(Read + 1) /\ buf[At] = Read + 1
        /\ \A j \in At .. Len(buf) : buf[j] = Origin + j
    BY <1>1 DEF Ahead
  <1>4. Here /\ KindsHere
    BY <1>2, <1>3, HereItIs
  <1>5. InHeaders /\ AtHeader("line", "HDR_VALUE", "n", 0) /\ ~Early
    <2>1. SUFFICES ASSUME Early
                   PROVE  FALSE
      BY <1>2, StageIs
    <2>2. AtLine
      BY <1>2, <2>1, StageIs
    <2>3. Read = LineTo
      BY <1>4, <2>2 DEF AtLine, Read, Here
    <2>4. QED
      BY <1>3, <1>4, <2>3 DEF KindsHere
  <1>6. Origin = LineTo /\ status = "HDR_VALUE" /\ KindAt(parsed) = "n"
    BY <1>5 DEF Origin, AtHeader
  <1>7. parsed \in LineTo + 1 .. HeadTo - 1 /\ Read = parsed
    BY <1>4, <1>5 DEF InHeaders, Read, Here
  <1>8. parsed + 1 = HeadTo
    BY <1>3, <1>4, <1>6, <1>7 DEF KindsHere
  <1>9. LineTo \in Nat /\ HeadTo \in Nat /\ parsed = LineTo + cursor
    BY <1>3, <1>4, <1>6, <1>7 DEF Here
  <1>10. cursor \in Nat \ {0} /\ HeadTo = LineTo + At /\ parsed \in Nat
    BY <1>3, <1>7, <1>8, <1>9
  <1>11. last.at + last.length = cursor /\ last.at \in 1 .. cursor
    <2>1. last.at \in Nat /\ last.length \in Nat /\ last.at >= 1
      BY <1>2, <1>5, StageTypes DEF InHeaders
    <2>2. LineTo + last.at + last.length = parsed + 0
      BY <1>5 DEF AtHeader
    <2>3. LineTo \in Nat /\ cursor \in Nat /\ parsed = LineTo + cursor
      BY <1>3, <1>9
    <2>4. last.at + last.length = cursor
      BY <2>1, <2>2, <2>3
    <2>5. QED
      BY <2>1, <2>3, <2>4
  <1>12. Kind(cursor) = "n"
    <2>1. cursor \in 1 .. Len(buf) /\ ~(cursor < last.at)
      BY <1>2, <1>3, <1>10, <1>11
    <2>2. buf[cursor] = LineTo + cursor
      BY <1>2, <1>6, <2>1 DEF Erased
    <2>3. buf[cursor] # 0
      BY <1>9, <1>10, <2>2
    <2>4. QED
      BY <1>6, <1>9, <2>2, <2>3 DEF Kind, KindAt
  <1>13. \A j \in 1 .. Len(buf) : buf[j] = IF Erased(j) THEN 0 ELSE LineTo + j
    BY <1>2, <1>6
  <1>14. QED
    BY <1>2, <1>3, <1>4, <1>5, <1>6, <1>7, <1>8, <1>9, <1>10, <1>11, <1>12, <1>13 DEF KindsHere

(* The two ends of line that cb_headers_complete looks for are that of the *)
(* last header and the one the parser is at.                               *)
LEMMA SecondLineEnd ==
    ASSUME HeadersSent, ParserInv, Executing, grammar = "line", Kind(At) = "n"
    PROVE  /\ ValueEnd = cursor /\ TwoLineEnds = At
           /\ Cardinality(LineEnds) \in Nat /\ Cardinality(LineEnds) >= 2
  <1>1. /\ cursor \in Nat \ {0} /\ At = cursor + 1 /\ At \in 1 .. Len(buf) /\ Len(buf) \in Nat
        /\ last.at + last.length = cursor /\ Kind(cursor) = "n"
    BY HeadersEnd
  <1>2. ValueEnd = cursor
    BY <1>1 DEF ValueEnd
  <1>3. LineEnds = {i \in cursor .. Len(buf) : Kind(i) = "n"}
    BY <1>2 DEF LineEnds
  <1>4. IsFiniteSet(LineEnds)
    <2>1. IsFiniteSet(cursor .. Len(buf))
      BY <1>1, FS_Interval
    <2>2. LineEnds \subseteq cursor .. Len(buf)
      BY <1>3
    <2>3. QED
      BY <2>1, <2>2, FS_Subset
  <1>5. cursor \in LineEnds /\ At \in LineEnds
    BY <1>1, <1>3
  <1> DEFINE Upto2(i) == {j \in LineEnds : j <= i}
             P(i)     == Cardinality(Upto2(i)) = 2
  <1>6. Cardinality({cursor, At}) = 2 /\ IsFiniteSet({cursor, At})
    <2>1. IsFiniteSet({cursor}) /\ Cardinality({cursor}) = 1
      BY FS_Singleton
    <2>2. At # cursor
      BY <1>1
    <2>3. {cursor, At} = {cursor} \cup {At} /\ At \notin {cursor}
      BY <2>2
    <2>4. QED
      BY <2>1, <2>3, FS_AddElement
  <1>7. P(At)
    <2>1. Upto2(At) = {cursor, At}
      <3>1. \A j \in LineEnds : j <= At => j = cursor \/ j = At
        BY <1>1, <1>3
      <3>2. cursor <= At /\ At <= At
        BY <1>1
      <3>3. QED
        BY <1>5, <3>1, <3>2
    <2>2. QED
      BY <1>6, <2>1
  <1>8. ASSUME NEW i \in LineEnds, P(i)
        PROVE  i = At
    <2>1. i \in cursor .. Len(buf)
      BY <1>3
    <2>2. i # cursor
      <3>1. SUFFICES ASSUME i = cursor
                     PROVE  FALSE
        OBVIOUS
      <3>2. Upto2(i) = {cursor}
        BY <1>1, <1>3, <1>5, <3>1
      <3>3. Cardinality({cursor}) = 1
        BY FS_Singleton
      <3>4. Cardinality({cursor}) = 2
        BY <1>8, <3>2
      <3>5. QED
        BY <3>3, <3>4
    <2>3. ~(i > At)
      <3>1. SUFFICES ASSUME i > At
                     PROVE  FALSE
        OBVIOUS
      <3>2. IsFiniteSet(Upto2(i)) /\ {cursor, At} \cup {i} \subseteq Upto2(i)
        <4>1. cursor <= i /\ At <= i /\ i <= i
          BY <1>1, <2>1, <3>1
        <4>2. Upto2(i) \subseteq LineEnds
          OBVIOUS
        <4>3. QED
          BY <1>4, <1>5, <4>1, <4>2, FS_Subset
      <3>3. i \notin {cursor, At}
        BY <1>1, <3>1
      <3>4. Cardinality({cursor, At} \cup {i}) = 2 + 1
        BY <1>6, <3>3, FS_AddElement
      <3>5. Cardinality({cursor, At} \cup {i}) <= Cardinality(Upto2(i))
        BY <3>2, FS_Subset
      <3> HIDE DEF Upto2
      <3>6. QED
        BY <1>8, <3>4, <3>5
    <2>4. QED
      BY <1>1, <2>1, <2>2, <2>3
  <1>9. TwoLineEnds = At
    <2>1. TwoLineEnds = CHOOSE i \in LineEnds : P(i)
      BY DEF TwoLineEnds
    <2> HIDE DEF P
    <2>2. QED
      BY <1>5, <1>7, <1>8, <2>1
  <1>10. Cardinality(LineEnds) \in Nat /\ Cardinality(LineEnds) >= 2
    <2>1. {cursor, At} \subseteq LineEnds
      BY <1>5
    <2>2. Cardinality({cursor, At}) <= Cardinality(LineEnds) /\ Cardinality(LineEnds) \in Nat
      BY <1>4, <2>1, FS_Subset, FS_CardinalityType
    <2>3. QED
      BY <1>6, <2>2
  <1>11. QED
    BY <1>2, <1>9, <1>10

(* What cb_headers_complete leaves of the headers.                         *)
LEMMA Completes ==
    ASSUME HeadersSent, ParserInv, CbHeadersComplete, ~Refuse
    PROVE  /\ UNCHANGED uri /\ EndOfHeaders(At + 1) /\ Body = BodyLength /\ grammar' = "body"
           /\ hdrs' = Cardinality(StartsIn(text, LineTo, HeadTo)) + 1
           /\ buf' \in Seq(0 .. Len(text)) /\ Len(buf') = Len(buf)
           /\ \A j \in 1 .. Len(buf) :
                  buf'[j] = IF j <= HeadTo - LineTo /\ KindAt(LineTo + j) = "n" THEN 0 ELSE LineTo + j
  <1>1. Executing /\ Accepted(Kind(At)) /\ Kind(At) = "n" /\ grammar = "line"
    BY DEF CbHeadersComplete, Token
  <1>2. /\ InHeaders /\ ~Early /\ Origin = LineTo
        /\ Here /\ LineTo \in Nat /\ HeadTo \in Nat
        /\ cursor \in Nat \ {0} /\ At = cursor + 1 /\ At \in 1 .. Len(buf) /\ Len(buf) \in Nat
        /\ parsed = LineTo + cursor /\ parsed \in Nat /\ HeadTo = LineTo + At
        /\ KindAt(parsed) = "n" /\ KindAt(HeadTo) = "n"
        /\ buf[At] = HeadTo /\ status = "HDR_VALUE"
        /\ \A j \in 1 .. Len(buf) : buf[j] = IF Erased(j) THEN 0 ELSE LineTo + j
    BY <1>1, HeadersEnd
  <1>3. ValueEnd = cursor /\ TwoLineEnds = At
    BY <1>1, SecondLineEnd
  <1>4. buf' = Erase(buf, cursor, At) /\ hdrs' = hdrs + 1 /\ UNCHANGED uri /\ EndOfHeaders(At + 1)
    <2>1. /\ buf' = Erase(buf, ValueEnd, TwoLineEnds) /\ hdrs' = hdrs + 1 /\ UNCHANGED uri
          /\ EndOfHeaders(TwoLineEnds + 1)
      BY <1>2 DEF CbHeadersComplete
    <2>2. QED
      BY <1>3, <2>1
  <1>5. Sent /\ Coming /\ buf \in Seq(0 .. Len(text)) /\ Len(text) \in Nat
    BY <1>1, <1>2, BlockIs, EndIsThere DEF Executing, InHeaders
  <1>6. /\ buf' \in Seq(0 .. Len(text)) /\ Len(buf') = Len(buf)
        /\ \A j \in 1 .. Len(buf) : buf'[j] = IF j \in cursor .. At THEN 0 ELSE buf[j]
    <2>1. cursor \in Nat /\ At \in Nat
      BY <1>2
    <2>2. /\ Erase(buf, cursor, At) \in Seq(0 .. Len(text)) /\ Len(Erase(buf, cursor, At)) = Len(buf)
          /\ \A i \in 1 .. Len(buf) : Erase(buf, cursor, At)[i] = IF i \in cursor .. At THEN 0 ELSE buf[i]
      BY <1>5, <2>1, Erases, Zenon
    <2>3. QED
      BY <1>4, <2>2, Zenon
  <1>7. ASSUME NEW j \in 1 .. Len(buf)
        PROVE  buf'[j] = IF j <= HeadTo - LineTo /\ KindAt(LineTo + j) = "n" THEN 0 ELSE LineTo + j
    <2>1. j < At /\ KindAt(LineTo + j) = "n" <=> Erased(j) \/ j = cursor
      BY <1>2, EndsErased
    <2>2. j <= HeadTo - LineTo <=> j < At \/ j = At
      BY <1>2
    <2>3. j \in cursor .. At <=> j = cursor \/ j = At
      BY <1>2
    <2>4. j = At => KindAt(LineTo + j) = "n"
      BY <1>2
    <2>5. j = cursor => j < At
      BY <1>2
    <2>6. buf[j] = IF Erased(j) THEN 0 ELSE LineTo + j
      BY <1>2
    <2>7. buf'[j] = IF j \in cursor .. At THEN 0 ELSE buf[j]
      BY <1>6
    <2>8. QED
      BY <2>1, <2>2, <2>3, <2>4, <2>5, <2>6, <2>7
  <1>8. Body = BodyLength
    <2>1. HeadTo \in 1 .. Len(text) /\ HeadTo \in Begin + 1 .. Finish
      BY <1>2 DEF Here
    <2>2. text[HeadTo].req = served + 1
      BY <1>5, <2>1, HereItIs DEF Owner
    <2>3. QED
      BY <1>2, <2>2 DEF Body, BodyLength, Asked
  <1>9. grammar' = "body"
    <2>1. <<grammar, "n", Becomes>> \in Rules
      BY <1>1, Rule
    <2>2. Becomes = "body"
      BY <1>1, <2>1 DEF Rules
    <2>3. QED
      BY <1>4, <2>2 DEF EndOfHeaders
  <1>10. hdrs = Cardinality(StartsIn(text, LineTo, HeadTo))
    <2>1. \A r \in parsed + 1 .. HeadTo : text[r].kind = "n" \/ text[r - 1].kind # "n"
      <3>1. \A r \in parsed + 1 .. HeadTo : r = HeadTo
        BY <1>2
      <3>2. QED
        BY <1>2, <3>1 DEF KindAt
    <2>2. parsed <= HeadTo /\ LineTo <= parsed /\ LineTo \in Nat /\ parsed \in Nat /\ HeadTo \in Nat
      BY <1>2
    <2>3. StartsIn(text, LineTo, HeadTo) = StartsIn(text, LineTo, parsed)
      BY <2>1, <2>2, StartsStay
    <2>4. QED
      BY <1>2, <2>3 DEF InHeaders
  <1>11. QED
    BY <1>4, <1>6, <1>7, <1>8, <1>9, <1>10

(* Where the headers end the request has its handler, or its body comes.   *)
LEMMA CbHeadersCompleteKeeps ==
    ASSUME HeadersSent, ParserInv, CbHeadersComplete
    PROVE  ParserInv'
  <1>1. Executing /\ Kind(At) = "n" /\ grammar = "line"
    BY DEF CbHeadersComplete, Token
  <1>2. CASE Refuse
    BY <1>2, Closes DEF Refuse
  <1>3. /\ InHeaders /\ ~Early /\ Origin = LineTo /\ Here /\ LineTo \in Nat /\ HeadTo \in Nat
        /\ cursor \in Nat \ {0} /\ At = cursor + 1 /\ At \in 1 .. Len(buf) /\ Len(buf) \in Nat
        /\ parsed = LineTo + cursor /\ HeadTo = LineTo + At
    BY <1>1, HeadersEnd
  <1>4. CASE ~Refuse
    <2>1. /\ UNCHANGED uri /\ EndOfHeaders(At + 1) /\ Body = BodyLength /\ grammar' = "body"
          /\ hdrs' = Cardinality(StartsIn(text, LineTo, HeadTo)) + 1
          /\ buf' \in Seq(0 .. Len(text)) /\ Len(buf') = Len(buf)
          /\ \A j \in 1 .. Len(buf) :
                 buf'[j] = IF j <= HeadTo - LineTo /\ KindAt(LineTo + j) = "n" THEN 0 ELSE LineTo + j
      BY <1>4, Completes
    <2>2. TypeOK /\ Sent /\ Coming
      BY <1>3 DEF ParserInv, InHeaders
    <2>3. remaining' = BodyLength /\ Parsed(At) /\ BodyLength \in Nat
      BY <1>3, <2>1 DEF EndOfHeaders, Here
    <2>4. hdrs' \in Nat
      <3>1. Cardinality(StartsIn(text, LineTo, HeadTo)) \in Nat
        BY <1>3, StartsFinite
      <3>2. QED
        BY <2>1, <3>1
    <2>5. CASE BodyLength = 0
      <3>1. PushBack(buf', At + 1) /\ CallHandler
        BY <2>1, <2>5 DEF EndOfHeaders
      <3>2. At + 1 \in At .. Len(buf) + 1
        BY <1>3
      <3>3. \A j \in At + 1 .. Len(buf) : buf'[j] = Origin + j
        <4>1. \A j \in At + 1 .. Len(buf) : j \in 1 .. Len(buf) /\ ~(j <= HeadTo - LineTo)
          BY <1>3
        <4>2. QED
          BY <1>3, <2>1, <4>1
      <3>4. Origin + ((At + 1) - 1) + remaining' = Finish
        <4>1. At \in Nat /\ (At + 1) - 1 = At /\ remaining' = 0 /\ Finish = HeadTo + 0 /\ HeadTo \in Nat
          BY <1>3, <2>3, <2>5 DEF Here
        <4>2. QED
          BY <1>3, <4>1
      <3>5. grammar' \in Grammar /\ remaining' \in Nat
        BY <2>1, <2>3 DEF Grammar
      <3>6. QED
        BY <1>1, <2>1, <2>3, <2>4, <3>1, <3>2, <3>3, <3>4, <3>5, HandsOver
    <2>6. CASE BodyLength # 0
      <3>1. /\ UNCHANGED <<requests, text, served, taken, pending, pc, offset, paused, preParsed,
                           refused, uri>>
            /\ status' = "BODY" /\ last' = [last EXCEPT !.at = At + 1]
        BY <2>1, <2>6 DEF EndOfHeaders, streamVars, heardVars
      <3>2. last'.at = At + 1 /\ last' \in Notes
        <4>1. last \in Notes /\ Len(buf) <= Scratch /\ Scratch \in Nat
          BY <2>2, StageTypes DEF TypeOK
        <4>2. At + 1 \in 0 .. Scratch + 1
          BY <1>3, <4>1
        <4>3. QED
          BY <3>1, <4>1, <4>2 DEF Notes
      <3>3. ~Early' /\ (Early' <=> Early) /\ LineTo' = LineTo /\ HeadTo' = HeadTo /\ Coming'
            /\ BodyLength' = BodyLength /\ Origin' = Origin
        BY <1>3, <2>2, <3>1, SameRequest DEF Early, Origin
      <3>4. \A j \in 1 .. Len(buf) : buf'[j] = IF Erased(j)' THEN 0 ELSE Origin + j
        <4>1. ASSUME NEW j \in 1 .. Len(buf)
              PROVE  Erased(j)' <=> j <= HeadTo - LineTo /\ KindAt(LineTo + j) = "n"
          <5>1. Erased(j)' <=> j < At + 1 /\ KindAt(LineTo + j) = "n"
            BY <1>3, <3>1, <3>2, <3>3 DEF Erased, KindAt
          <5>2. j < At + 1 <=> j <= HeadTo - LineTo
            BY <1>3
          <5>3. QED
            BY <5>1, <5>2
        <4>2. QED
          BY <1>3, <2>1, <4>1
      <3>5. ASSUME parsed' = Origin + At
            PROVE  Stage'
        <4>1. parsed' = HeadTo /\ LineTo + last'.at = HeadTo + 1
          BY <1>3, <3>2, <3>5
        <4>2. hdrs' = Cardinality(StartsIn(text', LineTo', HeadTo')) + 1
          BY <2>1, <3>1, <3>3
        <4>3. uri' = Where(text, served + 1, {"u"})'
          BY <1>3, <3>1 DEF InHeaders, Where
        <4>4. BodyLength' > 0
          BY <2>3, <2>6, <3>3
        <4>5. AtBody'
          BY <2>1, <2>3, <3>1, <3>3, <4>1, <4>2, <4>3, <4>4 DEF AtBody
        <4>6. QED
          BY <4>5 DEF Stage
      <3>6. grammar' \in Grammar /\ status' \in Status
        BY <2>1, <3>1 DEF Grammar, Status
      <3>7. At \in At .. Len(buf) /\ (remaining' = remaining \/ remaining' \in Nat)
        BY <1>3, <2>3
      <3>8. QED
        BY <1>1, <2>1, <2>3, <2>4, <3>1, <3>2, <3>3, <3>4, <3>5, <3>6, <3>7, StillParsing
    <2>7. QED
      BY <2>5, <2>6
  <1>5. QED
    BY <1>2, <1>4

(* A step that leaves the parser alone.                                    *)
LEMMA SameStage ==
    ASSUME UNCHANGED <<requests, text, served, grammar, parsed, status, last, hdrs, uri, remaining>>
    PROVE  /\ Stage' <=> Stage
           /\ (Early' <=> Early) /\ Origin' = Origin /\ Read' = Read
           /\ \A j : Erased(j)' <=> Erased(j)
  <1>1. /\ Begin' = Begin /\ LineTo' = LineTo /\ HeadTo' = HeadTo /\ UrlLength' = UrlLength
        /\ BodyLength' = BodyLength /\ (Coming' <=> Coming)
    BY SameRequest
  <1>2. \A p : KindAt(p)' = KindAt(p)
    BY SameKinds
  <1>3. KindAt(parsed)' = KindAt(parsed)
    BY DEF KindAt
  <1>4. (Early' <=> Early) /\ Origin' = Origin /\ Read' = Read
    BY <1>1 DEF Early, Origin, Read
  <1>5. \A j : Erased(j)' <=> Erased(j)
    BY <1>4, ErasedSame
  <1>6. Opening' <=> Opening
    BY <1>1 DEF Opening, AtStart, AtMethod, AtUrl, AtLine
  <1>7. AtSomeHeader' <=> AtSomeHeader
    BY <1>1, <1>3 DEF AtSomeHeader, AtHeader
  <1>8. Where(text, served + 1, {"u"})' = Where(text, served + 1, {"u"})
    BY DEF Where
  <1>9. InHeaders' <=> InHeaders
    BY <1>1, <1>2, <1>7, <1>8 DEF InHeaders, AtSomeHeader
  <1>10. AtBody' <=> AtBody
    BY <1>1, <1>8 DEF AtBody
  <1>11. QED
    BY <1>4, <1>5, <1>6, <1>9, <1>10 DEF Stage

(* The end of a block.                                                     *)
LEMMA BlockParsedKeeps ==
    ASSUME HeadersSent, ParserInv, BlockParsed
    PROVE  ParserInv'
  <1>1. /\ pc = "execute" /\ cursor = Len(buf) /\ pc' = "read" /\ offset' = Len(buf)
        /\ UNCHANGED <<requests, text, served, taken, pending, buf, cursor, grammar, parsed, status,
                       last, paused, preParsed, hdrs, uri, remaining, refused>>
    BY DEF BlockParsed, streamVars, parserVars, requestVars, heardVars
  <1>2. TypeOK /\ Sent /\ Queue /\ Window /\ Stage /\ Parsing
    BY <1>1 DEF ParserInv
  <1>3. Len(buf) \in Nat /\ Len(buf) <= Scratch
    BY <1>2, StageTypes
  <1>4. Stage' /\ Origin' = Origin /\ Read' = Read /\ \A j : Erased(j)' <=> Erased(j)
    BY <1>1, <1>2, SameStage
  <1>5. Held' = Held /\ Got' = Got
    <2>1. Held' = Len(buf) /\ Held = Len(buf) /\ Got = Len(buf)
      BY <1>1 DEF Held, Got
    <2>2. Got' = Len(buf) + 0
      BY <1>1, <1>2 DEF Got, Parsing
    <2>3. QED
      BY <1>3, <2>1, <2>2
  <1>6. Window'
    BY <1>1, <1>2, <1>4, <1>5 DEF Window
  <1>7. Reading'
    BY <1>1, <1>2 DEF Parsing, Reading
  <1>8. TypeOK'
    BY <1>1, <1>2, <1>3 DEF TypeOK, Notes
  <1>9. Sent' /\ Queue'
    BY <1>1, <1>2, SameRequest DEF Queue
  <1>10. QED
    BY <1>1, <1>4, <1>6, <1>7, <1>8, <1>9 DEF ParserInv

(* A new request begins where the last one ended.                          *)
LEMMA HttpdReqNewKeeps ==
    ASSUME HeadersSent, ParserInv, HttpdReqNew
    PROVE  ParserInv'
  <1>1. /\ pc = "idle" /\ pc' = "read" /\ buf' = <<>> /\ offset' = 0 /\ cursor' = 0
        /\ grammar' = "start" /\ parsed' = 0 /\ status' = "IDLE"
        /\ last' = [at |-> 0, length |-> 0] /\ paused' = FALSE /\ preParsed' = 0
        /\ hdrs' = 0 /\ uri' = {} /\ remaining' = 0
        /\ UNCHANGED <<requests, text, served, taken, pending, refused>>
    BY DEF HttpdReqNew, NewParser, streamVars, heardVars
  <1>2. TypeOK /\ Sent /\ Queue /\ taken - Len(pending) = Begin
    BY <1>1 DEF ParserInv
  <1>3. /\ Begin \in Nat /\ Len(text) \in Nat /\ Scratch \in Nat /\ BlockSize \in Nat /\ MaxUri \in Nat
        /\ Begin' = Begin /\ Sent'
    BY <1>1, <1>2, EndIsThere, StageTypes, SameRequest
  <1>4. Early' /\ Origin' = Begin /\ Read' = Begin /\ Held' = 0 /\ Got' = 0 + 0
    BY <1>1, <1>3 DEF Early, Origin, Read, Held, Got
  <1>5. Window'
    <2>1. taken' - Len(pending') = Origin' + Held' /\ Read' = Origin' + Got' /\ Held' <= Len(buf')
      BY <1>1, <1>2, <1>3, <1>4
    <2>2. QED
      BY <1>4, <2>1 DEF Window
  <1>6. Stage'
    BY <1>1 DEF Stage, Opening, AtStart
  <1>7. Reading'
    BY <1>1 DEF Reading
  <1>8. TypeOK'
    <2>1. last' \in Notes
      <3>1. 0 \in 0 .. Scratch + 1 /\ 0 \in 0 .. Scratch
        BY <1>3
      <3>2. QED
        BY <1>1, <3>1 DEF Notes
    <2>2. Cardinality(uri') = 0 /\ uri' \subseteq 0 .. Len(text')
      BY <1>1, FS_EmptySet
    <2>3. /\ buf' \in Seq(0 .. Len(text')) /\ Len(buf') <= Scratch /\ cursor' \in 0 .. Len(buf')
          /\ offset' \in 0 .. Scratch /\ parsed' \in 0 .. Len(text') /\ preParsed' \in 0 .. BlockSize
      BY <1>1, <1>3
    <2>4. /\ taken' \in 0 .. Len(text') /\ pending' \in Seq(0 .. Len(text')) /\ Len(pending') <= BlockSize
          /\ refused' \in BOOLEAN /\ served' \in Nat
      BY <1>1, <1>2 DEF TypeOK
    <2>5. grammar' \in Grammar /\ status' \in Status
      BY <1>1 DEF Grammar, Status
    <2>6. Cardinality(uri') <= MaxUri
      BY <1>3, <2>2
    <2>7. QED
      BY <1>1, <2>1, <2>2, <2>3, <2>4, <2>5, <2>6 DEF TypeOK
  <1>9. Queue'
    BY <1>1, <1>2 DEF Queue
  <1>10. QED
    BY <1>1, <1>3, <1>5, <1>6, <1>7, <1>8, <1>9 DEF ParserInv

(* The buffer begins somewhere in the text.                                *)
LEMMA BeginsInNat ==
    ASSUME HeadersSent, Sent, Stage
    PROVE  Origin \in Nat
  <1>1. Begin \in Nat
    BY EndIsThere
  <1>2. CASE Early
    BY <1>1, <1>2 DEF Origin
  <1>3. CASE ~Early
    <2>1. Coming
      BY <1>3 DEF Stage, Opening, AtStart, AtMethod, AtUrl, AtLine, InHeaders, AtBody, Early
    <2>2. QED
      BY <1>3, <2>1, HereItIs DEF Origin, Here
  <1>4. QED
    BY <1>2, <1>3

(* A block behind what the scratch buffer holds.                           *)
LEMMA ParseKeeps ==
    ASSUME HeadersSent, ParserInv, pc = "read",
           NEW new \in Seq(0 .. Len(text)), Parse(new), pending' = <<>>,
           Len(new) \in 1 .. BlockSize, offset + Len(new) <= Scratch,
           taken' = Origin + offset + Len(new), taken' <= Len(text),
           \A i \in 1 .. Len(new) : new[i] = Origin + (offset + i),
           paused => preParsed <= Len(new)
    PROVE  ParserInv'
  <1>1. /\ buf' = Upto(buf, offset) \o new /\ cursor' = offset + Skipped(new)
        /\ preParsed' = preParsed - Skipped(new) /\ paused' = FALSE
        /\ \/ Skipped(new) = Len(new) /\ pc' = "read" /\ offset' = Skipped(new)
           \/ Skipped(new) < Len(new) /\ pc' = "execute" /\ offset' = offset
        /\ UNCHANGED <<requests, text, grammar, parsed, status, last, hdrs, uri, remaining, refused, served>>
    BY DEF Parse, streamVars, requestVars, heardVars
  <1>2. TypeOK /\ Sent /\ Queue /\ Window /\ Stage /\ Reading
    BY DEF ParserInv
  <1>3. /\ Len(buf) \in Nat /\ offset \in Nat /\ Scratch \in Nat /\ BlockSize \in Nat /\ preParsed \in Nat
        /\ last.at \in Nat /\ Len(new) \in Nat /\ Len(text) \in Nat /\ taken \in Nat
        /\ preParsed <= BlockSize
    BY <1>2, StageTypes, EndIsThere DEF TypeOK
  <1>4. Held = offset /\ Got = offset + (IF paused THEN preParsed ELSE 0) /\ offset <= Len(buf)
    BY <1>2 DEF Held, Got, Window
  <1>5. Skipped(new) = (IF paused THEN preParsed ELSE 0) /\ Skipped(new) \in 0 .. Len(new)
    <2>1. CASE paused
      <3>1. Skipped(new) = Least(Len(new), preParsed)
        BY <2>1 DEF Skipped
      <3>2. preParsed \in 0 .. Len(new) /\ (Len(new) < preParsed => FALSE)
        BY <1>3, <2>1
      <3>3. Least(Len(new), preParsed) = preParsed
        BY <1>3, <3>2 DEF Least
      <3>4. QED
        BY <2>1, <3>1, <3>2, <3>3
    <2>2. CASE ~paused
      BY <1>3, <2>2 DEF Skipped
    <2>3. QED
      BY <2>1, <2>2
  <1>6. /\ Stage' /\ Origin' = Origin /\ Read' = Read /\ \A j : Erased(j)' <=> Erased(j)
    BY <1>1, <1>2, SameStage
  <1>7. Origin \in Nat
    BY <1>2, BeginsInNat
  <1>8. /\ buf' \in Seq(0 .. Len(text)) /\ Len(buf') = offset + Len(new)
        /\ \A j \in 1 .. offset : buf'[j] = buf[j]
        /\ \A i \in 1 .. Len(new) : buf'[offset + i] = new[i]
    <2> DEFINE S == 0 .. Len(text)
               u == Upto(buf, offset)
    <2>1. buf \in Seq(S) /\ new \in Seq(S)
      BY <1>2 DEF TypeOK
    <2>2. u \in Seq(S) /\ Len(u) = offset /\ \A j \in 1 .. offset : u[j] = buf[j]
      <3> HIDE DEF S
      <3>1. u = SubSeq(buf, 1, offset)
        BY DEF Upto
      <3>2. SubSeq(buf, 1, offset) = [i \in 1 .. offset |-> buf[i]]
        BY <1>3, <1>4, <2>1
      <3>3. \A i \in 1 .. offset : buf[i] \in S
        BY <1>3, <1>4, <2>1
      <3>4. SubSeq(buf, 1, offset) \in [1 .. offset -> S]
        BY <3>2, <3>3
      <3>5. SubSeq(buf, 1, offset) \in Seq(S) /\ Len(SubSeq(buf, 1, offset)) = offset
        <4>1. offset \in Nat
          BY <1>3
        <4>2. SubSeq(buf, 1, offset) \in Seq(S)
          BY <3>4, <4>1, IsASequence, Zenon
        <4>3. Len([i \in 1 .. offset |-> buf[i]]) = offset
          BY <4>1
        <4>4. QED
          BY <3>2, <4>2, <4>3
      <3>6. QED
        BY <3>1, <3>2, <3>5
    <2> HIDE DEF S, u
    <2>3. /\ u \o new \in Seq(S) /\ Len(u \o new) = Len(u) + Len(new)
          /\ \A i \in 1 .. Len(u) : (u \o new)[i] = u[i]
          /\ \A j \in 1 .. Len(new) : (u \o new)[Len(u) + j] = new[j]
      <3>1. u \in Seq(S) /\ new \in Seq(S)
        BY <2>1, <2>2
      <3> QED
        BY <3>1, Concatenated
    <2>4. buf' = u \o new
      BY <1>1 DEF u
    <2>5. QED
      BY <2>2, <2>3, <2>4 DEF S
  <1>9. \A j \in offset + 1 .. Len(buf') : ~Erased(j)
    <2>1. CASE Early
      BY <2>1 DEF Erased
    <2>2. CASE ~Early
      <3>1. Coming /\ ~Opening
        BY <1>2, <2>2 DEF Stage, Opening, AtStart, AtMethod, AtUrl, AtLine, InHeaders, AtBody, Early
      <3>2. Read = parsed /\ LineTo + last.at <= parsed + 1 /\ Origin = LineTo
        BY <1>2, <2>2, <3>1, StageFacts DEF Origin
      <3>3. Read = Origin + Got
        BY <1>2 DEF Window
      <3>4. last.at <= offset + 1
        <4>1. CASE paused
          BY <1>2, <1>3, <4>1 DEF Reading
        <4>2. CASE ~paused
          <5>1. Got = offset
            BY <1>3, <1>4, <4>2
          <5>2. QED
            BY <1>3, <1>7, <3>2, <3>3, <5>1
        <4>3. QED
          BY <4>1, <4>2
      <3>5. \A j \in offset + 1 .. Len(buf') : ~(j < last.at)
        <4>1. offset \in Nat /\ last.at \in Nat /\ Len(buf') \in Nat
          BY <1>3, <1>8
        <4>2. QED
          BY <3>4, <4>1
      <3>6. QED
        BY <3>5 DEF Erased
    <2>3. QED
      BY <2>1, <2>2
  <1>10. \A j \in 1 .. Len(buf') : buf'[j] = IF Erased(j) THEN 0 ELSE Origin + j
    <2>1. ASSUME NEW j \in 1 .. Len(buf')
          PROVE  buf'[j] = IF Erased(j) THEN 0 ELSE Origin + j
      <3>1. CASE j <= offset
        <4>1. j \in 1 .. offset /\ j \in 1 .. Held
          BY <1>3, <1>4, <3>1
        <4>2. buf[j] = IF Erased(j) THEN 0 ELSE Origin + j
          BY <1>2, <4>1 DEF Window
        <4>3. QED
          BY <1>8, <4>1, <4>2
      <3>2. CASE j > offset
        <4>1. j - offset \in 1 .. Len(new) /\ offset + (j - offset) = j /\ j \in offset + 1 .. Len(buf')
          BY <1>3, <1>8, <3>2
        <4>2. buf'[j] = Origin + j
          BY <1>8, <4>1
        <4>3. QED
          BY <1>9, <4>1, <4>2
      <3>3. QED
        BY <1>3, <3>1, <3>2
    <2>2. QED
      BY <2>1
  <1>11. Read = Origin + (offset + Skipped(new))
    BY <1>2, <1>4, <1>5 DEF Window
  <1>12. Queue' /\ Sent'
    <2>1. served' = served /\ requests' = requests /\ text' = text
      BY <1>1
    <2>2. 0 <= taken'
      BY <1>3, <1>7
    <2>3. QED
      BY <1>2, <2>1, <2>2, SameRequest DEF Queue
  <1>13. TypeOK'
    <2>1. cursor' \in 0 .. Len(buf') /\ Len(buf') <= Scratch
      BY <1>1, <1>3, <1>5, <1>8
    <2>2. offset' \in 0 .. Scratch
      <3>1. offset \in 0 .. Scratch /\ Skipped(new) \in 0 .. Scratch
        BY <1>3, <1>5
      <3>2. offset' = offset \/ offset' = Skipped(new)
        BY <1>1
      <3>3. QED
        BY <3>1, <3>2
    <2>3. preParsed' \in 0 .. BlockSize
      BY <1>1, <1>3, <1>5
    <2>4. taken' \in 0 .. Len(text')
      BY <1>1, <1>3, <1>7
    <2>5. pending' \in Seq(0 .. Len(text')) /\ Len(pending') <= BlockSize
      BY <1>3
    <2>6. /\ pc' \in {"idle", "read", "execute", "handler", "purge", "closed"} /\ paused' \in BOOLEAN
          /\ buf' \in Seq(0 .. Len(text'))
      BY <1>1, <1>8
    <2>7. /\ grammar' \in Grammar /\ status' \in Status /\ parsed' \in 0 .. Len(text') /\ last' \in Notes
          /\ hdrs' \in Nat /\ uri' \subseteq 0 .. Len(text') /\ Cardinality(uri') <= MaxUri
          /\ remaining' \in Nat /\ refused' \in BOOLEAN /\ served' \in Nat
      BY <1>1, <1>2 DEF TypeOK
    <2>8. QED
      BY <2>1, <2>2, <2>3, <2>4, <2>5, <2>6, <2>7 DEF TypeOK, Notes
  <1>14. CASE Skipped(new) = Len(new) /\ pc' = "read" /\ offset' = Skipped(new)
    <2>1. offset = 0
      <3>1. Len(new) # 0
        OBVIOUS
      <3>2. paused
        BY <1>5, <1>14, <3>1
      <3>3. QED
        BY <1>2, <3>2 DEF Reading
    <2>2. Held' = Skipped(new) /\ Got' = Skipped(new) + 0 /\ Len(buf') = Skipped(new)
      BY <1>1, <1>3, <1>8, <1>14, <2>1 DEF Held, Got
    <2>3. Window'
      <3>1. taken' - Len(pending') = Origin' + Held'
        BY <1>3, <1>6, <1>7, <1>14, <2>1, <2>2
      <3>2. Read' = Origin' + Got'
        BY <1>3, <1>5, <1>6, <1>7, <1>11, <2>1, <2>2
      <3>3. \A j \in 1 .. Held' : buf'[j] = IF Erased(j)' THEN 0 ELSE Origin' + j
        BY <1>6, <1>10, <2>2
      <3>4. Held' <= Len(buf')
        BY <1>3, <1>14, <2>2
      <3>5. QED
        BY <3>1, <3>2, <3>3, <3>4 DEF Window
    <2>4. Reading'
      BY <1>1 DEF Reading
    <2>5. QED
      BY <1>6, <1>12, <1>13, <1>14, <2>3, <2>4 DEF ParserInv
  <1>15. CASE Skipped(new) < Len(new) /\ pc' = "execute" /\ offset' = offset
    <2>1. Held' = Len(buf') /\ Got' = offset + Skipped(new)
      BY <1>1, <1>15 DEF Held, Got
    <2>2. Window'
      <3>1. taken' - Len(pending') = Origin' + Held'
        BY <1>3, <1>6, <1>7, <1>8, <2>1
      <3>2. Read' = Origin' + Got'
        BY <1>6, <1>11, <2>1
      <3>3. \A j \in 1 .. Held' : buf'[j] = IF Erased(j)' THEN 0 ELSE Origin' + j
        BY <1>6, <1>10, <2>1
      <3>4. Held' <= Len(buf')
        BY <1>3, <1>8, <2>1
      <3>5. QED
        BY <3>1, <3>2, <3>3, <3>4 DEF Window
    <2>3. Parsing'
      <3>1. offset <= offset + Skipped(new) /\ (offset + Len(new)) - offset <= BlockSize
        BY <1>3, <1>5
      <3>2. QED
        BY <1>1, <1>8, <1>15, <3>1 DEF Parsing
    <2>4. QED
      BY <1>6, <1>12, <1>13, <1>15, <2>2, <2>3 DEF ParserInv
  <1>16. QED
    BY <1>1, <1>14, <1>15

(* read_block: from pending data, from the socket, or not at all.          *)
LEMMA ReadBlockKeeps ==
    ASSUME HeadersSent, ParserInv, ReadBlock
    PROVE  ParserInv'
  <1>1. TypeOK /\ Sent /\ Queue /\ Window /\ Stage /\ Reading /\ pc = "read"
    BY DEF ReadBlock, ParserInv
  <1>2. /\ offset \in Nat /\ Scratch \in Nat /\ BlockSize \in Nat /\ BlockSize > 0 /\ BlockSize <= Scratch
        /\ offset <= Scratch /\ Len(pending) \in Nat /\ Len(pending) <= BlockSize
        /\ taken \in Nat /\ taken <= Len(text) /\ Len(text) \in Nat
        /\ pending \in Seq(0 .. Len(text)) /\ refused \in BOOLEAN
    BY <1>1, StageTypes, EndIsThere DEF TypeOK
  <1>3. Held = offset
    BY <1>1 DEF Held
  <1>4. taken - Len(pending) = Origin + offset
    BY <1>1, <1>3 DEF Window
  <1>5. CASE Refuse
    BY <1>5, Closes DEF Refuse
  <1>6. CASE Disconnect
    <2>1. refused' \in BOOLEAN
      BY <1>2, <1>6 DEF Disconnect
    <2>2. QED
      BY <1>6, <2>1, Closes DEF Disconnect
  <1>7. CASE pending # <<>> /\ UNCHANGED taken
             /\ pending' = From(pending, Least(Room, Len(pending)) + 1)
             /\ Parse(Upto(pending, Least(Room, Len(pending))))
    <2>1. offset = 0
      BY <1>1, <1>7 DEF Reading
    <2>2. Room = BlockSize
      <3>1. ~(BlockSize < Scratch - offset) => Scratch - offset = BlockSize
        BY <1>2, <2>1
      <3>2. QED
        BY <3>1 DEF Room, Least
    <2>3. Least(Room, Len(pending)) = Len(pending)
      <3>1. ~(BlockSize < Len(pending))
        BY <1>2
      <3>2. QED
        BY <2>2, <3>1 DEF Least
    <2>4. Upto(pending, Len(pending)) = pending
      <3>1. SubSeq(pending, 1, Len(pending)) = pending
        BY <1>2
      <3>2. QED
        BY <3>1 DEF Upto
    <2>5. From(pending, Len(pending) + 1) = <<>>
      <3>1. SubSeq(pending, Len(pending) + 1, Len(pending)) = <<>>
        BY <1>2
      <3>2. QED
        BY <3>1 DEF From
    <2>6. pending' = <<>> /\ Parse(pending)
      BY <1>7, <2>3, <2>4, <2>5
    <2>7. Len(pending) \in 1 .. BlockSize
      <3>1. Len(pending) # 0
        BY <1>2, <1>7
      <3>2. QED
        BY <1>2, <3>1
    <2>8. offset + Len(pending) <= Scratch
      BY <1>2, <2>1
    <2>9. Origin = taken - Len(pending)
      <3>1. Origin \in Int
        BY <1>1, BeginsInNat
      <3>2. QED
        BY <1>2, <1>4, <2>1, <3>1
    <2>10. taken' = Origin + offset + Len(pending) /\ taken' <= Len(text)
      BY <1>2, <1>7, <2>1, <2>9
    <2>11. \A i \in 1 .. Len(pending) : pending[i] = Origin + (offset + i)
      <3>1. \A i \in 1 .. Len(pending) : pending[i] = (taken - Len(pending)) + i
        BY <1>1 DEF Queue
      <3>2. \A i \in 1 .. Len(pending) : offset + i = i
        BY <2>1
      <3>3. QED
        BY <2>9, <3>1, <3>2
    <2>12. paused => preParsed <= Len(pending)
      BY <1>1, <1>2 DEF Reading
    <2>13. QED
      BY <1>1, <1>2, <2>6, <2>7, <2>8, <2>10, <2>11, <2>12, ParseKeeps
  <1>8. ASSUME NEW n \in 1 .. Least(Room, Len(text) - taken), pending = <<>>, UNCHANGED pending,
               Room > 0, taken' = taken + n, Parse(Arrived(n))
        PROVE  ParserInv'
    <2>1. Room \in Nat /\ Room <= BlockSize /\ offset + Room <= Scratch
      BY <1>2 DEF Room, Least
    <2>2. n \in Nat /\ n >= 1 /\ n <= Room /\ taken + n <= Len(text)
      BY <1>2, <2>1 DEF Least
    <2>3. taken = Origin + offset /\ Origin \in Nat
      <3>1. Len(pending) = 0 /\ Origin \in Nat
        BY <1>1, <1>8, BeginsInNat
      <3>2. QED
        BY <1>2, <1>4, <3>1
    <2>4. Len(Arrived(n)) = n /\ \A i \in 1 .. n : Arrived(n)[i] = taken + i
      BY <2>2 DEF Arrived
    <2>5. Arrived(n) \in Seq(0 .. Len(text))
      <3> DEFINE S == 0 .. Len(text)
      <3>1. \A i \in 1 .. n : taken + i \in S
        BY <1>2, <2>2
      <3> HIDE DEF S
      <3>2. Arrived(n) \in [1 .. n -> S]
        BY <3>1 DEF Arrived
      <3>3. Arrived(n) \in Seq(S)
        BY <2>2, <3>2, SeqDef
      <3>4. QED
        BY <3>3 DEF S
    <2>6. ~paused
      BY <1>1, <1>8 DEF Reading
    <2>7. \A i \in 1 .. n : taken + i = Origin + (offset + i)
      BY <1>2, <2>3
    <2>8. taken' = Origin + offset + n /\ taken' <= Len(text) /\ offset + n <= Scratch /\ n \in 1 .. BlockSize
      BY <1>2, <1>8, <2>1, <2>2, <2>3
    <2>9. QED
      BY <1>1, <1>8, <2>4, <2>5, <2>6, <2>7, <2>8, ParseKeeps
  <1>9. QED
    BY <1>5, <1>6, <1>7, <1>8 DEF ReadBlock

(* What is read of a body, by a handler or to be purged.                   *)
LEMMA ReadBodyKeeps ==
    ASSUME HeadersSent, ParserInv, pc \in {"handler", "purge"},
           NEW length \in 1 .. remaining, ReadBody(length)
    PROVE  ParserInv'
  <1>1. /\ TypeOK /\ Sent /\ Queue /\ served >= 1 /\ (taken - Len(pending)) + remaining = Begin
    BY DEF ParserInv
  <1>2. /\ Len(pending) \in Nat /\ Len(pending) <= BlockSize /\ taken \in Nat /\ taken <= Len(text)
        /\ Len(text) \in Nat /\ remaining \in Nat /\ length \in Nat /\ BlockSize \in Nat
        /\ pending \in Seq(0 .. Len(text)) /\ Begin \in Nat
    BY <1>1, StageTypes, EndIsThere DEF TypeOK
  <1> DEFINE old == Least(length, Len(pending))
  <1>3. PICK n \in 0 .. Least(length - old, Len(text) - taken) :
            /\ old + n > 0
            /\ pending' = From(pending, old + 1) /\ taken' = taken + n
            /\ remaining' = remaining - (old + n)
    BY DEF ReadBody, Recv
  <1>4. UNCHANGED <<requests, text, pc, buf, offset, cursor, grammar, parsed, status, last, paused,
                    preParsed, hdrs, uri, refused, served>>
    BY DEF ReadBody, streamVars, parserVars
  <1>5. old \in Nat /\ old <= length /\ old <= Len(pending) /\ (old < Len(pending) => old = length)
    BY <1>2 DEF Least
  <1> HIDE DEF old
  <1>6. n \in Nat /\ old + n <= length /\ taken + n <= Len(text) /\ (old < Len(pending) => n = 0)
    BY <1>2, <1>5 DEF Least
  <1>7. /\ pending' \in Seq(0 .. Len(text)) /\ Len(pending') = Len(pending) - old
        /\ \A i \in 1 .. Len(pending') : pending'[i] = pending[old + i]
    <2>1. old + 1 \in 1 .. Len(pending) + 1 /\ pending' = From(pending, old + 1)
      BY <1>2, <1>3, <1>5
    <2>2. pending \in Seq(0 .. Len(text))
      BY <1>2
    <2>3. /\ pending' \in Seq(0 .. Len(text)) /\ Len(pending') = (Len(pending) + 1) - (old + 1)
          /\ \A i \in 1 .. Len(pending') : pending'[i] = pending[((old + 1) - 1) + i]
      BY <2>1, <2>2, FromIs
    <2>4. (old + 1) - 1 = old /\ (Len(pending) + 1) - (old + 1) = Len(pending) - old
      BY <1>2, <1>5
    <2>5. QED
      BY <2>3, <2>4
  <1>8. Queue'
    <2>1. Len(pending') <= taken'
      BY <1>1, <1>2, <1>3, <1>5, <1>6, <1>7 DEF Queue
    <2>2. ASSUME NEW i \in 1 .. Len(pending')
          PROVE  pending'[i] = (taken' - Len(pending')) + i
      <3>0. i \in 1 .. Len(pending) - old
        BY <1>7
      <3>1. old + i \in 1 .. Len(pending) /\ old < Len(pending)
        BY <1>2, <1>5, <3>0
      <3>2. pending'[i] = (taken - Len(pending)) + (old + i)
        BY <1>1, <1>7, <3>1 DEF Queue
      <3>3. n = 0 /\ taken' = taken + 0
        BY <1>3, <1>6, <3>1
      <3>4. (taken' - Len(pending')) + i = (taken - Len(pending)) + (old + i)
        BY <1>2, <1>5, <1>7, <3>1, <3>3
      <3>5. QED
        BY <3>2, <3>4
    <2>3. QED
      BY <2>1, <2>2 DEF Queue
  <1>9. Begin' = Begin /\ Sent'
    BY <1>1, <1>4, SameRequest
  <1>10. remaining' \in Nat /\ (taken' - Len(pending')) + remaining' = Begin'
    <2>1. old + n <= remaining
      BY <1>2, <1>5, <1>6
    <2>2. remaining - (old + n) \in Nat
      BY <1>2, <1>5, <1>6, <2>1
    <2>3. ((taken + n) - (Len(pending) - old)) + (remaining - (old + n)) = Begin
      BY <1>1, <1>2, <1>5, <1>6
    <2>4. QED
      BY <1>3, <1>7, <1>9, <2>2, <2>3
  <1>11. TypeOK'
    <2>1. taken' \in 0 .. Len(text) /\ Len(pending') <= BlockSize
      BY <1>2, <1>3, <1>5, <1>6, <1>7
    <2>2. QED
      BY <1>1, <1>4, <1>7, <1>10, <2>1 DEF TypeOK, Notes
  <1>12. QED
    BY <1>1, <1>4, <1>8, <1>9, <1>10, <1>11 DEF ParserInv

(* A step of a handler, or of its end, that reads nothing.                 *)
LEMMA HandlerMoves ==
    ASSUME ParserInv, pc \in {"handler", "purge"},
           pc' = "purge" \/ (pc' = "idle" /\ remaining = 0),
           UNCHANGED <<streamVars, taken, pending, buf, offset, cursor, parserVars, requestVars,
                       refused, heardVars>>
    PROVE  ParserInv'
  <1>1. UNCHANGED <<requests, text, served, taken, pending, buf, offset, cursor, grammar, parsed,
                    status, last, paused, preParsed, hdrs, uri, remaining, refused>>
    BY DEF streamVars, parserVars, requestVars, heardVars
  <1>2. TypeOK /\ Sent /\ Queue /\ served >= 1 /\ (taken - Len(pending)) + remaining = Begin
    BY DEF ParserInv
  <1>3. TypeOK' /\ Sent' /\ Queue' /\ Begin' = Begin
    BY <1>1, <1>2, SameRequest DEF TypeOK, Notes, Queue
  <1>4. remaining = 0 => taken - Len(pending) = Begin
    BY <1>2, StageTypes
  <1>5. QED
    BY <1>1, <1>2, <1>3, <1>4 DEF ParserInv

(* A new connection has nothing behind it.                                 *)
LEMMA InitParser ==
    ASSUME HeadersSent, Init
    PROVE  ParserInv
  <1>1. /\ requests \in Streams /\ text = TextOf(requests)
        /\ taken = 0 /\ pending = <<>> /\ pc = "idle"
        /\ buf = <<>> /\ offset = 0 /\ cursor = 0
        /\ grammar = "start" /\ parsed = 0 /\ status = "IDLE"
        /\ last = [at |-> 0, length |-> 0] /\ paused = FALSE /\ preParsed = 0
        /\ hdrs = 0 /\ uri = {} /\ remaining = 0
        /\ refused = FALSE /\ served = 0
    BY DEF Init
  <1>2. Sent
    <2>1. requests \in Seq(Requests)
      BY <1>1, StreamsAssumption
    <2>2. Len(requests) \in Nat
      BY <2>1
    <2>3. QED
      BY <1>1, <2>2 DEF Sent
  <1>3. Len(text) \in Nat /\ Begin = 0
    BY <1>1, <1>2, TextFacts DEF Begin
  <1>4. Scratch \in Nat /\ BlockSize \in Nat /\ MaxUri \in Nat
    BY SizesAssumption
  <1>5. TypeOK
    <2>1. last \in Notes
      <3>1. 0 \in 0 .. Scratch + 1 /\ 0 \in 0 .. Scratch
        BY <1>4
      <3>2. QED
        BY <1>1, <3>1 DEF Notes
    <2>2. Cardinality(uri) <= MaxUri /\ uri \subseteq 0 .. Len(text)
      <3>1. Cardinality(uri) = 0
        BY <1>1, FS_EmptySet
      <3>2. QED
        BY <1>1, <1>4, <3>1
    <2>3. /\ taken \in 0 .. Len(text) /\ pending \in Seq(0 .. Len(text)) /\ Len(pending) <= BlockSize
          /\ buf \in Seq(0 .. Len(text)) /\ Len(buf) <= Scratch /\ offset \in 0 .. Scratch
          /\ cursor \in 0 .. Len(buf) /\ parsed \in 0 .. Len(text) /\ preParsed \in 0 .. BlockSize
      BY <1>1, <1>3, <1>4
    <2>4. grammar \in Grammar /\ status \in Status
      BY <1>1 DEF Grammar, Status
    <2>5. QED
      BY <1>1, <2>1, <2>2, <2>3, <2>4 DEF TypeOK
  <1>6. Queue /\ taken - Len(pending) = Begin
    <2>1. Len(pending) = 0 /\ 1 .. 0 = {} /\ taken = 0
      BY <1>1
    <2>2. taken - Len(pending) = Begin /\ Len(pending) <= taken
      BY <1>3, <2>1
    <2>3. QED
      BY <2>1, <2>2 DEF Queue
  <1>7. QED
    BY <1>1, <1>2, <1>5, <1>6 DEF ParserInv

(* Where nothing changes the invariant does not.                           *)
LEMMA NothingMoves ==
    ASSUME ParserInv, UNCHANGED vars
    PROVE  ParserInv'
  <1>1. UNCHANGED <<requests, text, taken, pending, pc, buf, offset, cursor, grammar, parsed,
                    status, last, paused, preParsed, hdrs, uri, remaining, refused, served>>
    BY DEF vars
  <1>2. /\ (Stage' <=> Stage) /\ Origin' = Origin /\ Read' = Read
        /\ \A j : Erased(j)' <=> Erased(j)
    BY <1>1, SameStage
  <1>3. Held' = Held /\ Got' = Got
    BY <1>1 DEF Held, Got
  <1>4. /\ TypeOK' <=> TypeOK
        /\ Queue' <=> Queue
        /\ Reading' <=> Reading
        /\ Parsing' <=> Parsing
    BY <1>1 DEF TypeOK, Notes, Queue, Reading, Parsing
  <1>5. Sent => Sent'
    BY <1>1, SameRequest
  <1>6. Window => Window'
    BY <1>1, <1>2, <1>3 DEF Window
  <1>7. Begin' = Begin
    BY <1>1, SameRequest
  <1>8. QED
    BY <1>1, <1>2, <1>4, <1>5, <1>6, <1>7 DEF ParserInv

(* Every step keeps the parser in its place.                               *)
LEMMA ParserKeeps ==
    ASSUME HeadersSent, ParserInv, [Next]_vars
    PROVE  ParserInv'
  <1>1. CASE HttpdReqNew
    BY <1>1, HttpdReqNewKeeps
  <1>2. CASE ReadBlock
    BY <1>2, ReadBlockKeeps
  <1>3. CASE Punctuation
    BY <1>3, PunctuationKeeps
  <1>4. CASE BadRequest
    BY <1>4, Closes DEF BadRequest, Refuse
  <1>5. CASE CbUrl
    BY <1>5, CbUrlKeeps
  <1>6. CASE CbHeaderField
    BY <1>6, CbHeaderFieldKeeps
  <1>7. CASE CbHeaderValue
    BY <1>7, CbHeaderValueKeeps
  <1>8. CASE CbHeadersComplete
    BY <1>8, CbHeadersCompleteKeeps
  <1>9. CASE CbOnBody
    BY <1>9, CbOnBodyKeeps
  <1>10. CASE BlockParsed
    BY <1>10, BlockParsedKeeps
  <1>11. CASE HandlerReads
    <2>1. PICK length \in 1 .. remaining : ReadBody(length)
      BY <1>11 DEF HandlerReads
    <2>2. QED
      BY <1>11, <2>1, ReadBodyKeeps DEF HandlerReads
  <1>12. CASE HandlerReturns
    BY <1>12, HandlerMoves DEF HandlerReturns
  <1>13. CASE Purge
    <2>1. CASE ~Purged /\ ReadBody(Least(PurgeBuf, remaining))
      <3>1. remaining \in Nat /\ remaining # 0
        BY <2>1, StageTypes DEF ParserInv, Purged
      <3>2. Least(PurgeBuf, remaining) \in 1 .. remaining
        BY <3>1, SizesAssumption DEF Least
      <3>3. QED
        BY <1>13, <2>1, <3>2, ReadBodyKeeps DEF Purge
    <2>2. CASE ~(~Purged /\ ReadBody(Least(PurgeBuf, remaining)))
      BY <1>13, <2>2, HandlerMoves DEF Purge, Purged
    <2>3. QED
      BY <2>1, <2>2
  <1>14. CASE HandlerFails
    <2>1. refused \in BOOLEAN
      BY DEF ParserInv, TypeOK
    <2>2. QED
      BY <1>14, <2>1, Closes DEF HandlerFails, Disconnect
  <1>15. CASE UNCHANGED vars
    BY <1>15, NothingMoves
  <1>16. QED
    BY <1>1, <1>2, <1>3, <1>4, <1>5, <1>6, <1>7, <1>8, <1>9, <1>10, <1>11, <1>12, <1>13, <1>14, <1>15 DEF Next

(* ParserInv holds of every connection: while a request is parsed, the     *)
(* scratch buffer and pending data are one piece of what the client has    *)
(* sent, and last, req_hdrs_count and req->uri are what the callbacks      *)
(* should have made of it by then (cb_url, cb_header_field,                *)
(* cb_header_value, cb_headers_complete).                                  *)
THEOREM ParserInvariant == HeadersSent => (Spec => []ParserInv)
  <1> SUFFICES ASSUME HeadersSent
               PROVE  Spec => []ParserInv
    OBVIOUS
  <1>1. Init => ParserInv
    BY InitParser
  <1>2. ParserInv /\ [Next]_vars => ParserInv'
    BY ParserKeeps
  <1>3. QED
    BY <1>1, <1>2, PTL DEF Spec

(* TypeOK: in particular no buffer gets more than it has room for, no      *)
(* position leaves its buffer, and hdrs and the lengths do not go below    *)
(* zero (read_block, pause_parsing, httpd_recv_with_opt).                  *)
THEOREM TypesHold == HeadersSent => (Spec => []TypeOK)
  <1> SUFFICES ASSUME HeadersSent
               PROVE  Spec => []TypeOK
    OBVIOUS
  <1>1. ParserInv => TypeOK
    BY DEF ParserInv
  <1>2. QED
    BY <1>1, ParserInvariant, PTL

(* ParserInStep: http_parser gets every byte of every request once, the    *)
(* first one when it starts and then the one behind the last it has        *)
(* parsed, however the network, the pauses and the sizes of the buffers    *)
(* cut the text into blocks (parse_block, pause_parsing,                   *)
(* continue_parsing).                                                      *)
THEOREM ParserStaysInStep == HeadersSent => (Spec => []ParserInStep)
  <1> SUFFICES ASSUME HeadersSent
               PROVE  Spec => []ParserInStep
    OBVIOUS
  <1>1. ASSUME ParserInv
        PROVE  ParserInStep
    <2>1. SUFFICES ASSUME Executing
                   PROVE  IF parsed = 0
                          THEN text[buf[At]] = [req |-> served + 1, kind |-> "m"]
                          ELSE buf[At] = parsed + 1
      BY DEF ParserInStep
    <2>2. Coming /\ buf[At] = Read + 1
      BY <1>1, <2>1, Comes DEF Ahead
    <2>3. CASE parsed # 0
      BY <2>2, <2>3 DEF Read
    <2>4. CASE parsed = 0
      <3>1. Sent
        BY <1>1 DEF ParserInv
      <3>2. Here /\ KindsHere /\ Owner /\ text \in Seq(Bytes)
        BY <2>2, <3>1, HereItIs, TextFacts
      <3>3. Begin + 1 \in 1 .. Len(text) /\ Begin + 1 \in Begin + 1 .. Finish
        BY <3>2 DEF Here
      <3>4. text[Begin + 1].req = served + 1 /\ text[Begin + 1].kind = "m"
        BY <3>2, <3>3 DEF Owner, KindsHere, KindAt
      <3>5. text[Begin + 1] \in Bytes
        BY <3>2, <3>3, ElementOfSeq
      <3>6. text[Begin + 1] = [req |-> served + 1, kind |-> "m"]
        BY <3>4, <3>5 DEF Bytes
      <3>7. buf[At] = Begin + 1
        BY <2>2, <2>4 DEF Read
      <3>8. QED
        BY <2>4, <3>6, <3>7
    <2>5. QED
      BY <2>3, <2>4
  <1>2. QED
    BY <1>1, ParserInvariant, PTL
-----------------------------------------------------------------------------
(* Why requests are refused.                                               *)

Unfit == Coming /\ ~Supported(Asked)

(* No room is left in the scratch buffer.                                  *)
LEMMA TooLong ==
    ASSUME HeadersSent, ParserInv, pc = "read", Room = 0
    PROVE  Unfit
  <1>1. TypeOK /\ Sent /\ Window /\ Stage /\ Reading
    BY DEF ParserInv
  <1>2. /\ offset \in Nat /\ Scratch \in Nat /\ BlockSize \in Nat /\ BlockSize > 0 /\ BlockSize <= Scratch
        /\ offset <= Scratch
    BY <1>1, StageTypes
  <1>3. offset = Scratch /\ offset > 0
    <2>1. Scratch - offset = 0
      BY <1>2 DEF Room, Least
    <2>2. QED
      BY <1>2, <2>1
  <1>4. Got = offset + 0
    <2>1. ~paused
      BY <1>1, <1>3 DEF Reading
    <2>2. QED
      BY <2>1 DEF Got
  <1>5. Read = Origin + Scratch
    BY <1>1, <1>2, <1>3, <1>4 DEF Window
  <1>6. Coming
    <2>1. SUFFICES ASSUME ~Coming
                   PROVE  FALSE
      OBVIOUS
    <2>2. AtStart
      BY <1>1, <2>1 DEF Stage, Opening, AtMethod, AtUrl, AtLine, InHeaders, AtBody
    <2>3. Origin = Begin /\ Read = Begin
      BY <2>2 DEF AtStart, Origin, Read, Early
    <2>4. Begin \in Nat
      BY <1>1, EndIsThere
    <2>5. QED
      BY <1>2, <1>3, <1>5, <2>3, <2>4
  <1>7. Here /\ Asked \in Requests /\ HeadTo = LineTo + Len(HeadersKinds(Asked))
    BY <1>1, <1>6, HereItIs
  <1>8. CASE Opening
    <2>1. Origin = Begin
      BY <1>8 DEF Opening, AtStart, AtMethod, AtUrl, AtLine, Origin, Early
    <2>2. Read <= LineTo
      <3>1. Here /\ parsed \in Nat
        BY <1>1, <1>7, StageTypes
      <3>2. Read \in Begin .. LineTo
        BY <1>8, <3>1 DEF Opening, AtStart, AtMethod, AtUrl, AtLine, Read, Here
      <3>3. QED
        BY <3>1, <3>2 DEF Here
    <2>3. Len(LineKinds(Asked)) = UrlLength + 2
      BY <1>7, LineShape DEF UrlLength
    <2>4. ~(Len(LineKinds(Asked)) < Scratch)
      BY <1>2, <1>5, <1>7, <2>1, <2>2, <2>3 DEF Here
    <2>5. QED
      BY <1>6, <2>4 DEF Unfit, Supported
  <1>9. CASE InHeaders \/ AtBody
    <2>1. Origin = LineTo
      BY <1>9 DEF InHeaders, AtHeader, AtBody, Origin, Early
    <2>2. Read = parsed /\ parsed \in Nat
      BY <1>7, <1>9 DEF InHeaders, AtBody, Read, Here
    <2>3. DEFINE l == Len(HeadersKinds(Asked))
    <2>4. HeadersKinds(Asked) \in Seq(KindSet)
      <3>1. Asked.headers # <<>>
        BY <1>1, <1>6, EndIsThere, TextFacts DEF Asked
      <3>2. QED
        BY <1>7, <3>1, HeadersShape DEF HeadersWhole
    <2>5. l \in Nat
      BY <2>4
    <2> HIDE DEF l
    <2>6. l + (IF BodyLength > 0 THEN 1 ELSE 0) > Scratch
      <3>1. CASE InHeaders
        <4>1. parsed <= HeadTo - 1 /\ HeadTo = LineTo + l /\ LineTo \in Nat /\ parsed = LineTo + Scratch
          BY <1>5, <1>7, <2>1, <2>2, <3>1 DEF InHeaders, Here, l
        <4>2. Scratch < l
          BY <1>2, <2>5, <4>1
        <4>3. QED
          BY <1>2, <2>5, <4>2
      <3>2. CASE AtBody
        <4>1. parsed = HeadTo /\ HeadTo = LineTo + l /\ LineTo \in Nat /\ parsed = LineTo + Scratch
              /\ BodyLength > 0
          BY <1>5, <1>7, <2>1, <2>2, <3>2 DEF AtBody, Here, l
        <4>2. Scratch = l
          BY <1>2, <2>5, <4>1
        <4>3. QED
          BY <1>2, <2>5, <4>1, <4>2
      <3>3. QED
        BY <1>9, <3>1, <3>2
    <2>7. ~(l + (IF BodyLength > 0 THEN 1 ELSE 0) <= Scratch)
      BY <1>2, <2>5, <2>6
    <2>8. QED
      BY <1>6, <2>7 DEF Unfit, Supported, BodyLength, l
  <1>10. QED
    BY <1>1, <1>8, <1>9 DEF Stage

(* A byte that http_parser does not take.                                  *)
LEMMA NotAccepted ==
    ASSUME HeadersSent, AllFilled, ParserInv, BadRequest
    PROVE  Unfit
  <1>1. Executing /\ grammar # "body" /\ ~Accepted(Kind(At))
    BY DEF BadRequest
  <1>2. Ahead /\ Coming /\ Kind(At) = KindAt(Read + 1)
    BY <1>1, Comes DEF Ahead
  <1>3. Sent /\ Stage /\ TypeOK
    BY <1>1, BlockIs DEF Executing
  <1>4. Here /\ KindsHere /\ Order
    <2>1. Filled(Asked)
      BY <1>2, <1>3, EndIsThere DEF AllFilled, Sent, Asked
    <2>2. QED
      BY <1>2, <1>3, <2>1, HereItIs
  <1>5. \A g, k, b : <<g, k, b>> \in Rules /\ g = grammar /\ k = Kind(At) => FALSE
    <2>1. ASSUME NEW g, NEW k, NEW b, <<g, k, b>> \in Rules, g = grammar, k = Kind(At)
          PROVE  FALSE
      <3>1. <<g, k, b>>[1] = grammar /\ <<g, k, b>>[2] = Kind(At)
        BY <2>1
      <3>2. QED
        BY <1>1, <2>1, <3>1 DEF Accepted
    <2>2. QED
      BY <2>1
  <1>6. CASE AtStart
    <2>1. Kind(At) = "m"
      BY <1>2, <1>4, <1>6 DEF AtStart, Read, KindsHere
    <2>2. QED
      BY <1>5, <1>6, <2>1 DEF AtStart, Rules
  <1>7. CASE AtMethod
    <2>1. Read = Begin + 1 /\ Begin \in Nat
      BY <1>4, <1>7 DEF AtMethod, Read, Here
    <2>2. Kind(At) # "u"
      BY <1>5, <1>7 DEF AtMethod, Rules
    <2>3. Begin + 2 \notin Begin + 2 .. LineTo - 1
      <3>1. (Begin + 1) + 1 = Begin + 2
        BY <2>1
      <3>2. QED
        BY <1>2, <1>4, <2>1, <2>2, <3>1 DEF KindsHere
    <2>4. UrlLength = 0
      BY <1>4, <2>3 DEF Here
    <2>5. QED
      BY <1>2, <2>4 DEF Unfit, Supported, UrlLength
  <1>8. CASE AtUrl
    <2>1. Read = parsed /\ parsed \in Begin + 2 .. LineTo - 1
      BY <1>4, <1>8 DEF AtUrl, Read, Here
    <2>2. Kind(At) \in {"u", "l"}
      <3>1. Read + 1 \in Begin + 2 .. LineTo - 1 \/ Read + 1 = LineTo
        BY <1>4, <2>1 DEF Here
      <3>2. QED
        BY <1>2, <1>4, <3>1 DEF KindsHere
    <2>3. QED
      BY <1>5, <1>8, <2>2 DEF AtUrl, Rules
  <1>9. CASE AtLine
    <2>1. Read = LineTo
      BY <1>4, <1>9 DEF AtLine, Read, Here
    <2>2. Kind(At) = "f"
      BY <1>2, <1>4, <2>1 DEF Order
    <2>3. QED
      BY <1>5, <1>9, <2>2 DEF AtLine, Rules
  <1>10. CASE InHeaders
    <2>1. Read = parsed /\ parsed \in LineTo + 1 .. HeadTo - 1
      BY <1>4, <1>10 DEF InHeaders, Read, Here
    <2>2. <<KindAt(parsed), Kind(At)>> \in Follow
      BY <1>2, <1>4, <2>1 DEF Order
    <2>3. \/ grammar = "field" /\ KindAt(parsed) = "f"
          \/ grammar = "colon" /\ KindAt(parsed) = "c"
          \/ grammar = "value" /\ KindAt(parsed) = "v"
          \/ grammar = "line" /\ KindAt(parsed) = "n"
      BY <1>10 DEF InHeaders, AtHeader
    <2>4. \/ grammar = "field" /\ Kind(At) \in {"f", "c"}
          \/ grammar = "colon" /\ Kind(At) = "v"
          \/ grammar = "value" /\ Kind(At) \in {"v", "n"}
          \/ grammar = "line" /\ Kind(At) \in {"f", "n"}
      BY <2>2, <2>3 DEF Follow
    <2>5. QED
      BY <1>5, <2>4 DEF Rules
  <1>11. ~AtBody
    BY <1>1 DEF AtBody
  <1>12. QED
    BY <1>3, <1>6, <1>7, <1>8, <1>9, <1>10, <1>11 DEF Stage, Opening

(* A URI that cb_url finds too long.                                       *)
LEMMA UrlTooLong ==
    ASSUME HeadersSent, ParserInv, Token("u"),
           \/ status \notin {"IDLE", "URL"}
           \/ UriTooLong(Run + (IF status = "IDLE" THEN 0 ELSE last.length))
    PROVE  Unfit
  <1>1. /\ Run + (IF status = "IDLE" THEN 0 ELSE last.length) = RunEnd - 1
        /\ Begin + RunEnd \in Begin + 2 .. LineTo - 1 /\ RunEnd \in Nat /\ status \in {"IDLE", "URL"}
    BY UrlRun
  <1>2. Coming /\ Sent /\ TypeOK
    BY Comes DEF Token, Ahead, ParserInv
  <1>3. Here
    BY <1>2, HereItIs
  <1>4. UriTooLong(RunEnd - 1)
    BY <1>1
  <1>5. RunEnd - 1 <= UrlLength
    BY <1>1, <1>3 DEF Here
  <1>6. UrlLength > MaxUri
    BY <1>1, <1>3, <1>4, <1>5, SizesAssumption DEF UriTooLong, Here
  <1>7. ~(UrlLength \in 1 .. MaxUri)
    BY <1>3, <1>6, SizesAssumption DEF Here
  <1>8. QED
    BY <1>2, <1>7 DEF Unfit, Supported, UrlLength

(* A first line that verify_url does not accept.                           *)
LEMMA LineNotVerified ==
    ASSUME HeadersSent, ParserInv, Token("f"), status = "URL",
           ~(Verified /\ Unparsed(buf, At) <= BlockSize)
    PROVE  Unfit
  <1>1. Executing /\ Accepted(Kind(At)) /\ Kind(At) = "f"
    BY DEF Token
  <1>2. Coming /\ Sent /\ TypeOK /\ Stage /\ Parsing /\ At = cursor + 1
    BY <1>1, Comes DEF Ahead, ParserInv, Executing
  <1>3. /\ Len(buf) \in Nat /\ cursor \in Nat /\ offset \in Nat /\ BlockSize \in Nat /\ MaxUri \in Nat
    BY <1>2, StageTypes
  <1>4. Unparsed(buf, At) <= BlockSize
    BY <1>2, <1>3 DEF Unparsed, Parsing
  <1>5. AtLine
    <2>1. <<grammar, "f", Becomes>> \in Rules
      BY <1>1, Rule
    <2>2. Early
      BY DEF Early
    <2>3. grammar \in {"line", "field"}
      BY <2>1 DEF Rules
    <2>4. grammar # "field"
      BY <1>2, StageIs DEF AtHeader
    <2>5. QED
      BY <1>2, <2>2, <2>3, <2>4, StageIs
  <1>6. Here /\ Owner
    BY <1>2, HereItIs
  <1>7. last.length = UrlLength /\ parsed = LineTo
    BY <1>5 DEF AtLine
  <1>8. text[parsed].req = served + 1
    <2>1. LineTo \in 1 .. Len(text) /\ LineTo \in Begin + 1 .. Finish
      BY <1>6 DEF Here
    <2>2. QED
      BY <1>6, <1>7, <2>1 DEF Owner
  <1>9. ~(UrlLength <= MaxUri) \/ Asked.verdict = "line"
    BY <1>4, <1>7, <1>8 DEF Verified, Asked
  <1>10. UrlLength \in 1 .. MaxUri => UrlLength <= MaxUri
    BY <1>3
  <1>11. QED
    BY <1>2, <1>9, <1>10 DEF Unfit, Supported, UrlLength

(* Headers that cb_headers_complete does not accept.                       *)
LEMMA HeadersNotAccepted ==
    ASSUME HeadersSent, ParserInv, Token("n"), grammar = "line", ~HeadersAccepted
    PROVE  Unfit
  <1>1. Executing /\ Kind(At) = "n"
    BY DEF Token
  <1>2. Coming /\ Sent /\ status = "HDR_VALUE" /\ buf[At] = HeadTo
    BY <1>1, HeadersEnd DEF InHeaders, ParserInv
  <1>3. Cardinality(LineEnds) >= 2
    BY <1>1, SecondLineEnd
  <1>4. Here /\ Owner
    BY <1>2, HereItIs
  <1>5. text[HeadTo].req = served + 1
    <2>1. HeadTo \in 1 .. Len(text) /\ HeadTo \in Begin + 1 .. Finish
      BY <1>4 DEF Here
    <2>2. QED
      BY <1>4, <2>1 DEF Owner
  <1>6. Asked.verdict = "headers"
    BY <1>2, <1>3, <1>5 DEF HeadersAccepted, Asked
  <1>7. QED
    BY <1>2, <1>6 DEF Unfit, Supported

(* An error was answered only to such a request, and closed the session.   *)
RefusalInv == refused => pc = "closed" /\ Unfit

(* Every refusal has one of these reasons, and nothing happens after it.   *)
LEMMA RefusalKeeps ==
    ASSUME HeadersSent, AllFilled, ParserInv, RefusalInv, [Next]_vars
    PROVE  RefusalInv'
  <1>1. CASE Unfit /\ Refuse
    <2>1. UNCHANGED <<requests, text, served>> /\ pc' = "closed"
      BY <1>1 DEF Refuse, streamVars, heardVars
    <2>2. Coming' /\ Asked' = Asked
      BY <1>1, <2>1, SameRequest DEF Unfit
    <2>3. Unfit'
      BY <1>1, <2>2 DEF Unfit, Supported
    <2>4. QED
      BY <2>1, <2>3 DEF RefusalInv
  <1>2. CASE refused' = refused /\ pc # "closed"
    BY <1>2 DEF RefusalInv
  <1>3. CASE UNCHANGED vars
    <2>1. UNCHANGED <<requests, text, served, pc, refused>>
      BY <1>3 DEF vars
    <2>2. (Coming' <=> Coming) /\ Asked' = Asked
      BY <2>1, SameRequest
    <2>3. QED
      BY <2>1, <2>2 DEF RefusalInv, Unfit, Supported
  <1>4. CASE HttpdReqNew \/ Punctuation \/ CbHeaderValue \/ CbOnBody \/ BlockParsed \/ HandlerReads
             \/ HandlerReturns \/ Purge \/ HandlerFails
    <2>1. CASE HttpdReqNew \/ HandlerReturns \/ HandlerFails \/ Purge \/ HandlerReads
      BY <1>2, <2>1 DEF HttpdReqNew, HandlerReturns, HandlerFails, Purge, HandlerReads, ReadBody,
                        Disconnect
    <2>2. CASE Punctuation \/ CbHeaderValue \/ CbOnBody \/ BlockParsed
      BY <1>2, <2>2 DEF Punctuation, CbHeaderValue, CbOnBody, BlockParsed, Note, CallHandler, Token,
                        Executing
    <2>3. QED
      BY <1>4, <2>1, <2>2
  <1>5. CASE ReadBlock
    <2>1. CASE Room = 0 /\ Refuse
      BY <1>1, <1>5, <2>1, TooLong DEF ReadBlock
    <2>2. CASE ~(Room = 0 /\ Refuse)
      BY <1>2, <1>5, <2>2 DEF ReadBlock, Parse, Disconnect
    <2>3. QED
      BY <2>1, <2>2
  <1>6. CASE BadRequest
    BY <1>1, <1>6, NotAccepted DEF BadRequest
  <1>7. CASE CbUrl
    <2>1. Token("u") /\ pc # "closed"
      BY <1>7 DEF CbUrl, Token, Executing
    <2>2. \/ refused' = refused
          \/ /\ Refuse
             /\ \/ status \notin {"IDLE", "URL"}
                \/ UriTooLong(Run + (IF status = "IDLE" THEN 0 ELSE last.length))
      BY <1>7 DEF CbUrl, Note
    <2>3. QED
      BY <1>1, <1>2, <2>1, <2>2, UrlTooLong
  <1>8. CASE CbHeaderField
    <2>1. Token("f") /\ pc # "closed"
      BY <1>8 DEF CbHeaderField, Token, Executing
    <2>2. \/ refused' = refused
          \/ Refuse /\ status = "URL" /\ ~(Verified /\ Unparsed(buf, At) <= BlockSize)
      BY <1>8 DEF CbHeaderField, Note, FirstHeader
    <2>3. QED
      BY <1>1, <1>2, <2>1, <2>2, LineNotVerified
  <1>9. CASE CbHeadersComplete
    <2>1. Token("n") /\ grammar = "line" /\ pc # "closed"
      BY <1>9 DEF CbHeadersComplete, Token, Executing
    <2>2. refused' = refused \/ (Refuse /\ ~HeadersAccepted)
      BY <1>9 DEF CbHeadersComplete, EndOfHeaders, CallHandler
    <2>3. QED
      BY <1>1, <1>2, <2>1, <2>2, HeadersNotAccepted
  <1>10. QED
    BY <1>3, <1>4, <1>5, <1>6, <1>7, <1>8, <1>9 DEF Next

(* RefusedWithReason: an error is answered only to a request the server    *)
(* cannot take, because of what its text is or because a part of it does   *)
(* not fit the scratch buffer (httpd_parse, read_block), and never because *)
(* of where the network cut it or of the request before it.                *)
THEOREM RefusalsHaveReasons == HeadersSent /\ AllFilled => (Spec => []RefusedWithReason)
  <1> SUFFICES ASSUME HeadersSent, AllFilled
               PROVE  Spec => []RefusedWithReason
    OBVIOUS
  <1>1. Init => RefusalInv
    BY DEF Init, RefusalInv
  <1>2. ParserInv /\ RefusalInv /\ [Next]_vars => RefusalInv'
    BY RefusalKeeps
  <1>3. RefusalInv => RefusedWithReason
    BY DEF RefusalInv, RefusedWithReason, Unfit, Coming, Asked
  <1>4. Spec => []ParserInv
    BY ParserInvariant
  <1>5. QED
    BY <1>1, <1>2, <1>3, <1>4, PTL DEF Spec
-----------------------------------------------------------------------------
(* What handlers are told.                                                 *)

LEMMA HeadersPlace ==
    ASSUME HeadersSent, Sent, Coming
    PROVE  Where(text, served + 1, {"f", "c", "v"}) = {p \in LineTo + 1 .. HeadTo : KindAt(p) # "n"}
  <1>1. Here /\ KindsHere /\ Owner /\ text \in Seq(Bytes) /\ Len(text) \in Nat
    BY HereItIs, TextFacts
  <1>2. DOMAIN text = 1 .. Len(text)
    BY <1>1
  <1>3. ASSUME NEW p \in Where(text, served + 1, {"f", "c", "v"})
        PROVE  p \in LineTo + 1 .. HeadTo /\ KindAt(p) # "n"
    <2>1. p \in 1 .. Len(text) /\ text[p].req = served + 1 /\ KindAt(p) \in {"f", "c", "v"}
      BY <1>2, <1>3 DEF Where, KindAt
    <2>2. p \in Begin + 1 .. Finish
      BY <1>1, <2>1 DEF Owner
    <2>3. p # Begin + 1 /\ p \notin Begin + 2 .. LineTo - 1 /\ p # LineTo /\ p \notin HeadTo + 1 .. Finish
      BY <1>1, <2>1 DEF KindsHere
    <2>4. QED
      BY <1>1, <2>1, <2>2, <2>3 DEF Here
  <1>4. ASSUME NEW p \in LineTo + 1 .. HeadTo, KindAt(p) # "n"
        PROVE  p \in Where(text, served + 1, {"f", "c", "v"})
    <2>1. p \in 1 .. Len(text) /\ p \in Begin + 1 .. Finish
      BY <1>1 DEF Here
    <2>2. text[p].req = served + 1 /\ text[p].kind \in {"f", "c", "v"}
      BY <1>1, <1>4, <2>1 DEF Owner, KindsHere, KindAt
    <2>3. QED
      BY <1>2, <2>1, <2>2 DEF Where
  <1>5. QED
    BY <1>3, <1>4

(* As many strings as there are headers are the headers.                   *)
LEMMA StringsAre ==
    ASSUME HeadersSent, Sent, Coming, NEW b \in Seq(Nat), HeadTo - LineTo <= Len(b),
           \A j \in 1 .. Len(b) :
               b[j] = IF j <= HeadTo - LineTo /\ KindAt(LineTo + j) = "n" THEN 0 ELSE LineTo + j
    PROVE  Strings(b, Cardinality(StartsIn(text, LineTo, HeadTo)) + 1)
               = Where(text, served + 1, {"f", "c", "v"})
  <1> DEFINE H     == HeadTo - LineTo
             all   == StartsIn(text, LineTo, HeadTo)
             begun(j) == {h \in 2 .. j : b[h] # 0 /\ b[h - 1] = 0}
             S     == {j \in DOMAIN b : b[j] # 0 /\ Cardinality(begun(j)) < Cardinality(all) + 1}
  <1>1. LineTo \in Nat /\ HeadTo \in Nat /\ H \in Nat /\ H >= 1 /\ LineTo + H = HeadTo
    <2>1. LineTo \in Nat /\ HeadTo \in Nat /\ HeadTo >= LineTo + 3
      BY HereItIs DEF Here
    <2>2. QED
      BY <2>1
  <1>2. Len(b) \in Nat /\ H <= Len(b) /\ DOMAIN b = 1 .. Len(b)
    OBVIOUS
  <1>3. \A j \in 1 .. Len(b) : b[j] = IF j <= H /\ KindAt(LineTo + j) = "n" THEN 0 ELSE LineTo + j
    OBVIOUS
  <1>4. all = {h \in 2 .. H : KindAt(LineTo + h) # "n" /\ KindAt(LineTo + (h - 1)) = "n"}
    BY DEF StartsIn, KindAt
  <1>5. IsFiniteSet(all) /\ Cardinality(all) \in Nat
    BY <1>1, StartsFinite
  <1> HIDE DEF H, all
  <1>6. ASSUME NEW j \in 1 .. H
        PROVE  Cardinality(begun(j)) < Cardinality(all) + 1
    <2>1. ASSUME NEW h \in begun(j)
          PROVE  h \in all
      <3>1. h \in 2 .. H /\ h - 1 \in 1 .. H /\ h \in 1 .. Len(b) /\ h - 1 \in 1 .. Len(b)
        BY <1>1, <1>2, <2>1
      <3>2. b[h] # 0 /\ b[h - 1] = 0
        BY <2>1
      <3>3. KindAt(LineTo + h) # "n"
        BY <1>1, <1>3, <3>1, <3>2
      <3>4. KindAt(LineTo + (h - 1)) = "n"
        <4>1. LineTo + (h - 1) # 0
          BY <1>1, <3>1
        <4>2. b[h - 1] = IF h - 1 <= H /\ KindAt(LineTo + (h - 1)) = "n" THEN 0 ELSE LineTo + (h - 1)
          BY <1>3, <3>1
        <4>3. QED
          BY <3>2, <4>1, <4>2
      <3>5. QED
        BY <1>4, <3>1, <3>3, <3>4
    <2> HIDE DEF begun
    <2>2. Cardinality(begun(j)) <= Cardinality(all) /\ Cardinality(begun(j)) \in Nat
      BY <1>5, <2>1, FS_Subset, FS_CardinalityType
    <2>3. QED
      BY <1>5, <2>2
  <1>7. ASSUME NEW j \in H + 1 .. Len(b)
        PROVE  ~(Cardinality(begun(j)) < Cardinality(all) + 1)
    <2>1. H + 1 \notin all
      BY <1>1, <1>4
    <2>2. all \cup {H + 1} \subseteq begun(j)
      <3>1. ASSUME NEW h \in all
            PROVE  h \in begun(j)
        <4>1. /\ h \in 2 .. H /\ h \in 2 .. j /\ h \in 1 .. Len(b) /\ h - 1 \in 1 .. Len(b)
              /\ h - 1 <= H /\ LineTo + h # 0
          BY <1>1, <1>2, <1>4, <3>1
        <4>2. KindAt(LineTo + h) # "n" /\ KindAt(LineTo + (h - 1)) = "n"
          BY <1>4, <3>1
        <4>3. QED
          BY <1>3, <4>1, <4>2
      <3>2. H + 1 \in begun(j)
        <4>1. H + 1 \in 2 .. j /\ H + 1 \in 1 .. Len(b) /\ H \in 1 .. Len(b) /\ (H + 1) - 1 = H
              /\ ~(H + 1 <= H) /\ LineTo + (H + 1) # 0
          BY <1>1, <1>2
        <4>2. KindAt(LineTo + H) = "n"
          BY <1>1, HereItIs DEF KindsHere
        <4>3. b[H] = 0 /\ b[H + 1] # 0
          BY <1>1, <1>3, <4>1, <4>2
        <4>4. QED
          BY <4>1, <4>3
      <3>3. QED
        BY <3>1, <3>2
    <2>3. IsFiniteSet(begun(j))
      <3>1. IsFiniteSet(2 .. j)
        BY FS_Interval
      <3>2. begun(j) \subseteq 2 .. j
        OBVIOUS
      <3>3. QED
        BY <3>1, <3>2, FS_Subset
    <2> HIDE DEF begun
    <2>4. Cardinality(all \cup {H + 1}) = Cardinality(all) + 1
      BY <1>5, <2>1, FS_AddElement
    <2>5. Cardinality(all \cup {H + 1}) <= Cardinality(begun(j)) /\ Cardinality(begun(j)) \in Nat
      BY <2>2, <2>3, FS_Subset, FS_CardinalityType
    <2>6. QED
      BY <1>5, <2>4, <2>5
  <1>8. S = {j \in 1 .. H : KindAt(LineTo + j) # "n"}
    <2>1. ASSUME NEW j \in 1 .. Len(b)
          PROVE  j \in S <=> j \in 1 .. H /\ KindAt(LineTo + j) # "n"
      <3>1. CASE j <= H
        <4>1. j \in 1 .. H /\ LineTo + j # 0
          BY <1>1, <3>1
        <4>2. b[j] # 0 <=> KindAt(LineTo + j) # "n"
          BY <1>3, <3>1, <4>1
        <4> HIDE DEF begun
        <4>3. QED
          BY <1>2, <1>6, <4>1, <4>2
      <3>2. CASE ~(j <= H)
        <4>1. j \in H + 1 .. Len(b) /\ j \notin 1 .. H
          BY <1>1, <1>2, <3>2
        <4> HIDE DEF begun
        <4>2. QED
          BY <1>7, <4>1
      <3>3. QED
        BY <3>1, <3>2
    <2>2. \A j \in 1 .. H : j \in 1 .. Len(b)
      BY <1>1, <1>2
    <2>3. S \subseteq 1 .. Len(b)
      BY <1>2
    <2> HIDE DEF S
    <2>4. QED
      BY <2>1, <2>2, <2>3
  <1>9. Strings(b, Cardinality(all) + 1) = {b[i] : i \in S}
    BY DEF Strings
  <1> HIDE DEF S
  <1>10. {b[i] : i \in S} = {p \in LineTo + 1 .. HeadTo : KindAt(p) # "n"}
    <2>1. ASSUME NEW i \in S
          PROVE  b[i] \in LineTo + 1 .. HeadTo /\ KindAt(b[i]) # "n"
      <3>1. i \in 1 .. H /\ KindAt(LineTo + i) # "n" /\ i \in 1 .. Len(b)
        BY <1>1, <1>2, <1>8, <2>1
      <3>2. b[i] = LineTo + i
        BY <1>3, <3>1
      <3>3. LineTo + i \in LineTo + 1 .. HeadTo
        BY <1>1, <3>1
      <3>4. QED
        BY <3>1, <3>2, <3>3
    <2>2. ASSUME NEW p \in LineTo + 1 .. HeadTo, KindAt(p) # "n"
          PROVE  \E i \in S : p = b[i]
      <3>1. p - LineTo \in 1 .. H /\ LineTo + (p - LineTo) = p /\ p - LineTo \in 1 .. Len(b)
        BY <1>1, <1>2
      <3>2. p - LineTo \in S
        BY <1>8, <2>2, <3>1
      <3>3. b[p - LineTo] = p
        BY <1>3, <2>2, <3>1
      <3>4. QED
        BY <3>2, <3>3
    <2>3. QED
      BY <2>1, <2>2
  <1>11. QED
    BY <1>9, <1>10, HeadersPlace DEF all

(* The last byte of the request that has its handler.                      *)
LEMMA BodyEnd ==
    ASSUME HeadersSent, Sent, served >= 1
    PROVE  (CHOOSE p \in DOMAIN text :
                text[p].req = served /\ (p = Len(text) \/ text[p + 1].req # served)) = Begin
  <1> DEFINE P(p) == text[p].req = served /\ (p = Len(text) \/ text[p + 1].req # served)
             s == Start(requests, served)
  <1>1. /\ served \in 1 .. Len(requests) /\ text \in Seq(Bytes) /\ Len(text) \in Nat
        /\ Layout(requests, text, served)
    BY TextFacts DEF Sent
  <1>2. /\ s \in Nat /\ Begin \in Nat /\ s + 3 <= Begin /\ Begin <= Len(text)
        /\ \A p \in 1 .. Len(text) : text[p].req = served <=> p \in s + 1 .. Begin
    <2>1. /\ s \in Nat /\ LineEnd(requests, served) \in Nat /\ HeadEnd(requests, served) \in Nat
          /\ requests[served].url \in Nat /\ requests[served].body \in Nat
          /\ LineEnd(requests, served) = s + requests[served].url + 2
          /\ HeadEnd(requests, served) >= LineEnd(requests, served) + 3
          /\ End(requests, served) = HeadEnd(requests, served) + requests[served].body
      <3>1. requests[served] \in Requests
        BY <1>1, TextFacts, ElementOfSeq
      <3>2. QED
        BY <1>1, <3>1 DEF Layout, Requests
    <2>2. Begin = End(requests, served)
      BY DEF Begin, End
    <2> HIDE DEF s
    <2>3. s + 3 <= Begin /\ Begin \in Nat
      BY <2>1, <2>2
    <2>4. /\ Begin <= Len(text)
          /\ \A p \in 1 .. Len(text) : text[p].req = served <=> p \in s + 1 .. Begin
      BY <1>1, <2>2 DEF Layout, s
    <2>5. QED
      BY <2>1, <2>3, <2>4
  <1>3. DOMAIN text = 1 .. Len(text)
    BY <1>1
  <1> HIDE DEF s
  <1>4. Begin \in DOMAIN text /\ P(Begin)
    <2>1. Begin \in 1 .. Len(text) /\ Begin \in s + 1 .. Begin /\ Begin + 1 \notin s + 1 .. Begin
      BY <1>1, <1>2
    <2>2. Begin # Len(text) => Begin + 1 \in 1 .. Len(text)
      BY <1>1, <1>2
    <2>3. QED
      BY <1>2, <1>3, <2>1, <2>2
  <1>5. ASSUME NEW p \in DOMAIN text, P(p)
        PROVE  p = Begin
    <2>1. p \in 1 .. Len(text) /\ p \in s + 1 .. Begin
      BY <1>2, <1>3, <1>5
    <2>2. CASE p = Len(text)
      BY <1>1, <1>2, <2>1, <2>2
    <2>3. CASE p # Len(text)
      <3>1. p + 1 \in 1 .. Len(text)
        BY <1>1, <2>1, <2>3
      <3>2. p + 1 \notin s + 1 .. Begin
        BY <1>2, <1>5, <2>3, <3>1
      <3>3. QED
        BY <1>2, <2>1, <3>2
    <2>4. QED
      BY <2>2, <2>3
  <1> HIDE DEF P
  <1>6. (CHOOSE p \in DOMAIN text : P(p)) = Begin
    BY <1>4, <1>5
  <1>7. QED
    BY <1>6 DEF P

(* Framing has its own copies of the operators on texts.                   *)
LEMMA SameTexts ==
    /\ \A rs : F!TextOf(rs) = TextOf(rs)
    /\ \A t, n, kinds : F!Where(t, n, kinds) = Where(t, n, kinds)
  <1>1. \A kind, n : F!Repeat(kind, n) = Repeat(kind, n)
    BY DEF F!Repeat, Repeat
  <1>2. \A ss : F!FlattenSeq(ss) = FlattenSeq(ss)
    BY DEF F!FlattenSeq, FlattenSeq
  <1>3. \A h : F!HeaderKinds(h) = HeaderKinds(h)
    BY <1>1 DEF F!HeaderKinds, HeaderKinds
  <1>4. \A r : F!LineKinds(r) = LineKinds(r)
    BY <1>1 DEF F!LineKinds, LineKinds
  <1>5. \A r : F!HeadersKinds(r) = HeadersKinds(r)
    BY <1>2, <1>3 DEF F!HeadersKinds, HeadersKinds
  <1>6. \A r : F!Kinds(r) = Kinds(r)
    BY <1>1, <1>4, <1>5 DEF F!Kinds, Kinds
  <1>7. \A rs, n : F!RequestText(rs, n) = RequestText(rs, n)
    BY <1>6 DEF F!RequestText, RequestText
  <1>8. \A rs : F!TextOf(rs) = TextOf(rs)
    BY <1>2, <1>7 DEF F!TextOf, TextOf
  <1>9. \A t, n, kinds : F!Where(t, n, kinds) = Where(t, n, kinds)
    BY DEF F!Where, Where
  <1>10. QED
    BY <1>8, <1>9

(* What Framing calls left.                                                *)
Left == IF pc \in {"handler", "purge"} THEN remaining ELSE 0

(* A handler is called: with what Framing says, whichever callback does.   *)
LEMMA Delivers ==
    ASSUME HeadersSent, ParserInv, Executing, CallHandler, Coming, LineTo \in Nat,
           buf' \in Seq(Nat), HeadTo - LineTo <= Len(buf'),
           \A j \in 1 .. Len(buf') :
               buf'[j] = IF j <= HeadTo - LineTo /\ KindAt(LineTo + j) = "n" THEN 0 ELSE LineTo + j,
           hdrs' = Cardinality(StartsIn(text, LineTo, HeadTo)) + 1,
           uri' = Where(text, served + 1, {"u"}), remaining' = BodyLength
    PROVE  F!Deliver
  <1>1. Strings(buf', hdrs') = Where(text, served + 1, {"f", "c", "v"})
    BY StringsAre DEF ParserInv
  <1>2. /\ UNCHANGED <<requests, text, chunk>> /\ served' = served + 1 /\ pc' = "handler"
        /\ told' = [uri |-> uri', headers |-> Strings(buf', hdrs'), length |-> remaining']
    BY DEF CallHandler, streamVars
  <1>3. told' = F!Facts(served + 1)
    BY <1>1, <1>2, SameTexts DEF F!Facts, BodyLength, Asked
  <1>4. pc = "execute"
    BY DEF Executing
  <1>5. QED
    BY <1>2, <1>3, <1>4 DEF F!Deliver, Coming, BodyLength, Asked

(* The beginning of the body.                                              *)
LEMMA CbOnBodyDelivers ==
    ASSUME HeadersSent, ParserInv, CbOnBody
    PROVE  F!Deliver
  <1>1. Executing /\ grammar = "body" /\ CallHandler /\ UNCHANGED <<buf, hdrs, uri, remaining>>
    BY DEF CbOnBody
  <1>2. /\ Coming /\ At \in 1 .. Len(buf) /\ At = cursor + 1 /\ cursor \in Nat
        /\ Read = Origin + cursor
    BY <1>1, Comes DEF Ahead
  <1>3. /\ Stage /\ TypeOK /\ Sent /\ buf \in Seq(0 .. Len(text)) /\ Len(buf) \in Nat
        /\ \A j \in 1 .. Len(buf) : buf[j] = IF Erased(j) THEN 0 ELSE Origin + j
    BY <1>1, BlockIs DEF Executing
  <1>4. AtBody
    BY <1>1, <1>3, StageIs
  <1>5. Here
    BY <1>2, <1>3, HereItIs
  <1>6. Origin = LineTo /\ ~Early /\ Read = HeadTo
    BY <1>4, <1>5 DEF AtBody, Origin, Early, Read, Here
  <1>7. last.at \in Nat /\ LineTo + last.at = HeadTo + 1
    BY <1>3, <1>4, StageTypes DEF AtBody
  <1>8. \A j \in 1 .. Len(buf) :
            buf[j] = IF j <= HeadTo - LineTo /\ KindAt(LineTo + j) = "n" THEN 0 ELSE LineTo + j
    <2>1. ASSUME NEW j \in 1 .. Len(buf)
          PROVE  Erased(j) <=> j <= HeadTo - LineTo /\ KindAt(LineTo + j) = "n"
      <3>1. j < last.at <=> j <= HeadTo - LineTo
        BY <1>5, <1>7 DEF Here
      <3>2. QED
        BY <1>6, <3>1 DEF Erased
    <2>2. QED
      BY <1>3, <1>6, <2>1
  <1>9. HeadTo - LineTo <= Len(buf)
    BY <1>2, <1>3, <1>5, <1>6 DEF Here
  <1>10. buf \in Seq(Nat)
    <2>1. \A i \in 1 .. Len(buf) : buf[i] \in Nat
      BY <1>3
    <2>2. buf \in [1 .. Len(buf) -> Nat]
      BY <1>3, <2>1
    <2>3. QED
      BY <1>3, <2>2, SeqDef
  <1>11. LineTo \in Nat
    BY <1>5 DEF Here
  <1>12. /\ hdrs = Cardinality(StartsIn(text, LineTo, HeadTo)) + 1
         /\ uri = Where(text, served + 1, {"u"}) /\ remaining = BodyLength
    BY <1>4 DEF AtBody
  <1>13. QED
    BY <1>1, <1>2, <1>8, <1>9, <1>10, <1>11, <1>12, Delivers

(* The end of the headers, for a request without a body.                   *)
LEMMA CbHeadersCompleteDelivers ==
    ASSUME HeadersSent, ParserInv, CbHeadersComplete, ~Refuse, Body = 0
    PROVE  F!Deliver
  <1>1. Executing /\ Kind(At) = "n" /\ grammar = "line"
    BY DEF CbHeadersComplete, Token
  <1>2. /\ InHeaders /\ LineTo \in Nat /\ HeadTo \in Nat /\ HeadTo = LineTo + At /\ At \in 1 .. Len(buf)
        /\ Len(buf) \in Nat
    BY <1>1, HeadersEnd
  <1>3. /\ UNCHANGED uri /\ EndOfHeaders(At + 1) /\ Body = BodyLength
        /\ hdrs' = Cardinality(StartsIn(text, LineTo, HeadTo)) + 1
        /\ buf' \in Seq(0 .. Len(text)) /\ Len(buf') = Len(buf)
        /\ \A j \in 1 .. Len(buf) :
               buf'[j] = IF j <= HeadTo - LineTo /\ KindAt(LineTo + j) = "n" THEN 0 ELSE LineTo + j
    BY Completes
  <1>4. CallHandler /\ remaining' = BodyLength
    BY <1>3 DEF EndOfHeaders
  <1>5. Coming /\ uri' = Where(text, served + 1, {"u"})
    BY <1>2, <1>3 DEF InHeaders
  <1>6. HeadTo - LineTo <= Len(buf')
    BY <1>2, <1>3
  <1>7. buf' \in Seq(Nat)
    <2>1. \A i \in 1 .. Len(buf) : buf'[i] \in Nat
      BY <1>3
    <2>2. buf' \in [1 .. Len(buf) -> Nat]
      BY <1>3, <2>1
    <2>3. QED
      BY <1>2, <2>2, SeqDef
  <1>8. QED
    BY <1>1, <1>2, <1>3, <1>4, <1>5, <1>6, <1>7, Delivers

(* Bytes of a body are read.                                               *)
LEMMA ReadsBody ==
    ASSUME HeadersSent, ParserInv, pc \in {"handler", "purge"},
           NEW length \in 1 .. remaining, ReadBody(length)
    PROVE  F!ReadBody
  <1>1. /\ TypeOK /\ Sent /\ Queue /\ served >= 1 /\ (taken - Len(pending)) + remaining = Begin
    BY DEF ParserInv
  <1>2. /\ Len(pending) \in Nat /\ taken \in Nat /\ taken <= Len(text)
        /\ Len(text) \in Nat /\ remaining \in Nat /\ length \in Nat
        /\ pending \in Seq(0 .. Len(text)) /\ Begin \in Nat
    BY <1>1, StageTypes, EndIsThere DEF TypeOK
  <1> DEFINE old == Least(length, Len(pending))
  <1>3. PICK n \in 0 .. Least(length - old, Len(text) - taken) :
            /\ old + n > 0 /\ remaining' = remaining - (old + n)
            /\ chunk' = Upto(pending, old) \o Arrived(n)
    BY DEF ReadBody, Recv
  <1>4. UNCHANGED <<requests, text, pc, served, told>>
    BY DEF ReadBody, streamVars
  <1>5. old \in Nat /\ old <= length /\ old <= Len(pending) /\ (old < Len(pending) => old = length)
    BY <1>2 DEF Least
  <1> HIDE DEF old
  <1>6. n \in Nat /\ old + n <= length /\ taken + n <= Len(text) /\ (old < Len(pending) => n = 0)
    BY <1>2, <1>5 DEF Least
  <1>7. old + n \in 1 .. remaining
    BY <1>2, <1>3, <1>5, <1>6
  <1>8. chunk' = [i \in 1 .. old + n |-> (Begin - remaining) + i]
    <2> DEFINE u == Upto(pending, old)
               v == Arrived(n)
    <2>1. u \in Seq(Int) /\ Len(u) = old /\ \A i \in 1 .. old : u[i] = pending[i]
      <3>1. u = SubSeq(pending, 1, old) /\ SubSeq(pending, 1, old) = [i \in 1 .. old |-> pending[i]]
        BY <1>2, <1>5 DEF Upto
      <3>2. \A i \in 1 .. old : pending[i] \in Int
        BY <1>2, <1>5
      <3>3. u \in [1 .. old -> Int]
        BY <3>1, <3>2
      <3>4. u \in Seq(Int) /\ Len(u) = old
        <4>1. old \in Nat
          BY <1>5
        <4>2. u \in Seq(Int)
          BY <3>3, <4>1, SeqDef
        <4>3. Len([i \in 1 .. old |-> pending[i]]) = old
          BY <4>1
        <4>4. QED
          BY <3>1, <4>2, <4>3
      <3>5. QED
        BY <3>1, <3>4
    <2>2. v \in Seq(Int) /\ Len(v) = n /\ \A i \in 1 .. n : v[i] = taken + i
      <3>1. v = [i \in 1 .. n |-> taken + i] /\ \A i \in 1 .. n : taken + i \in Int
        BY <1>2 DEF Arrived
      <3>2. v \in [1 .. n -> Int]
        BY <3>1
      <3>3. v \in Seq(Int) /\ Len(v) = n
        BY <1>6, <3>1, <3>2, SeqDef
      <3>4. QED
        BY <3>1, <3>3
    <2> HIDE DEF u, v
    <2>3. /\ u \o v \in Seq(Int) /\ Len(u \o v) = Len(u) + Len(v)
          /\ \A i \in 1 .. Len(u) : (u \o v)[i] = u[i]
          /\ \A j \in 1 .. Len(v) : (u \o v)[Len(u) + j] = v[j]
      <3>1. u \in Seq(Int) /\ v \in Seq(Int)
        BY <2>1, <2>2
      <3> QED
        BY <3>1, Concatenated
    <2>4. chunk' = u \o v
      BY <1>3 DEF u, v
    <2>5. chunk' \in Seq(Int) /\ Len(chunk') = old + n
      BY <2>1, <2>2, <2>3, <2>4
    <2>6. ASSUME NEW i \in 1 .. old + n
          PROVE  chunk'[i] = (Begin - remaining) + i
      <3>1. CASE i <= old
        <4>1. i \in 1 .. old /\ i \in 1 .. Len(pending)
          BY <1>2, <1>5, <1>6, <3>1
        <4>2. chunk'[i] = (taken - Len(pending)) + i
          BY <1>1, <2>1, <2>3, <2>4, <4>1 DEF Queue
        <4>3. (taken - Len(pending)) + i = (Begin - remaining) + i
          <5> DEFINE begun == taken - Len(pending)
          <5>1. begun \in Int /\ remaining \in Nat /\ Begin \in Nat /\ i \in Int
            BY <1>2, <4>1
          <5>2. begun + remaining = Begin
            BY <1>1
          <5> HIDE DEF begun
          <5>3. begun + i = (Begin - remaining) + i
            BY <5>1, <5>2
          <5>4. QED
            BY <5>3 DEF begun
        <4>4. QED
          BY <4>2, <4>3
      <3>2. CASE i > old
        <4>1. i - old \in 1 .. n /\ old + (i - old) = i /\ n # 0
          BY <1>5, <1>6, <3>2
        <4>2. chunk'[i] = taken + (i - old)
          <5>1. (u \o v)[Len(u) + (i - old)] = v[i - old]
            BY <2>2, <2>3, <4>1
          <5>2. QED
            BY <2>1, <2>2, <2>4, <4>1, <5>1
        <4>3. old = Len(pending)
          BY <1>2, <1>5, <1>6, <4>1
        <4>4. taken + (i - old) = (Begin - remaining) + i
          BY <1>1, <1>2, <1>5, <1>6, <4>3
        <4>5. QED
          BY <4>2, <4>4
      <3>3. QED
        BY <1>5, <1>6, <3>1, <3>2
    <2>7. chunk' = [i \in 1 .. Len(chunk') |-> chunk'[i]]
      BY <2>5
    <2>8. QED
      BY <2>5, <2>6, <2>7
  <1>9. (CHOOSE p \in DOMAIN text :
             text[p].req = served /\ (p = Len(text) \/ text[p + 1].req # served)) = Begin
    BY <1>1, BodyEnd
  <1>10. pc' = pc /\ pc # "closed" /\ pc' # "closed"
    BY <1>4
  <1>11. Left = remaining /\ Left' = remaining'
    BY <1>10 DEF Left
  <1>12. \E m \in 1 .. Left : Left' = Left - m /\ chunk' = [i \in 1 .. m |-> (Begin - Left) + i]
    BY <1>3, <1>7, <1>8, <1>11
  <1>13. QED
    BY <1>4, <1>9, <1>10, <1>12 DEF F!ReadBody, Left

(* Framing sees nothing of what happens before a handler is called.        *)
LEMMA Stutters ==
    ASSUME UNCHANGED <<requests, text, served, told, chunk>>,
           pc # "closed", pc' # "closed", Left' = Left
    PROVE  UNCHANGED F!fvars
  <1>1. (pc # "closed") = TRUE /\ (pc' # "closed") = TRUE
    OBVIOUS
  <1>2. QED
    BY <1>1 DEF F!fvars, Left

(* An answer that is an error, or a client that is gone.                   *)
LEMMA ClosesConnection ==
    ASSUME UNCHANGED <<requests, text, served, told, chunk>>,
           pc # "closed", pc' = "closed"
    PROVE  F!CloseConnection
  <1>1. Left' = 0
    BY DEF Left
  <1>2. (pc' # "closed") = FALSE
    OBVIOUS
  <1>3. QED
    BY <1>1, <1>2 DEF F!CloseConnection, Left

(* Every step of the server is one that Framing allows.                    *)
LEMMA StepsFraming ==
    ASSUME HeadersSent, ParserInv, [Next]_vars
    PROVE  [F!FNext]_(F!fvars)
  <1>1. CASE Refuse /\ pc # "closed"
    <2>1. UNCHANGED <<requests, text, served, told, chunk>> /\ pc' = "closed"
      BY <1>1 DEF Refuse, streamVars, heardVars
    <2>2. QED
      BY <1>1, <2>1, ClosesConnection DEF F!FNext
  <1>2. CASE Disconnect /\ pc # "closed"
    <2>1. UNCHANGED <<requests, text, served, told, chunk>> /\ pc' = "closed"
      BY <1>2 DEF Disconnect, streamVars, heardVars
    <2>2. QED
      BY <1>2, <2>1, ClosesConnection DEF F!FNext
  <1>3. CASE UNCHANGED vars
    BY <1>3 DEF vars, F!fvars
  <1>4. CASE HttpdReqNew
    <2>1. /\ UNCHANGED <<requests, text, served, told, chunk>> /\ pc = "idle" /\ pc' = "read"
      BY <1>4 DEF HttpdReqNew, streamVars, heardVars
    <2>2. Left' = Left
      BY <2>1 DEF Left
    <2>3. QED
      BY <2>1, <2>2, Stutters
  <1>5. CASE ReadBlock
    <2>1. CASE pc = "read" /\ \E new : Parse(new)
      <3>1. UNCHANGED <<requests, text, served, told, chunk>> /\ pc' \in {"read", "execute"}
        BY <2>1 DEF Parse, streamVars, heardVars
      <3>2. Left' = Left
        BY <2>1, <3>1 DEF Left
      <3>3. QED
        BY <2>1, <3>1, <3>2, Stutters
    <2>2. pc = "read" /\ ((\E new : Parse(new)) \/ Refuse \/ Disconnect)
      BY <1>5 DEF ReadBlock
    <2>3. QED
      BY <1>1, <1>2, <2>1, <2>2
  <1>6. CASE pc = "execute" /\ pc' \in {"execute", "read"} /\ UNCHANGED <<requests, text, served, told, chunk>>
    <2>1. Left' = Left
      BY <1>6 DEF Left
    <2>2. QED
      BY <1>6, <2>1, Stutters
  <1>7. CASE Punctuation
    <2>1. pc = "execute" /\ pc' = pc /\ UNCHANGED <<requests, text, served, told, chunk>>
      BY <1>7 DEF Punctuation, Executing, streamVars, heardVars
    <2>2. QED
      BY <1>6, <2>1
  <1>8. CASE BadRequest
    <2>1. Refuse /\ pc = "execute"
      BY <1>8 DEF BadRequest, Executing
    <2>2. QED
      BY <1>1, <2>1
  <1>9. ASSUME NEW st, NEW at, NEW length, Note(st, at, length)
        PROVE  pc' = pc /\ UNCHANGED <<requests, text, served, told, chunk>>
    BY <1>9 DEF Note, streamVars, heardVars
  <1>10. CASE CbUrl
    <2>1. pc = "execute" /\ (Refuse \/ \E at, length : Note("URL", at, length))
      BY <1>10 DEF CbUrl, Token, Executing
    <2>2. QED
      BY <1>1, <1>6, <1>9, <2>1
  <1>11. CASE CbHeaderField
    <2>1. pc = "execute" /\ (Refuse \/ FirstHeader \/ \E at, length : Note("HDR_FIELD", at, length))
      BY <1>11 DEF CbHeaderField, Token, Executing
    <2>2. CASE FirstHeader
      <3>1. pc' = "read" /\ UNCHANGED <<requests, text, served, told, chunk>>
        BY <2>2 DEF FirstHeader, streamVars, heardVars
      <3>2. QED
        BY <1>6, <2>1, <3>1
    <2>3. QED
      BY <1>1, <1>6, <1>9, <2>1, <2>2
  <1>12. CASE CbHeaderValue
    <2>1. pc = "execute" /\ \E at, length : Note("HDR_VALUE", at, length)
      BY <1>12 DEF CbHeaderValue, Token, Executing
    <2>2. QED
      BY <1>6, <1>9, <2>1
  <1>13. CASE CbHeadersComplete
    <2>1. pc = "execute"
      BY <1>13 DEF CbHeadersComplete, Token, Executing
    <2>2. CASE ~Refuse /\ Body = 0
      BY <1>13, <2>2, CbHeadersCompleteDelivers DEF F!FNext
    <2>3. CASE ~Refuse /\ Body # 0
      <3>1. \E mark : EndOfHeaders(mark)
        BY <1>13, <2>3 DEF CbHeadersComplete
      <3>2. pc' = pc /\ UNCHANGED <<requests, text, served, told, chunk>>
        BY <2>3, <3>1 DEF EndOfHeaders, streamVars, heardVars
      <3>3. QED
        BY <1>6, <2>1, <3>2
    <2>4. QED
      BY <1>1, <2>1, <2>2, <2>3
  <1>14. CASE CbOnBody
    BY <1>14, CbOnBodyDelivers DEF F!FNext
  <1>15. CASE BlockParsed
    <2>1. pc = "execute" /\ pc' = "read" /\ UNCHANGED <<requests, text, served, told, chunk>>
      BY <1>15 DEF BlockParsed, streamVars, heardVars
    <2>2. QED
      BY <1>6, <2>1
  <1>16. CASE HandlerReads
    <2>1. F!ReadBody
      BY <1>16, ReadsBody DEF HandlerReads
    <2>2. QED
      BY <2>1 DEF F!FNext
  <1>17. CASE HandlerReturns
    <2>1. /\ UNCHANGED <<requests, text, served, told, chunk, remaining>>
          /\ pc = "handler" /\ pc' = "purge"
      BY <1>17 DEF HandlerReturns, streamVars, heardVars, requestVars
    <2>2. Left' = Left
      BY <2>1 DEF Left
    <2>3. QED
      BY <2>1, <2>2, Stutters
  <1>18. CASE Purge
    <2>1. pc = "purge"
      BY <1>18 DEF Purge
    <2>2. CASE Purged /\ pc' = "idle"
      <3>1. UNCHANGED <<requests, text, served, told, chunk>> /\ remaining = 0
        BY <1>18, <2>2 DEF Purge, Purged, streamVars, heardVars, requestVars
      <3>2. Left' = Left
        BY <2>1, <2>2, <3>1 DEF Left
      <3>3. QED
        BY <2>1, <2>2, <3>1, <3>2, Stutters
    <2>3. CASE ~Purged /\ ReadBody(Least(PurgeBuf, remaining))
      <3>1. PurgeBuf \in Nat \ {0} /\ remaining \in Nat \ {0}
        BY <2>3, SizesAssumption DEF ParserInv, TypeOK, Purged
      <3>2. Least(PurgeBuf, remaining) \in 1 .. remaining
        BY <3>1 DEF Least
      <3>3. F!ReadBody
        BY <2>1, <2>3, <3>2, ReadsBody
      <3>4. QED
        BY <3>3 DEF F!FNext
    <2>4. QED
      BY <1>18, <2>2, <2>3 DEF Purge
  <1>19. CASE HandlerFails
    <2>1. Disconnect /\ pc # "closed"
      BY <1>19 DEF HandlerFails
    <2>2. QED
      BY <1>2, <2>1
  <1>20. QED
    BY <1>3, <1>4, <1>5, <1>7, <1>8, <1>10, <1>11, <1>12, <1>13, <1>14, <1>15, <1>16, <1>17,
       <1>18, <1>19 DEF Next

(* Handlers get the requests of a connection one by one and in their       *)
(* order, each with its own URI and headers, and what is read while one is *)
(* handled is its own body, from the first byte to the last, before the    *)
(* next request is looked at: wherever the network cuts the text, however  *)
(* blocks are pushed back and received again, and whatever the sizes of    *)
(* the buffers.                                                            *)
THEOREM RequestsAreFramed == HeadersSent => (Spec => ImplementsFraming)
  <1> SUFFICES ASSUME HeadersSent
               PROVE  Spec => ImplementsFraming
    OBVIOUS
  <1>1. Init => F!FInit
    <2> SUFFICES ASSUME Init
                 PROVE  F!FInit
      OBVIOUS
    <2>1. text = F!TextOf(requests)
      BY SameTexts DEF Init
    <2>2. served = 0 /\ chunk = <<>> /\ pc = "idle" /\ told = F!Nothing
      BY DEF Init, Nobody, F!Nothing
    <2>3. QED
      BY <2>1, <2>2 DEF F!FInit
  <1>2. ParserInv /\ [Next]_vars => [F!FNext]_(F!fvars)
    BY StepsFraming
  <1>3. Spec => []ParserInv
    BY ParserInvariant
  <1>4. QED
    BY <1>1, <1>2, <1>3, PTL DEF Spec, ImplementsFraming, F!FSpec
=============================================================================
