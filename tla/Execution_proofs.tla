-------------------------- MODULE Execution_proofs --------------------------
(***************************************************************************)
(* Prepare and reduce take turns, on every manager and in every process    *)
(* (IInv); and, if executions do not overlap, they are those of the same   *)
(* execution on the way down the graph (CountsOK), so that reduce comes    *)
(* after all objects.                                                      *)
(***************************************************************************)
EXTENDS Execution, SequenceTheorems, FiniteSetTheorems, WellFoundedInduction, TLAPS

(***************************************************************************)
(* Induction.  A set of naturals that is not empty has a least element.    *)
(***************************************************************************)
LEMMA LeastNatural ==
  ASSUME NEW S, S \subseteq Nat, S # {}
  PROVE  \E x \in S : \A y \in S : x <= y
<1> DEFINE R == OpToRel(<, Nat)
<1>1. IsWellFoundedOn(R, Nat)
  BY NatLessThanWellFounded
<1>2. \A x, y \in Nat : x < y => <<x, y>> \in R
  BY DEF OpToRel
<1> HIDE DEF R
<1>3. PICK x \in S : \A y \in S : ~ (<<y, x>> \in R)
  BY <1>1, WFMin
<1>4. ASSUME NEW y \in S PROVE x <= y
  <2>1. x \in Nat /\ y \in Nat /\ ~ (<<y, x>> \in R)
    BY <1>3, <1>4, S \subseteq Nat
  <2> QED BY <1>2, <2>1
<1> QED BY <1>4

(* A set has all numbers to n if it has 0 and, with a number below n, the  *)
(* next one.                                                               *)
LEMMA UpTo ==
  ASSUME NEW n \in Nat, NEW K, 0 \in K,
         \A k \in 0..n : k < n /\ k \in K => k + 1 \in K
  PROVE  \A k \in 0..n : k \in K
<1> SUFFICES ASSUME NEW k0 \in 0..n, k0 \notin K PROVE FALSE
  OBVIOUS
<1> DEFINE S == {k \in 0..n : k \notin K}
<1>1. S \subseteq Nat /\ S # {}
  OBVIOUS
<1> HIDE DEF S
<1>2. PICK x \in S : \A y \in S : x <= y
  BY <1>1, LeastNatural
<1>3. x \in 0..n /\ x \notin K
  BY <1>2 DEF S
<1>4. x # 0 /\ x - 1 \in 0..n /\ x - 1 < n /\ (x - 1) + 1 = x
  BY <1>3
<1>5. x - 1 \notin S
  BY <1>2, <1>3
<1>6. x - 1 \in K
  BY <1>4, <1>5 DEF S
<1> QED BY <1>3, <1>4, <1>6

(* There is a recursive function, step by step.                            *)
Iterates(f, n, V, base, g) ==
  f \in [0..n -> V] /\ f[0] = base /\ \A k \in 1..n : f[k] = g[k][f[k - 1]]

(* The function that starts with base and takes step g[k] at k.            *)
LEMMA Recursion ==
  ASSUME NEW n \in Nat, NEW V, NEW base \in V, NEW g \in [1..n -> [V -> V]]
  PROVE  \E f : Iterates(f, n, V, base, g)
<1> DEFINE Good(f, m) == f[0] = base /\ \A k \in 1..m : f[k] = g[k][f[k - 1]]
           K == {m \in 0..n : \E f \in [0..m -> V] : Good(f, m)}
<1>1. 0 \in K
  <2>1. PICK f : f = [k \in 0..0 |-> base]
    OBVIOUS
  <2>2. f \in [0..0 -> V] /\ f[0] = base /\ 1..0 = {}
    BY <2>1
  <2>3. Good(f, 0)
    BY <2>2
  <2> HIDE DEF Good
  <2> QED BY <2>2, <2>3
<1>2. ASSUME NEW m \in 0..n, m < n, m \in K PROVE m + 1 \in K
  <2>1. PICK f \in [0..m -> V] : Good(f, m)
    BY <1>2
  <2>2. PICK x : x = g[m + 1][f[m]]
    OBVIOUS
  <2>3. x \in V
    <3>1. m + 1 \in 1..n /\ m \in 0..m
      BY <1>2
    <3>2. f[m] \in V /\ g[m + 1] \in [V -> V]
      BY <2>1, <3>1
    <3> QED BY <2>2, <3>2
  <2> DEFINE h == [k \in 0..(m + 1) |-> IF k = m + 1 THEN x ELSE f[k]]
  <2>4. h \in [0..(m + 1) -> V]
    BY <2>1, <2>3
  <2>5. h[0] = base
    BY <2>1
  <2>6. ASSUME NEW k \in 1..(m + 1) PROVE h[k] = g[k][h[k - 1]]
    <3>1. CASE k = m + 1
      <4>1. h[k] = x /\ h[k - 1] = f[m]
        BY <3>1
      <4> QED BY <2>2, <3>1, <4>1
    <3>2. CASE k # m + 1
      <4>1. k \in 1..m /\ h[k] = f[k] /\ h[k - 1] = f[k - 1]
        BY <3>2
      <4> QED BY <2>1, <4>1
    <3> QED BY <3>1, <3>2
  <2> HIDE DEF h
  <2>7. Good(h, m + 1) /\ m + 1 \in 0..n
    BY <1>2, <2>5, <2>6
  <2> QED BY <2>4, <2>7
<1> HIDE DEF K
<1>3. n \in K
  <2>1. \A k \in 0..n : k \in K
    BY <1>1, <1>2, UpTo
  <2> QED BY <2>1
<1> QED BY <1>3 DEF K, Iterates

(***************************************************************************)
(* What a sequence of messages does to a number: R relates the number      *)
(* before a message, the message, and the number after it.                 *)
(***************************************************************************)
Walk(q, a, z, R) ==
  \E c \in [0..Len(q) -> Nat] :
    c[0] = a /\ c[Len(q)] = z /\ \A k \in 1..Len(q) : <<c[k - 1], q[k], c[k]>> \in R

(* No message changes nothing.                                             *)
LEMMA WalkEmpty ==
  ASSUME NEW a \in Nat, NEW z, NEW R
  PROVE  Walk(<<>>, a, z, R) <=> a = z
<1>1. ASSUME a = z PROVE Walk(<<>>, a, z, R)
  <2> DEFINE c == [k \in 0..0 |-> a]
  <2>1. c \in [0..0 -> Nat] /\ c[0] = a /\ c[0] = z /\ Len(<<>>) = 0 /\ 1..0 = {}
    BY <1>1
  <2> QED BY <2>1 DEF Walk
<1>2. ASSUME Walk(<<>>, a, z, R) PROVE a = z
  <2>1. Len(<<>>) = 0
    OBVIOUS
  <2> QED BY <1>2, <2>1 DEF Walk
<1> QED BY <1>1, <1>2

(* A walk begins and ends with naturals.                                   *)
LEMMA WalkNat ==
  ASSUME NEW S, NEW q \in Seq(S), NEW a, NEW z, NEW R, Walk(q, a, z, R)
  PROVE  a \in Nat /\ z \in Nat
<1>1. 0 \in 0..Len(q) /\ Len(q) \in 0..Len(q)
  OBVIOUS
<1> QED BY <1>1 DEF Walk

(* The first message, and then the others.                                 *)
LEMMA WalkHead ==
  ASSUME NEW S, NEW q \in Seq(S), q # <<>>, NEW a, NEW z, NEW R, Walk(q, a, z, R)
  PROVE  \E b \in Nat : <<a, Head(q), b>> \in R /\ Walk(Tail(q), b, z, R)
<1>1. PICK c \in [0..Len(q) -> Nat] :
        c[0] = a /\ c[Len(q)] = z /\ \A k \in 1..Len(q) : <<c[k - 1], q[k], c[k]>> \in R
  BY DEF Walk
<1>2. /\ Len(Tail(q)) = Len(q) - 1 /\ Len(q) \in Nat \ {0} /\ Head(q) = q[1]
      /\ \A k \in 1..Len(Tail(q)) : Tail(q)[k] = q[k + 1]
  OBVIOUS
<1> DEFINE d == [k \in 0..Len(Tail(q)) |-> c[k + 1]]
<1>3. d \in [0..Len(Tail(q)) -> Nat] /\ d[0] = c[1] /\ d[Len(Tail(q))] = z
  BY <1>1, <1>2
<1>4. ASSUME NEW k \in 1..Len(Tail(q)) PROVE <<d[k - 1], Tail(q)[k], d[k]>> \in R
  <2>1. d[k] = c[k + 1] /\ d[k - 1] = c[k] /\ k + 1 \in 1..Len(q) /\ (k + 1) - 1 = k
    BY <1>2
  <2> QED BY <1>1, <1>2, <2>1
<1>5. Walk(Tail(q), c[1], z, R)
  <2> HIDE DEF d
  <2> QED BY <1>3, <1>4 DEF Walk
<1>6. <<a, Head(q), c[1]>> \in R /\ c[1] \in Nat
  <2>1. 1 \in 1..Len(q) /\ 1 - 1 = 0 /\ 1 \in 0..Len(q)
    BY <1>2
  <2> QED BY <1>1, <1>2, <2>1
<1> QED BY <1>5, <1>6

(* One sequence after the other.                                           *)
LEMMA WalkConcat ==
  ASSUME NEW S, NEW p \in Seq(S), NEW q \in Seq(S), NEW a, NEW b, NEW z, NEW R,
         Walk(p, a, b, R), Walk(q, b, z, R)
  PROVE  Walk(p \o q, a, z, R)
<1>1. PICK c \in [0..Len(p) -> Nat] :
        c[0] = a /\ c[Len(p)] = b /\ \A k \in 1..Len(p) : <<c[k - 1], p[k], c[k]>> \in R
  BY DEF Walk
<1>2. PICK d \in [0..Len(q) -> Nat] :
        d[0] = b /\ d[Len(q)] = z /\ \A k \in 1..Len(q) : <<d[k - 1], q[k], d[k]>> \in R
  BY DEF Walk
<1>3. PICK m \in Nat : m = Len(p)
  OBVIOUS
<1>4. PICK n \in Nat : n = Len(q)
  OBVIOUS
<1>5. Len(p \o q) = m + n /\ \A k \in 1..(m + n) : (p \o q)[k] = IF k <= m THEN p[k] ELSE q[k - m]
  BY <1>3, <1>4, ConcatProperties
<1> DEFINE e == [k \in 0..(m + n) |-> IF k <= m THEN c[k] ELSE d[k - m]]
<1>6. e \in [0..(m + n) -> Nat] /\ e[0] = a
  BY <1>1, <1>2, <1>3, <1>4
<1>7. e[m + n] = z
  BY <1>1, <1>2, <1>3, <1>4
<1>8. ASSUME NEW k \in 1..(m + n) PROVE <<e[k - 1], (p \o q)[k], e[k]>> \in R
  <2>1. CASE k <= m
    <3>1. k \in 1..Len(p) /\ e[k - 1] = c[k - 1] /\ e[k] = c[k] /\ (p \o q)[k] = p[k]
      BY <1>3, <1>5, <2>1
    <3> QED BY <1>1, <3>1
  <2>2. CASE k > m
    <3>1. k - m \in 1..Len(q) /\ e[k] = d[k - m] /\ (p \o q)[k] = q[k - m]
      BY <1>4, <1>5, <2>2
    <3>2. e[k - 1] = d[(k - m) - 1]
      <4>1. CASE k - 1 = m
        BY <1>1, <1>2, <1>3, <4>1
      <4>2. CASE k - 1 # m
        BY <2>2, <4>2
      <4> QED BY <4>1, <4>2
    <3> QED BY <1>2, <3>1, <3>2
  <2>3. k <= m \/ k > m
    BY <1>3
  <2> HIDE DEF e
  <2> QED BY <2>1, <2>2, <2>3
<1> HIDE DEF e
<1> QED BY <1>5, <1>6, <1>7, <1>8 DEF Walk

(* One message.                                                            *)
LEMMA WalkOne ==
  ASSUME NEW a \in Nat, NEW z \in Nat, NEW x, NEW R, <<a, x, z>> \in R
  PROVE  Walk(<<x>>, a, z, R)
<1> DEFINE c == [k \in 0..1 |-> IF k = 0 THEN a ELSE z]
<1>1. c \in [0..1 -> Nat] /\ c[0] = a /\ c[1] = z /\ Len(<<x>>) = 1 /\ <<x>>[1] = x
  OBVIOUS
<1>2. \A k \in 1..1 : k = 1 /\ k - 1 = 0
  OBVIOUS
<1> HIDE DEF c
<1>3. \A k \in 1..1 : <<c[k - 1], <<x>>[k], c[k]>> \in R
  BY <1>1, <1>2
<1> QED BY <1>1, <1>3 DEF Walk

(* One more message.                                                       *)
LEMMA WalkAppend ==
  ASSUME NEW S, NEW q \in Seq(S), NEW x \in S, NEW a, NEW b, NEW z \in Nat, NEW R,
         Walk(q, a, b, R), <<b, x, z>> \in R
  PROVE  Walk(Append(q, x), a, z, R)
<1>1. b \in Nat
  BY WalkNat
<1>2. Walk(<<x>>, b, z, R)
  BY <1>1, WalkOne
<1>3. <<x>> \in Seq(S) /\ Append(q, x) = q \o <<x>>
  OBVIOUS
<1>4. Walk(q \o <<x>>, a, z, R)
  BY ONLY <1>2, <1>3, WalkConcat, Walk(q, a, b, R), q \in Seq(S)
<1> QED BY <1>3, <1>4

(* Messages that leave the number as it is.                                *)
LEMMA WalkStay ==
  ASSUME NEW S, NEW q \in Seq(S), NEW a \in Nat, NEW R, \A k \in 1..Len(q) : <<a, q[k], a>> \in R
  PROVE  Walk(q, a, a, R)
<1> DEFINE c == [k \in 0..Len(q) |-> a]
<1>1. c \in [0..Len(q) -> Nat] /\ c[0] = a /\ c[Len(q)] = a
  OBVIOUS
<1>2. \A k \in 1..Len(q) : c[k - 1] = a /\ c[k] = a
  OBVIOUS
<1> HIDE DEF c
<1> QED BY <1>1, <1>2 DEF Walk

(* Messages that take one each.                                            *)
LEMMA WalkDown ==
  ASSUME NEW n \in Nat, NEW a \in Nat, NEW x, NEW R,
         \A b \in Nat : <<b + 1, x, b>> \in R
  PROVE  Walk(Repeat(n, x), a + n, a, R)
<1> DEFINE c == [k \in 0..n |-> a + (n - k)]
<1>1. c \in [0..n -> Nat] /\ c[0] = a + n /\ c[n] = a
  OBVIOUS
<1>2. Len(Repeat(n, x)) = n /\ \A k \in 1..n : Repeat(n, x)[k] = x
  BY DEF Repeat
<1>3. ASSUME NEW k \in 1..n PROVE <<c[k - 1], Repeat(n, x)[k], c[k]>> \in R
  <2>1. c[k - 1] = c[k] + 1 /\ c[k] \in Nat
    OBVIOUS
  <2> HIDE DEF c
  <2> QED BY <1>2, <2>1
<1> HIDE DEF c
<1> QED BY <1>1, <1>2, <1>3 DEF Walk

(* Repeat is a sequence of n equal elements.                               *)
LEMMA RepeatSeq ==
  ASSUME NEW n \in Nat, NEW S, NEW x \in S
  PROVE  /\ Repeat(n, x) \in Seq(S) /\ Len(Repeat(n, x)) = n
         /\ \A k \in 1..n : Repeat(n, x)[k] = x
         /\ n = 0 => Repeat(n, x) = <<>>
<1>1. Repeat(n, x) \in Seq(S) /\ Len(Repeat(n, x)) = n /\ \A k \in 1..n : Repeat(n, x)[k] = x
  BY DEF Repeat
<1> QED BY <1>1, EmptySeq

(* A flattened sequence walks as its parts do.                             *)
LEMMA Flattened ==
  ASSUME NEW S, NEW ss \in Seq(Seq(S))
  PROVE  /\ FlattenSeq(ss) \in Seq(S)
         /\ \A R : \A c \in [0..Len(ss) -> Nat] :
              (\A k \in 1..Len(ss) : Walk(ss[k], c[k - 1], c[k], R))
                => Walk(FlattenSeq(ss), c[0], c[Len(ss)], R)
<1>1. CASE ss = <<>>
  <2>1. FlattenSeq(ss) = <<>> /\ Len(ss) = 0
    BY <1>1 DEF FlattenSeq
  <2>2. ASSUME NEW R, NEW c \in [0..Len(ss) -> Nat]
        PROVE  Walk(FlattenSeq(ss), c[0], c[Len(ss)], R)
    <3>1. c[0] \in Nat
      BY <2>1
    <3> QED BY <2>1, <3>1, WalkEmpty
  <2> QED BY <2>1, <2>2, EmptySeq
<1>2. CASE ss # <<>>
  <2>0. PICK n \in Nat \ {0} : n = Len(ss)
    BY <1>2
  <2>00. \A k \in 1..n : ss[k] \in Seq(S)
    BY <2>0
  <2>1. PICK h \in [0..n -> Seq(S)] : h[0] = <<>> /\ \A k \in 1..n : h[k] = h[k - 1] \o ss[k]
    <3> DEFINE g == [k \in 1..n |-> [v \in Seq(S) |-> v \o ss[k]]]
    <3>1. g \in [1..n -> [Seq(S) -> Seq(S)]]
      BY <2>00, ConcatProperties
    <3>2. \A k \in 1..n, v \in Seq(S) : g[k][v] = v \o ss[k]
      OBVIOUS
    <3> HIDE DEF g
    <3>3. PICK h \in [0..n -> Seq(S)] : h[0] = <<>> /\ \A k \in 1..n : h[k] = g[k][h[k - 1]]
      <4>1. <<>> \in Seq(S)
        BY EmptySeq
      <4>2. n \in Nat
        BY <2>0
      <4>3. \E h : Iterates(h, n, Seq(S), <<>>, g)
        BY ONLY <3>1, <4>1, <4>2, Recursion
      <4> QED BY <4>3 DEF Iterates
    <3>4. ASSUME NEW k \in 1..n PROVE h[k] = h[k - 1] \o ss[k]
      <4>1. h[k - 1] \in Seq(S)
        <5>1. k - 1 \in 0..n
          BY <2>0
        <5> QED BY <3>3, <5>1
      <4>2. g[k][h[k - 1]] = h[k - 1] \o ss[k]
        BY <3>2, <4>1
      <4> QED BY <3>3, <4>2
    <3> QED BY <3>3, <3>4
  <2>2. PICK f : /\ f = [i \in 1..n |-> IF i = 1 THEN ss[i] ELSE f[i - 1] \o ss[i]]
                 /\ FlattenSeq(ss) = f[n]
    <3> DEFINE f == [i \in 1..n |-> h[i]]
    <3>1. \A i \in 1..n : f[i] = IF i = 1 THEN ss[i] ELSE f[i - 1] \o ss[i]
      <4>1. \A i \in 1..n : f[i] = h[i - 1] \o ss[i]
        BY <2>1
      <4>2. f[1] = ss[1]
        <5>1. 1 \in 1..n /\ 1 - 1 = 0
          BY <2>0
        <5>2. <<>> \o ss[1] = ss[1]
          BY <2>00, <5>1, ConcatEmptySeq
        <5> QED BY <2>1, <4>1, <5>1, <5>2
      <4>3. \A i \in 1..n : i # 1 => i - 1 \in 1..n /\ f[i - 1] = h[i - 1]
        OBVIOUS
      <4> QED BY <4>1, <4>2, <4>3
    <3>2. f = [i \in 1..n |-> IF i = 1 THEN ss[i] ELSE f[i - 1] \o ss[i]]
      BY <3>1
    <3> HIDE DEF f
    <3> QED BY <2>0, <3>2 DEF FlattenSeq
  <2>3. \A i \in 1..n : f[i] = IF i = 1 THEN ss[i] ELSE f[i - 1] \o ss[i]
    BY <2>2
  <2>4. f[n] \in Seq(S)
    <3> DEFINE K == {i \in 0..n : i = 0 \/ f[i] \in Seq(S)}
    <3>1. 0 \in K
      OBVIOUS
    <3>2. ASSUME NEW k \in 0..n, k < n, k \in K PROVE k + 1 \in K
      <4>1. k + 1 \in 1..n /\ (k + 1) - 1 = k
        BY <3>2
      <4>2. f[k + 1] = IF k = 0 THEN ss[k + 1] ELSE f[k] \o ss[k + 1]
        BY <2>3, <4>1
      <4>3. f[k + 1] \in Seq(S)
        BY <2>00, <3>2, <4>1, <4>2, ConcatProperties
      <4> QED BY <4>1, <4>3
    <3> HIDE DEF K
    <3>3. n \in K
      <4>1. \A k \in 0..n : k \in K
        BY <3>1, <3>2, UpTo
      <4> QED BY <4>1
    <3> QED BY <3>3 DEF K
  <2>5. ASSUME NEW R, NEW c \in [0..Len(ss) -> Nat],
               \A k \in 1..Len(ss) : Walk(ss[k], c[k - 1], c[k], R)
        PROVE  Walk(f[n], c[0], c[n], R)
    <3> DEFINE K == {i \in 0..n : i = 0 \/ (f[i] \in Seq(S) /\ Walk(f[i], c[0], c[i], R))}
    <3>1. 0 \in K
      OBVIOUS
    <3>2. ASSUME NEW k \in 0..n, k < n, k \in K PROVE k + 1 \in K
      <4>1. k + 1 \in 1..n /\ (k + 1) - 1 = k
        BY <3>2
      <4>2. f[k + 1] = IF k = 0 THEN ss[k + 1] ELSE f[k] \o ss[k + 1]
        BY <2>3, <4>1
      <4>3. ss[k + 1] \in Seq(S) /\ Walk(ss[k + 1], c[k], c[k + 1], R)
        BY <2>0, <2>00, <2>5, <4>1
      <4>4. CASE k = 0
        BY <4>1, <4>2, <4>3, <4>4
      <4>6. k + 1 \in 0..n
        BY <4>1
      <4>5. CASE k # 0
        <5>1. f[k] \in Seq(S) /\ Walk(f[k], c[0], c[k], R)
          BY <3>2, <4>5
        <5>2. Walk(f[k] \o ss[k + 1], c[0], c[k + 1], R) /\ f[k] \o ss[k + 1] \in Seq(S)
          BY ONLY <4>3, <5>1, WalkConcat, ConcatProperties
        <5>3. f[k + 1] = f[k] \o ss[k + 1]
          BY <4>2, <4>5
        <5> QED BY <4>6, <5>2, <5>3
      <4> QED BY <4>4, <4>5
    <3> HIDE DEF K
    <3>3. n \in K
      <4>1. \A k \in 0..n : k \in K
        BY <3>1, <3>2, UpTo
      <4> QED BY <4>1
    <3> QED BY <3>3 DEF K
  <2> QED BY <2>0, <2>2, <2>4, <2>5
<1> QED BY <1>1, <1>2

(* The least number of a set.                                              *)
LEMMA LeastIs ==
  ASSUME NEW S, S \subseteq Nat, S # {}
  PROVE  Min(S) \in S /\ \A y \in S : Min(S) <= y
BY LeastNatural DEF Min

(* Every element of a finite set is at one place of its sequence.          *)
LEMMA Listed ==
  ASSUME NEW S, IsFiniteSet(S)
  PROVE  LET q == SetToSeq(S)
         IN  /\ q \in Seq(S) /\ \A x \in S : \E k \in 1..Len(q) : q[k] = x
             /\ \A j, k \in 1..Len(q) : q[j] = q[k] => j = k
<1> DEFINE n == Cardinality(S)
           q == SetToSeq(S)
<1>1. n \in Nat /\ ExistsBijection(1..n, S)
  BY FS_CardinalityType
<1>2. PICK f \in Bijection(1..n, S) : TRUE
  BY <1>1 DEF ExistsBijection
<1>3. f \in [1..n -> S] /\ IsInjective(f)
  BY <1>2 DEF Bijection, Injection, IsInjective
<1>4. q \in [1..n -> S] /\ IsInjective(q)
  BY <1>3 DEF SetToSeq
<1> HIDE DEF q
<1>5. q \in Injection(1..n, S)
  BY <1>4 DEF Injection
<1>6. q \in Surjection(1..n, S)
  <2>1. Cardinality(1..n) = n
    BY <1>1, FS_Interval
  <2> QED BY <1>5, <2>1, FS_Injection
<1>7. q \in Seq(S) /\ Len(q) = n
  BY <1>1, <1>4
<1>8. \A j, k \in 1..n : q[j] = q[k] => j = k
  BY <1>4 DEF IsInjective
<1>9. \A x \in S : \E k \in 1..n : q[k] = x
  BY <1>6 DEF Surjection
<1> QED BY <1>7, <1>8, <1>9 DEF q
-----------------------------------------------------------------------------
(***************************************************************************)
(* What is assumed of the workflow, for any number of ranks, any graph     *)
(* and any timing.  Every module that computes has the default scheduling  *)
(* policy, is prepared and reduced, and is executed by modules upstream    *)
(* only; PortTracker::addConnection lets an input that is computed be      *)
(* connected to one output.                                                *)
(***************************************************************************)
Fed == {m \in Modules : ComputeInputs[m] # {}}

Steering ==
  /\ \A m \in Fed : SchedulingPolicy[m] = "Single" /\ ReducePolicy[m] # "Never" /\ MaxExecutes[m] = 0
  /\ \A c, d \in Connections : c[2] = d[2] /\ c[2] \notin NoCompute => c = d

(* The module that feeds an input.                                         *)
Feeder(i) == ModuleOf[(CHOOSE c \in Connections : c[2] = i)[1]]

(* The messages there are on each way.                                     *)
AddMsgs(m)   ==
  [type : {"AddObject"}, module : {m}, port : {i \in Inputs : ModuleOf[i] = m}, round : Nat]
Orders(m)    == IF m \in Fed THEN {"Prepare", "Reduce", "ComputeObject"} ELSE {"ComputeExecute"}
QueueMsgs(m) == AddMsgs(m) \cup [type : Orders(m), module : {m}]
DownMsgs     == [type : {"ComputeExecute"}, module : Modules \ Fed]
                  \cup [type : {"Prepare", "Reduce"}, module : Fed]
Reports(ms)  == [type : {"Start", "Finish"}, module : ms]
ObjectMsgs(m) == [type : {"Object"}, port : {o \in Outputs : ModuleOf[o] = m}, round : Nat]
OutMsgs(m)   == ObjectMsgs(m) \cup Reports({m})

(* What a message does to whether m is prepared, or is executing: a before *)
(* and z after it.                                                         *)
One(b) == IF b THEN 1 ELSE 0
Moves(a, x, z, m) ==
  IF x.type \in {"Prepare", "Start"} /\ x.module = m THEN a = 0 /\ z = 1
  ELSE IF x.type \in {"Reduce", "Finish"} /\ x.module = m THEN a = 1 /\ z = 0
  ELSE a = z /\ (x.type = "ComputeObject" /\ x.module = m => a = 1)
TurnIn(S, m) == {t \in (0..1) \X S \X (0..1) : Moves(t[1], t[2], t[3], m)}

(* What a message does to the number of objects at input i.                *)
Counts(a, x, z, i) ==
  IF x.type = "AddObject" THEN z = IF x.port = i THEN a + 1 ELSE a
  ELSE IF x.type = "ComputeObject" THEN a = z + 1
  ELSE a = z
SupplyIn(S, i) == {t \in Nat \X S \X Nat : Counts(t[1], t[2], t[3], i)}

(* Membership of a step in TurnIn.                                         *)
LEMMA TurnIff ==
  ASSUME NEW S, NEW m, NEW a, NEW x, NEW z
  PROVE  <<a, x, z>> \in TurnIn(S, m) <=> a \in 0..1 /\ x \in S /\ z \in 0..1 /\ Moves(a, x, z, m)
BY DEF TurnIn

(* Membership of a step in SupplyIn.                                       *)
LEMMA SupplyIff ==
  ASSUME NEW S, NEW i, NEW a, NEW x, NEW z
  PROVE  <<a, x, z>> \in SupplyIn(S, i) <=> a \in Nat /\ x \in S /\ z \in Nat /\ Counts(a, x, z, i)
BY DEF SupplyIn

(* The stages of a process that is executing, and what is left of them     *)
(* after reduce has begun.                                                 *)
FedRests    == {<<>>, <<"Sync">>, <<"Sync", "Finish">>, <<"Finish">>}
SourceRests == {<<>>, <<"Finish">>, <<"Sync", "Finish">>, <<"Produce", "Sync", "Finish">>,
                <<"Sync", "Produce", "Sync", "Finish">>}
Closing     == {<<"Finish">>, <<"Sync", "Finish">>}
Rests(m)    == IF m \in Fed THEN FedRests ELSE SourceRests

(* Whether a process will be prepared when it is done with its stages.     *)
After(p) == IF p.rest \in Closing THEN 0 ELSE One(p.prepared)

Processes(m) == [prepared : BOOLEAN, reduced : BOOLEAN, withOutput : BOOLEAN, round : Nat,
                 rest : Rests(m)]

(* The queues of the modules of a rank.                                    *)
Queues(q) ==
  /\ q \in [Modules -> UNION {Seq(QueueMsgs(m)) : m \in Modules}]
  /\ \A m \in Modules : q[m] \in Seq(QueueMsgs(m))
Outs(q) ==
  /\ q \in [Modules -> UNION {Seq(OutMsgs(m)) : m \in Modules}]
  /\ \A m \in Modules : q[m] \in Seq(OutMsgs(m))

Put(q, m, x) == [q EXCEPT ![m] = x]

(* The queue of one module is replaced.                                    *)
LEMMA QueuesUpdate ==
  ASSUME NEW q, Queues(q), NEW m \in Modules, NEW x \in Seq(QueueMsgs(m))
  PROVE  Queues(Put(q, m, x)) /\ Put(q, m, x)[m] = x /\ \A n \in Modules : n # m => Put(q, m, x)[n] = q[n]
<1>0. PICK h : h = [q EXCEPT ![m] = x]
  OBVIOUS
<1>1. x \in UNION {Seq(QueueMsgs(n)) : n \in Modules}
  OBVIOUS
<1> DEFINE U == UNION {Seq(QueueMsgs(n)) : n \in Modules}
           T == [n \in Modules |-> Seq(QueueMsgs(n))]
<1>2. x \in U /\ q \in [Modules -> U] /\ (\A n \in Modules : q[n] \in T[n]) /\ x \in T[m]
  BY <1>1 DEF Queues
<1> HIDE DEF U, T
<1>3. h \in [Modules -> U] /\ (\A n \in Modules : h[n] \in T[n]) /\ h[m] = x
        /\ \A n \in Modules : n # m => h[n] = q[n]
  BY <1>0, <1>2
<1> QED BY <1>0, <1>3 DEF Queues, U, T, Put

(* The same of the messages that the modules send.                         *)
LEMMA OutsUpdate ==
  ASSUME NEW q, Outs(q), NEW m \in Modules, NEW x \in Seq(OutMsgs(m))
  PROVE  Outs(Put(q, m, x)) /\ Put(q, m, x)[m] = x /\ \A n \in Modules : n # m => Put(q, m, x)[n] = q[n]
<1>0. PICK h : h = [q EXCEPT ![m] = x]
  OBVIOUS
<1>1. x \in UNION {Seq(OutMsgs(n)) : n \in Modules}
  OBVIOUS
<1> DEFINE U == UNION {Seq(OutMsgs(n)) : n \in Modules}
           T == [n \in Modules |-> Seq(OutMsgs(n))]
<1>2. x \in U /\ q \in [Modules -> U] /\ (\A n \in Modules : q[n] \in T[n]) /\ x \in T[m]
  BY <1>1 DEF Outs
<1> HIDE DEF U, T
<1>3. h \in [Modules -> U] /\ (\A n \in Modules : h[n] \in T[n]) /\ h[m] = x
        /\ \A n \in Modules : n # m => h[n] = q[n]
  BY <1>0, <1>2
<1> QED BY <1>0, <1>3 DEF Outs, U, T, Put

(* The modules downstream are those with inputs, which are their own.      *)
LEMMA FedFacts ==
  /\ \A d \in Fed : d \in Modules /\ ComputeInputs[d] # {}
  /\ \A m \in Modules : m \notin Fed => ComputeInputs[m] = {}
  /\ \A m \in Modules : \A i \in ComputeInputs[m] :
       i \in Inputs /\ ModuleOf[i] = m /\ i \notin NoCompute
BY DEF Fed, ComputeInputs

(* Every port is the port of a module.                                     *)
LEMMA PortFacts ==
  /\ Inputs \subseteq Ports
  /\ \A i \in Inputs : ModuleOf[i] \in Modules
  /\ \A o \in Outputs : ModuleOf[o] \in Modules
BY ExecutionAssumption DEF Ports

(* The orders that a module gets.                                          *)
LEMMA OrderFacts ==
  ASSUME NEW m \in Modules
  PROVE  /\ m \in Fed => /\ Execute("Prepare", m) \in QueueMsgs(m) \cap DownMsgs
                         /\ Execute("Reduce", m) \in QueueMsgs(m) \cap DownMsgs
                         /\ Execute("ComputeObject", m) \in QueueMsgs(m)
         /\ m \notin Fed => Execute("ComputeExecute", m) \in QueueMsgs(m) \cap DownMsgs
BY DEF Execute, QueueMsgs, Orders, DownMsgs
-----------------------------------------------------------------------------
(***************************************************************************)
(* A manager that delivers objects.  b tells which modules are prepared on *)
(* rank r.  The queue of a module turns it from what its process is to     *)
(* what its manager says, and its objects from those it has to those that  *)
(* have been counted.                                                      *)
(***************************************************************************)
StateOK(s, r, b) ==
  /\ s = [count |-> s.count, queue |-> s.queue, cast |-> <<>>]
  /\ s.count \in [Inputs -> Nat]
  /\ Queues(s.queue)
  /\ \A d \in Fed : Walk(s.queue[d], After(module[r][d]), b[d], TurnIn(QueueMsgs(d), d))
  /\ \A d \in Fed : \A i \in ComputeInputs[d] :
       Walk(s.queue[d], Len(objects[r][i]), s.count[i], SupplyIn(QueueMsgs(d), i))

(* No more tuples than objects at any input.                               *)
LEMMA TuplesBound ==
  ASSUME NEW count \in [Inputs -> Nat], NEW m \in Fed
  PROVE  Tuples(count, m) \in Nat /\ \A i \in ComputeInputs[m] : Tuples(count, m) <= count[i]
<1> DEFINE S == {count[i] : i \in ComputeInputs[m]}
<1>1. ComputeInputs[m] # {} /\ \A i \in ComputeInputs[m] : count[i] \in Nat
  BY FedFacts
<1>2. S \subseteq Nat /\ S # {}
  BY <1>1
<1>3. Min(S) \in S /\ \A y \in S : Min(S) <= y
  BY <1>2, LeastIs
<1>4. Tuples(count, m) = Min(S)
  BY <1>1 DEF Tuples
<1> QED BY <1>2, <1>3, <1>4

(* checkExecuteObject keeps this if it only makes prepared modules compute.*)
LEMMA CheckKeeps ==
  ASSUME Steering, NEW r \in Ranks, NEW m \in Modules, NEW ready, NEW s, NEW b,
         StateOK(s, r, b), m \in Fed /\ ready => b[m] = 1, b \in [Modules -> 0..1]
  PROVE  StateOK(CheckExecuteObject(r, m, ready, s), r, b)
<1>1. CASE m \notin Fed
  <2>1. ComputeInputs[m] = {} /\ s.count \in [Inputs -> Nat] /\ Queues(s.queue) /\ s.cast = <<>>
    BY <1>1, FedFacts DEF StateOK
  <2>2. (IF ready THEN Tuples(s.count, m) ELSE 0) = 0
    BY <2>1 DEF Tuples
  <2>3. Repeat(0, Execute("ComputeObject", m)) = <<>> /\ Repeat(0, Request(m, r)) = <<>>
    BY RepeatSeq
  <2>4. [i \in Inputs |-> IF i \in ComputeInputs[m] THEN s.count[i] - 0 ELSE s.count[i]] = s.count
    BY <2>1
  <2>5. s.queue[m] \o <<>> = s.queue[m] /\ <<>> \o <<>> = <<>>
    BY <2>1, ConcatEmptySeq DEF Queues
  <2>6. [s.queue EXCEPT ![m] = @ \o <<>>] = s.queue
    BY <2>1, <2>5 DEF Queues
  <2>7. s.cast \o (CASE SchedulingPolicy[m] = "Gang" -> <<>> [] SchedulingPolicy[m] = "LazyGang" -> <<>>
                     [] OTHER -> <<>>) = <<>>
    BY <2>1, <2>5
  <2>8. CheckExecuteObject(r, m, ready, s)
          = [count |-> s.count, queue |-> s.queue, cast |-> <<>>]
    <3>1. (IF SchedulingPolicy[m] = "Single" THEN [s.queue EXCEPT ![m] = @ \o <<>>] ELSE s.queue) = s.queue
      BY <2>6
    <3> QED BY <2>2, <2>3, <2>4, <2>7, <3>1 DEF CheckExecuteObject
  <2>9. CheckExecuteObject(r, m, ready, s) = s
    BY <2>8 DEF StateOK
  <2> QED BY <2>9
<1>2. CASE m \in Fed
  <2>1. PICK n : n = IF ready THEN Tuples(s.count, m) ELSE 0
    OBVIOUS
  <2>2. PICK c : c = Repeat(n, Execute("ComputeObject", m))
    OBVIOUS
  <2>3. PICK count : count = [i \in Inputs |->
          IF i \in ComputeInputs[m] THEN s.count[i] - n ELSE s.count[i]]
    OBVIOUS
  <2>4. PICK q : q = [s.queue EXCEPT ![m] = @ \o c]
    OBVIOUS
  <2>5. SchedulingPolicy[m] = "Single" /\ s.cast = <<>> /\ s.count \in [Inputs -> Nat] /\ Queues(s.queue)
    BY <1>2 DEF Steering, StateOK
  <2>6. CheckExecuteObject(r, m, ready, s) = [count |-> count, queue |-> q, cast |-> <<>>]
    <3>1. <<>> \o <<>> = <<>>
      OBVIOUS
    <3>2. s.cast \o (CASE SchedulingPolicy[m] = "Gang" -> c
                       [] SchedulingPolicy[m] = "LazyGang" -> Repeat(n, Request(m, r))
                       [] OTHER -> <<>>) = <<>>
      BY <2>5, <3>1
    <3>3. CheckExecuteObject(r, m, ready, s)
            = [count |-> count,
               queue |-> IF SchedulingPolicy[m] = "Single" THEN q ELSE s.queue,
               cast  |-> s.cast \o (CASE SchedulingPolicy[m] = "Gang" -> c
                       [] SchedulingPolicy[m] = "LazyGang" -> Repeat(n, Request(m, r))
                       [] OTHER -> <<>>)]
      BY ONLY <2>1, <2>2, <2>3, <2>4 DEF CheckExecuteObject
    <3>4. (IF SchedulingPolicy[m] = "Single" THEN q ELSE s.queue) = q
      BY <2>5
    <3> QED BY ONLY <3>2, <3>3, <3>4
  <2>7. n \in Nat /\ \A i \in ComputeInputs[m] : n <= s.count[i]
    <3>1. \A i \in ComputeInputs[m] : i \in Inputs /\ s.count[i] \in Nat
      BY <1>2, <2>5, FedFacts
    <3> QED BY <1>2, <2>1, <2>5, <3>1, TuplesBound
  <2>8. c \in Seq(QueueMsgs(m)) /\ Len(c) = n /\ \A k \in 1..n : c[k] = Execute("ComputeObject", m)
    <3>1. Execute("ComputeObject", m) \in QueueMsgs(m)
      BY <1>2, OrderFacts
    <3> QED BY <2>2, <2>7, <3>1, RepeatSeq
  <2>9. s.queue[m] \in Seq(QueueMsgs(m)) /\ s.queue[m] \o c \in Seq(QueueMsgs(m))
    BY <2>5, <2>8, ConcatProperties DEF Queues
  <2>10. Queues(q) /\ q[m] = s.queue[m] \o c /\ \A d \in Modules : d # m => q[d] = s.queue[d]
    <3>1. PICK w : w = s.queue
      OBVIOUS
    <3>2. PICK y : y = w[m] \o c
      OBVIOUS
    <3>3. Queues(w) /\ y \in Seq(QueueMsgs(m)) /\ q = Put(w, m, y)
      BY <2>4, <2>5, <2>9, <3>1, <3>2 DEF Put
    <3>4. Queues(q) /\ q[m] = y /\ \A d \in Modules : d # m => q[d] = w[d]
      BY ONLY <3>3, QueuesUpdate
    <3> QED BY <3>1, <3>2, <3>3, <3>4
  <2>11. count \in [Inputs -> Nat]
    <3>1. ASSUME NEW i \in Inputs PROVE count[i] \in Nat
      BY <2>3, <2>5, <2>7
    <3> QED BY <2>3, <3>1
  <2>12. ASSUME NEW d \in Fed
         PROVE  Walk(q[d], After(module[r][d]), b[d], TurnIn(QueueMsgs(d), d))
    <3>1. Walk(s.queue[d], After(module[r][d]), b[d], TurnIn(QueueMsgs(d), d)) /\ d \in Modules
      BY FedFacts DEF StateOK
    <3>2. CASE d # m
      BY <2>10, <3>1, <3>2
    <3>3. CASE d = m
      <4>1. ASSUME NEW k \in 1..Len(c) PROVE <<b[m], c[k], b[m]>> \in TurnIn(QueueMsgs(m), m)
        <5>1. n # 0 /\ c[k] = Execute("ComputeObject", m)
          BY <2>7, <2>8
        <5>2. b[m] = 1
          BY <1>2, <2>1, <5>1
        <5>3. Moves(1, Execute("ComputeObject", m), 1, m)
          BY DEF Moves, Execute
        <5>4. c[k] \in QueueMsgs(m)
          BY <1>2, <5>1, OrderFacts
        <5> QED BY <5>1, <5>2, <5>3, <5>4, TurnIff
      <4>2. b[m] \in Nat
        OBVIOUS
      <4>3. Walk(c, b[m], b[m], TurnIn(QueueMsgs(m), m))
        BY <2>8, <4>1, <4>2, WalkStay
      <4>4. Walk(s.queue[m], After(module[r][m]), b[m], TurnIn(QueueMsgs(m), m))
        BY <3>1, <3>3
      <4>5. Walk(s.queue[m] \o c, After(module[r][m]), b[m], TurnIn(QueueMsgs(m), m))
        BY ONLY <2>8, <2>9, <4>3, <4>4, WalkConcat
      <4> QED BY <2>10, <3>3, <4>5
    <3> QED BY <3>2, <3>3
  <2>13. ASSUME NEW d \in Fed, NEW i \in ComputeInputs[d]
         PROVE  Walk(q[d], Len(objects[r][i]), count[i], SupplyIn(QueueMsgs(d), i))
    <3>1. /\ Walk(s.queue[d], Len(objects[r][i]), s.count[i], SupplyIn(QueueMsgs(d), i))
          /\ d \in Modules /\ i \in Inputs /\ ModuleOf[i] = d
      BY FedFacts DEF StateOK
    <3>2. CASE d # m
      <4>1. i \notin ComputeInputs[m]
        BY <3>1, <3>2, FedFacts
      <4>2. count[i] = s.count[i] /\ q[d] = s.queue[d]
        BY <2>3, <2>10, <3>1, <3>2, <4>1
      <4> QED BY <3>1, <4>2
    <3>3. CASE d = m
      <4>1. count[i] \in Nat /\ s.count[i] = count[i] + n
        BY <2>3, <2>5, <2>7, <3>1, <3>3
      <4>2. ASSUME NEW a \in Nat
            PROVE  <<a + 1, Execute("ComputeObject", m), a>> \in SupplyIn(QueueMsgs(m), i)
        <5>1. Counts(a + 1, Execute("ComputeObject", m), a, i)
          BY DEF Counts, Execute
        <5>2. Execute("ComputeObject", m) \in QueueMsgs(m) /\ a + 1 \in Nat
          BY <1>2, OrderFacts
        <5> QED BY <5>1, <5>2, SupplyIff
      <4>3. Walk(c, count[i] + n, count[i], SupplyIn(QueueMsgs(m), i))
        BY <2>2, <2>7, <4>1, <4>2, WalkDown
      <4>4. Walk(s.queue[m], Len(objects[r][i]), s.count[i], SupplyIn(QueueMsgs(m), i))
        BY <3>1, <3>3
      <4>5. Walk(c, s.count[i], count[i], SupplyIn(QueueMsgs(m), i))
        BY <4>1, <4>3
      <4>6. Walk(s.queue[m] \o c, Len(objects[r][i]), count[i], SupplyIn(QueueMsgs(m), i))
        BY ONLY <2>8, <2>9, <4>4, <4>5, WalkConcat
      <4> QED BY <2>10, <3>3, <4>6
    <3> QED BY <3>2, <3>3
  <2>14. StateOK([count |-> count, queue |-> q, cast |-> <<>>], r, b)
    BY <2>10, <2>11, <2>12, <2>13 DEF StateOK
  <2> QED BY <2>6, <2>14
<1> QED BY <1>1, <1>2

(* An object is sent to a module and counted.                              *)
Appended(q2, q, m, x) == q2[m] = Append(q[m], x) /\ \A d \in Modules : d # m => q2[d] = q[d]
Arrives(s, i, n) == [Send(s, AddObject(i, n)) EXCEPT !.count[i] = @ + 1]

(* The state of a manager is as it should be after that.                   *)
LEMMA ArrivesKeeps ==
  ASSUME NEW r \in Ranks, NEW i \in Inputs, NEW n \in Nat, NEW s, NEW b \in [Modules -> 0..1],
         StateOK(s, r, b)
  PROVE  /\ StateOK(Arrives(s, i, n), r, b) /\ ModuleOf[i] \in Modules
         /\ AddObject(i, n) \in QueueMsgs(ModuleOf[i])
         /\ Appended(Arrives(s, i, n).queue, s.queue, ModuleOf[i], AddObject(i, n))
<1>1. PICK m \in Modules : m = ModuleOf[i]
  BY PortFacts
<1>2. b \in [Modules -> 0..1]
  OBVIOUS
<1>3. PICK x : x = AddObject(i, n)
  OBVIOUS
<1>4. /\ x.type = "AddObject" /\ x.module = m /\ x.port = i
      /\ x \in QueueMsgs(m)
  BY <1>1, <1>3 DEF AddObject, QueueMsgs, AddMsgs
<1>5. PICK count : count = [s.count EXCEPT ![i] = @ + 1]
  OBVIOUS
<1>6. PICK q : q = [s.queue EXCEPT ![m] = Append(@, x)]
  OBVIOUS
<1>7. s.count \in [Inputs -> Nat] /\ Queues(s.queue) /\ s = [count |-> s.count, queue |-> s.queue, cast |-> <<>>]
  BY DEF StateOK
<1>8. [Send(s, AddObject(i, n)) EXCEPT !.count[i] = @ + 1]
        = [count |-> count, queue |-> q, cast |-> <<>>]
  <2>1. PICK k : k = s.count
    OBVIOUS
  <2>2. PICK w : w = s.queue
    OBVIOUS
  <2>3. s = [count |-> k, queue |-> w, cast |-> <<>>] /\ q = [w EXCEPT ![m] = Append(@, x)]
    BY <1>6, <1>7, <2>1, <2>2
  <2>4. Send(s, x) = [count |-> k, queue |-> q, cast |-> <<>>]
    <3>1. s.queue = w
      BY ONLY <2>3
    <3>2. [s.queue EXCEPT ![x.module] = Append(@, x)] = q
      BY ONLY <1>4, <2>3, <3>1
    <3>3. Send(s, x) = [s EXCEPT !.queue = q]
      BY ONLY <3>2 DEF Send
    <3> QED BY ONLY <2>3, <3>3
  <2>5. [Send(s, x) EXCEPT !.count[i] = @ + 1] = [count |-> count, queue |-> q, cast |-> <<>>]
    <3>1. count = [k EXCEPT ![i] = @ + 1]
      BY <1>5, <2>1
    <3> QED BY ONLY <2>4, <3>1
  <2> QED BY <1>3, <2>5
<1>9. s.queue[m] \in Seq(QueueMsgs(m)) /\ Append(s.queue[m], x) \in Seq(QueueMsgs(m))
  BY <1>4, <1>7, AppendProperties DEF Queues
<1>10. Queues(q) /\ q[m] = Append(s.queue[m], x) /\ \A d \in Modules : d # m => q[d] = s.queue[d]
  <2>1. PICK w : w = s.queue
    OBVIOUS
  <2>2. PICK y : y = Append(w[m], x)
    OBVIOUS
  <2>3. Queues(w) /\ y \in Seq(QueueMsgs(m)) /\ q = Put(w, m, y)
    BY <1>6, <1>7, <1>9, <2>1, <2>2 DEF Put
  <2>4. Queues(q) /\ q[m] = y /\ \A d \in Modules : d # m => q[d] = w[d]
    BY ONLY <2>3, QueuesUpdate
  <2> QED BY <2>1, <2>2, <2>3, <2>4
<1>11. count \in [Inputs -> Nat]
  BY <1>5, <1>7
<1>12. ASSUME NEW d \in Fed
       PROVE  Walk(q[d], After(module[r][d]), b[d], TurnIn(QueueMsgs(d), d))
  <2>1. Walk(s.queue[d], After(module[r][d]), b[d], TurnIn(QueueMsgs(d), d)) /\ d \in Modules
    BY FedFacts DEF StateOK
  <2>2. CASE d # m
    BY <1>10, <2>1, <2>2
  <2>3. CASE d = m
    <3>1. Moves(b[m], x, b[m], m)
      BY <1>4 DEF Moves
    <3>0. b[m] \in 0..1
      BY <1>2
    <3>2. <<b[m], x, b[m]>> \in TurnIn(QueueMsgs(m), m) /\ b[m] \in Nat
      BY <1>4, <3>0, <3>1, TurnIff
    <3>3. Walk(s.queue[m], After(module[r][m]), b[m], TurnIn(QueueMsgs(m), m))
      BY <2>1, <2>3
    <3>4. Walk(Append(s.queue[m], x), After(module[r][m]), b[m], TurnIn(QueueMsgs(m), m))
      BY ONLY <1>4, <1>9, <3>2, <3>3, WalkAppend
    <3> QED BY <1>10, <2>3, <3>4
  <2> QED BY <2>2, <2>3
<1>13. ASSUME NEW d \in Fed, NEW j \in ComputeInputs[d]
       PROVE  Walk(q[d], Len(objects[r][j]), count[j], SupplyIn(QueueMsgs(d), j))
  <2>1. /\ Walk(s.queue[d], Len(objects[r][j]), s.count[j], SupplyIn(QueueMsgs(d), j))
        /\ d \in Modules /\ j \in Inputs /\ ModuleOf[j] = d
    BY FedFacts DEF StateOK
  <2>2. CASE d # m
    <3>1. j # i
      BY <1>1, <2>1, <2>2
    <3>2. count[j] = s.count[j] /\ q[d] = s.queue[d]
      BY <1>5, <1>7, <1>10, <2>1, <2>2, <3>1
    <3> QED BY <2>1, <3>2
  <2>3. CASE d = m
    <3>1. s.count[j] \in Nat /\ count[j] \in Nat /\ count[j] = IF i = j THEN s.count[j] + 1 ELSE s.count[j]
      BY <1>5, <1>7, <2>1
    <3>2. Counts(s.count[j], x, count[j], j)
      BY <1>4, <3>1 DEF Counts
    <3>3. <<s.count[j], x, count[j]>> \in SupplyIn(QueueMsgs(m), j)
      BY <1>4, <3>1, <3>2, SupplyIff
    <3>4. Walk(s.queue[m], Len(objects[r][j]), s.count[j], SupplyIn(QueueMsgs(m), j))
      BY <2>1, <2>3
    <3>5. Walk(Append(s.queue[m], x), Len(objects[r][j]), count[j], SupplyIn(QueueMsgs(m), j))
      BY ONLY <1>4, <1>9, <3>1, <3>3, <3>4, WalkAppend
    <3> QED BY <1>10, <2>3, <3>5
  <2> QED BY <2>2, <2>3
<1>14. PICK t : t = [count |-> count, queue |-> q, cast |-> <<>>]
  OBVIOUS
<1>15. StateOK(t, r, b)
  BY <1>10, <1>11, <1>12, <1>13, <1>14 DEF StateOK
<1>16. t = Arrives(s, i, n)
  BY <1>8, <1>14 DEF Arrives
<1>17. t.queue = q
  BY ONLY <1>14
<1>18. Appended(Arrives(s, i, n).queue, s.queue, m, x)
  BY <1>10, <1>16, <1>17 DEF Appended
<1> QED BY <1>1, <1>3, <1>4, <1>15, <1>16, <1>18

(* addObjectDestination for one input, and for all of them.                *)
LEMMA DeliverKeeps ==
  ASSUME Steering, NEW r \in Ranks, NEW i \in Inputs, NEW n \in Nat, NEW s, NEW b, StateOK(s, r, b),
         b = [m \in Modules |-> One(mod[r][m].prepared)]
  PROVE  StateOK(Deliver(r, n, i, s), r, b)
<1>1. PICK m, t : m = ModuleOf[i] /\ t = Arrives(s, i, n)
  OBVIOUS
<1>2. b \in [Modules -> 0..1] /\ (m \in Modules /\ m \in Fed /\ IsReadyForExecute(r, m) => b[m] = 1)
  BY DEF Steering, IsReadyForExecute, One
<1>3. StateOK(t, r, b) /\ m \in Modules
  BY <1>1, <1>2, ArrivesKeeps
<1>4. StateOK(CheckExecuteObject(r, m, IsReadyForExecute(r, m), t), r, b)
  BY <1>2, <1>3, CheckKeeps
<1> QED BY <1>1, <1>4 DEF Deliver, Arrives

States(r, b) ==
  {s \in [count : [Inputs -> Nat],
          queue : [Modules -> UNION {Seq(QueueMsgs(m)) : m \in Modules}], cast : {<<>>}] : StateOK(s, r, b)}

(* StateOK says also that its argument is a state of a manager.            *)
LEMMA StatesIff ==
  ASSUME NEW r, NEW b, NEW s
  PROVE  s \in States(r, b) <=> StateOK(s, r, b)
<1>1. ASSUME StateOK(s, r, b)
      PROVE  s \in [count : [Inputs -> Nat],
                    queue : [Modules -> UNION {Seq(QueueMsgs(m)) : m \in Modules}], cast : {<<>>}]
  <2>1. /\ s = [count |-> s.count, queue |-> s.queue, cast |-> <<>>]
        /\ s.count \in [Inputs -> Nat]
        /\ s.queue \in [Modules -> UNION {Seq(QueueMsgs(m)) : m \in Modules}]
    BY <1>1 DEF StateOK, Queues
  <2> QED BY <2>1
<1> QED BY <1>1 DEF States

(* The state of a manager that sends n to some inputs stays in V.          *)
DeliveredIn(r, n, ins, V) ==
  \E f \in [0..Len(ins) -> V] :
    /\ f[0] = Local(r) /\ f[Len(ins)] = DeliverAll(r, n, ins, Len(ins))
    /\ \A j \in 1..Len(ins) : f[j] = Deliver(r, n, ins[j], f[j - 1])

(* addObjectDestination for all inputs that are connected to an output, one*)
(* by one.                                                                 *)
LEMMA DeliverAllSteps ==
  ASSUME NEW r, NEW n, NEW ins \in Seq(Inputs), NEW V, Local(r) \in V,
         \A i \in Inputs : \A s \in V : Deliver(r, n, i, s) \in V
  PROVE  DeliveredIn(r, n, ins, V)
<1>1. PICK k \in Nat : k = Len(ins)
  OBVIOUS
<1>2. \A j \in 1..k : ins[j] \in Inputs
  BY <1>1
<1>3. ASSUME NEW j \in 1..k, NEW s \in V PROVE Deliver(r, n, ins[j], s) \in V
  BY <1>2
<1>4. Local(r) \in V
  OBVIOUS
<1> DEFINE g == [j \in 1..k |-> [s \in V |-> Deliver(r, n, ins[j], s)]]
<1>5. g \in [1..k -> [V -> V]]
  BY <1>3
<1>6. \A j \in 1..k, s \in V : g[j][s] = Deliver(r, n, ins[j], s)
  OBVIOUS
<1> HIDE DEF g
<1>7. \E h : Iterates(h, k, V, Local(r), g)
  BY ONLY <1>1, <1>4, <1>5, Recursion
<1>8. PICK h \in [0..k -> V] : h[0] = Local(r) /\ \A j \in 1..k : h[j] = g[j][h[j - 1]]
  BY <1>7 DEF Iterates
<1>9. ASSUME NEW j \in 1..k PROVE h[j] = Deliver(r, n, ins[j], h[j - 1])
  <2>1. h[j - 1] \in V
    <3>1. j - 1 \in 0..k
      BY <1>1
    <3> QED BY <1>8, <3>1
  <2> QED BY <1>6, <1>8, <2>1
<1>10. h = [j \in 0..k |-> IF j = 0 THEN Local(r) ELSE Deliver(r, n, ins[j], h[j - 1])]
  <2>1. \A j \in 0..k : j # 0 => j \in 1..k
    BY <1>1
  <2>2. \A j \in 0..k : h[j] = IF j = 0 THEN Local(r) ELSE Deliver(r, n, ins[j], h[j - 1])
    BY <1>8, <1>9, <2>1
  <2> QED BY <1>8, <2>2
<1>11. PICK f : /\ f = [j \in 0..k |-> IF j = 0 THEN Local(r) ELSE Deliver(r, n, ins[j], f[j - 1])]
                /\ DeliverAll(r, n, ins, k) = f[k]
  BY <1>10 DEF DeliverAll
<1>12. \A j \in 0..k : f[j] = IF j = 0 THEN Local(r) ELSE Deliver(r, n, ins[j], f[j - 1])
  BY <1>11
<1> DEFINE K == {j \in 0..k : f[j] \in V}
<1>13. 0 \in K
  BY <1>1, <1>4, <1>12
<1>14. ASSUME NEW j \in 0..k, j < k, j \in K PROVE j + 1 \in K
  <2>1. j + 1 \in 1..k /\ j + 1 \in 0..k /\ j + 1 # 0 /\ (j + 1) - 1 = j
    BY <1>1, <1>14
  <2>2. f[j + 1] = Deliver(r, n, ins[j + 1], f[j])
    BY <1>12, <2>1
  <2>3. f[j] \in V
    BY <1>14
  <2>4. Deliver(r, n, ins[j + 1], f[j]) \in V
    BY <1>3, <2>1, <2>3
  <2> QED BY <2>1, <2>2, <2>4
<1> HIDE DEF K
<1>15. \A j \in 0..k : f[j] \in V
  <2>1. \A j \in 0..k : j \in K
    BY <1>1, <1>13, <1>14, UpTo
  <2> QED BY <2>1 DEF K
<1>16. f \in [0..k -> V]
  BY <1>11, <1>15
<1>17. \A j \in 1..k : f[j] = Deliver(r, n, ins[j], f[j - 1])
  BY <1>1, <1>12
<1>18. f[0] = Local(r)
  BY <1>1, <1>12
<1> QED BY <1>1, <1>11, <1>16, <1>17, <1>18 DEF DeliveredIn

(* It keeps what it keeps for one.                                         *)
LEMMA DeliverAllIn ==
  ASSUME NEW r, NEW n, NEW ins \in Seq(Inputs), NEW V, Local(r) \in V,
         \A i \in Inputs : \A s \in V : Deliver(r, n, i, s) \in V
  PROVE  DeliverAll(r, n, ins, Len(ins)) \in V
<1>1. PICK f \in [0..Len(ins) -> V] : f[Len(ins)] = DeliverAll(r, n, ins, Len(ins))
  BY DeliverAllSteps DEF DeliveredIn
<1>2. Len(ins) \in 0..Len(ins)
  OBVIOUS
<1> QED BY <1>1, <1>2

(* So it keeps the state of the manager.                                   *)
LEMMA DeliverAllKeeps ==
  ASSUME Steering, NEW r \in Ranks, NEW n \in Nat, NEW ins \in Seq(Inputs), NEW b, StateOK(Local(r), r, b),
         b = [m \in Modules |-> One(mod[r][m].prepared)]
  PROVE  StateOK(DeliverAll(r, n, ins, Len(ins)), r, b)
<1>1. PICK V : V = States(r, b)
  OBVIOUS
<1>2. ASSUME NEW i \in Inputs, NEW s \in V PROVE Deliver(r, n, i, s) \in V
  <2>1. StateOK(s, r, b)
    BY <1>1, <1>2, StatesIff
  <2>2. StateOK(Deliver(r, n, i, s), r, b)
    BY <2>1, DeliverKeeps
  <2> QED BY <1>1, <2>2, StatesIff
<1>3. Local(r) \in V
  BY <1>1, StatesIff
<1>4. DeliverAll(r, n, ins, Len(ins)) \in V
  BY ONLY <1>2, <1>3, ins \in Seq(Inputs), DeliverAllIn
<1> QED BY <1>1, <1>4, StatesIff
-----------------------------------------------------------------------------
(***************************************************************************)
(* Rank 0 and the progress of the modules.  open tells which modules are   *)
(* prepared once all managers have handled what rank 0 has broadcast.      *)
(***************************************************************************)
Running(m) == IF ranksStarted[m] >= NumRanks THEN 1 ELSE 0

ResetsOK(open) ==
  \A d \in Fed :
    /\ \A i \in ComputeInputs[d] : numReset[i] + open[d] = numFinish[i] + Running(Feeder(i))
    /\ \E i \in ComputeInputs[d] : numReset[i] = 0
    /\ \E i \in ComputeInputs[d] : numFinish[i] = 0

(* There are finitely many connections, so that they can be counted.       *)
LEMMA ConnectionsFinite ==
  /\ IsFiniteSet(Connections)
  /\ \A m, d \in Modules : IsFiniteSet(Links[m][d]) /\ Cardinality(Links[m][d]) \in Nat
       /\ (Links[m][d] = {} <=> Cardinality(Links[m][d]) = 0)
  /\ \A m \in Modules, i \in Inputs :
       Cardinality({c \in Connections : ModuleOf[c[1]] = m /\ c[2] = i}) \in Nat
<1>1. IsFiniteSet(Outputs) /\ IsFiniteSet(Inputs)
  BY ExecutionAssumption, FS_Subset DEF Ports
<1>2. IsFiniteSet(Outputs \X Inputs)
  BY <1>1, FS_Product
<1>3. IsFiniteSet(Connections)
  BY <1>2, ExecutionAssumption, FS_Subset
<1>4. ASSUME NEW S \in SUBSET Connections
      PROVE  IsFiniteSet(S) /\ Cardinality(S) \in Nat /\ (S = {} <=> Cardinality(S) = 0)
  BY <1>3, FS_Subset, FS_CardinalityType, FS_EmptySet
<1>5. \A m, d \in Modules : Links[m][d] \in SUBSET Connections
  BY DEF Links
<1>6. \A m \in Modules, i \in Inputs :
        {c \in Connections : ModuleOf[c[1]] = m /\ c[2] = i} \in SUBSET Connections
  OBVIOUS
<1> QED BY <1>3, <1>4, <1>5, <1>6

(* An input has one connection, from a module.                             *)
LEMMA FeederFacts ==
  ASSUME Steering, NEW d \in Fed, NEW i \in ComputeInputs[d]
  PROVE  /\ Feeder(i) \in Modules
         /\ \A m \in Modules : Cardinality({c \in Connections : ModuleOf[c[1]] = m /\ c[2] = i})
                                 = IF Feeder(i) = m THEN 1 ELSE 0
         /\ Links[Feeder(i)][d] # {}
<1>1. i \in Inputs \ NoCompute /\ d \in Modules /\ \E o \in Outputs : <<o, i>> \in Connections
  BY FedFacts DEF ComputeInputs
<1>2. PICK c : c = CHOOSE x \in Connections : x[2] = i
  OBVIOUS
<1>3. c \in Connections /\ c[2] = i
  <2>1. \E x \in Connections : x[2] = i
    BY <1>1
  <2> QED BY <1>2, <2>1
<1>4. \A x \in Connections : x[2] = i => x = c
  BY <1>1, <1>3 DEF Steering
<1>5. Feeder(i) = ModuleOf[c[1]] /\ c[1] \in Outputs
  BY <1>2, <1>3, ExecutionAssumption DEF Feeder
<1>6. Feeder(i) \in Modules
  BY <1>5, PortFacts
<1>7. ASSUME NEW m \in Modules
      PROVE  Cardinality({x \in Connections : ModuleOf[x[1]] = m /\ x[2] = i})
               = IF Feeder(i) = m THEN 1 ELSE 0
  <2>1. CASE Feeder(i) = m
    <3>1. {x \in Connections : ModuleOf[x[1]] = m /\ x[2] = i} = {c}
      BY <1>3, <1>4, <1>5, <2>1
    <3> QED BY <2>1, <3>1, FS_Singleton
  <2>2. CASE Feeder(i) # m
    <3>1. {x \in Connections : ModuleOf[x[1]] = m /\ x[2] = i} = {}
      BY <1>3, <1>4, <1>5, <2>2
    <3> QED BY <2>2, <3>1, FS_EmptySet
  <2> QED BY <2>1, <2>2
<1>8. c \in Links[Feeder(i)][d]
  BY <1>1, <1>3, <1>5, <1>6 DEF Links
<1> QED BY <1>6, <1>7, <1>8

(* The counters of the inputs that are fed by m.                           *)
LEMMA AdvancedIs ==
  ASSUME Steering, NEW counter \in [Inputs -> Nat], NEW m \in Modules, NEW all
  PROVE  /\ Advanced(counter, m, all) \in [Inputs -> Nat]
         /\ \A d \in Fed : \A i \in ComputeInputs[d] :
              Advanced(counter, m, all)[i]
                = IF all /\ Feeder(i) = m THEN counter[i] + 1 ELSE counter[i]
<1>1. Advanced(counter, m, all) \in [Inputs -> Nat]
  BY ConnectionsFinite DEF Advanced
<1>2. ASSUME NEW d \in Fed, NEW i \in ComputeInputs[d]
      PROVE  Advanced(counter, m, all)[i] = IF all /\ Feeder(i) = m THEN counter[i] + 1 ELSE counter[i]
  <2>1. i \in Inputs /\ i \notin NoCompute
    BY FedFacts
  <2>2. PICK n : n = Cardinality({c \in Connections : ModuleOf[c[1]] = m /\ c[2] = i})
    OBVIOUS
  <2>3. n = IF Feeder(i) = m THEN 1 ELSE 0
    BY <2>2, FeederFacts
  <2>4. Advanced(counter, m, all)[i] = IF all THEN counter[i] + n ELSE counter[i]
    BY <2>1, <2>2 DEF Advanced
  <2>5. counter[i] \in Nat
    BY <2>1
  <2> QED BY <2>3, <2>4, <2>5
<1> QED BY <1>1, <1>2

(* A module goes on once all its inputs are ready.                         *)
LEMMA RoundsIs ==
  ASSUME Steering, NEW counter \in [Inputs -> Nat], NEW m \in Modules, NEW d \in Fed
  PROVE  /\ Links[m][d] = {} => Rounds(counter, m, d) = 0
         /\ (\E i \in ComputeInputs[d] : counter[i] = 0) => Rounds(counter, m, d) = 0
         /\ Links[m][d] # {} /\ (\A i \in ComputeInputs[d] : counter[i] >= 1)
              /\ (\E i \in ComputeInputs[d] : counter[i] = 1) => Rounds(counter, m, d) = 1
<1>1. Steered(d) /\ d \in Modules
  BY FedFacts DEF Steering, Steered
<1>2. CASE Links[m][d] = {}
  <2>1. Rounds(counter, m, d) = 0
    BY <1>2 DEF Rounds
  <2> QED BY <1>2, <2>1
<1>3. CASE Links[m][d] # {}
  <2>1. PICK n : n = Cardinality(Links[m][d])
    OBVIOUS
  <2>2. n \in Nat /\ n >= 1
    BY <1>1, <1>3, <2>1, ConnectionsFinite
  <2>3. PICK S : S = {n} \cup {counter[i] : i \in ComputeInputs[d]}
    OBVIOUS
  <2>4. Rounds(counter, m, d) = Min(S)
    BY <1>1, <1>3, <2>1, <2>3 DEF Rounds
  <2>5. \A i \in ComputeInputs[d] : counter[i] \in Nat /\ counter[i] \in S
    BY <1>1, <2>3, FedFacts
  <2>6. S \subseteq Nat /\ S # {}
    BY <2>2, <2>3, <2>5
  <2>7. Min(S) \in S /\ (\A y \in S : Min(S) <= y) /\ Min(S) \in Nat
    BY <2>6, LeastIs
  <2>8. Min(S) = n \/ \E i \in ComputeInputs[d] : Min(S) = counter[i]
    BY <2>3, <2>7
  <2>9. ASSUME NEW i \in ComputeInputs[d], counter[i] = 0
        PROVE  Rounds(counter, m, d) = 0
    BY <2>4, <2>5, <2>7, <2>9
  <2>10. ASSUME \A i \in ComputeInputs[d] : counter[i] >= 1,
                NEW i \in ComputeInputs[d], counter[i] = 1
         PROVE  Rounds(counter, m, d) = 1
    <3>1. Min(S) <= 1
      BY <2>5, <2>7, <2>10
    <3>2. Min(S) >= 1
      BY <2>2, <2>8, <2>10
    <3> QED BY <2>4, <2>7, <3>1, <3>2
  <2> QED BY <1>3, <2>9, <2>10
<1> QED BY <1>2, <1>3

(* What happens to one module when the progress of m has been counted: the *)
(* inputs of d are reset (x) or finished (y), and m is running or not (w). *)
(* Either d goes on, and is open from then on or not, or nothing happens.  *)
Goes(a, b, m, d, x, y, o, w) ==
  /\ Rounds(x, m, d) = a /\ Rounds(y, m, d) = b
  /\ o + a - b \in 0..1 /\ (a = 1 => b = 0 /\ o = 0) /\ (b = 1 => a = 0 /\ o = 1)
  /\ \A i \in ComputeInputs[d] : x[i] - a \in Nat /\ y[i] - b \in Nat
                                   /\ (x[i] - a) + (o + a - b) = (y[i] - b) + w[i]
  /\ \E i \in ComputeInputs[d] : x[i] - a = 0
  /\ \E i \in ComputeInputs[d] : y[i] - b = 0

(* When the progress of m has been counted, a module d downstream goes on  *)
(* or it does not.                                                         *)
LEMMA OneRound ==
  ASSUME Steering, NEW m \in Modules, NEW d \in Fed,
         NEW x \in [Inputs -> Nat], NEW y \in [Inputs -> Nat], NEW o \in 0..1, NEW w \in [Inputs -> 0..1],
         NEW x0 \in [Inputs -> Nat], NEW y0 \in [Inputs -> Nat],
         \A i \in ComputeInputs[d] : x[i] + o = y[i] + w[i],
         \E i \in ComputeInputs[d] : x0[i] = 0, \E i \in ComputeInputs[d] : y0[i] = 0,
         \A i \in ComputeInputs[d] : x[i] <= x0[i] + 1 /\ y[i] <= y0[i] + 1,
         (\A i \in ComputeInputs[d] : x[i] = x0[i]) \/ (\A i \in ComputeInputs[d] : y[i] = y0[i]),
         Links[m][d] = {} => \A i \in ComputeInputs[d] : x[i] = x0[i] /\ y[i] = y0[i]
  PROVE  \E a, b \in 0..1 : Goes(a, b, m, d, x, y, o, w)
<1>1. /\ \A i \in ComputeInputs[d] : x[i] \in Nat /\ y[i] \in Nat /\ x0[i] \in Nat /\ y0[i] \in Nat
                                       /\ w[i] \in 0..1
      /\ ComputeInputs[d] # {}
  BY FedFacts
<1>2. PICK j \in ComputeInputs[d] : x0[j] = 0
  OBVIOUS
<1>3. PICK k \in ComputeInputs[d] : y0[k] = 0
  OBVIOUS
<1>4. x[j] <= 1 /\ y[k] <= 1
  BY <1>1, <1>2, <1>3
<1>5. CASE (\E i \in ComputeInputs[d] : x[i] = 0) /\ (\E i \in ComputeInputs[d] : y[i] = 0)
  <2>1. Rounds(x, m, d) = 0 /\ Rounds(y, m, d) = 0
    BY <1>5, RoundsIs
  <2>2. \A i \in ComputeInputs[d] : x[i] - 0 = x[i] /\ y[i] - 0 = y[i] /\ o + 0 - 0 = o
    BY <1>1
  <2>3. Goes(0, 0, m, d, x, y, o, w)
    BY <1>1, <1>5, <2>1, <2>2 DEF Goes
  <2> QED BY <2>3
<1>6. CASE \A i \in ComputeInputs[d] : x[i] # 0
  <2>1. Links[m][d] # {} /\ \A i \in ComputeInputs[d] : y[i] = y0[i]
    BY <1>2, <1>6
  <2>2. y[k] = 0 /\ x[j] = 1 /\ \A i \in ComputeInputs[d] : x[i] >= 1
    BY <1>1, <1>3, <1>4, <1>6, <2>1
  <2>3. Rounds(x, m, d) = 1
    BY <2>1, <2>2, RoundsIs
  <2>4. Rounds(y, m, d) = 0
    BY <2>2, RoundsIs
  <2>5. o = 0
    BY <1>1, <2>2
  <2>6. \A i \in ComputeInputs[d] : x[i] - 1 \in Nat /\ y[i] - 0 \in Nat
                                      /\ (x[i] - 1) + (o + 1 - 0) = (y[i] - 0) + w[i]
    BY <1>1, <2>2, <2>5
  <2>7. x[j] - 1 = 0 /\ y[k] - 0 = 0 /\ o + 1 - 0 \in 0..1
    BY <2>2, <2>5
  <2>8. Goes(1, 0, m, d, x, y, o, w)
    BY <2>3, <2>4, <2>5, <2>6, <2>7 DEF Goes
  <2> QED BY <2>8
<1>7. CASE \A i \in ComputeInputs[d] : y[i] # 0
  <2>1. Links[m][d] # {} /\ \A i \in ComputeInputs[d] : x[i] = x0[i]
    BY <1>3, <1>7
  <2>2. x[j] = 0 /\ y[k] = 1 /\ \A i \in ComputeInputs[d] : y[i] >= 1
    BY <1>1, <1>2, <1>4, <1>7, <2>1
  <2>3. Rounds(y, m, d) = 1
    BY <2>1, <2>2, RoundsIs
  <2>4. Rounds(x, m, d) = 0
    BY <2>2, RoundsIs
  <2>5. o = 1
    BY <1>1, <2>2
  <2>6. \A i \in ComputeInputs[d] : x[i] - 0 \in Nat /\ y[i] - 1 \in Nat
                                      /\ (x[i] - 0) + (o + 0 - 1) = (y[i] - 1) + w[i]
    BY <1>1, <2>2, <2>5
  <2>7. x[j] - 0 = 0 /\ y[k] - 1 = 0 /\ o + 0 - 1 \in 0..1
    BY <2>2, <2>5
  <2>8. Goes(0, 1, m, d, x, y, o, w)
    BY <2>3, <2>4, <2>5, <2>6, <2>7 DEF Goes
  <2> QED BY <2>8
<1>8. \/ (\E i \in ComputeInputs[d] : x[i] = 0) /\ (\E i \in ComputeInputs[d] : y[i] = 0)
      \/ \A i \in ComputeInputs[d] : x[i] # 0
      \/ \A i \in ComputeInputs[d] : y[i] # 0
  OBVIOUS
<1> QED BY ONLY <1>5, <1>6, <1>7, <1>8

(* What is broadcast for d is one order at most, as the round says.        *)
LEMMA StepsAre ==
  ASSUME Steering, NEW m \in Modules, NEW d \in Fed, NEW x, NEW y, NEW a \in 0..1, NEW b \in 0..1,
         Links[m][d] # {}, Rounds(x, m, d) = a, Rounds(y, m, d) = b, a = 1 => b = 0
  PROVE  /\ Steps(m, d, x, y) \in Seq(DownMsgs)
         /\ \A R : \A o, z \in Nat :
              /\ a = 1 => <<o, Execute("Prepare", d), z>> \in R
              /\ b = 1 => <<o, Execute("Reduce", d), z>> \in R
              /\ a = 0 /\ b = 0 => o = z
              => Walk(Steps(m, d, x, y), o, z, R)
<1>1. PICK n : n = Cardinality(Links[m][d])
  OBVIOUS
<1>2. d \in Modules /\ n \in Nat /\ n >= 1
  <2>1. d \in Modules
    BY FedFacts
  <2>2. n \in Nat /\ n # 0
    BY <1>1, <2>1, ConnectionsFinite
  <2> QED BY <2>1, <2>2
<1>3. PICK p : p = Execute("Prepare", d)
  OBVIOUS
<1>4. PICK q : q = Execute("Reduce", d)
  OBVIOUS
<1>5. p \in DownMsgs /\ q \in DownMsgs
  BY <1>2, <1>3, <1>4, OrderFacts
<1>6. Flush(d) = 0
  BY DEF Flush, Steering
<1>7. Repeat(0, Execute("ComputeObject", d)) = <<>>
  BY RepeatSeq
<1> DEFINE ss == [k \in 1..n |->
             (IF k <= a THEN <<p>> ELSE <<>>) \o
             (IF k <= b THEN Repeat(IF k = 1 THEN 0 ELSE 0, Execute("ComputeObject", d)) \o <<q>> ELSE <<>>)]
<1>8. Steps(m, d, x, y) = FlattenSeq(ss)
  BY <1>1, <1>3, <1>4, <1>6 DEF Steps
<1>9. ASSUME NEW k \in 1..n
      PROVE  ss[k] = IF k = 1 THEN (IF a = 1 THEN <<p>> ELSE IF b = 1 THEN <<q>> ELSE <<>>) ELSE <<>>
  <2>1. ss[k] = (IF k <= a THEN <<p>> ELSE <<>>) \o (IF k <= b THEN <<>> \o <<q>> ELSE <<>>)
    BY <1>7
  <2>2. <<>> \o <<q>> = <<q>> /\ <<p>> \o <<>> = <<p>> /\ <<>> \o <<>> = <<>>
    OBVIOUS
  <2> HIDE DEF ss
  <2>3. CASE k # 1
    <3>1. ~(k <= a) /\ ~(k <= b)
      BY <1>2, <2>3
    <3> QED BY <2>1, <2>2, <2>3, <3>1
  <2>4. CASE k = 1 /\ a = 1
    <3>1. k <= a /\ ~(k <= b)
      BY <2>4
    <3> QED BY <2>1, <2>2, <2>4, <3>1
  <2>5. CASE k = 1 /\ a = 0 /\ b = 1
    <3>1. ~(k <= a) /\ k <= b
      BY <2>5
    <3> QED BY <2>1, <2>2, <2>5, <3>1
  <2>6. CASE k = 1 /\ a = 0 /\ b = 0
    <3>1. ~(k <= a) /\ ~(k <= b)
      BY <2>6
    <3> QED BY <2>1, <2>2, <2>6, <3>1
  <2>7. (a = 0 \/ a = 1) /\ (b = 0 \/ b = 1)
    OBVIOUS
  <2> QED BY <2>3, <2>4, <2>5, <2>6, <2>7
<1>101. ss = [k \in 1..n |-> ss[k]]
  OBVIOUS
<1> HIDE DEF ss
<1>10. ASSUME NEW k \in 1..n PROVE ss[k] \in Seq(DownMsgs)
  <2>1. <<p>> \in Seq(DownMsgs) /\ <<q>> \in Seq(DownMsgs) /\ <<>> \in Seq(DownMsgs)
    BY <1>5
  <2> QED BY <1>9, <2>1
<1>11. ss \in Seq(Seq(DownMsgs)) /\ Len(ss) = n
  BY <1>2, <1>10, <1>101
<1>12. /\ FlattenSeq(ss) \in Seq(DownMsgs)
       /\ \A R : \A c \in [0..Len(ss) -> Nat] :
            (\A k \in 1..Len(ss) : Walk(ss[k], c[k - 1], c[k], R))
              => Walk(FlattenSeq(ss), c[0], c[Len(ss)], R)
  BY <1>11, Flattened
<1>13. ASSUME NEW R, NEW o \in Nat, NEW z \in Nat,
              a = 1 => <<o, p, z>> \in R, b = 1 => <<o, q, z>> \in R, a = 0 /\ b = 0 => o = z
       PROVE  Walk(FlattenSeq(ss), o, z, R)
  <2> DEFINE c == [k \in 0..n |-> IF k = 0 THEN o ELSE z]
  <2>1. c \in [0..Len(ss) -> Nat] /\ c[0] = o /\ c[n] = z
    BY <1>2, <1>11
  <2>2. ASSUME NEW k \in 1..n PROVE Walk(ss[k], c[k - 1], c[k], R)
    <3>1. c[k] = z /\ c[k - 1] = (IF k = 1 THEN o ELSE z) /\ c[k] \in Nat
      BY <1>2
    <3> HIDE DEF c
    <3>2. CASE k # 1
      BY <1>9, <3>1, <3>2, WalkEmpty
    <3>3. CASE k = 1 /\ a = 1
      <4>1. ss[k] = <<p>> /\ c[k - 1] = o /\ c[k] = z
        BY <1>9, <3>1, <3>3
      <4> QED BY <1>13, <3>3, <4>1, WalkOne
    <3>4. CASE k = 1 /\ b = 1
      <4>1. ss[k] = <<q>> /\ c[k - 1] = o /\ c[k] = z
        BY <1>9, <3>1, <3>4
      <4> QED BY <1>13, <3>4, <4>1, WalkOne
    <3>5. CASE k = 1 /\ a = 0 /\ b = 0
      <4>1. ss[k] = <<>> /\ c[k - 1] = c[k]
        BY <1>9, <1>13, <3>1, <3>5
      <4> QED BY <3>1, <4>1, WalkEmpty
    <3>6. (a = 0 \/ a = 1) /\ (b = 0 \/ b = 1)
      OBVIOUS
    <3> QED BY <3>2, <3>3, <3>4, <3>5, <3>6
  <2> HIDE DEF c
  <2>3. Walk(FlattenSeq(ss), c[0], c[Len(ss)], R)
    BY <1>11, <1>12, <2>1, <2>2
  <2> QED BY <1>11, <2>1, <2>3
<1> QED BY <1>3, <1>4, <1>8, <1>12, <1>13

(* What rank 0 broadcasts for all modules downstream of m.                 *)
Opened(open, m, x, y) ==
  [d \in Modules |-> IF d \in Fed THEN open[d] + Rounds(x, m, d) - Rounds(y, m, d) ELSE open[d]]

(* What rank 0 broadcasts takes module e from o to z, as R counts.         *)
Changes(R, m, e, x, y, o, z) ==
  /\ \A d \in Fed : d # e => \A v \in {o, z} :
       <<v, Execute("Prepare", d), v>> \in R /\ <<v, Execute("Reduce", d), v>> \in R
  /\ e \in Fed /\ Rounds(x, m, e) = 1 => <<o, Execute("Prepare", e), z>> \in R
  /\ e \in Fed /\ Rounds(y, m, e) = 1 => <<o, Execute("Reduce", e), z>> \in R
  /\ (e \in Fed => Rounds(x, m, e) = 0 /\ Rounds(y, m, e) = 0) => o = z

(* What is broadcast for all modules downstream is an order to each that   *)
(* goes on.                                                                *)
LEMMA AllStepsAre ==
  ASSUME Steering, NEW m \in Modules, NEW x, NEW y, NEW w, NEW open \in [Modules -> 0..1],
         \A d \in Fed : \E a, b \in 0..1 : Goes(a, b, m, d, x, y, open[d], w)
  PROVE  LET msgs == FlattenSeq([k \in DOMAIN Downstream[m] |-> Steps(m, Downstream[m][k], x, y)])
         IN  /\ msgs \in Seq(DownMsgs)
             /\ \A R : \A e \in Modules : \A o, z \in Nat :
                  Changes(R, m, e, x, y, o, z) => Walk(msgs, o, z, R)
<1>1. PICK D : D = Downstream[m]
  OBVIOUS
<1>2. PICK S : S = {d \in Modules : Links[m][d] # {}}
  OBVIOUS
<1>3. D = SetToSeq(S) /\ IsFiniteSet(S)
  <2>1. IsFiniteSet(S)
    BY <1>2, ExecutionAssumption, FS_Subset
  <2> QED BY <1>1, <1>2, <2>1 DEF Downstream
<1>4. /\ D \in Seq(S) /\ \A d \in S : \E k \in 1..Len(D) : D[k] = d
      /\ \A j, k \in 1..Len(D) : D[j] = D[k] => j = k
  BY <1>3, Listed
<1>5. PICK n \in Nat : n = Len(D)
  BY <1>4
<1>6. DOMAIN D = 1..n /\ \A k \in 1..n : D[k] \in S
  BY <1>4, <1>5
<1>7. S \subseteq Fed
  BY <1>2 DEF Links, Fed
<1>8. ASSUME NEW d \in Fed
      PROVE  /\ Rounds(x, m, d) \in 0..1 /\ Rounds(y, m, d) \in 0..1
             /\ Rounds(x, m, d) = 1 => Rounds(y, m, d) = 0
             /\ d \notin S => Rounds(x, m, d) = 0 /\ Rounds(y, m, d) = 0
  <2>1. d \in Modules
    BY FedFacts
  <2>2. PICK a \in 0..1, b \in 0..1 : Goes(a, b, m, d, x, y, open[d], w)
    OBVIOUS
  <2>3. Rounds(x, m, d) = a /\ Rounds(y, m, d) = b /\ (a = 1 => b = 0)
    BY <2>2 DEF Goes
  <2>4. d \notin S => Rounds(x, m, d) = 0 /\ Rounds(y, m, d) = 0
    BY <1>2, <2>1 DEF Rounds
  <2> QED BY <2>3, <2>4
<1> DEFINE ss == [k \in 1..n |-> Steps(m, D[k], x, y)]
<1>11. [k \in DOMAIN Downstream[m] |-> Steps(m, Downstream[m][k], x, y)] = ss
  BY <1>1, <1>6
<1>12. \A k \in 1..n : ss[k] = Steps(m, D[k], x, y)
  OBVIOUS
<1>13. ss = [k \in 1..n |-> ss[k]]
  OBVIOUS
<1> HIDE DEF ss
<1>14. ASSUME NEW k \in 1..n
       PROVE  /\ ss[k] \in Seq(DownMsgs) /\ D[k] \in Fed
              /\ \A R : \A o, z \in Nat :
                   /\ Rounds(x, m, D[k]) = 1 => <<o, Execute("Prepare", D[k]), z>> \in R
                   /\ Rounds(y, m, D[k]) = 1 => <<o, Execute("Reduce", D[k]), z>> \in R
                   /\ Rounds(x, m, D[k]) = 0 /\ Rounds(y, m, D[k]) = 0 => o = z
                   => Walk(ss[k], o, z, R)
  <2>1. PICK d : d = D[k]
    OBVIOUS
  <2>2. d \in S /\ d \in Fed /\ Links[m][d] # {} /\ ss[k] = Steps(m, d, x, y)
    BY <1>2, <1>6, <1>7, <1>12, <2>1
  <2>3. PICK a, b : a = Rounds(x, m, d) /\ b = Rounds(y, m, d)
    OBVIOUS
  <2>4. a \in 0..1 /\ b \in 0..1 /\ (a = 1 => b = 0) /\ Rounds(x, m, d) = a /\ Rounds(y, m, d) = b
    BY <1>8, <2>2, <2>3
  <2>5. /\ Steps(m, d, x, y) \in Seq(DownMsgs)
        /\ \A R : \A o, z \in Nat :
             /\ a = 1 => <<o, Execute("Prepare", d), z>> \in R
             /\ b = 1 => <<o, Execute("Reduce", d), z>> \in R
             /\ a = 0 /\ b = 0 => o = z
             => Walk(Steps(m, d, x, y), o, z, R)
    BY ONLY Steering, m \in Modules, <2>2, <2>4, StepsAre
  <2> QED BY <2>1, <2>2, <2>4, <2>5
<1>15. ss \in Seq(Seq(DownMsgs)) /\ Len(ss) = n
  <2>1. \A k \in 1..n : ss[k] \in Seq(DownMsgs)
    BY <1>14
  <2> QED BY <1>13, <2>1
<1>16. /\ FlattenSeq(ss) \in Seq(DownMsgs)
       /\ \A R : \A c \in [0..Len(ss) -> Nat] :
            (\A k \in 1..Len(ss) : Walk(ss[k], c[k - 1], c[k], R))
              => Walk(FlattenSeq(ss), c[0], c[Len(ss)], R)
  BY <1>15, Flattened
<1>17. ASSUME NEW R, NEW e \in Modules, NEW o \in Nat, NEW z \in Nat, Changes(R, m, e, x, y, o, z)
       PROVE  Walk(FlattenSeq(ss), o, z, R)
  <2>1. ASSUME NEW k \in 1..n, D[k] # e, NEW v \in {o, z} PROVE Walk(ss[k], v, v, R)
    <3>1. /\ D[k] \in Fed /\ v \in Nat
          /\ <<v, Execute("Prepare", D[k]), v>> \in R /\ <<v, Execute("Reduce", D[k]), v>> \in R
      BY <1>14, <1>17, <2>1 DEF Changes
    <3> QED BY <1>14, <3>1
  <2>2. CASE e \in S
    <3>1. PICK i \in 1..n : D[i] = e
      BY <1>4, <1>5, <2>2
    <3>2. \A k \in 1..n : D[k] = e => k = i
      BY <1>4, <1>5, <3>1
    <3>3. Walk(ss[i], o, z, R)
      <4>1. /\ e \in Fed /\ (Rounds(x, m, e) = 1 => <<o, Execute("Prepare", e), z>> \in R)
            /\ Rounds(y, m, e) = 1 => <<o, Execute("Reduce", e), z>> \in R
            /\ Rounds(x, m, e) = 0 /\ Rounds(y, m, e) = 0 => o = z
        BY <1>7, <1>17, <2>2 DEF Changes
      <4> QED BY <1>14, <3>1, <4>1
    <3> DEFINE c == [k \in 0..n |-> IF k < i THEN o ELSE z]
    <3>4. c \in [0..Len(ss) -> Nat] /\ c[0] = o /\ c[n] = z
      BY <1>15, <3>1
    <3>5. ASSUME NEW k \in 1..n PROVE Walk(ss[k], c[k - 1], c[k], R)
      <4>1. CASE k = i
        <5>1. c[k - 1] = o /\ c[k] = z
          BY <3>1, <4>1
        <5> QED BY <3>3, <4>1, <5>1
      <4>2. CASE k # i
        <5>1. c[k - 1] = c[k] /\ c[k] \in {o, z}
          BY <3>1, <4>2
        <5>2. e # D[k]
          BY <3>2, <4>2
        <5> HIDE DEF c
        <5> QED BY <2>1, <5>1, <5>2
      <4> QED BY <4>1, <4>2
    <3> HIDE DEF c
    <3>6. Walk(FlattenSeq(ss), c[0], c[Len(ss)], R)
      BY <1>15, <1>16, <3>4, <3>5
    <3> QED BY <1>15, <3>4, <3>6
  <2>3. CASE e \notin S
    <3>1. o = z
      <4>1. e \in Fed => Rounds(x, m, e) = 0 /\ Rounds(y, m, e) = 0
        BY <1>8, <2>3
      <4> QED BY <1>17, <4>1 DEF Changes
    <3> DEFINE c == [k \in 0..n |-> o]
    <3>2. c \in [0..Len(ss) -> Nat] /\ c[0] = o /\ c[n] = o
      BY <1>15
    <3>3. ASSUME NEW k \in 1..n PROVE Walk(ss[k], c[k - 1], c[k], R)
      <4>1. c[k - 1] = o /\ c[k] = o
        OBVIOUS
      <4>2. e # D[k]
        BY <1>6, <2>3
      <4> HIDE DEF c
      <4> QED BY <2>1, <4>1, <4>2
    <3> HIDE DEF c
    <3>4. Walk(FlattenSeq(ss), c[0], c[Len(ss)], R)
      BY <1>15, <1>16, <3>2, <3>3
    <3> QED BY <1>15, <3>1, <3>2, <3>4
  <2> QED BY <2>2, <2>3
<1> QED BY <1>11, <1>16, <1>17

(* This turns each module as often as its inputs are ready.                *)
LEMMA AllSteps ==
  ASSUME Steering, NEW m \in Modules, NEW x, NEW y, NEW w, NEW open \in [Modules -> 0..1],
         \A d \in Fed : \E a, b \in 0..1 : Goes(a, b, m, d, x, y, open[d], w)
  PROVE  LET msgs == FlattenSeq([k \in DOMAIN Downstream[m] |-> Steps(m, Downstream[m][k], x, y)])
         IN  /\ Opened(open, m, x, y) \in [Modules -> 0..1]
             /\ msgs \in Seq(DownMsgs)
             /\ \A e \in Fed : Walk(msgs, open[e], Opened(open, m, x, y)[e], TurnIn(DownMsgs, e))
<1>1. PICK msgs : msgs = FlattenSeq([k \in DOMAIN Downstream[m] |-> Steps(m, Downstream[m][k], x, y)])
  OBVIOUS
<1>2. PICK open2 : open2 = Opened(open, m, x, y)
  OBVIOUS
<1>3. ASSUME NEW d \in Fed
      PROVE  \E a, b \in 0..1 : \E o, z \in 0..1 :
               /\ Rounds(x, m, d) = a /\ Rounds(y, m, d) = b /\ o = open[d] /\ z = open2[d]
               /\ (a = 1 => o = 0 /\ z = 1) /\ (b = 1 => o = 1 /\ z = 0)
               /\ (a = 0 /\ b = 0 => o = z)
  <2>1. d \in Modules
    BY FedFacts
  <2>2. PICK a \in 0..1, b \in 0..1 : Goes(a, b, m, d, x, y, open[d], w)
    OBVIOUS
  <2>3. PICK o \in 0..1 : o = open[d]
    BY <2>1
  <2>4. /\ Rounds(x, m, d) = a /\ Rounds(y, m, d) = b /\ o + a - b \in 0..1
        /\ (a = 1 => b = 0 /\ o = 0) /\ (b = 1 => a = 0 /\ o = 1)
    BY <2>2, <2>3 DEF Goes
  <2>5. open2[d] = o + a - b
    BY <1>2, <2>1, <2>3, <2>4 DEF Opened
  <2>6. (a = 1 => open2[d] = 1) /\ (b = 1 => open2[d] = 0) /\ (a = 0 /\ b = 0 => open2[d] = o)
    BY <2>4, <2>5
  <2> QED BY <2>3, <2>4, <2>5, <2>6
<1>4. open2 \in [Modules -> 0..1]
  <2>1. ASSUME NEW d \in Modules PROVE open2[d] \in 0..1
    <3>1. CASE d \in Fed
      BY <1>3, <3>1
    <3>2. CASE d \notin Fed
      BY <1>2, <3>2 DEF Opened
    <3> QED BY <3>1, <3>2
  <2>2. open2 = [d \in Modules |-> open2[d]]
    BY <1>2 DEF Opened
  <2> QED BY <2>1, <2>2
<1>5. /\ msgs \in Seq(DownMsgs)
      /\ \A R : \A e \in Modules : \A o, z \in Nat :
           Changes(R, m, e, x, y, o, z) => Walk(msgs, o, z, R)
  BY <1>1, AllStepsAre
<1>6. ASSUME NEW e \in Fed PROVE Walk(msgs, open[e], open2[e], TurnIn(DownMsgs, e))
  <2>1. PICK a \in 0..1, b \in 0..1, o \in 0..1, z \in 0..1 :
          /\ Rounds(x, m, e) = a /\ Rounds(y, m, e) = b /\ o = open[e] /\ z = open2[e]
          /\ (a = 1 => o = 0 /\ z = 1) /\ (b = 1 => o = 1 /\ z = 0)
          /\ (a = 0 /\ b = 0 => o = z)
    BY <1>3
  <2>2. ASSUME NEW d \in Fed, d # e, NEW v \in 0..1
        PROVE  /\ <<v, Execute("Prepare", d), v>> \in TurnIn(DownMsgs, e)
               /\ <<v, Execute("Reduce", d), v>> \in TurnIn(DownMsgs, e)
    <3>1. Moves(v, Execute("Prepare", d), v, e) /\ Moves(v, Execute("Reduce", d), v, e)
      BY <2>2 DEF Moves, Execute
    <3>2. Execute("Prepare", d) \in DownMsgs /\ Execute("Reduce", d) \in DownMsgs
      BY FedFacts, OrderFacts
    <3> QED BY <3>1, <3>2, TurnIff
  <2>3. /\ <<0, Execute("Prepare", e), 1>> \in TurnIn(DownMsgs, e)
        /\ <<1, Execute("Reduce", e), 0>> \in TurnIn(DownMsgs, e)
    <3>1. Moves(0, Execute("Prepare", e), 1, e) /\ Moves(1, Execute("Reduce", e), 0, e)
      BY DEF Moves, Execute
    <3>2. Execute("Prepare", e) \in DownMsgs /\ Execute("Reduce", e) \in DownMsgs
      BY FedFacts, OrderFacts
    <3> QED BY <3>1, <3>2, TurnIff
  <2>4. Changes(TurnIn(DownMsgs, e), m, e, x, y, o, z)
    BY <2>1, <2>2, <2>3 DEF Changes
  <2>5. e \in Modules /\ o \in Nat /\ z \in Nat
    BY FedFacts
  <2> QED BY <1>5, <2>1, <2>4, <2>5
<1> QED BY <1>1, <1>2, <1>4, <1>5, <1>6

(* A broadcast.                                                            *)
LinesOf(flags, d, open) ==
  \A q \in Ranks, e \in Fed : Walk(d[q], One(flags[q][e].prepared), open[e], TurnIn(DownMsgs, e))
Lines(d, open) == LinesOf(mod, d, open)

(* All that rank 0 broadcasts reaches the other ranks.                     *)
LEMMA BroadcastsWalk ==
  ASSUME NEW msgs \in Seq(DownMsgs)
  PROVE  /\ Broadcasts(msgs) \in Seq(DownMsgs)
         /\ \A a, z, R : Walk(msgs, a, z, R) => Walk(Broadcasts(msgs), a, z, R)
<1>1. PICK n \in Nat : n = Len(msgs)
  OBVIOUS
<1>2. \A k \in 1..n : msgs[k] \in DownMsgs /\ ~ForMaster(msgs[k])
  <2>1. \A x \in DownMsgs : ~ForMaster(x)
    BY DEF DownMsgs, ForMaster
  <2> QED BY <1>1, <2>1
<1> DEFINE ss == [k \in 1..n |-> <<msgs[k]>>]
<1>3. Broadcasts(msgs) = FlattenSeq(ss)
  <2>1. [k \in DOMAIN msgs |-> IF ForMaster(msgs[k]) THEN <<>> ELSE <<msgs[k]>>] = ss
    <3>1. DOMAIN msgs = 1..n
      BY <1>1
    <3> QED BY <1>2, <3>1
  <2> QED BY <2>1 DEF Broadcasts
<1>4. \A k \in 1..n : ss[k] = <<msgs[k]>> /\ ss[k] \in Seq(DownMsgs)
  BY <1>2
<1>5. ss = [k \in 1..n |-> ss[k]]
  OBVIOUS
<1> HIDE DEF ss
<1>6. ss \in Seq(Seq(DownMsgs)) /\ Len(ss) = n
  BY <1>4, <1>5
<1>7. /\ FlattenSeq(ss) \in Seq(DownMsgs)
      /\ \A R : \A c \in [0..Len(ss) -> Nat] :
           (\A k \in 1..Len(ss) : Walk(ss[k], c[k - 1], c[k], R))
             => Walk(FlattenSeq(ss), c[0], c[Len(ss)], R)
  BY <1>6, Flattened
<1>8. ASSUME NEW a, NEW z, NEW R, Walk(msgs, a, z, R) PROVE Walk(FlattenSeq(ss), a, z, R)
  <2>1. PICK c \in [0..n -> Nat] :
          c[0] = a /\ c[n] = z /\ \A k \in 1..n : <<c[k - 1], msgs[k], c[k]>> \in R
    BY <1>1, <1>8 DEF Walk
  <2>2. ASSUME NEW k \in 1..n PROVE Walk(ss[k], c[k - 1], c[k], R)
    <3>1. c[k - 1] \in Nat /\ c[k] \in Nat
      BY <1>1, <2>1
    <3> QED BY <1>4, <2>1, <3>1, WalkOne
  <2>3. Walk(FlattenSeq(ss), c[0], c[Len(ss)], R)
    BY <1>6, <1>7, <2>1, <2>2
  <2> QED BY <1>6, <2>1, <2>3
<1> QED BY <1>3, <1>7, <1>8

(* Rank 0 broadcasts msgs: whatever they do, they do it on every rank.     *)
LEMMA CastGoesOn ==
  ASSUME NEW d \in [Ranks -> Seq(DownMsgs)], NEW u, NEW msgs \in Seq(DownMsgs), Cast(0, d, u, msgs)
  PROVE  /\ up' = u /\ down' \in [Ranks -> Seq(DownMsgs)]
         /\ \A q \in Ranks : \A R, a, b, z :
              Walk(d[q], a, b, R) /\ Walk(msgs, b, z, R) => Walk(down'[q], a, z, R)
<1>1. up' = u /\ down' = [q \in Ranks |-> d[q] \o (IF q = 0 THEN msgs ELSE Broadcasts(msgs))]
  BY DEF Cast
<1>2. PICK all : all = [q \in Ranks |-> IF q = 0 THEN msgs ELSE Broadcasts(msgs)]
  OBVIOUS
<1>3. ASSUME NEW q \in Ranks
      PROVE  /\ all[q] \in Seq(DownMsgs) /\ down'[q] = d[q] \o all[q]
             /\ \A R, a, z : Walk(msgs, a, z, R) => Walk(all[q], a, z, R)
  <2>1. all[q] = msgs \/ all[q] = Broadcasts(msgs)
    BY <1>2
  <2>2. /\ Broadcasts(msgs) \in Seq(DownMsgs)
        /\ \A R, a, z : Walk(msgs, a, z, R) => Walk(Broadcasts(msgs), a, z, R)
    BY BroadcastsWalk
  <2>3. down'[q] = d[q] \o all[q]
    BY <1>1, <1>2
  <2> QED BY <2>1, <2>2, <2>3
<1>4. ASSUME NEW q \in Ranks PROVE down'[q] \in Seq(DownMsgs)
  BY <1>3, ConcatProperties
<1>5. down' \in [Ranks -> Seq(DownMsgs)]
  BY <1>1, <1>4
<1>6. ASSUME NEW q \in Ranks, NEW R, NEW a, NEW b, NEW z, Walk(d[q], a, b, R), Walk(msgs, b, z, R)
      PROVE  Walk(down'[q], a, z, R)
  <2>1. d[q] \in Seq(DownMsgs) /\ all[q] \in Seq(DownMsgs) /\ Walk(all[q], b, z, R)
    BY <1>3, <1>6
  <2>2. Walk(d[q] \o all[q], a, z, R)
    BY ONLY <1>6, <2>1, WalkConcat
  <2> QED BY <1>3, <2>2
<1> QED BY <1>1, <1>5, <1>6

(* Broadcasts that take each module from open to open2 do so on every rank.*)
LEMMA CastWalk ==
  ASSUME NEW d \in [Ranks -> Seq(DownMsgs)], NEW u, NEW msgs \in Seq(DownMsgs), Cast(0, d, u, msgs),
         NEW open, NEW open2, NEW flags, LinesOf(flags, d, open),
         \A e \in Fed : Walk(msgs, open[e], open2[e], TurnIn(DownMsgs, e))
  PROVE  /\ up' = u /\ down' \in [Ranks -> Seq(DownMsgs)]
         /\ LinesOf(flags, down', open2)
<1>1. /\ up' = u /\ down' \in [Ranks -> Seq(DownMsgs)]
      /\ \A q \in Ranks : \A R, a, b, z :
           Walk(d[q], a, b, R) /\ Walk(msgs, b, z, R) => Walk(down'[q], a, z, R)
  BY CastGoesOn
<1>2. ASSUME NEW q \in Ranks, NEW e \in Fed
      PROVE  Walk(down'[q], One(flags[q][e].prepared), open2[e], TurnIn(DownMsgs, e))
  <2>1. Walk(d[q], One(flags[q][e].prepared), open[e], TurnIn(DownMsgs, e))
    BY DEF LinesOf
  <2> QED BY <1>1, <2>1
<1> QED BY <1>1, <1>2 DEF LinesOf
-----------------------------------------------------------------------------
(***************************************************************************)
(* The counters of rank 0.  ex tells on which ranks a module is executing, *)
(* as far as rank 0 has been told.                                         *)
(***************************************************************************)
MasterOK ==
  /\ ranksStarted \in [Modules -> Nat] /\ ranksFinished \in [Modules -> 0..(NumRanks - 1)]
  /\ objectCount \in [Modules -> [Ranks -> Nat]]
  /\ numReset \in [Inputs -> Nat] /\ numFinish \in [Inputs -> Nat] /\ done \in [Modules -> Nat]

Busy(ex, m) == {r \in Ranks : ex[r][m] = 1}
RanksOK(ex) ==
  \A m \in Modules : ranksStarted[m] = ranksFinished[m] + Cardinality(Busy(ex, m))

(* The progress of m on rank r.                                            *)
Told(ex, ex2, r, m, stage) ==
  /\ stage \in {"Start", "Finish"}
  /\ ex[r][m] = (IF stage = "Start" THEN 0 ELSE 1)
  /\ ex2[r][m] = (IF stage = "Start" THEN 1 ELSE 0)
  /\ \A q \in Ranks, n \in Modules : <<q, n>> # <<r, m>> => ex2[q][n] = ex[q][n]

(* The ranks that execute m are finitely many, at most all.                *)
LEMMA BusyFacts ==
  ASSUME NEW ex, NEW m
  PROVE  /\ IsFiniteSet(Busy(ex, m)) /\ Cardinality(Busy(ex, m)) \in 0..NumRanks
         /\ \A r \in Ranks : r \in Busy(ex, m) <=> ex[r][m] = 1
<1>1. NumRanks \in Nat \ {0} /\ IsFiniteSet(Ranks) /\ Cardinality(Ranks) = NumRanks
  <2>1. NumRanks \in Nat \ {0}
    BY ExecutionAssumption
  <2>2. 0 \in Int /\ NumRanks - 1 \in Int
    BY <2>1
  <2>3. IsFiniteSet(0..(NumRanks - 1)) /\ Cardinality(0..(NumRanks - 1)) = IF 0 > NumRanks - 1 THEN 0 ELSE (NumRanks - 1) - 0 + 1
    BY <2>2, FS_Interval
  <2> QED BY <2>1, <2>3 DEF Ranks
<1>2. Busy(ex, m) \in SUBSET Ranks
  BY DEF Busy
<1>3. IsFiniteSet(Busy(ex, m)) /\ Cardinality(Busy(ex, m)) <= Cardinality(Ranks)
  BY <1>1, <1>2, FS_Subset
<1>4. Cardinality(Busy(ex, m)) \in Nat
  BY <1>3, FS_CardinalityType
<1> QED BY <1>1, <1>3, <1>4 DEF Busy

(* The progress of a rank adds it to those that execute m, or takes it     *)
(* away.                                                                   *)
LEMMA BusyChange ==
  ASSUME NEW ex, NEW ex2, NEW r \in Ranks, NEW m \in Modules, NEW stage, Told(ex, ex2, r, m, stage)
  PROVE  /\ \A n \in Modules : n # m => Busy(ex2, n) = Busy(ex, n)
         /\ stage = "Start" => Cardinality(Busy(ex2, m)) = Cardinality(Busy(ex, m)) + 1
         /\ stage = "Finish" => Cardinality(Busy(ex, m)) = Cardinality(Busy(ex2, m)) + 1
<1>1. ASSUME NEW n \in Modules, n # m PROVE Busy(ex2, n) = Busy(ex, n)
  BY <1>1 DEF Busy, Told
<1>2. IsFiniteSet(Busy(ex, m)) /\ Cardinality(Busy(ex, m)) \in Nat
  BY BusyFacts
<1>3. CASE stage = "Start"
  <2>1. Busy(ex2, m) = Busy(ex, m) \cup {r} /\ r \notin Busy(ex, m)
    BY <1>3 DEF Busy, Told
  <2>2. Cardinality(Busy(ex2, m)) = Cardinality(Busy(ex, m)) + 1
    BY <1>2, <2>1, FS_AddElement
  <2> QED BY <1>1, <1>3, <2>2
<1>4. CASE stage = "Finish"
  <2>1. Busy(ex2, m) = Busy(ex, m) \ {r} /\ r \in Busy(ex, m)
    BY <1>4 DEF Busy, Told
  <2>2. Cardinality(Busy(ex2, m)) = Cardinality(Busy(ex, m)) - 1
    BY <1>2, <2>1, FS_RemoveElement
  <2>3. Cardinality(Busy(ex, m)) = Cardinality(Busy(ex2, m)) + 1
    BY <1>2, <2>2
  <2> QED BY <1>1, <1>4, <2>3
<1>5. stage = "Start" \/ stage = "Finish"
  BY DEF Told
<1> QED BY <1>3, <1>4, <1>5

(* m runs from the moment it has started on all ranks to the one when it   *)
(* has finished on all of them.                                            *)
LEMMA RanksProgress ==
  ASSUME NEW ex, NEW ex2, NEW r \in Ranks, NEW m \in Modules, NEW stage, Told(ex, ex2, r, m, stage),
         MasterOK, RanksOK(ex), NEW d, NEW u, Progress(m, stage, d, u)
  PROVE  /\ ranksStarted' \in [Modules -> Nat] /\ ranksFinished' \in [Modules -> 0..(NumRanks - 1)]
         /\ RanksOK(ex2)'
         /\ \A n \in Modules : n # m => Running(n)' = Running(n)
         /\ stage = "Start" /\ AllStarted(m) => Running(m) = 0 /\ Running(m)' = 1
         /\ stage = "Finish" /\ AllFinished(m) => Running(m) = 1 /\ Running(m)' = 0
         /\ ~(stage = "Start" /\ AllStarted(m)) /\ ~(stage = "Finish" /\ AllFinished(m))
              => Running(m)' = Running(m)
<1>1. NumRanks \in Nat \ {0}
  BY ExecutionAssumption
<1>2. /\ ranksStarted \in [Modules -> Nat] /\ ranksFinished \in [Modules -> 0..(NumRanks - 1)]
      /\ \A n \in Modules : ranksStarted[n] = ranksFinished[n] + Cardinality(Busy(ex, n))
  BY DEF MasterOK, RanksOK
<1>3. PICK c \in [Modules -> 0..NumRanks] : \A n \in Modules : c[n] = Cardinality(Busy(ex, n))
  <2>1. \A n \in Modules : Cardinality(Busy(ex, n)) \in 0..NumRanks
    BY BusyFacts
  <2>2. [n \in Modules |-> Cardinality(Busy(ex, n))] \in [Modules -> 0..NumRanks]
    BY <2>1
  <2> QED BY <2>2
<1>4. PICK c2 \in [Modules -> 0..NumRanks] : \A n \in Modules : c2[n] = Cardinality(Busy(ex2, n))
  <2>1. \A n \in Modules : Cardinality(Busy(ex2, n)) \in 0..NumRanks
    BY BusyFacts
  <2>2. [n \in Modules |-> Cardinality(Busy(ex2, n))] \in [Modules -> 0..NumRanks]
    BY <2>1
  <2> QED BY <2>2
<1>5. /\ \A n \in Modules : n # m => c2[n] = c[n]
      /\ stage = "Start" => c2[m] = c[m] + 1
      /\ stage = "Finish" => c[m] = c2[m] + 1
  BY <1>3, <1>4, BusyChange
<1>6. \A n \in Modules : ranksStarted[n] = ranksFinished[n] + c[n]
  BY <1>2, <1>3
<1>7. /\ ranksStarted' = [ranksStarted EXCEPT ![m] =
            CASE stage = "Start" -> @ + 1 [] stage = "Finish" /\ AllFinished(m) -> @ - NumRanks [] OTHER -> @]
      /\ ranksFinished' = [ranksFinished EXCEPT ![m] =
            CASE stage = "Start" -> @ [] stage = "Finish" /\ AllFinished(m) -> 0 [] OTHER -> @ + 1]
  BY DEF Progress
<1>8. \A n \in Modules : n # m => ranksStarted'[n] = ranksStarted[n] /\ ranksFinished'[n] = ranksFinished[n]
  BY <1>2, <1>7
<1>9. /\ ranksStarted' = [n \in Modules |-> ranksStarted'[n]]
      /\ ranksFinished' = [n \in Modules |-> ranksFinished'[n]]
  BY <1>2, <1>7
<1>10. stage = "Start" \/ stage = "Finish"
  BY DEF Told
<1>11. CASE stage = "Start"
  <2>1. ranksStarted'[m] = ranksStarted[m] + 1 /\ ranksFinished'[m] = ranksFinished[m]
    BY <1>2, <1>7, <1>11
  <2>2. \A n \in Modules : ranksStarted'[n] \in Nat /\ ranksFinished'[n] \in 0..(NumRanks - 1)
    BY <1>2, <1>8, <2>1
  <2>3. \A n \in Modules : ranksStarted'[n] = ranksFinished'[n] + c2[n]
    BY <1>1, <1>2, <1>3, <1>4, <1>5, <1>6, <1>8, <1>11, <2>1
  <2>4. \A n \in Modules : n # m => Running(n)' = Running(n)
    BY <1>8 DEF Running
  <2>5. AllStarted(m) => Running(m) = 0 /\ Running(m)' = 1
    BY <1>1, <1>2, <2>1 DEF Running, AllStarted
  <2>6. ~AllStarted(m) => Running(m)' = Running(m)
    BY <1>1, <1>2, <2>1 DEF Running, AllStarted
  <2>7. RanksOK(ex2)'
    BY <1>4, <2>3 DEF RanksOK, Busy
  <2> QED BY <1>9, <1>11, <2>2, <2>4, <2>5, <2>6, <2>7
<1>12. CASE stage = "Finish" /\ AllFinished(m)
  <2>1. ranksStarted'[m] = ranksStarted[m] - NumRanks /\ ranksFinished'[m] = 0 /\ ranksFinished[m] + 1 = NumRanks
    BY <1>2, <1>7, <1>12 DEF AllFinished
  <2>2. ranksStarted'[m] = c2[m] /\ ranksStarted[m] >= NumRanks /\ c2[m] < NumRanks
    BY <1>1, <1>2, <1>3, <1>4, <1>5, <1>6, <1>12, <2>1
  <2>3. \A n \in Modules : ranksStarted'[n] \in Nat /\ ranksFinished'[n] \in 0..(NumRanks - 1)
    BY <1>1, <1>2, <1>4, <1>8, <2>1, <2>2
  <2>4. \A n \in Modules : ranksStarted'[n] = ranksFinished'[n] + c2[n]
    BY <1>1, <1>2, <1>4, <1>5, <1>6, <1>8, <2>1, <2>2
  <2>5. \A n \in Modules : n # m => Running(n)' = Running(n)
    BY <1>8 DEF Running
  <2>6. Running(m) = 1 /\ Running(m)' = 0
    BY <1>1, <1>2, <1>4, <2>2 DEF Running
  <2>7. RanksOK(ex2)'
    BY <1>4, <2>4 DEF RanksOK, Busy
  <2> QED BY <1>9, <1>12, <2>3, <2>5, <2>6, <2>7
<1>13. CASE stage = "Finish" /\ ~AllFinished(m)
  <2>1. ranksStarted'[m] = ranksStarted[m] /\ ranksFinished'[m] = ranksFinished[m] + 1
    BY <1>2, <1>7, <1>13
  <2>2. ranksFinished[m] + 1 # NumRanks
    BY <1>13 DEF AllFinished
  <2>3. \A n \in Modules : ranksStarted'[n] \in Nat /\ ranksFinished'[n] \in 0..(NumRanks - 1)
    BY <1>1, <1>2, <1>8, <2>1, <2>2
  <2>4. \A n \in Modules : ranksStarted'[n] = ranksFinished'[n] + c2[n]
    BY <1>1, <1>2, <1>3, <1>4, <1>5, <1>6, <1>8, <1>13, <2>1
  <2>5. \A n \in Modules : Running(n)' = Running(n)
    BY <1>8, <2>1 DEF Running
  <2>6. RanksOK(ex2)'
    BY <1>4, <2>4 DEF RanksOK, Busy
  <2> QED BY <1>9, <1>13, <2>3, <2>5, <2>6
<1> QED BY <1>10, <1>11, <1>12, <1>13

(* Rank 0 counts the progress of m, and makes the modules downstream go on.*)
Advances(x, y, w, m, stage, open, u) ==
  LET started  == stage = "Start" /\ AllStarted(m)
      finished == stage = "Finish" /\ AllFinished(m)
  IN  /\ x \in [Inputs -> Nat] /\ y \in [Inputs -> Nat] /\ w \in [Inputs -> 0..1]
      /\ \A i \in Inputs : w[i] = Running(Feeder(i))'
      /\ \A d \in Fed : \A i \in ComputeInputs[d] :
           /\ x[i] = IF started /\ Feeder(i) = m THEN numReset[i] + 1 ELSE numReset[i]
           /\ y[i] = IF finished /\ Feeder(i) = m THEN numFinish[i] + 1 ELSE numFinish[i]
      /\ \A d \in Fed : \E a, b \in 0..1 : Goes(a, b, m, d, x, y, open[d], w)
      /\ numReset' = Popped(x, m) /\ numFinish' = Popped(y, m)
      /\ Cast(0, down, u, FlattenSeq([k \in DOMAIN Downstream[m] |->
                             Steps(m, Downstream[m][k], x, y)]))

(* So it does when it handles the progress of a module.                    *)
LEMMA ProgressAdvances ==
  ASSUME Steering,
         NEW ex, NEW ex2, NEW r \in Ranks, NEW m \in Modules, NEW stage, Told(ex, ex2, r, m, stage),
         MasterOK, RanksOK(ex), NEW open \in [Modules -> 0..1], ResetsOK(open),
         NEW u, Progress(m, stage, down, u)
  PROVE  \E x, y, w : Advances(x, y, w, m, stage, open, u)
<1> DEFINE started  == stage = "Start" /\ AllStarted(m)
           finished == stage = "Finish" /\ AllFinished(m)
<1>1. PICK x, y : x = Advanced(numReset, m, started) /\ y = Advanced(numFinish, m, finished)
  OBVIOUS
<1>2. /\ numReset' = Popped(x, m) /\ numFinish' = Popped(y, m)
      /\ Cast(0, down, u, FlattenSeq([k \in DOMAIN Downstream[m] |->
                             Steps(m, Downstream[m][k], x, y)]))
  BY <1>1 DEF Progress
<1>3. /\ \A n \in Modules : n # m => Running(n)' = Running(n)
      /\ started => Running(m) = 0 /\ Running(m)' = 1
      /\ finished => Running(m) = 1 /\ Running(m)' = 0
      /\ ~started /\ ~finished => Running(m)' = Running(m)
      /\ ~(started /\ finished)
  BY RanksProgress
<1>4. numReset \in [Inputs -> Nat] /\ numFinish \in [Inputs -> Nat]
  BY DEF MasterOK
<1> HIDE DEF started, finished
<1>5. /\ x \in [Inputs -> Nat] /\ y \in [Inputs -> Nat]
      /\ \A d \in Fed : \A i \in ComputeInputs[d] :
           /\ x[i] = IF started /\ Feeder(i) = m THEN numReset[i] + 1 ELSE numReset[i]
           /\ y[i] = IF finished /\ Feeder(i) = m THEN numFinish[i] + 1 ELSE numFinish[i]
  <2>1. /\ x \in [Inputs -> Nat]
        /\ \A d \in Fed : \A i \in ComputeInputs[d] :
             x[i] = IF started /\ Feeder(i) = m THEN numReset[i] + 1 ELSE numReset[i]
    <3>1. /\ Advanced(numReset, m, started) \in [Inputs -> Nat]
          /\ \A d \in Fed : \A i \in ComputeInputs[d] :
               Advanced(numReset, m, started)[i] = IF started /\ Feeder(i) = m THEN numReset[i] + 1 ELSE numReset[i]
      BY ONLY Steering, <1>4, m \in Modules, AdvancedIs
    <3> QED BY ONLY <1>1, <3>1
  <2>2. /\ y \in [Inputs -> Nat]
        /\ \A d \in Fed : \A i \in ComputeInputs[d] :
             y[i] = IF finished /\ Feeder(i) = m THEN numFinish[i] + 1 ELSE numFinish[i]
    <3>1. /\ Advanced(numFinish, m, finished) \in [Inputs -> Nat]
          /\ \A d \in Fed : \A i \in ComputeInputs[d] :
               Advanced(numFinish, m, finished)[i] = IF finished /\ Feeder(i) = m THEN numFinish[i] + 1 ELSE numFinish[i]
      BY ONLY Steering, <1>4, m \in Modules, AdvancedIs
    <3> QED BY ONLY <1>1, <3>1
  <2> QED BY <2>1, <2>2
<1>6. PICK w \in [Inputs -> 0..1] : \A i \in Inputs : w[i] = Running(Feeder(i))'
  <2>1. \A i \in Inputs : Running(Feeder(i))' \in 0..1
    BY DEF Running
  <2>2. [i \in Inputs |-> Running(Feeder(i))'] \in [Inputs -> 0..1]
    BY <2>1
  <2> QED BY <2>2
<1>7. ASSUME NEW d \in Fed
      PROVE  \E a, b \in 0..1 : Goes(a, b, m, d, x, y, open[d], w)
  <2>1. d \in Modules /\ \A i \in ComputeInputs[d] : i \in Inputs
    BY FedFacts
  <2>2. PICK o \in 0..1 : o = open[d]
    BY <2>1
  <2>3. /\ \A i \in ComputeInputs[d] : numReset[i] + o = numFinish[i] + Running(Feeder(i))
        /\ \E i \in ComputeInputs[d] : numReset[i] = 0
        /\ \E i \in ComputeInputs[d] : numFinish[i] = 0
    BY <2>2 DEF ResetsOK
  <2>4. \A i \in ComputeInputs[d] : Feeder(i) \in Modules /\ Links[Feeder(i)][d] # {}
    BY FeederFacts
  <2>5. ASSUME NEW i \in ComputeInputs[d]
        PROVE  x[i] + o = y[i] + w[i] /\ x[i] <= numReset[i] + 1 /\ y[i] <= numFinish[i] + 1
    <3>1. /\ numReset[i] \in Nat /\ numFinish[i] \in Nat /\ w[i] = Running(Feeder(i))'
          /\ w[i] \in 0..1 /\ Feeder(i) \in Modules
      BY <1>4, <1>6, <2>1, <2>4
    <3>2. numReset[i] + o = numFinish[i] + Running(Feeder(i))
      BY <2>3
    <3>3. /\ x[i] = IF started /\ Feeder(i) = m THEN numReset[i] + 1 ELSE numReset[i]
          /\ y[i] = IF finished /\ Feeder(i) = m THEN numFinish[i] + 1 ELSE numFinish[i]
      BY <1>5
    <3>4. CASE Feeder(i) # m
      BY <1>3, <3>1, <3>2, <3>3, <3>4
    <3>5. CASE Feeder(i) = m /\ started
      <4>1. w[i] = 1 /\ Running(Feeder(i)) = 0 /\ ~finished
        BY <1>3, <3>1, <3>5
      <4> QED BY <3>1, <3>2, <3>3, <3>5, <4>1
    <3>6. CASE Feeder(i) = m /\ finished
      <4>1. w[i] = 0 /\ Running(Feeder(i)) = 1 /\ ~started
        BY <1>3, <3>1, <3>6
      <4> QED BY <3>1, <3>2, <3>3, <3>6, <4>1
    <3>7. CASE Feeder(i) = m /\ ~started /\ ~finished
      <4>1. w[i] = Running(Feeder(i))
        BY <1>3, <3>1, <3>7
      <4> QED BY <3>1, <3>2, <3>3, <3>7, <4>1
    <3> QED BY <3>4, <3>5, <3>6, <3>7
  <2>6. (\A i \in ComputeInputs[d] : x[i] = numReset[i]) \/ (\A i \in ComputeInputs[d] : y[i] = numFinish[i])
    BY <1>3, <1>5
  <2>7. Links[m][d] = {} => \A i \in ComputeInputs[d] : x[i] = numReset[i] /\ y[i] = numFinish[i]
    BY <1>5, <2>4
  <2>8. /\ \A i \in ComputeInputs[d] : x[i] + o = y[i] + w[i]
        /\ \A i \in ComputeInputs[d] : x[i] <= numReset[i] + 1 /\ y[i] <= numFinish[i] + 1
    BY <2>5
  <2>9. \E a, b \in 0..1 : Goes(a, b, m, d, x, y, o, w)
    BY <1>4, <1>5, <2>3, <2>6, <2>7, <2>8, OneRound
  <2> QED BY <2>2, <2>9
<1> QED BY <1>2, <1>5, <1>6, <1>7 DEF Advances, started, finished

(* Rank 0 handles the progress of a module.                                *)
LEMMA ProgressKeeps ==
  ASSUME Steering,
         NEW ex, NEW ex2, NEW r \in Ranks, NEW m \in Modules, NEW stage, Told(ex, ex2, r, m, stage),
         MasterOK, RanksOK(ex), NEW open \in [Modules -> 0..1], ResetsOK(open),
         down \in [Ranks -> Seq(DownMsgs)], Lines(down, open), NEW u, Progress(m, stage, down, u)
  PROVE  /\ MasterOK' /\ RanksOK(ex2)' /\ up' = u /\ down' \in [Ranks -> Seq(DownMsgs)]
         /\ \E open2 \in [Modules -> 0..1] : ResetsOK(open2)' /\ Lines(down', open2)
<1>1. PICK x, y, w : Advances(x, y, w, m, stage, open, u)
  BY ProgressAdvances
<1>2. /\ numReset' = Popped(x, m) /\ numFinish' = Popped(y, m)
      /\ Cast(0, down, u, FlattenSeq([k \in DOMAIN Downstream[m] |->
                             Steps(m, Downstream[m][k], x, y)]))
      /\ x \in [Inputs -> Nat] /\ y \in [Inputs -> Nat]
      /\ \A i \in Inputs : w[i] = Running(Feeder(i))'
  BY <1>1 DEF Advances
<1>3. /\ ranksStarted' \in [Modules -> Nat] /\ ranksFinished' \in [Modules -> 0..(NumRanks - 1)]
      /\ RanksOK(ex2)'
  BY RanksProgress
<1>4. ASSUME NEW d \in Fed PROVE \E a, b \in 0..1 : Goes(a, b, m, d, x, y, open[d], w)
  BY <1>1 DEF Advances
<1>8. PICK open2 : open2 = Opened(open, m, x, y)
  OBVIOUS
<1>9. PICK msgs : msgs = FlattenSeq([k \in DOMAIN Downstream[m] |-> Steps(m, Downstream[m][k], x, y)])
  OBVIOUS
<1>10. /\ open2 \in [Modules -> 0..1] /\ msgs \in Seq(DownMsgs)
       /\ \A e \in Fed : Walk(msgs, open[e], open2[e], TurnIn(DownMsgs, e))
  BY <1>4, <1>8, <1>9, AllSteps
<1>11. Cast(0, down, u, msgs)
  BY <1>2, <1>9
<1>12. up' = u /\ down' \in [Ranks -> Seq(DownMsgs)] /\ Lines(down', open2)
  BY ONLY <1>10, <1>11, down \in [Ranks -> Seq(DownMsgs)], Lines(down, open), CastWalk DEF Lines
<1>13. ASSUME NEW d \in Fed
       PROVE  /\ \A i \in ComputeInputs[d] :
                   /\ numReset'[i] \in Nat /\ numFinish'[i] \in Nat
                   /\ numReset'[i] + open2[d] = numFinish'[i] + Running(Feeder(i))'
              /\ \E i \in ComputeInputs[d] : numReset'[i] = 0
              /\ \E i \in ComputeInputs[d] : numFinish'[i] = 0
  <2>1. PICK a \in 0..1, b \in 0..1 : Goes(a, b, m, d, x, y, open[d], w)
    BY <1>4
  <2>2. d \in Modules /\ \A i \in ComputeInputs[d] : i \in Inputs /\ ModuleOf[i] = d
    BY FedFacts
  <2>3. Rounds(x, m, d) = a /\ Rounds(y, m, d) = b
    BY <2>1 DEF Goes
  <2>4. open2[d] = open[d] + a - b
    BY <1>8, <2>2, <2>3 DEF Opened
  <2>5. ASSUME NEW i \in ComputeInputs[d] PROVE numReset'[i] = x[i] - a /\ numFinish'[i] = y[i] - b
    <3>1. i \in Inputs /\ ModuleOf[i] = d
      BY <2>2
    <3>2. Popped(x, m)[i] = x[i] - Rounds(x, m, d) /\ Popped(y, m)[i] = y[i] - Rounds(y, m, d)
      BY <3>1 DEF Popped
    <3> QED BY <1>2, <2>3, <3>2
  <2>6. /\ \A i \in ComputeInputs[d] : x[i] - a \in Nat /\ y[i] - b \in Nat
                                   /\ (x[i] - a) + (open[d] + a - b) = (y[i] - b) + w[i]
        /\ \E i \in ComputeInputs[d] : x[i] - a = 0
        /\ \E i \in ComputeInputs[d] : y[i] - b = 0
    BY <2>1 DEF Goes
  <2>7. \A i \in ComputeInputs[d] : w[i] = Running(Feeder(i))'
    BY <1>2, <2>2
  <2> QED BY <2>4, <2>5, <2>6, <2>7
<1>14. ResetsOK(open2)'
  BY <1>13 DEF ResetsOK
<1>15. numReset' \in [Inputs -> Nat] /\ numFinish' \in [Inputs -> Nat]
  <2>1. numReset' = [i \in Inputs |-> numReset'[i]] /\ numFinish' = [i \in Inputs |-> numFinish'[i]]
    BY <1>2 DEF Popped
  <2>2. ASSUME NEW i \in Inputs PROVE numReset'[i] \in Nat /\ numFinish'[i] \in Nat
    <3>1. CASE i \in ComputeInputs[ModuleOf[i]]
      <4>1. ModuleOf[i] \in Fed
        BY <3>1, PortFacts DEF Fed
      <4> QED BY <1>13, <3>1, <4>1
    <3>2. CASE i \notin ComputeInputs[ModuleOf[i]]
      <4>1. Popped(x, m)[i] = x[i] /\ Popped(y, m)[i] = y[i]
        BY <3>2 DEF Popped
      <4> QED BY <1>2, <4>1
    <3> QED BY <3>1, <3>2
  <2> QED BY <2>1, <2>2
<1>16. objectCount' \in [Modules -> [Ranks -> Nat]] /\ done' \in [Modules -> Nat]
  <2>1. \E all : done' = [done EXCEPT ![m] = IF all THEN @ + 1 ELSE @]
    BY DEF Progress
  <2>2. \E all \in [Modules -> BOOLEAN] :
          objectCount' = [n \in Modules |-> IF all[n] THEN [q \in Ranks |-> 0] ELSE objectCount[n]]
    <3>1. PICK y2 : objectCount' = [n \in Modules |->
                      IF Rounds(y2, m, n) > 0 /\ SchedulingPolicy[n] = "LazyGang"
                      THEN [q \in Ranks |-> 0] ELSE objectCount[n]]
      BY DEF Progress
    <3>2. PICK f : f = [n \in Modules |-> Rounds(y2, m, n) > 0 /\ SchedulingPolicy[n] = "LazyGang"]
      OBVIOUS
    <3>3. f \in [Modules -> BOOLEAN]
      BY <3>2
    <3>4. objectCount' = [n \in Modules |-> IF f[n] THEN [q \in Ranks |-> 0] ELSE objectCount[n]]
      BY <3>1, <3>2
    <3> QED BY <3>3, <3>4
  <2> QED BY <2>1, <2>2 DEF MasterOK
<1> QED BY <1>3, <1>10, <1>12, <1>14, <1>15, <1>16 DEF MasterOK

-----------------------------------------------------------------------------
(***************************************************************************)
(* The invariant.  There are numbers for each module and rank: ex, whether *)
(* it executes as far as rank 0 has been told; mid, whether it does as far *)
(* as its manager knows; open, whether it is prepared once all broadcasts  *)
(* have arrived.  The messages under way lead from one to the next.        *)
(***************************************************************************)
Prepared(r) == [m \in Modules |-> One(mod[r][m].prepared)]
Who       == [Ranks -> [Modules -> 0..1]]
QueueFuns == {q \in [Modules -> UNION {Seq(QueueMsgs(m)) : m \in Modules}] : Queues(q)}
OutFuns   == {q \in [Modules -> UNION {Seq(OutMsgs(m)) : m \in Modules}] : Outs(q)}

ManagersOK ==
  /\ mod \in [Ranks -> [Modules -> [prepared : BOOLEAN, reduced : BOOLEAN]]]
  /\ \A r \in Ranks, m \in Modules : mod[r][m].reduced = ~mod[r][m].prepared
  /\ numObject \in [Ranks -> [Inputs -> Nat]]

ProcOK(p, m) ==
  /\ p \in Processes(m)
  /\ p.prepared => ~p.reduced
  /\ m \in Fed /\ p.rest \in Closing => p.prepared
  /\ m \notin Fed => (p.prepared <=> p.rest # <<>>)
ProcFuns ==
  {f \in [Modules -> UNION {Processes(m) : m \in Modules}] : \A m \in Modules : ProcOK(f[m], m)}
ProcessesOK == module \in [Ranks -> ProcFuns] /\ objects \in [Ranks -> [Inputs -> Seq(Nat)]]

ChannelsOK ==
  /\ queue \in [Ranks -> QueueFuns] /\ out \in [Ranks -> OutFuns]
  /\ up \in [Ranks -> Seq(Reports(Modules))] /\ up[0] = <<>>
  /\ down \in [Ranks -> Seq(DownMsgs)]
  /\ executed \in [Modules -> Nat]

Flows(r) ==
  \A d \in Fed :
    /\ Walk(queue[r][d], After(module[r][d]), One(mod[r][d].prepared), TurnIn(QueueMsgs(d), d))
    /\ \A i \in ComputeInputs[d] :
         Walk(queue[r][d], Len(objects[r][i]), numObject[r][i], SupplyIn(QueueMsgs(d), i))
LocalOK == \A r \in Ranks : Flows(r)

Reporting(ex, mid) ==
  \A r \in Ranks, m \in Modules :
    /\ Walk(out[r][m], mid[r][m], One(module[r][m].prepared), TurnIn(OutMsgs(m), m))
    /\ Walk(up[r], ex[r][m], mid[r][m], TurnIn(Reports(Modules), m))
ReportsOK == \E ex, mid \in Who : Reporting(ex, mid) /\ RanksOK(ex)
OpenOK    == \E open \in [Modules -> 0..1] : ResetsOK(open) /\ Lines(down, open)

IInv ==
  ManagersOK /\ MasterOK /\ ProcessesOK /\ ChannelsOK /\ LocalOK /\ ReportsOK /\ OpenOK

(* A rank that sends nothing to others.                                    *)
LEMMA CastNothing ==
  ASSUME NEW r \in Ranks, NEW d \in [Ranks -> Seq(DownMsgs)], Cast(r, d, up, <<>>),
         up \in [Ranks -> Seq(Reports(Modules))],
         NEW open \in [Modules -> 0..1], NEW flags, LinesOf(flags, d, open)
  PROVE  up' = up /\ down' \in [Ranks -> Seq(DownMsgs)] /\ LinesOf(flags, down', open)
<1>1. CASE r = 0
  <2>1. Cast(0, d, up, <<>>) /\ <<>> \in Seq(DownMsgs)
    BY <1>1
  <2>2. ASSUME NEW e \in Fed PROVE Walk(<<>>, open[e], open[e], TurnIn(DownMsgs, e))
    <3>1. e \in Modules
      BY FedFacts
    <3>2. open[e] \in 0..1 /\ open[e] \in Nat
      BY <3>1
    <3> QED BY <3>2, WalkEmpty
  <2> QED BY <2>1, <2>2, CastWalk
<1>2. CASE r # 0
  <2>1. down' = d /\ up' = [up EXCEPT ![r] = @ \o <<>>]
    BY <1>2 DEF Cast
  <2>2. up[r] \o <<>> = up[r]
    <3>1. up[r] \in Seq(Reports(Modules))
      OBVIOUS
    <3> QED BY <3>1, ConcatEmptySeq
  <2>3. up' = up
    BY <2>1, <2>2
  <2> QED BY <2>1, <2>3
<1> QED BY <1>1, <1>2

(* There is a rank 0.                                                      *)
LEMMA ZeroRank == 0 \in Ranks
<1> QED BY ExecutionAssumption DEF Ranks

(* A manager sends an order, which may turn the module.                    *)
LEMMA SendKeeps ==
  ASSUME NEW r \in Ranks, NEW s, NEW b, NEW b2 \in [Modules -> 0..1], StateOK(s, r, b),
         NEW m \in Modules, NEW x \in QueueMsgs(m), x.module = m,
         x.type \notin {"AddObject", "ComputeObject"},
         m \in Fed => b[m] \in 0..1 /\ Moves(b[m], x, b2[m], m),
         \A d \in Fed : d # m => b2[d] = b[d]
  PROVE  StateOK(Send(s, x), r, b2)
<1>1. PICK q, c : q = s.queue /\ c = s.count
  OBVIOUS
<1>2. /\ s = [count |-> c, queue |-> q, cast |-> <<>>] /\ c \in [Inputs -> Nat] /\ Queues(q)
      /\ \A d \in Fed : Walk(q[d], After(module[r][d]), b[d], TurnIn(QueueMsgs(d), d))
      /\ \A d \in Fed : \A i \in ComputeInputs[d] :
           Walk(q[d], Len(objects[r][i]), c[i], SupplyIn(QueueMsgs(d), i))
  BY <1>1 DEF StateOK
<1>3. q[m] \in Seq(QueueMsgs(m)) /\ q \in [Modules -> UNION {Seq(QueueMsgs(n)) : n \in Modules}]
  BY <1>2 DEF Queues
<1>4. PICK z : z = Append(q[m], x)
  OBVIOUS
<1>5. z \in Seq(QueueMsgs(m))
  BY <1>3, <1>4
<1>6. /\ Queues(Put(q, m, z)) /\ Put(q, m, z)[m] = z
      /\ \A n \in Modules : n # m => Put(q, m, z)[n] = q[n]
  BY <1>2, <1>5, QueuesUpdate
<1>7. PICK q2 : q2 = Put(q, m, z)
  OBVIOUS
<1>8. Send(s, x) = [count |-> c, queue |-> q2, cast |-> <<>>]
  <2>1. x.module = m /\ q2 = [q EXCEPT ![m] = Append(q[m], x)]
    BY <1>3, <1>4, <1>7 DEF Put
  <2>2. s = [count |-> c, queue |-> q, cast |-> <<>>]
    BY <1>2
  <2>3. s.queue = q
    BY ONLY <2>2
  <2>4. [s.queue EXCEPT ![x.module] = Append(@, x)] = q2
    BY ONLY <2>1, <2>3
  <2>5. Send(s, x) = [s EXCEPT !.queue = q2]
    BY ONLY <2>4 DEF Send
  <2> QED BY ONLY <2>2, <2>5
<1>9. ASSUME NEW d \in Fed
      PROVE  Walk(q2[d], After(module[r][d]), b2[d], TurnIn(QueueMsgs(d), d))
  <2>0. d \in Modules
    BY FedFacts
  <2>1. d \in Modules /\ b2[d] \in 0..1 /\ b2[d] \in Nat
    BY <2>0
  <2>2. CASE d = m
    <3>1. <<b[m], x, b2[m]>> \in TurnIn(QueueMsgs(m), m)
      <4>1. b[m] \in 0..1 /\ Moves(b[m], x, b2[m], m) /\ b2[m] \in 0..1 /\ x \in QueueMsgs(m)
        BY <2>1, <2>2
      <4> QED BY ONLY <4>1, TurnIff
    <3>2. Walk(q[m], After(module[r][m]), b[m], TurnIn(QueueMsgs(m), m))
      BY <1>2, <2>2
    <3>3. Walk(z, After(module[r][m]), b2[m], TurnIn(QueueMsgs(m), m))
      BY <1>3, <1>4, <2>1, <2>2, <3>1, <3>2, WalkAppend
    <3> QED BY <1>6, <1>7, <2>2, <3>3
  <2>3. CASE d # m
    BY <1>2, <1>6, <1>7, <2>1, <2>3
  <2> QED BY <2>2, <2>3
<1>10. ASSUME NEW d \in Fed, NEW i \in ComputeInputs[d]
       PROVE  Walk(q2[d], Len(objects[r][i]), c[i], SupplyIn(QueueMsgs(d), i))
  <2>1. d \in Modules /\ i \in Inputs /\ c[i] \in Nat
    BY <1>2, FedFacts
  <2>2. CASE d = m
    <3>1. <<c[i], x, c[i]>> \in SupplyIn(QueueMsgs(m), i)
      <4>1. Counts(c[i], x, c[i], i)
        BY DEF Counts
      <4> QED BY <2>1, <4>1, SupplyIff
    <3>2. Walk(q[m], Len(objects[r][i]), c[i], SupplyIn(QueueMsgs(m), i))
      BY <1>2, <2>2
    <3>3. Walk(z, Len(objects[r][i]), c[i], SupplyIn(QueueMsgs(m), i))
      BY <1>3, <1>4, <2>1, <3>1, <3>2, WalkAppend
    <3> QED BY <1>6, <1>7, <2>2, <3>3
  <2>3. CASE d # m
    BY <1>2, <1>6, <1>7, <2>1, <2>3
  <2> QED BY <2>2, <2>3
<1>11. PICK t : t = Send(s, x)
  OBVIOUS
<1>12. t = [count |-> t.count, queue |-> t.queue, cast |-> <<>>] /\ t.count = c /\ t.queue = q2
  BY <1>8, <1>11
<1>13. StateOK(t, r, b2)
  BY <1>2, <1>6, <1>7, <1>9, <1>10, <1>12 DEF StateOK
<1> QED BY <1>11, <1>13

(* What a manager starts from, and what it leaves.                         *)
LEMMA FlowState ==
  ASSUME ManagersOK, ChannelsOK, LocalOK, NEW r \in Ranks
  PROVE  /\ StateOK(Local(r), r, Prepared(r)) /\ Prepared(r) \in [Modules -> 0..1]
         /\ \A m \in Modules : Prepared(r)[m] = One(mod[r][m].prepared)
<1>1. PICK q, c, s : q = queue[r] /\ c = numObject[r] /\ s = Local(r)
  OBVIOUS
<1>2. Queues(q) /\ c \in [Inputs -> Nat]
  BY <1>1 DEF ChannelsOK, ManagersOK, QueueFuns
<1>3. s = [count |-> c, queue |-> q, cast |-> <<>>]
  BY <1>1 DEF Local
<1>4. s.count = c /\ s.queue = q /\ s = [count |-> s.count, queue |-> s.queue, cast |-> <<>>]
  BY ONLY <1>3
<1>5. \A m \in Modules : Prepared(r)[m] = One(mod[r][m].prepared)
  BY DEF Prepared
<1>6. ASSUME NEW d \in Fed
      PROVE  /\ Walk(q[d], After(module[r][d]), Prepared(r)[d], TurnIn(QueueMsgs(d), d))
             /\ \A i \in ComputeInputs[d] :
                  Walk(q[d], Len(objects[r][i]), c[i], SupplyIn(QueueMsgs(d), i))
  <2>1. d \in Modules
    BY FedFacts
  <2> QED BY <1>1, <1>5, <2>1 DEF LocalOK, Flows
<1>7. StateOK(s, r, Prepared(r))
  BY <1>2, <1>4, <1>6 DEF StateOK
<1>8. Prepared(r) \in [Modules -> 0..1]
  BY DEF Prepared, One
<1> QED BY <1>1, <1>5, <1>7, <1>8

(* A manager sends what it has gathered to its modules, and nothing to     *)
(* others.                                                                 *)
LEMMA CommitKeeps ==
  ASSUME ManagersOK, ChannelsOK, LocalOK, NEW r \in Ranks, NEW d, NEW s, NEW b,
         StateOK(s, r, b), Commit(r, d, s), UNCHANGED <<module, objects>>,
         \A m \in Fed : One(mod'[r][m].prepared) = b[m],
         \A q \in Ranks, m \in Modules : q # r => mod'[q][m] = mod[q][m]
  PROVE  /\ LocalOK' /\ numObject' \in [Ranks -> [Inputs -> Nat]] /\ queue' \in [Ranks -> QueueFuns]
         /\ Cast(r, d, up, <<>>)
<1>1. PICK q, c : q = s.queue /\ c = s.count
  OBVIOUS
<1>2. /\ s = [count |-> c, queue |-> q, cast |-> <<>>] /\ c \in [Inputs -> Nat] /\ Queues(q)
      /\ \A m \in Fed : Walk(q[m], After(module[r][m]), b[m], TurnIn(QueueMsgs(m), m))
      /\ \A m \in Fed : \A i \in ComputeInputs[m] :
           Walk(q[m], Len(objects[r][i]), c[i], SupplyIn(QueueMsgs(m), i))
  BY <1>1 DEF StateOK
<1>3. s.cast = <<>>
  BY ONLY <1>2
<1>4. numObject' = [numObject EXCEPT ![r] = c] /\ queue' = [queue EXCEPT ![r] = q] /\ Cast(r, d, up, <<>>)
  BY <1>1, <1>3 DEF Commit
<1>5. numObject \in [Ranks -> [Inputs -> Nat]] /\ queue \in [Ranks -> QueueFuns]
  BY DEF ManagersOK, ChannelsOK
<1>6. q \in QueueFuns
  BY <1>2 DEF QueueFuns, Queues
<1>7. numObject' \in [Ranks -> [Inputs -> Nat]] /\ queue' \in [Ranks -> QueueFuns]
  BY <1>2, <1>4, <1>5, <1>6
<1>8. /\ numObject'[r] = c /\ queue'[r] = q
      /\ \A p \in Ranks : p # r => numObject'[p] = numObject[p] /\ queue'[p] = queue[p]
  BY <1>4, <1>5
<1>9. ASSUME NEW p \in Ranks PROVE Flows(p)'
  <2>1. CASE p = r
    BY <1>2, <1>8, <2>1 DEF Flows
  <2>2. CASE p # r
    <3>1. \A m \in Fed : mod'[p][m] = mod[p][m]
      BY <2>2, FedFacts
    <3>2. Flows(p)
      BY DEF LocalOK
    <3> QED BY <1>8, <2>2, <3>1, <3>2 DEF Flows
  <2> QED BY <2>1, <2>2
<1>10. LocalOK'
  BY <1>9 DEF LocalOK
<1> QED BY <1>4, <1>7, <1>10

(* What a process sends: its manager takes the first message; the process  *)
(* adds some.                                                              *)
Becomes(r, m, x) == out' = [out EXCEPT ![r][m] = x]
Takes(r, m)      == out' = [out EXCEPT ![r][m] = Tail(@)]

(* What is under way from a process is replaced.                           *)
LEMMA OutIs ==
  ASSUME ChannelsOK, NEW r \in Ranks, NEW m \in Modules, NEW x \in Seq(OutMsgs(m)),
         Becomes(r, m, x)
  PROVE  /\ out' \in [Ranks -> OutFuns] /\ out'[r][m] = x
         /\ \A q \in Ranks, n \in Modules : <<q, n>> # <<r, m>> => out'[q][n] = out[q][n]
<1>1. out \in [Ranks -> OutFuns]
  BY DEF ChannelsOK
<1>2. PICK f : f = out[r]
  OBVIOUS
<1>3. Outs(f)
  BY <1>1, <1>2 DEF OutFuns
<1>4. PICK g : g = Put(f, m, x)
  OBVIOUS
<1>5. Outs(g) /\ g[m] = x /\ \A n \in Modules : n # m => g[n] = f[n]
  BY ONLY <1>3, <1>4, m \in Modules, x \in Seq(OutMsgs(m)), OutsUpdate
<1>6. out' = [out EXCEPT ![r] = g]
  BY <1>2, <1>4 DEF Put, Becomes
<1>7. g \in OutFuns
  BY <1>5 DEF OutFuns, Outs
<1>8. out' \in [Ranks -> OutFuns] /\ out'[r] = g /\ \A q \in Ranks : q # r => out'[q] = out[q]
  BY <1>1, <1>6, <1>7
<1> QED BY <1>2, <1>5, <1>8

(* The manager of a rank takes the first message of a module.              *)
LEMMA OutPop ==
  ASSUME ChannelsOK, NEW r \in Ranks, NEW m \in Modules, out[r][m] # <<>>, NEW a, NEW z,
         Walk(out[r][m], a, z, TurnIn(OutMsgs(m), m)), Takes(r, m)
  PROVE  /\ out' \in [Ranks -> OutFuns] /\ Head(out[r][m]) \in OutMsgs(m)
         /\ \A q \in Ranks, n \in Modules : <<q, n>> # <<r, m>> => out'[q][n] = out[q][n]
         /\ a \in 0..1
         /\ \E b \in 0..1 : Moves(a, Head(out[r][m]), b, m) /\ Walk(out'[r][m], b, z, TurnIn(OutMsgs(m), m))
<1>1. PICK q : q = out[r][m]
  OBVIOUS
<1>2. q \in Seq(OutMsgs(m)) /\ q # <<>>
  BY <1>1 DEF ChannelsOK, OutFuns, Outs
<1>3. Head(q) \in OutMsgs(m) /\ Tail(q) \in Seq(OutMsgs(m))
  BY <1>2, HeadTailProperties
<1>4. PICK b \in Nat : <<a, Head(q), b>> \in TurnIn(OutMsgs(m), m) /\ Walk(Tail(q), b, z, TurnIn(OutMsgs(m), m))
  BY <1>1, <1>2, WalkHead
<1>5. a \in 0..1 /\ b \in 0..1 /\ Moves(a, Head(q), b, m)
  BY <1>4, TurnIff
<1>6. Becomes(r, m, Tail(q))
  BY <1>1 DEF Takes, Becomes
<1>7. /\ out' \in [Ranks -> OutFuns] /\ out'[r][m] = Tail(q)
      /\ \A p \in Ranks, n \in Modules : <<p, n>> # <<r, m>> => out'[p][n] = out[p][n]
  BY <1>3, <1>6, OutIs
<1> QED BY <1>1, <1>3, <1>4, <1>5, <1>7

(* The messages of a process are objects, or its progress.                 *)
LEMMA OutMsgFacts ==
  ASSUME NEW m \in Modules, NEW x \in OutMsgs(m)
  PROVE  /\ x.type = "Object" => /\ x.port \in Outputs /\ x.round \in Nat
                                 /\ \A a, b : Moves(a, x, b, m) => a = b
                                 /\ \A a \in 0..1 : Moves(a, x, a, m)
         /\ x.type # "Object" => x \in Reports({m}) /\ x.module = m /\ x.type \in {"Start", "Finish"}
         /\ ForMaster(x) => x.type # "Object"
  BY DEF OutMsgs, ObjectMsgs, Reports, Moves, ForMaster

(* The inputs that are connected to an output.                             *)
LEMMA InputsFacts ==
  ASSUME NEW o \in Outputs
  PROVE  InputsAt[o] \in Seq(Inputs)
<1>1. PICK S : S = {i \in Inputs : <<o, i>> \in Connections}
  OBVIOUS
<1>2. IsFiniteSet(S) /\ S \subseteq Inputs
  <2>1. IsFiniteSet(Inputs)
    BY ExecutionAssumption, FS_Subset DEF Ports
  <2> QED BY <1>1, <2>1, FS_Subset
<1>3. SetToSeq(S) \in Seq(S)
  BY <1>2, Listed
<1>4. SetToSeq(S) \in Seq(Inputs)
  BY <1>2, <1>3, SeqMonotonic
<1> QED BY <1>1, <1>4 DEF InputsAt

(* A manager delivers an object that a process has sent.                   *)
LEMMA AddObjectKeeps ==
  ASSUME Steering, IInv, NEW r \in Ranks, NEW m \in Modules, HandleAddObject(r, m)
  PROVE  IInv'
<1>1. /\ ManagersOK /\ MasterOK /\ ProcessesOK /\ ChannelsOK /\ LocalOK
      /\ ReportsOK /\ OpenOK
  BY DEF IInv
<1>2. /\ out[r][m] # <<>> /\ Head(out[r][m]).type = "Object"
      /\ out' = [out EXCEPT ![r][m] = Tail(@)]
      /\ UNCHANGED <<mod, master, process, executed>>
  BY DEF HandleAddObject
<1>3. PICK x : x = Head(out[r][m])
  OBVIOUS
<1>4. PICK ins : ins = InputsAt[x.port]
  OBVIOUS
<1>5. PICK s : s = DeliverAll(r, x.round, ins, Len(ins))
  OBVIOUS
<1>6. Commit(r, down, s)
  BY <1>3, <1>4, <1>5 DEF HandleAddObject
<1>7. PICK ex \in Who, mid \in Who : Reporting(ex, mid) /\ RanksOK(ex)
  BY <1>1 DEF ReportsOK
<1>8. Walk(out[r][m], mid[r][m], One(module[r][m].prepared), TurnIn(OutMsgs(m), m))
  BY <1>7 DEF Reporting
<1>9. /\ out' \in [Ranks -> OutFuns] /\ x \in OutMsgs(m) /\ mid[r][m] \in 0..1
      /\ \A q \in Ranks, n \in Modules : <<q, n>> # <<r, m>> => out'[q][n] = out[q][n]
      /\ \E b \in 0..1 : Moves(mid[r][m], x, b, m)
           /\ Walk(out'[r][m], b, One(module[r][m].prepared), TurnIn(OutMsgs(m), m))
  <2>1. PICK a, z : a = mid[r][m] /\ z = One(module[r][m].prepared)
    OBVIOUS
  <2>2. Takes(r, m) /\ Walk(out[r][m], a, z, TurnIn(OutMsgs(m), m)) /\ out[r][m] # <<>>
    BY <1>2, <1>8, <2>1 DEF Takes
  <2>3. /\ out' \in [Ranks -> OutFuns] /\ Head(out[r][m]) \in OutMsgs(m)
        /\ \A q \in Ranks, n \in Modules : <<q, n>> # <<r, m>> => out'[q][n] = out[q][n]
        /\ a \in 0..1
        /\ \E b \in 0..1 : Moves(a, Head(out[r][m]), b, m) /\ Walk(out'[r][m], b, z, TurnIn(OutMsgs(m), m))
    BY ONLY <1>1, <2>2, r \in Ranks, m \in Modules, OutPop
  <2> QED BY <1>3, <2>1, <2>3
<1>10. x.port \in Outputs /\ x.round \in Nat /\ \A a, b : Moves(a, x, b, m) => a = b
  BY <1>2, <1>3, <1>9, OutMsgFacts
<1>11. ins \in Seq(Inputs)
  BY <1>4, <1>10, InputsFacts
<1>12. StateOK(Local(r), r, Prepared(r))
  BY <1>1, FlowState
<1>13. StateOK(s, r, Prepared(r))
  <2>1. PICK b, n : b = Prepared(r) /\ n = x.round
    OBVIOUS
  <2>2. StateOK(Local(r), r, b) /\ n \in Nat /\ b = [k \in Modules |-> One(mod[r][k].prepared)]
    BY <1>10, <1>12, <2>1 DEF Prepared
  <2>3. StateOK(DeliverAll(r, n, ins, Len(ins)), r, b)
    BY ONLY Steering, r \in Ranks, <1>11, <2>2, DeliverAllKeeps
  <2> QED BY <1>5, <2>1, <2>3
<1>14. /\ mod' = mod /\ module' = module /\ objects' = objects /\ executed' = executed
       /\ UNCHANGED <<ranksStarted, ranksFinished, objectCount, numReset, numFinish, done>>
  BY <1>2 DEF process, master
<1>15. \A n \in Fed : One(mod'[r][n].prepared) = Prepared(r)[n]
  BY <1>14, FedFacts DEF Prepared
<1>16. /\ LocalOK' /\ numObject' \in [Ranks -> [Inputs -> Nat]] /\ queue' \in [Ranks -> QueueFuns]
       /\ Cast(r, down, up, <<>>)
  BY <1>1, <1>6, <1>13, <1>14, <1>15, CommitKeeps
<1>17. PICK open \in [Modules -> 0..1] : ResetsOK(open) /\ Lines(down, open)
  BY <1>1 DEF OpenOK
<1>18. up' = up /\ down' \in [Ranks -> Seq(DownMsgs)] /\ LinesOf(mod, down', open)
  BY <1>1, <1>16, <1>17, CastNothing DEF ChannelsOK, Lines
<1>19. ManagersOK' /\ MasterOK' /\ ProcessesOK' /\ ChannelsOK'
  BY <1>1, <1>9, <1>14, <1>16, <1>18 DEF ManagersOK, MasterOK, ProcessesOK, ChannelsOK
<1>20. OpenOK'
  <2>1. ResetsOK(open)'
    BY <1>14, <1>17 DEF ResetsOK, Running
  <2>2. Lines(down, open)'
    BY <1>14, <1>18 DEF Lines
  <2> QED BY <2>1, <2>2 DEF OpenOK
<1>21. Reporting(ex, mid)'
  <2>1. Walk(out'[r][m], mid[r][m], One(module[r][m].prepared), TurnIn(OutMsgs(m), m))
    BY <1>9, <1>10
  <2>2. ASSUME NEW q \in Ranks, NEW n \in Modules
        PROVE  Walk(out'[q][n], mid[q][n], One(module[q][n].prepared), TurnIn(OutMsgs(n), n))
    <3>1. CASE <<q, n>> = <<r, m>>
      BY <2>1, <3>1
    <3>2. CASE <<q, n>> # <<r, m>>
      BY <1>7, <1>9, <3>2 DEF Reporting
    <3> QED BY <3>1, <3>2
  <2> QED BY <1>7, <1>14, <1>18, <2>2 DEF Reporting
<1>22. ReportsOK'
  <2>1. RanksOK(ex)'
    BY <1>7, <1>14 DEF RanksOK
  <2> QED BY <1>7, <1>21, <2>1 DEF ReportsOK
<1> QED BY <1>16, <1>19, <1>20, <1>22 DEF IInv

(* A manager takes the first broadcast, and turns its module.              *)
TurnedOn(x) == One(x.type = "Prepare")

(* The broadcasts are orders to modules, and turn no other module.         *)
LEMMA DownMsgFacts ==
  ASSUME NEW x \in DownMsgs
  PROVE  /\ x.module \in Modules /\ x \in QueueMsgs(x.module)
         /\ x.type \in {"Prepare", "Reduce", "ComputeExecute"}
         /\ x.type = "Prepare" => x.module \in Fed
         /\ x.type \in {"Prepare", "Reduce"} <=> x.module \in Fed
         /\ TurnedOn(x) \in 0..1
         /\ \A m, a, b : Moves(a, x, b, m) => b = IF m = x.module /\ m \in Fed THEN TurnedOn(x) ELSE a
<1>1. /\ x.module \in Modules /\ x.type \in {"Prepare", "Reduce", "ComputeExecute"}
      /\ x.type = "Prepare" => x.module \in Fed
      /\ x.type \in {"Prepare", "Reduce"} <=> x.module \in Fed
  BY FedFacts DEF DownMsgs
<1>2. x \in QueueMsgs(x.module)
  <2>1. CASE x.module \in Fed
    <3>1. x.type \in Orders(x.module)
      BY <1>1, <2>1 DEF Orders
    <3>2. x \in [type : {"Prepare", "Reduce"}, module : Fed]
      BY <1>1, <2>1 DEF DownMsgs
    <3> QED BY <3>1, <3>2 DEF QueueMsgs
  <2>2. CASE x.module \notin Fed
    <3>1. x.type \in Orders(x.module)
      BY <1>1, <2>2 DEF Orders
    <3>2. x \in [type : {"ComputeExecute"}, module : Modules \ Fed]
      BY <1>1, <2>2 DEF DownMsgs
    <3> QED BY <3>1, <3>2 DEF QueueMsgs
  <2> QED BY <2>1, <2>2
<1>3. TurnedOn(x) \in 0..1 /\ (x.type = "Prepare" => TurnedOn(x) = 1) /\ (x.type # "Prepare" => TurnedOn(x) = 0)
  BY DEF TurnedOn, One
<1>4. ASSUME NEW m, NEW a, NEW b, Moves(a, x, b, m)
      PROVE  b = IF m = x.module /\ m \in Fed THEN TurnedOn(x) ELSE a
  BY <1>1, <1>3, <1>4 DEF Moves
<1> QED BY <1>1, <1>2, <1>3, <1>4

(* A manager that has handled the first broadcast has turned its module as *)
(* the broadcast says.                                                     *)
LEMMA DownPop ==
  ASSUME ChannelsOK, NEW open, Lines(down, open), NEW r \in Ranks, down[r] # <<>>, NEW flags,
         One(flags[r][Head(down[r]).module].prepared) = TurnedOn(Head(down[r])),
         \A q \in Ranks, m \in Modules : <<q, m>> # <<r, Head(down[r]).module>> => flags[q][m] = mod[q][m]
  PROVE  /\ Head(down[r]) \in DownMsgs /\ Rest(down, r) \in [Ranks -> Seq(DownMsgs)]
         /\ LinesOf(flags, Rest(down, r), open)
         /\ \A m \in Fed : Head(down[r]).module = m =>
              Moves(One(mod[r][m].prepared), Head(down[r]), TurnedOn(Head(down[r])), m)
<1>1. PICK q, x : q = down[r] /\ x = Head(down[r])
  OBVIOUS
<1>2. down \in [Ranks -> Seq(DownMsgs)] /\ q \in Seq(DownMsgs) /\ q # <<>> /\ x = Head(q)
  BY <1>1 DEF ChannelsOK
<1>3. x \in DownMsgs /\ Tail(q) \in Seq(DownMsgs)
  BY <1>2, HeadTailProperties
<1>4. PICK d : d = Rest(down, r)
  OBVIOUS
<1>5. d \in [Ranks -> Seq(DownMsgs)] /\ d[r] = Tail(q) /\ \A p \in Ranks : p # r => d[p] = down[p]
  BY <1>1, <1>2, <1>3, <1>4 DEF Rest
<1>6. ASSUME NEW m \in Fed
      PROVE  /\ Walk(Tail(q), One(flags[r][m].prepared), open[m], TurnIn(DownMsgs, m))
             /\ x.module = m => Moves(One(mod[r][m].prepared), x, TurnedOn(x), m)
  <2>1. Walk(q, One(mod[r][m].prepared), open[m], TurnIn(DownMsgs, m)) /\ m \in Modules
    BY <1>1, FedFacts DEF Lines, LinesOf
  <2>2. PICK b \in Nat : /\ <<One(mod[r][m].prepared), x, b>> \in TurnIn(DownMsgs, m)
                         /\ Walk(Tail(q), b, open[m], TurnIn(DownMsgs, m))
    BY <1>2, <2>1, WalkHead
  <2>3. Moves(One(mod[r][m].prepared), x, b, m)
    BY <2>2, TurnIff
  <2>4. b = IF m = x.module /\ m \in Fed THEN TurnedOn(x) ELSE One(mod[r][m].prepared)
    BY <1>3, <2>3, DownMsgFacts
  <2>5. CASE m = x.module
    <3>1. b = TurnedOn(x) /\ One(flags[r][m].prepared) = b
      BY <1>1, <2>4, <2>5
    <3> QED BY <2>2, <2>3, <3>1
  <2>6. CASE m # x.module
    <3>1. flags[r][m] = mod[r][m] /\ b = One(mod[r][m].prepared)
      BY <1>1, <2>1, <2>4, <2>6
    <3> QED BY <2>2, <2>6, <3>1
  <2> QED BY <2>5, <2>6
<1>7. ASSUME NEW p \in Ranks, NEW m \in Fed
      PROVE  Walk(d[p], One(flags[p][m].prepared), open[m], TurnIn(DownMsgs, m))
  <2>1. CASE p = r
    BY <1>5, <1>6, <2>1
  <2>2. CASE p # r
    <3>1. flags[p][m] = mod[p][m] /\ d[p] = down[p]
      BY <1>1, <1>5, <2>2, FedFacts
    <3>2. Walk(down[p], One(mod[p][m].prepared), open[m], TurnIn(DownMsgs, m))
      BY DEF Lines, LinesOf
    <3> QED BY <3>1, <3>2
  <2> QED BY <2>1, <2>2
<1>8. LinesOf(flags, d, open)
  BY <1>7 DEF LinesOf
<1> QED BY <1>1, <1>3, <1>4, <1>5, <1>6, <1>8

(* What a manager does about the first broadcast.                          *)
Handled(r, x, n, p, open, b, b2, s, t) ==
  /\ x = Head(down[r]) /\ n = x.module /\ p \in BOOLEAN
  /\ ResetsOK(open) /\ Lines(down, open)
  /\ x \in DownMsgs /\ n \in Modules /\ x \in QueueMsgs(n)
  /\ x.type \in {"Prepare", "Reduce", "ComputeExecute"} /\ (x.type = "Prepare" => n \in Fed)
  /\ mod' \in [Ranks -> [Modules -> [prepared : BOOLEAN, reduced : BOOLEAN]]]
  /\ mod'[r][n] = Flags(p, ~p)
  /\ \A q \in Ranks, m \in Modules : <<q, m>> # <<r, n>> => mod'[q][m] = mod[q][m]
  /\ One(mod'[r][n].prepared) = TurnedOn(x) /\ mod'[r][n].reduced = ~mod'[r][n].prepared
  /\ Rest(down, r) \in [Ranks -> Seq(DownMsgs)] /\ LinesOf(mod', Rest(down, r), open)
  /\ b2[n] = TurnedOn(x) /\ \A m \in Modules : m # n => b2[m] = b[m] /\ b[m] = One(mod[r][m].prepared)
  /\ s = Send(Local(r), x) /\ StateOK(s, r, b2)
  /\ t = (IF x.type = "Prepare" THEN CheckExecuteObject(r, n, TRUE, s) ELSE s)
  /\ StateOK(t, r, b2) /\ Commit(r, Rest(down, r), t)

(* This is what HandleBroadcast does.                                      *)
LEMMA BroadcastDoes ==
  ASSUME Steering, IInv, NEW r \in Ranks, HandleBroadcast(r)
  PROVE  \E x, n, p, s, t : \E open, b, b2 \in [Modules -> 0..1] : Handled(r, x, n, p, open, b, b2, s, t)
<1>1. /\ ManagersOK /\ MasterOK /\ ProcessesOK /\ ChannelsOK /\ LocalOK
      /\ ReportsOK /\ OpenOK
  BY DEF IInv
<1>2. PICK x, n : x = Head(down[r]) /\ n = x.module
  OBVIOUS
<1>3. /\ down[r] # <<>>
      /\ \/ x.type = "Prepare" /\ Prepare(r, n)
         \/ x.type \in {"Reduce", "ComputeExecute"} /\ Complete(r, n)
         \/ x.type = "ComputeObject" /\ ComputeObject(r, n)
      /\ UNCHANGED <<master, out, process, executed>>
  BY <1>2 DEF HandleBroadcast
<1>4. PICK open \in [Modules -> 0..1] : ResetsOK(open) /\ Lines(down, open)
  BY <1>1 DEF OpenOK
<1>5. x \in DownMsgs
  BY <1>1, <1>2, <1>3, HeadTailProperties DEF ChannelsOK
<1>6. /\ n \in Modules /\ x \in QueueMsgs(n) /\ x.module = n
      /\ x.type \in {"Prepare", "Reduce", "ComputeExecute"}
      /\ x.type = "Prepare" => n \in Fed
      /\ TurnedOn(x) \in 0..1
  BY <1>2, <1>5, DownMsgFacts
<1>7. PICK p \in BOOLEAN : p = (x.type = "Prepare")
  OBVIOUS
<1>8. TurnedOn(x) = One(p)
  BY <1>7 DEF TurnedOn
<1>9. mod' = [mod EXCEPT ![r][n] = Flags(p, ~p)]
  <2>1. CASE x.type = "Prepare"
    BY <1>3, <1>7, <2>1 DEF Prepare
  <2>2. CASE x.type # "Prepare"
    BY <1>3, <1>6, <1>7, <2>2 DEF Complete
  <2> QED BY <2>1, <2>2
<1>10. /\ mod' \in [Ranks -> [Modules -> [prepared : BOOLEAN, reduced : BOOLEAN]]]
       /\ mod'[r][n] = Flags(p, ~p)
       /\ \A q \in Ranks, m \in Modules : <<q, m>> # <<r, n>> => mod'[q][m] = mod[q][m]
  <2>1. mod \in [Ranks -> [Modules -> [prepared : BOOLEAN, reduced : BOOLEAN]]]
    BY <1>1 DEF ManagersOK
  <2>2. Flags(p, ~p) \in [prepared : BOOLEAN, reduced : BOOLEAN]
    BY DEF Flags
  <2>3. PICK f : f = Flags(p, ~p)
    OBVIOUS
  <2> QED BY <1>6, <1>9, <2>1, <2>2, <2>3
<1>11. One(mod'[r][n].prepared) = TurnedOn(x) /\ mod'[r][n].reduced = ~mod'[r][n].prepared
  BY <1>8, <1>10 DEF Flags
<1>12. PICK flags : flags = mod'
  OBVIOUS
<1>13. /\ Rest(down, r) \in [Ranks -> Seq(DownMsgs)] /\ LinesOf(flags, Rest(down, r), open)
       /\ \A m \in Fed : x.module = m => Moves(One(mod[r][m].prepared), x, TurnedOn(x), m)
  <2>1. /\ One(flags[r][Head(down[r]).module].prepared) = TurnedOn(Head(down[r]))
        /\ \A q \in Ranks, m \in Modules : <<q, m>> # <<r, Head(down[r]).module>> => flags[q][m] = mod[q][m]
    BY <1>2, <1>10, <1>11, <1>12
  <2>2. /\ Rest(down, r) \in [Ranks -> Seq(DownMsgs)] /\ LinesOf(flags, Rest(down, r), open)
        /\ \A m \in Fed : Head(down[r]).module = m =>
             Moves(One(mod[r][m].prepared), Head(down[r]), TurnedOn(Head(down[r])), m)
    BY ONLY <1>1, <1>3, <1>4, <2>1, r \in Ranks, DownPop
  <2> QED BY <1>2, <2>2
<1>14. PICK b, b2 : b = Prepared(r) /\ b2 = [Prepared(r) EXCEPT ![n] = TurnedOn(x)]
  OBVIOUS
<1>15. /\ StateOK(Local(r), r, b) /\ b \in [Modules -> 0..1] /\ b2 \in [Modules -> 0..1]
       /\ b2[n] = TurnedOn(x) /\ b[n] = One(mod[r][n].prepared)
       /\ \A m \in Modules : m # n => b2[m] = b[m] /\ b[m] = One(mod[r][m].prepared)
  BY <1>1, <1>6, <1>14, FlowState
<1>16. PICK s : s = Send(Local(r), x)
  OBVIOUS
<1>17. StateOK(s, r, b2)
  <2>1. x.type \notin {"AddObject", "ComputeObject"}
    BY <1>6
  <2>2. n \in Fed => b[n] \in 0..1 /\ Moves(b[n], x, b2[n], n)
    BY <1>6, <1>13, <1>15
  <2>3. \A m \in Fed : m # n => b2[m] = b[m]
    BY <1>15, FedFacts
  <2>4. StateOK(Send(Local(r), x), r, b2)
    BY ONLY r \in Ranks, <1>6, <1>15, <2>1, <2>2, <2>3, SendKeeps
  <2> QED BY <1>16, <2>4
<1>18. PICK t : t = IF x.type = "Prepare" THEN CheckExecuteObject(r, n, TRUE, s) ELSE s
  OBVIOUS
<1>19. StateOK(t, r, b2) /\ Commit(r, Rest(down, r), t)
  <2>1. CASE x.type = "Prepare"
    <3>1. b2[n] = 1
      BY <1>7, <1>8, <1>15, <2>1 DEF One
    <3>2. StateOK(CheckExecuteObject(r, n, TRUE, s), r, b2)
      BY <1>6, <1>15, <1>17, <3>1, CheckKeeps
    <3>3. Commit(r, Rest(down, r), t)
      BY <1>2, <1>3, <1>16, <1>18, <2>1 DEF Prepare
    <3> QED BY <1>18, <2>1, <3>2, <3>3
  <2>2. CASE x.type # "Prepare"
    <3>1. Commit(r, Rest(down, r), t)
      BY <1>2, <1>3, <1>6, <1>16, <1>18, <2>2 DEF Complete
    <3> QED BY <1>17, <1>18, <2>2, <3>1
  <2> QED BY <2>1, <2>2
<1>20. Handled(r, x, n, p, open, b, b2, s, t)
  <2>1. /\ Rest(down, r) \in [Ranks -> Seq(DownMsgs)] /\ LinesOf(mod', Rest(down, r), open)
    BY <1>12, <1>13
  <2> QED BY ONLY <1>2, <1>4, <1>5, <1>6, <1>7, <1>10, <1>11, <1>15, <1>16, <1>17, <1>18, <1>19, <2>1
          DEF Handled
<1> QED BY <1>4, <1>15, <1>20

(* handlePriv(Execute) of what was broadcast.                              *)
LEMMA BroadcastKeeps ==
  ASSUME Steering, IInv, NEW r \in Ranks, HandleBroadcast(r)
  PROVE  IInv'
<1>1. /\ ManagersOK /\ MasterOK /\ ProcessesOK /\ ChannelsOK /\ LocalOK
      /\ ReportsOK /\ OpenOK
  BY DEF IInv
<1>2. PICK x, n, p, s, t : \E open, b, b2 \in [Modules -> 0..1] : Handled(r, x, n, p, open, b, b2, s, t)
  BY BroadcastDoes
<1>3. PICK open \in [Modules -> 0..1], b \in [Modules -> 0..1], b2 \in [Modules -> 0..1] :
        Handled(r, x, n, p, open, b, b2, s, t)
  BY <1>2
<1>4. ResetsOK(open) /\ Lines(down, open) /\ n \in Modules
  BY <1>3 DEF Handled
<1>5. /\ mod' \in [Ranks -> [Modules -> [prepared : BOOLEAN, reduced : BOOLEAN]]]
       /\ \A q \in Ranks, m \in Modules : <<q, m>> # <<r, n>> => mod'[q][m] = mod[q][m]
  BY <1>3 DEF Handled
<1>6. One(mod'[r][n].prepared) = TurnedOn(x) /\ mod'[r][n].reduced = ~mod'[r][n].prepared
  BY <1>3 DEF Handled
<1>7. PICK flags : flags = mod'
  OBVIOUS
<1>8. Rest(down, r) \in [Ranks -> Seq(DownMsgs)] /\ LinesOf(flags, Rest(down, r), open)
  BY <1>3, <1>7 DEF Handled
<1>9. b2[n] = TurnedOn(x) /\ \A m \in Modules : m # n => b2[m] = b[m] /\ b[m] = One(mod[r][m].prepared)
  BY <1>3 DEF Handled
<1>10. StateOK(t, r, b2) /\ Commit(r, Rest(down, r), t)
  BY <1>3 DEF Handled
<1>11. /\ module' = module /\ objects' = objects /\ executed' = executed /\ out' = out
       /\ UNCHANGED <<ranksStarted, ranksFinished, objectCount, numReset, numFinish, done>>
  BY DEF HandleBroadcast, process, master
<1>12. /\ LocalOK' /\ numObject' \in [Ranks -> [Inputs -> Nat]] /\ queue' \in [Ranks -> QueueFuns]
       /\ Cast(r, Rest(down, r), up, <<>>)
  <2>1. \A m \in Fed : One(mod'[r][m].prepared) = b2[m]
    <3>1. ASSUME NEW m \in Fed PROVE One(mod'[r][m].prepared) = b2[m]
      <4>1. m \in Modules
        BY FedFacts
      <4>2. CASE m = n
        BY <1>6, <1>9, <4>2
      <4>3. CASE m # n
        <5>1. mod'[r][m] = mod[r][m]
          BY <1>5, <4>1, <4>3
        <5> QED BY <1>9, <4>1, <4>3, <5>1
      <4> QED BY <4>2, <4>3
    <3> QED BY <3>1
  <2>2. \A q \in Ranks, m \in Modules : q # r => mod'[q][m] = mod[q][m]
    BY <1>5
  <2>3. PICK d : d = Rest(down, r)
    OBVIOUS
  <2>4. Commit(r, d, t) /\ StateOK(t, r, b2) /\ UNCHANGED <<module, objects>>
    BY <1>10, <1>11, <2>3
  <2>5. /\ LocalOK' /\ numObject' \in [Ranks -> [Inputs -> Nat]] /\ queue' \in [Ranks -> QueueFuns]
        /\ Cast(r, d, up, <<>>)
    BY ONLY <1>1, r \in Ranks, <2>1, <2>2, <2>4, CommitKeeps
  <2> QED BY <2>3, <2>5
<1>13. up' = up /\ down' \in [Ranks -> Seq(DownMsgs)] /\ LinesOf(flags, down', open)
  <2>1. up \in [Ranks -> Seq(Reports(Modules))]
    BY <1>1 DEF ChannelsOK
  <2> QED BY ONLY r \in Ranks, <1>8, <1>12, <1>4, <2>1, CastNothing
<1>14. ManagersOK'
  <2>1. ASSUME NEW q \in Ranks, NEW m \in Modules PROVE mod'[q][m].reduced = ~mod'[q][m].prepared
    <3>1. CASE <<q, m>> = <<r, n>>
      BY <1>6, <3>1
    <3>2. CASE <<q, m>> # <<r, n>>
      BY <1>1, <1>5, <3>2 DEF ManagersOK
    <3> QED BY <3>1, <3>2
  <2> QED BY <1>5, <1>12, <2>1 DEF ManagersOK
<1>15. MasterOK' /\ ProcessesOK' /\ ChannelsOK'
  BY <1>1, <1>11, <1>12, <1>13 DEF MasterOK, ProcessesOK, ChannelsOK
<1>16. OpenOK'
  <2>1. ResetsOK(open)'
    BY <1>4, <1>11 DEF ResetsOK, Running
  <2>2. Lines(down, open)'
    BY <1>7, <1>13 DEF Lines
  <2> QED BY <2>1, <2>2 DEF OpenOK
<1>17. ReportsOK'
  BY <1>1, <1>11, <1>13 DEF ReportsOK, Reporting, RanksOK
<1> QED BY <1>12, <1>14, <1>15, <1>16, <1>17 DEF IInv

(* What is reported of one module does not concern another.                *)
LEMMA ReportFacts ==
  ASSUME NEW x \in Reports(Modules)
  PROVE  /\ x.module \in Modules /\ x.type \in {"Start", "Finish"}
         /\ \A a, b : Moves(a, x, b, x.module) =>
              /\ a = IF x.type = "Start" THEN 0 ELSE 1
              /\ b = IF x.type = "Start" THEN 1 ELSE 0
         /\ \A n : n # x.module => \A a, b : Moves(a, x, b, n) <=> a = b
<1>1. x.module \in Modules /\ x.type \in {"Start", "Finish"}
  BY DEF Reports
<1> QED BY <1>1 DEF Moves

Alters(w, v, r, m, b) ==
  v[r][m] = b /\ \A q \in Ranks, n \in Modules : <<q, n>> # <<r, m>> => v[q][n] = w[q][n]

(* What is known of one module on one rank changes.                        *)
LEMMA WhoUpdate ==
  ASSUME NEW w \in Who, NEW r \in Ranks, NEW m \in Modules, NEW b \in 0..1
  PROVE  \E v \in Who : Alters(w, v, r, m, b)
<1> DEFINE v == [w EXCEPT ![r] = [w[r] EXCEPT ![m] = b]]
<1>1. v \in Who
  BY DEF Who
<1>2. Alters(w, v, r, m, b)
  BY DEF Who, Alters
<1> QED BY <1>1, <1>2

(* A manager passes on the progress of a process, or handles it on rank 0. *)
LEMMA HandleProgressKeeps ==
  ASSUME Steering, IInv, NEW r \in Ranks, NEW m \in Modules, HandleProgress(r, m)
  PROVE  IInv'
<1>1. /\ ManagersOK /\ MasterOK /\ ProcessesOK /\ ChannelsOK /\ LocalOK
      /\ ReportsOK /\ OpenOK
  BY DEF IInv
<1>2. PICK x : x = Head(out[r][m])
  OBVIOUS
<1>3. /\ out[r][m] # <<>> /\ ForMaster(x) /\ Takes(r, m)
      /\ IF r = 0 THEN Progress(m, x.type, down, up) ELSE Cast(r, down, up, <<x>>) /\ UNCHANGED master
      /\ UNCHANGED <<manager, queue, process, executed>>
  BY <1>2 DEF HandleProgress, Takes
<1>4. PICK ex \in Who, mid \in Who : Reporting(ex, mid) /\ RanksOK(ex)
  BY <1>1 DEF ReportsOK
<1>5. PICK open \in [Modules -> 0..1] : ResetsOK(open) /\ Lines(down, open)
  BY <1>1 DEF OpenOK
<1>6. PICK a, z : a = mid[r][m] /\ z = One(module[r][m].prepared)
  OBVIOUS
<1>7. /\ out' \in [Ranks -> OutFuns] /\ x \in OutMsgs(m) /\ a \in 0..1
      /\ \A q \in Ranks, n \in Modules : <<q, n>> # <<r, m>> => out'[q][n] = out[q][n]
      /\ \E b \in 0..1 : Moves(a, x, b, m) /\ Walk(out'[r][m], b, z, TurnIn(OutMsgs(m), m))
  <2>1. Walk(out[r][m], a, z, TurnIn(OutMsgs(m), m))
    BY <1>4, <1>6 DEF Reporting
  <2>2. /\ out' \in [Ranks -> OutFuns] /\ Head(out[r][m]) \in OutMsgs(m) /\ a \in 0..1
        /\ \A q \in Ranks, n \in Modules : <<q, n>> # <<r, m>> => out'[q][n] = out[q][n]
        /\ \E b \in 0..1 : Moves(a, Head(out[r][m]), b, m) /\ Walk(out'[r][m], b, z, TurnIn(OutMsgs(m), m))
    BY ONLY <1>1, <1>3, <2>1, r \in Ranks, m \in Modules, OutPop
  <2> QED BY <1>2, <2>2
<1>8. PICK b \in 0..1 : Moves(a, x, b, m) /\ Walk(out'[r][m], b, z, TurnIn(OutMsgs(m), m))
  BY <1>7
<1>9. x \in Reports({m}) /\ x \in Reports(Modules) /\ x.module = m /\ x.type \in {"Start", "Finish"}
  <2>1. x \in Reports({m}) /\ x.module = m /\ x.type \in {"Start", "Finish"}
    BY <1>3, <1>7, OutMsgFacts
  <2> QED BY <2>1 DEF Reports
<1>10. /\ a = (IF x.type = "Start" THEN 0 ELSE 1) /\ b = (IF x.type = "Start" THEN 1 ELSE 0)
       /\ \A n : n # m => \A i, j : Moves(i, x, j, n) <=> i = j
  BY <1>8, <1>9, ReportFacts
<1>11. PICK mid2 \in Who : /\ mid2[r][m] = b
                           /\ \A q \in Ranks, n \in Modules : <<q, n>> # <<r, m>> => mid2[q][n] = mid[q][n]
  <2>1. \E v \in Who : Alters(mid, v, r, m, b)
    BY ONLY mid \in Who, r \in Ranks, m \in Modules, b \in 0..1, WhoUpdate
  <2> QED BY <2>1 DEF Alters
<1>12. /\ mod' = mod /\ numObject' = numObject /\ queue' = queue /\ executed' = executed
       /\ module' = module /\ objects' = objects
  BY <1>3 DEF manager, process
<1>13. ASSUME NEW q \in Ranks, NEW n \in Modules
       PROVE  Walk(out'[q][n], mid2[q][n], One(module'[q][n].prepared), TurnIn(OutMsgs(n), n))
  <2>1. CASE <<q, n>> = <<r, m>>
    BY <1>6, <1>8, <1>11, <1>12, <2>1
  <2>2. CASE <<q, n>> # <<r, m>>
    <3>1. out'[q][n] = out[q][n] /\ mid2[q][n] = mid[q][n]
      BY <1>7, <1>11, <2>2
    <3> QED BY <1>4, <1>12, <3>1 DEF Reporting
  <2> QED BY <2>1, <2>2
<1>14. up \in [Ranks -> Seq(Reports(Modules))] /\ up[0] = <<>> /\ down \in [Ranks -> Seq(DownMsgs)]
  BY <1>1 DEF ChannelsOK
<1>15. ManagersOK' /\ ProcessesOK' /\ LocalOK'
  BY <1>1, <1>12 DEF ManagersOK, ProcessesOK, LocalOK, Flows
<1>16. CASE r = 0
  <2>1. PICK ex2 \in Who : /\ ex2[r][m] = b
                           /\ \A q \in Ranks, n \in Modules : <<q, n>> # <<r, m>> => ex2[q][n] = ex[q][n]
    <3>1. \E v \in Who : Alters(ex, v, r, m, b)
      BY ONLY ex \in Who, r \in Ranks, m \in Modules, b \in 0..1, WhoUpdate
    <3> QED BY <3>1 DEF Alters
  <2>2. ASSUME NEW n \in Modules PROVE ex[r][n] = mid[r][n]
    <3>1. Walk(up[r], ex[r][n], mid[r][n], TurnIn(Reports(Modules), n))
      BY <1>4 DEF Reporting
    <3>2. ex[r][n] \in 0..1 /\ up[r] = <<>>
      BY <1>14, <1>16 DEF Who
    <3>3. ex[r][n] \in Nat /\ Walk(<<>>, ex[r][n], mid[r][n], TurnIn(Reports(Modules), n))
      BY <3>1, <3>2
    <3> QED BY ONLY <3>3, WalkEmpty
  <2>3. PICK stage : stage = x.type
    OBVIOUS
  <2>4. Told(ex, ex2, r, m, stage)
    BY <1>6, <1>9, <1>10, <2>1, <2>2, <2>3 DEF Told
  <2>5. Progress(m, stage, down, up)
    BY <1>3, <1>16, <2>3
  <2>6. /\ MasterOK' /\ RanksOK(ex2)' /\ up' = up /\ down' \in [Ranks -> Seq(DownMsgs)]
        /\ \E open2 \in [Modules -> 0..1] : ResetsOK(open2)' /\ Lines(down', open2)
    BY ONLY Steering, r \in Ranks, m \in Modules, <1>1, <1>4, <1>5, <1>14, <2>4, <2>5, ProgressKeeps
  <2>7. ASSUME NEW q \in Ranks, NEW n \in Modules
        PROVE  Walk(up'[q], ex2[q][n], mid2[q][n], TurnIn(Reports(Modules), n))
    <3>1. CASE <<q, n>> = <<r, m>>
      <4>1. up'[q] = <<>> /\ ex2[q][n] = b /\ mid2[q][n] = b /\ b \in Nat
        BY <1>11, <1>14, <1>16, <2>1, <2>6, <3>1
      <4> QED BY <4>1, WalkEmpty
    <3>2. CASE <<q, n>> # <<r, m>>
      <4>1. ex2[q][n] = ex[q][n] /\ mid2[q][n] = mid[q][n] /\ up'[q] = up[q]
        BY <1>11, <2>1, <2>6, <3>2
      <4> QED BY <1>4, <4>1 DEF Reporting
    <3> QED BY <3>1, <3>2
  <2>8. ReportsOK'
    BY <1>11, <1>13, <2>1, <2>6, <2>7 DEF ReportsOK, Reporting
  <2>9. OpenOK'
    BY <1>12, <2>6 DEF OpenOK, Lines, LinesOf
  <2>10. ChannelsOK'
    BY <1>1, <1>7, <1>12, <1>14, <2>6 DEF ChannelsOK
  <2> QED BY <1>15, <2>6, <2>8, <2>9, <2>10 DEF IInv
<1>17. CASE r # 0
  <2>1. /\ up' = [up EXCEPT ![r] = up[r] \o <<x>>] /\ down' = down
        /\ UNCHANGED <<ranksStarted, ranksFinished, objectCount, numReset, numFinish, done>>
    BY <1>3, <1>17 DEF Cast, master
  <2>2. up[r] \in Seq(Reports(Modules)) /\ <<x>> \in Seq(Reports(Modules))
    BY <1>9, <1>14
  <2>3. up[r] \o <<x>> \in Seq(Reports(Modules))
    BY <2>2, ConcatProperties
  <2>4. /\ up' \in [Ranks -> Seq(Reports(Modules))] /\ up'[r] = up[r] \o <<x>>
        /\ \A q \in Ranks : q # r => up'[q] = up[q]
    BY <1>14, <2>1, <2>3
  <2>5. up'[0] = <<>>
    BY <1>14, <1>17, <2>4, ZeroRank
  <2>6. ASSUME NEW n \in Modules
        PROVE  Walk(up[r] \o <<x>>, ex[r][n], mid2[r][n], TurnIn(Reports(Modules), n))
    <3>1. Walk(up[r], ex[r][n], mid[r][n], TurnIn(Reports(Modules), n))
      BY <1>4 DEF Reporting
    <3>2. mid[r][n] \in 0..1 /\ mid2[r][n] \in 0..1 /\ mid[r][n] \in Nat /\ mid2[r][n] \in Nat
      BY <1>4, <1>11 DEF Who
    <3>3. Moves(mid[r][n], x, mid2[r][n], n)
      <4>1. CASE n = m
        BY <1>6, <1>8, <1>11, <4>1
      <4>2. CASE n # m
        BY <1>10, <1>11, <4>2
      <4> QED BY <4>1, <4>2
    <3>4. <<mid[r][n], x, mid2[r][n]>> \in TurnIn(Reports(Modules), n)
      BY <1>9, <3>2, <3>3, TurnIff
    <3>5. Walk(<<x>>, mid[r][n], mid2[r][n], TurnIn(Reports(Modules), n))
      BY <3>2, <3>4, WalkOne
    <3> QED BY <2>2, <3>1, <3>5, WalkConcat
  <2>7. ASSUME NEW q \in Ranks, NEW n \in Modules
        PROVE  Walk(up'[q], ex[q][n], mid2[q][n], TurnIn(Reports(Modules), n))
    <3>1. CASE q = r
      BY <2>4, <2>6, <3>1
    <3>2. CASE q # r
      <4>1. mid2[q][n] = mid[q][n] /\ up'[q] = up[q]
        BY <1>11, <2>4, <3>2
      <4> QED BY <1>4, <4>1 DEF Reporting
    <3> QED BY <3>1, <3>2
  <2>8. RanksOK(ex)'
    BY <1>4, <2>1 DEF RanksOK
  <2>9. ReportsOK'
    BY <1>4, <1>11, <1>13, <2>7, <2>8 DEF ReportsOK, Reporting
  <2>10. MasterOK'
    BY <1>1, <2>1 DEF MasterOK
  <2>11. OpenOK'
    BY <1>5, <1>12, <2>1 DEF OpenOK, Lines, LinesOf, ResetsOK, Running
  <2>12. ChannelsOK'
    BY <1>1, <1>7, <1>12, <2>1, <2>4, <2>5, <1>14 DEF ChannelsOK
  <2> QED BY <1>15, <2>9, <2>10, <2>11, <2>12 DEF IInv
<1> QED BY <1>16, <1>17

(* Rank 0 is told of the progress on another rank.                         *)
LEMMA HandleForwardedKeeps ==
  ASSUME Steering, IInv, NEW r \in Ranks, HandleForwarded(r)
  PROVE  IInv'
<1>1. /\ ManagersOK /\ MasterOK /\ ProcessesOK /\ ChannelsOK /\ LocalOK
      /\ ReportsOK /\ OpenOK
  BY DEF IInv
<1>2. up \in [Ranks -> Seq(Reports(Modules))] /\ up[0] = <<>> /\ down \in [Ranks -> Seq(DownMsgs)]
  BY <1>1 DEF ChannelsOK
<1>3. PICK q : q = up[r]
  OBVIOUS
<1>4. PICK x : x = Head(q)
  OBVIOUS
<1>5. q \in Seq(Reports(Modules)) /\ q # <<>> /\ UNCHANGED <<manager, queue, out, process, executed>> /\ r # 0
  BY <1>2, <1>3 DEF HandleForwarded
<1>6. x \in Reports(Modules) /\ Tail(q) \in Seq(Reports(Modules))
  BY <1>4, <1>5, HeadTailProperties
<1>7. PICK m, stage : m = x.module /\ stage = x.type
  OBVIOUS
<1>8. m \in Modules /\ stage \in {"Start", "Finish"}
  BY <1>6, <1>7, ReportFacts
<1>9. PICK u : u = Rest(up, r)
  OBVIOUS
<1>10. Progress(m, stage, down, u)
  BY <1>3, <1>4, <1>7, <1>8, <1>9 DEF HandleForwarded
<1>11. /\ u \in [Ranks -> Seq(Reports(Modules))] /\ u[r] = Tail(q) /\ u[0] = <<>>
       /\ \A p \in Ranks : p # r => u[p] = up[p]
  BY <1>2, <1>3, <1>5, <1>6, <1>9, ZeroRank DEF Rest
<1>12. PICK ex \in Who, mid \in Who : Reporting(ex, mid) /\ RanksOK(ex)
  BY <1>1 DEF ReportsOK
<1>13. PICK open \in [Modules -> 0..1] : ResetsOK(open) /\ Lines(down, open)
  BY <1>1 DEF OpenOK
<1>14. ASSUME NEW n \in Modules
       PROVE  \E b \in 0..1 : /\ Moves(ex[r][n], x, b, n)
                              /\ Walk(Tail(q), b, mid[r][n], TurnIn(Reports(Modules), n))
  <2>1. Walk(q, ex[r][n], mid[r][n], TurnIn(Reports(Modules), n))
    BY <1>3, <1>12 DEF Reporting
  <2>2. PICK b \in Nat : /\ <<ex[r][n], x, b>> \in TurnIn(Reports(Modules), n)
                         /\ Walk(Tail(q), b, mid[r][n], TurnIn(Reports(Modules), n))
    BY <1>4, <1>5, <2>1, WalkHead
  <2>3. b \in 0..1 /\ Moves(ex[r][n], x, b, n)
    BY <2>2, TurnIff
  <2> QED BY <2>2, <2>3
<1>15. PICK b \in 0..1 : /\ Moves(ex[r][m], x, b, m)
                         /\ Walk(Tail(q), b, mid[r][m], TurnIn(Reports(Modules), m))
  BY <1>8, <1>14
<1>16. /\ ex[r][m] = (IF stage = "Start" THEN 0 ELSE 1) /\ b = (IF stage = "Start" THEN 1 ELSE 0)
       /\ \A n : n # m => \A i, j : Moves(i, x, j, n) <=> i = j
  <2>1. PICK a : a = ex[r][m]
    OBVIOUS
  <2>2. Moves(a, x, b, x.module)
    BY <1>7, <1>15, <2>1
  <2>3. /\ a = IF x.type = "Start" THEN 0 ELSE 1
        /\ b = IF x.type = "Start" THEN 1 ELSE 0
    BY <1>6, <2>2, ReportFacts
  <2>4. \A n : n # x.module => \A i, j : Moves(i, x, j, n) <=> i = j
    BY <1>6, ReportFacts
  <2> QED BY <1>7, <2>1, <2>3, <2>4
<1>17. PICK ex2 \in Who : /\ ex2[r][m] = b
                          /\ \A p \in Ranks, n \in Modules : <<p, n>> # <<r, m>> => ex2[p][n] = ex[p][n]
  <2>1. \E v \in Who : Alters(ex, v, r, m, b)
    BY ONLY ex \in Who, r \in Ranks, <1>8, b \in 0..1, WhoUpdate
  <2> QED BY <2>1 DEF Alters
<1>18. Told(ex, ex2, r, m, stage)
  BY <1>8, <1>16, <1>17 DEF Told
<1>19. /\ MasterOK' /\ RanksOK(ex2)' /\ up' = u /\ down' \in [Ranks -> Seq(DownMsgs)]
       /\ \E open2 \in [Modules -> 0..1] : ResetsOK(open2)' /\ Lines(down', open2)
  BY ONLY Steering, r \in Ranks, <1>1, <1>2, <1>8, <1>10, <1>12, <1>13, <1>18, ProgressKeeps
<1>20. /\ mod' = mod /\ numObject' = numObject /\ queue' = queue /\ executed' = executed
       /\ module' = module /\ objects' = objects /\ out' = out
  BY <1>5 DEF manager, process
<1>21. ASSUME NEW p \in Ranks, NEW n \in Modules
       PROVE  Walk(u[p], ex2[p][n], mid[p][n], TurnIn(Reports(Modules), n))
  <2>1. CASE p = r /\ n = m
    BY <1>11, <1>15, <1>17, <2>1
  <2>2. CASE p = r /\ n # m
    <3>1. PICK j \in 0..1 : /\ Moves(ex[r][n], x, j, n)
                            /\ Walk(Tail(q), j, mid[r][n], TurnIn(Reports(Modules), n))
      BY <1>14
    <3>2. j = ex[r][n] /\ ex2[r][n] = ex[r][n]
      BY <1>16, <1>17, <2>2, <3>1
    <3> QED BY <1>11, <2>2, <3>1, <3>2
  <2>3. CASE p # r
    <3>1. u[p] = up[p] /\ ex2[p][n] = ex[p][n]
      BY <1>11, <1>17, <2>3
    <3> QED BY <1>12, <3>1 DEF Reporting
  <2> QED BY <2>1, <2>2, <2>3
<1>22. Reporting(ex2, mid)'
  BY <1>12, <1>19, <1>20, <1>21 DEF Reporting
<1>23. ReportsOK'
  BY <1>12, <1>17, <1>19, <1>22 DEF ReportsOK
<1>24. ManagersOK' /\ ProcessesOK' /\ LocalOK'
  BY <1>1, <1>20 DEF ManagersOK, ProcessesOK, LocalOK, Flows
<1>25. OpenOK'
  BY <1>19, <1>20 DEF OpenOK, Lines, LinesOf
<1>26. ChannelsOK'
  BY <1>1, <1>11, <1>19, <1>20 DEF ChannelsOK
<1> QED BY <1>19, <1>23, <1>24, <1>25, <1>26 DEF IInv

(* No module with LazyGang scheduling is asked to compute.                 *)
LEMMA NoRequest ==
  ASSUME IInv, HandleOwn
  PROVE  FALSE
<1>1. down[0] \in Seq(DownMsgs) /\ down[0] # <<>> /\ Head(down[0]).type = "Request"
  BY ZeroRank DEF IInv, ChannelsOK, HandleOwn
<1>2. Head(down[0]) \in DownMsgs
  BY <1>1, HeadTailProperties
<1> QED BY <1>1, <1>2, DownMsgFacts

(* The user executes a source.                                             *)
LEMMA UserExecuteKeeps ==
  ASSUME Steering, IInv, NEW m \in Modules, UserExecute(m)
  PROVE  IInv'
<1>1. /\ ManagersOK /\ MasterOK /\ ProcessesOK /\ ChannelsOK /\ LocalOK
      /\ ReportsOK /\ OpenOK
  BY DEF IInv
<1>2. /\ executed[m] < MaxExecutes[m] /\ executed' = [executed EXCEPT ![m] = @ + 1]
      /\ Cast(0, down, up, <<Execute("ComputeExecute", m)>>)
      /\ UNCHANGED <<manager, master, queue, out, process>>
  BY DEF UserExecute
<1>3. executed \in [Modules -> Nat] /\ down \in [Ranks -> Seq(DownMsgs)]
  BY <1>1 DEF ChannelsOK
<1>4. m \notin Fed
  <2>1. m \in Fed => MaxExecutes[m] = 0
    BY DEF Steering
  <2> QED BY <1>2, <1>3, <2>1
<1>5. PICK x : x = Execute("ComputeExecute", m)
  OBVIOUS
<1>6. x \in DownMsgs /\ x.type = "ComputeExecute"
  <2>1. Execute("ComputeExecute", m) \in QueueMsgs(m) \cap DownMsgs
    BY <1>4, OrderFacts
  <2> QED BY <1>5, <2>1 DEF Execute
<1>7. PICK open \in [Modules -> 0..1] : ResetsOK(open) /\ Lines(down, open)
  BY <1>1 DEF OpenOK
<1>8. ASSUME NEW e \in Fed PROVE Walk(<<x>>, open[e], open[e], TurnIn(DownMsgs, e))
  <2>1. e \in Modules
    BY FedFacts
  <2>2. open[e] \in 0..1 /\ open[e] \in Nat
    BY <2>1
  <2>3. Moves(open[e], x, open[e], e)
    BY <1>6 DEF Moves
  <2>4. <<open[e], x, open[e]>> \in TurnIn(DownMsgs, e)
    BY <1>6, <2>2, <2>3, TurnIff
  <2> QED BY <2>2, <2>4, WalkOne
<1>9. PICK msgs : msgs = <<x>>
  OBVIOUS
<1>10. /\ msgs \in Seq(DownMsgs) /\ Cast(0, down, up, msgs) /\ LinesOf(mod, down, open)
       /\ \A e \in Fed : Walk(msgs, open[e], open[e], TurnIn(DownMsgs, e))
  BY <1>2, <1>5, <1>6, <1>7, <1>8, <1>9 DEF Lines
<1>11. up' = up /\ down' \in [Ranks -> Seq(DownMsgs)] /\ LinesOf(mod, down', open)
  BY ONLY <1>3, <1>10, CastWalk
<1>12. /\ mod' = mod /\ numObject' = numObject /\ queue' = queue /\ module' = module /\ objects' = objects
       /\ out' = out /\ UNCHANGED <<ranksStarted, ranksFinished, objectCount, numReset, numFinish, done>>
  BY <1>2 DEF manager, master, process
<1>13. ManagersOK' /\ MasterOK' /\ ProcessesOK' /\ LocalOK'
  BY <1>1, <1>12 DEF ManagersOK, MasterOK, ProcessesOK, LocalOK, Flows
<1>14. ChannelsOK'
  BY <1>1, <1>2, <1>3, <1>11, <1>12 DEF ChannelsOK
<1>15. ReportsOK'
  BY <1>1, <1>11, <1>12 DEF ReportsOK, Reporting, RanksOK
<1>16. OpenOK'
  <2>1. ResetsOK(open)' /\ Lines(down, open)'
    BY <1>7, <1>11, <1>12 DEF ResetsOK, Running, Lines
  <2> QED BY <2>1 DEF OpenOK
<1> QED BY <1>13, <1>14, <1>15, <1>16 DEF IInv

-----------------------------------------------------------------------------
(***************************************************************************)
(* The processes.                                                          *)
(***************************************************************************)
(* The new objects of an execution, at all outputs of the module.          *)
LEMMA NewObjectsStay ==
  ASSUME NEW m \in Modules, NEW n \in Nat, NEW round \in Nat
  PROVE  /\ NewObjects(m, n, round) \in Seq(OutMsgs(m))
         /\ \A R : \A a \in Nat : (\A x \in OutMsgs(m) : x.type = "Object" /\ x.round = round => <<a, x, a>> \in R)
                              => Walk(NewObjects(m, n, round), a, a, R)
<1>1. PICK S : S = {o \in Outputs : ModuleOf[o] = m}
  OBVIOUS
<1>2. IsFiniteSet(S)
  <2>1. IsFiniteSet(Outputs)
    BY ExecutionAssumption, FS_Subset DEF Ports
  <2> QED BY <1>1, <2>1, FS_Subset
<1>3. PICK os : os = SetToSeq(S)
  OBVIOUS
<1>4. os \in Seq(S) /\ OutputsOf[m] = os
  BY <1>1, <1>2, <1>3, Listed DEF OutputsOf
<1>5. PICK len \in Nat : len = Len(os)
  BY <1>4
<1>6. DOMAIN os = 1..len /\ \A k \in 1..len : os[k] \in S
  BY <1>4, <1>5
<1> DEFINE Message(k) == [type |-> "Object", port |-> os[k], round |-> round]
           ss == [k \in 1..len |-> Repeat(n, Message(k))]
<1>7. NewObjects(m, n, round) = FlattenSeq(ss)
  BY <1>4, <1>6 DEF NewObjects
<1> DEFINE Stays(R, a) == \A x \in OutMsgs(m) : x.type = "Object" /\ x.round = round => <<a, x, a>> \in R
<1>8. ASSUME NEW k \in 1..len
      PROVE  /\ ss[k] \in Seq(OutMsgs(m))
             /\ \A R : \A a \in Nat : Stays(R, a) => Walk(ss[k], a, a, R)
  <2>1. PICK x : x = Message(k)
    OBVIOUS
  <2>2. x \in OutMsgs(m) /\ x.type = "Object" /\ x.round = round
    BY <1>1, <1>6, <2>1 DEF OutMsgs, ObjectMsgs
  <2>3. PICK q : q = Repeat(n, x)
    OBVIOUS
  <2>4. q \in Seq(OutMsgs(m)) /\ Len(q) = n /\ \A j \in 1..n : q[j] = x
    BY <2>2, <2>3, RepeatSeq
  <2>5. ASSUME NEW R, NEW a \in Nat, Stays(R, a) PROVE Walk(q, a, a, R)
    <3>1. <<a, x, a>> \in R
      BY <2>2, <2>5
    <3>2. \A j \in 1..Len(q) : <<a, q[j], a>> \in R
      BY <2>4, <3>1
    <3> QED BY ONLY <2>4, <3>2, a \in Nat, WalkStay
  <2>6. ss[k] = q
    BY <2>1, <2>3
  <2> QED BY <2>4, <2>5, <2>6
<1>9. ss = [k \in 1..len |-> ss[k]]
  OBVIOUS
<1> HIDE DEF ss
<1>10. ss \in Seq(Seq(OutMsgs(m))) /\ Len(ss) = len
  BY <1>8, <1>9
<1>11. /\ FlattenSeq(ss) \in Seq(OutMsgs(m))
       /\ \A R : \A c \in [0..Len(ss) -> Nat] :
            (\A k \in 1..Len(ss) : Walk(ss[k], c[k - 1], c[k], R))
              => Walk(FlattenSeq(ss), c[0], c[Len(ss)], R)
  BY <1>10, Flattened
<1>12. ASSUME NEW R, NEW a \in Nat, Stays(R, a) PROVE Walk(FlattenSeq(ss), a, a, R)
  <2>1. PICK c : c = [k \in 0..len |-> a]
    OBVIOUS
  <2>2. c \in [0..len -> Nat] /\ c[0] = a /\ c[len] = a /\ \A k \in 1..len : c[k - 1] = a /\ c[k] = a
    BY <2>1
  <2>3. \A k \in 1..len : Walk(ss[k], c[k - 1], c[k], R)
    BY <1>8, <1>12, <2>2
  <2>4. Walk(FlattenSeq(ss), c[0], c[Len(ss)], R)
    BY <1>10, <1>11, <2>2, <2>3
  <2> QED BY <1>10, <2>2, <2>4
<1> QED BY <1>7, <1>11, <1>12

(* They do not change whether the process is executing.                    *)
LEMMA NewObjectsWalk ==
  ASSUME NEW m \in Modules, NEW n \in Nat, NEW round \in Nat
  PROVE  /\ NewObjects(m, n, round) \in Seq(OutMsgs(m))
         /\ \A a \in 0..1 : Walk(NewObjects(m, n, round), a, a, TurnIn(OutMsgs(m), m))
<1>1. PICK q : q = NewObjects(m, n, round)
  OBVIOUS
<1>2. /\ q \in Seq(OutMsgs(m))
      /\ \A R : \A a \in Nat : (\A x \in OutMsgs(m) : x.type = "Object" /\ x.round = round => <<a, x, a>> \in R)
                           => Walk(q, a, a, R)
  BY <1>1, NewObjectsStay
<1>3. ASSUME NEW a \in 0..1 PROVE Walk(q, a, a, TurnIn(OutMsgs(m), m))
  <2>1. ASSUME NEW x \in OutMsgs(m), x.type = "Object" PROVE <<a, x, a>> \in TurnIn(OutMsgs(m), m)
    <3>1. Moves(a, x, a, m)
      BY <2>1, OutMsgFacts
    <3> QED BY <3>1, TurnIff
  <2>2. a \in Nat
    OBVIOUS
  <2> QED BY <1>2, <2>1, <2>2
<1> QED BY <1>1, <1>2, <1>3

(* One message of a process.                                               *)
LEMMA ReportWalk ==
  ASSUME NEW m \in Modules, NEW type \in {"Start", "Finish"}
  PROVE  /\ <<[type |-> type, module |-> m]>> \in Seq(OutMsgs(m))
         /\ type = "Start" => Walk(<<[type |-> type, module |-> m]>>, 0, 1, TurnIn(OutMsgs(m), m))
         /\ type = "Finish" => Walk(<<[type |-> type, module |-> m]>>, 1, 0, TurnIn(OutMsgs(m), m))
<1>1. PICK x : x = [type |-> type, module |-> m]
  OBVIOUS
<1>2. x \in OutMsgs(m) /\ x.type = type /\ x.module = m
  BY <1>1 DEF OutMsgs, Reports
<1>3. type = "Start" => Moves(0, x, 1, m)
  BY <1>2 DEF Moves
<1>4. type = "Finish" => Moves(1, x, 0, m)
  BY <1>2 DEF Moves
<1>5. 0 \in 0..1 /\ 1 \in 0..1 /\ 0 \in Nat /\ 1 \in Nat
  OBVIOUS
<1>6. type = "Start" => <<0, x, 1>> \in TurnIn(OutMsgs(m), m)
  BY <1>2, <1>3, <1>5, TurnIff
<1>7. type = "Finish" => <<1, x, 0>> \in TurnIn(OutMsgs(m), m)
  BY <1>2, <1>4, <1>5, TurnIff
<1>8. type = "Start" => Walk(<<x>>, 0, 1, TurnIn(OutMsgs(m), m))
  BY <1>5, <1>6, WalkOne
<1>9. type = "Finish" => Walk(<<x>>, 1, 0, TurnIn(OutMsgs(m), m))
  BY <1>5, <1>7, WalkOne
<1>10. <<x>> \in Seq(OutMsgs(m))
  BY <1>2
<1> QED BY <1>1, <1>8, <1>9, <1>10

(* A process that goes from one state to another, takes from its queue and *)
(* sends messages.                                                         *)
ProcessIs(r, m, p) == module' = [module EXCEPT ![r][m] = p]
QueueIs(r, m, q)   == queue' = [queue EXCEPT ![r][m] = q]

(* The state of one process is replaced.                                   *)
LEMMA ProcessUpdate ==
  ASSUME ProcessesOK, NEW r \in Ranks, NEW m \in Modules, NEW p, ProcOK(p, m), ProcessIs(r, m, p)
  PROVE  /\ module' \in [Ranks -> ProcFuns] /\ module'[r][m] = p
         /\ \A q \in Ranks, n \in Modules : <<q, n>> # <<r, m>> => module'[q][n] = module[q][n]
<1>1. module \in [Ranks -> ProcFuns]
  BY DEF ProcessesOK
<1>2. PICK f, g : f = module[r] /\ g = [module[r] EXCEPT ![m] = p]
  OBVIOUS
<1>3. f \in [Modules -> UNION {Processes(n) : n \in Modules}] /\ \A n \in Modules : ProcOK(f[n], n)
  BY <1>1, <1>2 DEF ProcFuns
<1>4. p \in UNION {Processes(n) : n \in Modules}
  BY DEF ProcOK
<1>5. /\ g \in [Modules -> UNION {Processes(n) : n \in Modules}] /\ g[m] = p
      /\ \A n \in Modules : n # m => g[n] = f[n]
  BY <1>2, <1>3, <1>4
<1>6. g \in ProcFuns
  BY <1>3, <1>5 DEF ProcFuns
<1>7. module' = [module EXCEPT ![r] = g]
  BY <1>2 DEF ProcessIs
<1>8. module' \in [Ranks -> ProcFuns] /\ module'[r] = g /\ \A q \in Ranks : q # r => module'[q] = module[q]
  BY <1>1, <1>6, <1>7
<1> QED BY <1>2, <1>5, <1>8

(* The queue of one process is replaced.                                   *)
LEMMA QueueUpdate ==
  ASSUME ChannelsOK, NEW r \in Ranks, NEW m \in Modules, NEW q \in Seq(QueueMsgs(m)), QueueIs(r, m, q)
  PROVE  /\ queue' \in [Ranks -> QueueFuns] /\ queue'[r][m] = q
         /\ \A p \in Ranks, n \in Modules : <<p, n>> # <<r, m>> => queue'[p][n] = queue[p][n]
<1>1. queue \in [Ranks -> QueueFuns]
  BY DEF ChannelsOK
<1>2. PICK f, g : f = queue[r] /\ g = Put(queue[r], m, q)
  OBVIOUS
<1>3. Queues(f) /\ g = Put(f, m, q)
  BY <1>1, <1>2 DEF QueueFuns
<1>4. Queues(g) /\ g[m] = q /\ \A n \in Modules : n # m => g[n] = f[n]
  BY ONLY <1>3, m \in Modules, q \in Seq(QueueMsgs(m)), QueuesUpdate
<1>5. queue' = [queue EXCEPT ![r] = g]
  BY <1>2 DEF Put, QueueIs
<1>6. g \in QueueFuns
  BY <1>4 DEF QueueFuns, Queues
<1>7. queue' \in [Ranks -> QueueFuns] /\ queue'[r] = g /\ \A p \in Ranks : p # r => queue'[p] = queue[p]
  BY <1>1, <1>5, <1>6
<1> QED BY <1>2, <1>4, <1>7

ObjectsStay(r, m) ==
  /\ objects' \in [Ranks -> [Inputs -> Seq(Nat)]]
  /\ \A q \in Ranks, i \in Inputs : q # r \/ ModuleOf[i] # m => objects'[q][i] = objects[q][i]

(* A step of a process keeps the invariant if what it sends takes it from  *)
(* prepared to prepared, and its queue leads from its new state to that of *)
(* its manager.                                                            *)
LEMMA ProcessStep ==
  ASSUME IInv, NEW r \in Ranks, NEW m \in Modules, NEW p, ProcOK(p, m), ProcessIs(r, m, p),
         NEW msgs \in Seq(OutMsgs(m)), Report(r, m, msgs),
         Walk(msgs, One(module[r][m].prepared), One(p.prepared), TurnIn(OutMsgs(m), m)),
         NEW q \in Seq(QueueMsgs(m)), QueueIs(r, m, q), ObjectsStay(r, m),
         m \in Fed => Walk(q, After(p), One(mod[r][m].prepared), TurnIn(QueueMsgs(m), m)),
         m \in Fed => \A i \in ComputeInputs[m] :
            Walk(q, Len(objects'[r][i]), numObject[r][i], SupplyIn(QueueMsgs(m), i)),
         UNCHANGED <<manager, master, up, down, executed>>
  PROVE  IInv'
<1>1. /\ ManagersOK /\ MasterOK /\ ProcessesOK /\ ChannelsOK /\ LocalOK
      /\ ReportsOK /\ OpenOK
  BY DEF IInv
<1>2. /\ module' \in [Ranks -> ProcFuns] /\ module'[r][m] = p
      /\ \A k \in Ranks, n \in Modules : <<k, n>> # <<r, m>> => module'[k][n] = module[k][n]
  BY <1>1, ProcessUpdate
<1>3. /\ queue' \in [Ranks -> QueueFuns] /\ queue'[r][m] = q
      /\ \A k \in Ranks, n \in Modules : <<k, n>> # <<r, m>> => queue'[k][n] = queue[k][n]
  BY <1>1, QueueUpdate
<1>4. PICK y : y = out[r][m] \o msgs
  OBVIOUS
<1>5. out[r][m] \in Seq(OutMsgs(m))
  BY <1>1 DEF ChannelsOK, OutFuns, Outs
<1>6. y \in Seq(OutMsgs(m)) /\ Becomes(r, m, y)
  <2>1. y \in Seq(OutMsgs(m))
    BY <1>4, <1>5, ConcatProperties
  <2> QED BY <1>4, <2>1 DEF Report, Becomes
<1>7. /\ out' \in [Ranks -> OutFuns] /\ out'[r][m] = y
      /\ \A k \in Ranks, n \in Modules : <<k, n>> # <<r, m>> => out'[k][n] = out[k][n]
  BY ONLY <1>1, <1>6, r \in Ranks, m \in Modules, OutIs
<1>8. PICK ex \in Who, mid \in Who : Reporting(ex, mid) /\ RanksOK(ex)
  BY <1>1 DEF ReportsOK
<1>9. /\ mod' = mod /\ numObject' = numObject /\ up' = up /\ down' = down /\ executed' = executed
      /\ UNCHANGED <<ranksStarted, ranksFinished, objectCount, numReset, numFinish, done>>
  BY DEF manager, master
<1>10. ASSUME NEW k \in Ranks, NEW n \in Modules
       PROVE  Walk(out'[k][n], mid[k][n], One(module'[k][n].prepared), TurnIn(OutMsgs(n), n))
  <2>1. CASE <<k, n>> = <<r, m>>
    <3>1. Walk(out[r][m], mid[r][m], One(module[r][m].prepared), TurnIn(OutMsgs(m), m))
      BY <1>8 DEF Reporting
    <3>2. PICK a, b, c, w, R : /\ a = mid[r][m] /\ b = One(module[r][m].prepared) /\ c = One(p.prepared)
                               /\ w = out[r][m] /\ R = TurnIn(OutMsgs(m), m)
      OBVIOUS
    <3>3. Walk(w, a, b, R) /\ Walk(msgs, b, c, R) /\ w \in Seq(OutMsgs(m))
      BY <1>5, <3>1, <3>2
    <3>4. Walk(w \o msgs, a, c, R)
      BY ONLY <3>3, msgs \in Seq(OutMsgs(m)), WalkConcat
    <3> QED BY <1>2, <1>4, <1>7, <2>1, <3>2, <3>4
  <2>2. CASE <<k, n>> # <<r, m>>
    <3>1. out'[k][n] = out[k][n] /\ module'[k][n] = module[k][n]
      BY <1>2, <1>7, <2>2
    <3> QED BY <1>8, <3>1 DEF Reporting
  <2> QED BY <2>1, <2>2
<1>11. ReportsOK'
  <2>1. Reporting(ex, mid)'
    BY <1>8, <1>9, <1>10 DEF Reporting
  <2>2. RanksOK(ex)'
    BY <1>8, <1>9 DEF RanksOK
  <2> QED BY <1>8, <2>1, <2>2 DEF ReportsOK
<1>12. ASSUME NEW k \in Ranks, NEW d \in Fed
       PROVE  /\ Walk(queue'[k][d], After(module'[k][d]), One(mod[k][d].prepared), TurnIn(QueueMsgs(d), d))
              /\ \A i \in ComputeInputs[d] :
                   Walk(queue'[k][d], Len(objects'[k][i]), numObject[k][i], SupplyIn(QueueMsgs(d), i))
  <2>1. d \in Modules /\ \A i \in ComputeInputs[d] : i \in Inputs /\ ModuleOf[i] = d
    BY FedFacts
  <2>2. CASE <<k, d>> = <<r, m>>
    BY <1>2, <1>3, <2>2
  <2>3. CASE <<k, d>> # <<r, m>>
    <3>1. queue'[k][d] = queue[k][d] /\ module'[k][d] = module[k][d]
      BY <1>2, <1>3, <2>1, <2>3
    <3>2. \A i \in ComputeInputs[d] : objects'[k][i] = objects[k][i]
      BY <2>1, <2>3 DEF ObjectsStay
    <3>3. Flows(k)
      BY <1>1 DEF LocalOK
    <3> QED BY <3>1, <3>2, <3>3 DEF Flows
  <2> QED BY <2>2, <2>3
<1>13. LocalOK'
  BY <1>9, <1>12 DEF LocalOK, Flows
<1>14. ManagersOK' /\ MasterOK' /\ ProcessesOK' /\ ChannelsOK'
  BY <1>1, <1>2, <1>3, <1>7, <1>9 DEF ManagersOK, MasterOK, ProcessesOK, ChannelsOK, ObjectsStay
<1>15. OpenOK'
  BY <1>1, <1>9 DEF OpenOK, ResetsOK, Running, Lines
<1> QED BY <1>11, <1>13, <1>14, <1>15 DEF IInv

(* What one stage does to the process: what is left of its stages, and     *)
(* whether it is prepared.                                                 *)
Does(r, m, t, prepared) ==
  \E p \in Processes(m) : \E msgs \in Seq(OutMsgs(m)) :
    /\ p.rest = t /\ p.prepared = prepared /\ (p.prepared => ~p.reduced)
    /\ ProcessIs(r, m, p) /\ Report(r, m, msgs)
    /\ Walk(msgs, One(module[r][m].prepared), One(prepared), TurnIn(OutMsgs(m), m))

(* The parts of the state of a process.                                    *)
LEMMA ProcessFacts ==
  ASSUME ProcessesOK, NEW r \in Ranks, NEW m \in Modules
  PROVE  /\ ProcOK(module[r][m], m) /\ module[r][m] \in Processes(m)
         /\ module[r][m].prepared \in BOOLEAN /\ module[r][m].rest \in Rests(m)
         /\ module[r][m].prepared => ~module[r][m].reduced
         /\ module[r][m].round \in Nat
         /\ objects[r] \in [Inputs -> Seq(Nat)]
  BY DEF ProcessesOK, ProcFuns, ProcOK, Processes

(* Only the stages of a process are replaced.                              *)
LEMMA ProcessEdit ==
  ASSUME NEW m \in Modules, NEW p \in Processes(m), NEW t \in Rests(m)
  PROVE  LET q == [p EXCEPT !.rest = t]
         IN  /\ q \in Processes(m) /\ q.rest = t /\ q.prepared = p.prepared /\ q.reduced = p.reduced
             /\ q.round = p.round /\ q.withOutput = p.withOutput
  BY DEF Processes

(* prepareWrapper turns a process that is not prepared.                    *)
LEMMA StartDoes ==
  ASSUME ProcessesOK, NEW r \in Ranks, NEW m \in Modules, NEW t \in Rests(m), ~module[r][m].prepared,
         Start(r, m, [module[r][m] EXCEPT !.rest = t])
  PROVE  Does(r, m, t, TRUE) /\ objects' = objects
<1>1. PICK p0, p : p0 = module[r][m] /\ p = [p0 EXCEPT !.rest = t]
  OBVIOUS
<1>2. p0 \in Processes(m) /\ ~p0.prepared
  BY <1>1, ProcessFacts
<1>3. p \in Processes(m) /\ p.rest = t
  BY <1>1, <1>2, ProcessEdit
<1>4. PICK p2 : p2 = [p EXCEPT !.prepared = TRUE, !.reduced = FALSE, !.withOutput = FALSE, !.round = @ + 1]
  OBVIOUS
<1>5. p2 \in Processes(m) /\ p2.rest = t /\ p2.prepared = TRUE /\ ~p2.reduced
  <2>1. PICK n \in Nat : n = p.round + 1
    BY <1>3 DEF Processes
  <2>2. p2 = [prepared |-> TRUE, reduced |-> FALSE, withOutput |-> FALSE, round |-> n, rest |-> t]
    BY <1>3, <1>4, <2>1 DEF Processes
  <2> QED BY <2>2 DEF Processes
<1>6. PICK msgs : msgs = <<[type |-> "Start", module |-> m]>>
  OBVIOUS
<1>7. ProcessIs(r, m, p2) /\ Report(r, m, msgs) /\ objects' = objects
  BY <1>1, <1>4, <1>6 DEF Start, ProcessIs
<1>8. msgs \in Seq(OutMsgs(m)) /\ Walk(msgs, 0, 1, TurnIn(OutMsgs(m), m))
  BY <1>6, ReportWalk
<1>9. One(module[r][m].prepared) = 0 /\ One(TRUE) = 1
  BY DEF One
<1> QED BY <1>5, <1>7, <1>8, <1>9 DEF Does

(* prepare of a source.                                                    *)
LEMMA ProduceDoes ==
  ASSUME ProcessesOK, NEW r \in Ranks, NEW m \in Modules, NEW t \in Rests(m),
         Produce(r, m, [module[r][m] EXCEPT !.rest = t])
  PROVE  Does(r, m, t, module[r][m].prepared) /\ ObjectsStay(r, m)
<1>1. PICK p0, p : p0 = module[r][m] /\ p = [p0 EXCEPT !.rest = t]
  OBVIOUS
<1>2. p0 \in Processes(m) /\ p0.prepared \in BOOLEAN /\ (p0.prepared => ~p0.reduced)
  BY <1>1, ProcessFacts
<1>3. p \in Processes(m) /\ p.rest = t /\ p.prepared = p0.prepared /\ p.reduced = p0.reduced /\ p.round \in Nat
  BY <1>1, <1>2, ProcessEdit DEF Processes
<1>4. PICK p2 : p2 = [p EXCEPT !.withOutput = @ \/ Produces[m][r] > 0]
  OBVIOUS
<1>5. p2 \in Processes(m) /\ p2.rest = t /\ p2.prepared = p0.prepared /\ p2.reduced = p0.reduced
  <2>1. (p.withOutput \/ Produces[m][r] > 0) \in BOOLEAN
    OBVIOUS
  <2> QED BY <1>3, <1>4, <2>1 DEF Processes
<1>6. PICK msgs : msgs = NewObjects(m, Produces[m][r], p.round)
  OBVIOUS
<1>7. Produces[m][r] \in Nat
  BY ExecutionAssumption
<1>8. msgs \in Seq(OutMsgs(m)) /\ \A a \in 0..1 : Walk(msgs, a, a, TurnIn(OutMsgs(m), m))
  BY <1>3, <1>6, <1>7, NewObjectsWalk
<1>9. One(p0.prepared) \in 0..1
  BY DEF One
<1>10. ProcessIs(r, m, p2) /\ Report(r, m, msgs)
  BY <1>1, <1>4, <1>6 DEF Produce, ProcessIs
<1>11. ObjectsStay(r, m)
  <2>1. objects' = [objects EXCEPT ![r] = [i \in Inputs |-> IF ModuleOf[i] = m THEN <<>> ELSE objects[r][i]]]
    BY DEF Produce
  <2>2. objects \in [Ranks -> [Inputs -> Seq(Nat)]]
    BY DEF ProcessesOK
  <2> QED BY <2>1, <2>2 DEF ObjectsStay
<1>12. Does(r, m, t, p0.prepared)
  BY <1>1, <1>2, <1>5, <1>8, <1>9, <1>10 DEF Does
<1> QED BY <1>1, <1>11, <1>12

(* compute takes an object from every input that has one.                  *)
LEMMA ComputeDoes ==
  ASSUME ProcessesOK, NEW r \in Ranks, NEW m \in Modules, NEW t \in Rests(m),
         Compute(r, m, [module[r][m] EXCEPT !.rest = t])
  PROVE  /\ Does(r, m, t, module[r][m].prepared) /\ ObjectsStay(r, m)
         /\ \A i \in ComputeInputs[m] :
              objects'[r][i] = IF objects[r][i] # <<>> THEN Tail(objects[r][i]) ELSE objects[r][i]
<1>1. PICK p0, p : p0 = module[r][m] /\ p = [p0 EXCEPT !.rest = t]
  OBVIOUS
<1>2. p0 \in Processes(m) /\ p0.prepared \in BOOLEAN /\ (p0.prepared => ~p0.reduced)
  BY <1>1, ProcessFacts
<1>3. p \in Processes(m) /\ p.rest = t /\ p.prepared = p0.prepared /\ p.reduced = p0.reduced /\ p.round \in Nat
  BY <1>1, <1>2, ProcessEdit DEF Processes
<1>4. PICK made \in Nat : /\ ProcessIs(r, m, [p EXCEPT !.withOutput = @ \/ made > 0])
                          /\ Report(r, m, NewObjects(m, made, p.round))
  <2>1. PICK n \in Results :
          LET made == IF \E i \in ComputeInputs[m] : objects[r][i] = <<>> THEN 0 ELSE n
          IN  /\ module' = [module EXCEPT ![r][m] = [p EXCEPT !.withOutput = @ \/ made > 0]]
              /\ Report(r, m, NewObjects(m, made, p.round))
    BY <1>1 DEF Compute
  <2>2. PICK made : made = IF \E i \in ComputeInputs[m] : objects[r][i] = <<>> THEN 0 ELSE n
    OBVIOUS
  <2>3. made \in Nat
    BY <2>2, ExecutionAssumption
  <2> QED BY <2>1, <2>2, <2>3 DEF ProcessIs
<1>5. PICK p2 : p2 = [p EXCEPT !.withOutput = @ \/ made > 0]
  OBVIOUS
<1>6. p2 \in Processes(m) /\ p2.rest = t /\ p2.prepared = p0.prepared /\ p2.reduced = p0.reduced
  <2>1. (p.withOutput \/ made > 0) \in BOOLEAN
    OBVIOUS
  <2> QED BY <1>3, <1>5, <2>1 DEF Processes
<1>7. PICK msgs : msgs = NewObjects(m, made, p.round)
  OBVIOUS
<1>8. msgs \in Seq(OutMsgs(m)) /\ \A a \in 0..1 : Walk(msgs, a, a, TurnIn(OutMsgs(m), m))
  BY <1>3, <1>7, NewObjectsWalk
<1>9. One(p0.prepared) \in 0..1
  BY DEF One
<1>10. ProcessIs(r, m, p2) /\ Report(r, m, msgs)
  BY <1>4, <1>5, <1>7
<1>11. /\ ObjectsStay(r, m)
       /\ \A i \in ComputeInputs[m] :
            objects'[r][i] = IF objects[r][i] # <<>> THEN Tail(objects[r][i]) ELSE objects[r][i]
  <2>1. objects' = [objects EXCEPT ![r] = [i \in Inputs |->
          IF i \in ComputeInputs[m] /\ objects[r][i] # <<>> THEN Tail(objects[r][i]) ELSE objects[r][i]]]
    BY DEF Compute
  <2>2. objects \in [Ranks -> [Inputs -> Seq(Nat)]]
    BY DEF ProcessesOK
  <2>3. \A q \in Seq(Nat) : q # <<>> => Tail(q) \in Seq(Nat)
    BY HeadTailProperties
  <2>4. \A i \in ComputeInputs[m] : i \in Inputs /\ ModuleOf[i] = m
    BY FedFacts
  <2>5. PICK g : g = [i \in Inputs |->
          IF i \in ComputeInputs[m] /\ objects[r][i] # <<>> THEN Tail(objects[r][i]) ELSE objects[r][i]]
    OBVIOUS
  <2>6. g \in [Inputs -> Seq(Nat)]
    BY <2>2, <2>3, <2>5
  <2>7. objects' \in [Ranks -> [Inputs -> Seq(Nat)]] /\ objects'[r] = g
        /\ \A q \in Ranks : q # r => objects'[q] = objects[q]
    BY <2>1, <2>2, <2>5, <2>6
  <2>8. \A i \in Inputs : ModuleOf[i] # m => g[i] = objects[r][i]
    BY <2>4, <2>5
  <2> QED BY <2>4, <2>5, <2>7, <2>8 DEF ObjectsStay
<1>12. Does(r, m, t, p0.prepared)
  BY <1>1, <1>2, <1>6, <1>8, <1>9, <1>10 DEF Does
<1> QED BY <1>1, <1>11, <1>12

(* reduceWrapper turns a process that is prepared.                         *)
LEMMA FinishDoes ==
  ASSUME ProcessesOK, NEW r \in Ranks, NEW m \in Modules, NEW t \in Rests(m), module[r][m].prepared,
         Finish(r, m, [module[r][m] EXCEPT !.rest = t])
  PROVE  Does(r, m, t, FALSE) /\ objects' = objects
<1>1. PICK p0, p : p0 = module[r][m] /\ p = [p0 EXCEPT !.rest = t]
  OBVIOUS
<1>2. p0 \in Processes(m) /\ p0.prepared
  BY <1>1, ProcessFacts
<1>3. p \in Processes(m) /\ p.rest = t /\ p.round \in Nat
  BY <1>1, <1>2, ProcessEdit DEF Processes
<1>4. PICK p2 : p2 = [p EXCEPT !.prepared = FALSE, !.reduced = TRUE]
  OBVIOUS
<1>5. p2 \in Processes(m) /\ p2.rest = t /\ p2.prepared = FALSE
  BY <1>3, <1>4 DEF Processes
<1>6. PICK n \in Nat : n = IF p.withOutput THEN 0 ELSE 1
  OBVIOUS
<1>7. PICK new, last : new = NewObjects(m, n, p.round) /\ last = <<[type |-> "Finish", module |-> m]>>
  OBVIOUS
<1>8. PICK msgs : msgs = new \o last
  OBVIOUS
<1>9. ProcessIs(r, m, p2) /\ Report(r, m, msgs) /\ objects' = objects
  BY <1>1, <1>4, <1>6, <1>7, <1>8 DEF Finish, ProcessIs
<1>10. new \in Seq(OutMsgs(m)) /\ Walk(new, 1, 1, TurnIn(OutMsgs(m), m))
  <2>1. new \in Seq(OutMsgs(m)) /\ \A a \in 0..1 : Walk(new, a, a, TurnIn(OutMsgs(m), m))
    BY <1>3, <1>6, <1>7, NewObjectsWalk
  <2>2. 1 \in 0..1
    OBVIOUS
  <2> QED BY <2>1, <2>2
<1>11. last \in Seq(OutMsgs(m)) /\ Walk(last, 1, 0, TurnIn(OutMsgs(m), m))
  BY <1>7, ReportWalk
<1>12. msgs \in Seq(OutMsgs(m)) /\ Walk(msgs, 1, 0, TurnIn(OutMsgs(m), m))
  <2>1. new \o last \in Seq(OutMsgs(m))
    BY <1>10, <1>11, ConcatProperties
  <2>2. Walk(new \o last, 1, 0, TurnIn(OutMsgs(m), m))
    BY <1>10, <1>11, WalkConcat
  <2> QED BY <1>8, <2>1, <2>2
<1>13. One(module[r][m].prepared) = 1 /\ One(FALSE) = 0
  BY DEF One
<1> QED BY <1>5, <1>9, <1>12, <1>13 DEF Does

(* Such a stage keeps the invariant.                                       *)
LEMMA DoesKeeps ==
  ASSUME IInv, NEW r \in Ranks, NEW m \in Modules, NEW t, NEW prepared \in BOOLEAN, Does(r, m, t, prepared),
         NEW q \in Seq(QueueMsgs(m)), QueueIs(r, m, q), ObjectsStay(r, m),
         m \in Fed /\ t \in Closing => prepared,
         m \notin Fed => (prepared <=> t # <<>>),
         m \in Fed => Walk(q, IF t \in Closing THEN 0 ELSE One(prepared), One(mod[r][m].prepared),
                           TurnIn(QueueMsgs(m), m)),
         m \in Fed => \A i \in ComputeInputs[m] :
            Walk(q, Len(objects'[r][i]), numObject[r][i], SupplyIn(QueueMsgs(m), i)),
         UNCHANGED <<manager, master, up, down, executed>>
  PROVE  IInv'
<1>1. PICK p \in Processes(m), msgs \in Seq(OutMsgs(m)) :
        /\ p.rest = t /\ p.prepared = prepared /\ (p.prepared => ~p.reduced)
        /\ ProcessIs(r, m, p) /\ Report(r, m, msgs)
        /\ Walk(msgs, One(module[r][m].prepared), One(prepared), TurnIn(OutMsgs(m), m))
  BY DEF Does
<1>2. ProcOK(p, m)
  BY <1>1 DEF ProcOK
<1>3. After(p) = IF t \in Closing THEN 0 ELSE One(prepared)
  BY <1>1 DEF After
<1>4. Walk(msgs, One(module[r][m].prepared), One(p.prepared), TurnIn(OutMsgs(m), m))
  BY <1>1
<1>5. m \in Fed => Walk(q, After(p), One(mod[r][m].prepared), TurnIn(QueueMsgs(m), m))
  BY <1>3
<1>6. ProcessIs(r, m, p) /\ Report(r, m, msgs)
  BY <1>1
<1> QED BY <1>2, <1>4, <1>5, <1>6, ProcessStep

(* A process that takes no message.                                        *)
LEMMA QueueSame ==
  ASSUME ChannelsOK, NEW r \in Ranks, NEW m \in Modules, queue' = queue
  PROVE  QueueIs(r, m, queue[r][m]) /\ queue[r][m] \in Seq(QueueMsgs(m))
<1>1. queue \in [Ranks -> QueueFuns]
  BY DEF ChannelsOK
<1>2. PICK f : f = queue[r]
  OBVIOUS
<1>3. /\ f \in [Modules -> UNION {Seq(QueueMsgs(n)) : n \in Modules}]
      /\ \A n \in Modules : f[n] \in Seq(QueueMsgs(n))
  BY <1>1, <1>2 DEF QueueFuns, Queues
<1>4. [f EXCEPT ![m] = f[m]] = f
  BY <1>3
<1>5. [queue EXCEPT ![r] = f] = queue
  BY <1>1, <1>2
<1>6. QueueIs(r, m, queue[r][m])
  BY <1>2, <1>4, <1>5 DEF QueueIs
<1> QED BY <1>2, <1>3, <1>6

(* What is left of the stages when one is done.                            *)
LEMMA StagesLeft ==
  /\ Tail(<<"Finish">>) = <<>> /\ Head(<<"Finish">>) = "Finish"
  /\ Tail(<<"Produce", "Sync", "Finish">>) = <<"Sync", "Finish">>
  /\ Head(<<"Produce", "Sync", "Finish">>) = "Produce"
  /\ Tail(<<"Sync", "Finish">>) = <<"Finish">> /\ Head(<<"Sync", "Finish">>) = "Sync"
  /\ Tail(<<"Sync">>) = <<>> /\ Head(<<"Sync">>) = "Sync"
  /\ Tail(<<"Sync", "Produce", "Sync", "Finish">>) = <<"Produce", "Sync", "Finish">>
  /\ Head(<<"Sync", "Produce", "Sync", "Finish">>) = "Sync"
  OBVIOUS

(* A process goes on.                                                      *)
LEMMA StageKeeps ==
  ASSUME Steering, IInv, NEW r \in Ranks, NEW m \in Modules, Stage(r, m)
  PROVE  IInv'
<1>1. /\ ManagersOK /\ MasterOK /\ ProcessesOK /\ ChannelsOK /\ LocalOK
  BY DEF IInv
<1>2. PICK p, stages, q : p = module[r][m] /\ stages = module[r][m].rest /\ q = queue[r][m]
  OBVIOUS
<1>3. /\ stages # <<>> /\ Head(stages) # "Sync" /\ Go(r, m, stages)
      /\ UNCHANGED <<manager, master, queue, up, down, executed>>
  BY <1>2 DEF Stage
<1>4. ProcOK(p, m) /\ stages \in Rests(m) /\ p.rest = stages
  BY <1>1, <1>2, ProcessFacts
<1>5. QueueIs(r, m, q) /\ q \in Seq(QueueMsgs(m))
  BY <1>1, <1>2, <1>3, QueueSame
<1>6. m \in Fed => /\ Walk(q, After(p), One(mod[r][m].prepared), TurnIn(QueueMsgs(m), m))
                   /\ \A i \in ComputeInputs[m] :
                        Walk(q, Len(objects[r][i]), numObject[r][i], SupplyIn(QueueMsgs(m), i))
  BY <1>1, <1>2 DEF LocalOK, Flows
<1>7. objects \in [Ranks -> [Inputs -> Seq(Nat)]]
  BY <1>1 DEF ProcessesOK
<1>8. PICK e : e = [module[r][m] EXCEPT !.rest = Tail(stages)]
  OBVIOUS
<1>9. stages = <<"Finish">> \/ (m \notin Fed /\ stages = <<"Produce", "Sync", "Finish">>)
  BY <1>3, <1>4, StagesLeft DEF Rests, FedRests, SourceRests
<1>10. CASE stages = <<"Finish">>
  <2>1. Tail(stages) = <<>> /\ Head(stages) = "Finish"
    BY <1>10, StagesLeft
  <2>2. p.prepared /\ stages \in Closing
    BY <1>3, <1>4, <1>10 DEF ProcOK, Closing
  <2>3. Finish(r, m, [module[r][m] EXCEPT !.rest = <<>>])
    BY <1>3, <2>1 DEF Go
  <2>4. <<>> \in Rests(m) /\ <<>> \notin Closing
    BY DEF Rests, FedRests, SourceRests, Closing
  <2>5. Does(r, m, <<>>, FALSE) /\ objects' = objects
    BY <1>1, <1>2, <2>2, <2>3, <2>4, FinishDoes
  <2>6. ObjectsStay(r, m)
    BY <1>7, <2>5 DEF ObjectsStay
  <2>7. After(p) = 0 /\ One(FALSE) = 0
    BY <1>4, <2>2 DEF After, One
  <2>8. m \in Fed => Walk(q, IF <<>> \in Closing THEN 0 ELSE One(FALSE), One(mod[r][m].prepared), TurnIn(QueueMsgs(m), m))
    BY <1>6, <2>4, <2>7
  <2>9. m \in Fed => \A i \in ComputeInputs[m] :
          Walk(q, Len(objects'[r][i]), numObject[r][i], SupplyIn(QueueMsgs(m), i))
    BY <1>6, <2>5
  <2>10. FALSE \in BOOLEAN /\ UNCHANGED <<manager, master, up, down, executed>>
    BY <1>3
  <2> QED BY <1>5, <2>4, <2>5, <2>6, <2>8, <2>9, <2>10, DoesKeeps
<1>11. CASE m \notin Fed /\ stages = <<"Produce", "Sync", "Finish">>
  <2>1. Tail(stages) = <<"Sync", "Finish">> /\ Head(stages) = "Produce"
    BY <1>11, StagesLeft
  <2>2. PICK t : t = <<"Sync", "Finish">>
    OBVIOUS
  <2>3. t \in Rests(m) /\ t # <<>>
    BY <1>11, <2>2 DEF Rests, SourceRests
  <2>4. Produce(r, m, [module[r][m] EXCEPT !.rest = t])
    BY <1>3, <2>1, <2>2 DEF Go
  <2>5. Does(r, m, t, p.prepared) /\ ObjectsStay(r, m)
    BY <1>1, <1>2, <2>3, <2>4, ProduceDoes
  <2>6. p.prepared \in BOOLEAN /\ p.prepared
    BY <1>3, <1>4, <1>11 DEF ProcOK, Processes
  <2>7. UNCHANGED <<manager, master, up, down, executed>> /\ Does(r, m, t, TRUE)
    BY <1>3, <2>5, <2>6
  <2> QED BY <1>5, <1>11, <2>3, <2>5, <2>7, DoesKeeps
<1> QED BY <1>9, <1>10, <1>11

(* A process that does not go on.                                          *)
LEMMA NothingSent ==
  ASSUME ChannelsOK, NEW r \in Ranks, NEW m \in Modules, out' = out
  PROVE  Report(r, m, <<>>) /\ <<>> \in Seq(OutMsgs(m))
<1>1. out \in [Ranks -> OutFuns]
  BY DEF ChannelsOK
<1>2. PICK f : f = out[r]
  OBVIOUS
<1>3. /\ f \in [Modules -> UNION {Seq(OutMsgs(n)) : n \in Modules}]
      /\ f[m] \in Seq(OutMsgs(m))
  BY <1>1, <1>2 DEF OutFuns, Outs
<1>4. f[m] \o <<>> = f[m]
  BY <1>3, ConcatEmptySeq
<1>5. [f EXCEPT ![m] = f[m] \o <<>>] = f
  BY <1>3, <1>4
<1>6. [out EXCEPT ![r] = f] = out
  BY <1>1, <1>2
<1>7. Report(r, m, <<>>)
  BY <1>2, <1>5, <1>6 DEF Report
<1> QED BY <1>7

(* A process comes to an operation that all ranks take part in.            *)
LEMMA SyncDoes ==
  ASSUME ProcessesOK, ChannelsOK, NEW r \in Ranks, NEW m \in Modules, NEW t \in Rests(m),
         module' = [module EXCEPT ![r][m].rest = t], out' = out
  PROVE  Does(r, m, t, module[r][m].prepared)
<1>1. PICK p0, p : p0 = module[r][m] /\ p = [p0 EXCEPT !.rest = t]
  OBVIOUS
<1>2. p0 \in Processes(m) /\ p0.prepared \in BOOLEAN /\ (p0.prepared => ~p0.reduced)
  BY <1>1, ProcessFacts
<1>3. p \in Processes(m) /\ p.rest = t /\ p.prepared = p0.prepared /\ p.reduced = p0.reduced
  BY <1>1, <1>2, ProcessEdit
<1>4. ProcessIs(r, m, p)
  BY <1>1 DEF ProcessIs
<1>5. Report(r, m, <<>>) /\ <<>> \in Seq(OutMsgs(m))
  BY NothingSent
<1>6. One(p0.prepared) \in Nat
  BY DEF One
<1>7. Walk(<<>>, One(p0.prepared), One(p0.prepared), TurnIn(OutMsgs(m), m))
  BY <1>6, WalkEmpty
<1> QED BY <1>1, <1>2, <1>3, <1>4, <1>5, <1>7 DEF Does

(* A process that only takes a message.                                    *)
LEMMA StayDoes ==
  ASSUME ProcessesOK, ChannelsOK, NEW r \in Ranks, NEW m \in Modules, UNCHANGED <<module, out>>
  PROVE  Does(r, m, module[r][m].rest, module[r][m].prepared)
<1>1. module \in [Ranks -> ProcFuns]
  BY DEF ProcessesOK
<1>2. PICK f, p, t : f = module[r] /\ p = f[m] /\ t = p.rest
  OBVIOUS
<1>3. f \in [Modules -> UNION {Processes(n) : n \in Modules}] /\ p \in Processes(m) /\ t \in Rests(m)
  BY <1>1, <1>2 DEF ProcFuns, ProcOK, Processes
<1>4. [p EXCEPT !.rest = t] = p
  BY <1>2, <1>3 DEF Processes
<1>5. [f EXCEPT ![m] = p] = f
  BY <1>2, <1>3
<1>6. [module EXCEPT ![r] = f] = module
  BY <1>1, <1>2
<1>7. module' = [module EXCEPT ![r][m].rest = t]
  BY <1>2, <1>4, <1>5, <1>6
<1> QED BY <1>2, <1>3, <1>7, SyncDoes

(* Sequences of a few elements.                                            *)
LEMMA JoinTwo ==
  ASSUME NEW S, NEW a \in S, NEW b \in S
  PROVE  <<a>> \o <<b>> = <<a, b>>
<1>1. PICK p, q, s : p = <<a>> /\ q = <<b>> /\ s = p \o q
  OBVIOUS
<1>2. /\ p \in Seq(S) /\ q \in Seq(S) /\ Len(p) = 1 /\ Len(q) = 1
      /\ p[1] = a
      /\ q[1] = b
  BY <1>1
<1>3. s \in Seq(S) /\ Len(s) = 2 /\ s[1] = a /\ s[2] = b
  BY <1>1, <1>2, ConcatProperties
<1>4. s = <<a, b>>
  BY ONLY <1>3
<1> QED BY <1>1, <1>4

(* One element, and two.                                                   *)
LEMMA JoinThree ==
  ASSUME NEW S, NEW a \in S, NEW b \in S, NEW c \in S
  PROVE  <<a>> \o <<b, c>> = <<a, b, c>>
<1>1. PICK p, q, s : p = <<a>> /\ q = <<b, c>> /\ s = p \o q
  OBVIOUS
<1>2. /\ p \in Seq(S) /\ q \in Seq(S) /\ Len(p) = 1 /\ Len(q) = 2
      /\ p[1] = a
      /\ q[1] = b /\ q[2] = c
  BY <1>1
<1>3. s \in Seq(S) /\ Len(s) = 3 /\ s[1] = a /\ s[2] = b /\ s[3] = c
  BY <1>1, <1>2, ConcatProperties
<1>4. s = <<a, b, c>>
  BY ONLY <1>3
<1> QED BY <1>1, <1>4

(* Two elements, and two.                                                  *)
LEMMA JoinPairs ==
  ASSUME NEW S, NEW a \in S, NEW b \in S, NEW c \in S, NEW d \in S
  PROVE  <<a, b>> \o <<c, d>> = <<a, b, c, d>>
<1>1. PICK p, q, s : p = <<a, b>> /\ q = <<c, d>> /\ s = p \o q
  OBVIOUS
<1>2. /\ p \in Seq(S) /\ q \in Seq(S) /\ Len(p) = 2 /\ Len(q) = 2
      /\ p[1] = a /\ p[2] = b
      /\ q[1] = c /\ q[2] = d
  BY <1>1
<1>3. s \in Seq(S) /\ Len(s) = 4 /\ s[1] = a /\ s[2] = b /\ s[3] = c /\ s[4] = d
  BY <1>1, <1>2, ConcatProperties
<1>4. s = <<a, b, c, d>>
  BY ONLY <1>3
<1> QED BY <1>1, <1>4

(* Three elements, and one.                                                *)
LEMMA JoinFour ==
  ASSUME NEW S, NEW a \in S, NEW b \in S, NEW c \in S, NEW d \in S
  PROVE  <<a, b, c>> \o <<d>> = <<a, b, c, d>>
<1>1. PICK p, q, s : p = <<a, b, c>> /\ q = <<d>> /\ s = p \o q
  OBVIOUS
<1>2. /\ p \in Seq(S) /\ q \in Seq(S) /\ Len(p) = 3 /\ Len(q) = 1
      /\ p[1] = a /\ p[2] = b /\ p[3] = c
      /\ q[1] = d
  BY <1>1
<1>3. s \in Seq(S) /\ Len(s) = 4 /\ s[1] = a /\ s[2] = b /\ s[3] = c /\ s[4] = d
  BY <1>1, <1>2, ConcatProperties
<1>4. s = <<a, b, c, d>>
  BY ONLY <1>3
<1> QED BY <1>1, <1>4

(* Four elements, and one.                                                 *)
LEMMA JoinFive ==
  ASSUME NEW S, NEW a \in S, NEW b \in S, NEW c \in S, NEW d \in S, NEW e \in S
  PROVE  <<a, b, c, d>> \o <<e>> = <<a, b, c, d, e>>
<1>1. PICK p, q, s : p = <<a, b, c, d>> /\ q = <<e>> /\ s = p \o q
  OBVIOUS
<1>2. /\ p \in Seq(S) /\ q \in Seq(S) /\ Len(p) = 4 /\ Len(q) = 1
      /\ p[1] = a /\ p[2] = b /\ p[3] = c /\ p[4] = d
      /\ q[1] = e
  BY <1>1
<1>3. s \in Seq(S) /\ Len(s) = 5 /\ s[1] = a /\ s[2] = b /\ s[3] = c /\ s[4] = d /\ s[5] = e
  BY <1>1, <1>2, ConcatProperties
<1>4. s = <<a, b, c, d, e>>
  BY ONLY <1>3
<1> QED BY <1>1, <1>4

(* The stages are put together.                                            *)
LEMMA StagesJoined ==
  /\ <<"Start">> \o <<>> = <<"Start">> /\ <<>> \o <<"Finish">> = <<"Finish">>
  /\ <<>> \o <<"Compute">> = <<"Compute">>
  /\ <<"Start">> \o <<"Sync">> = <<"Start", "Sync">> /\ <<"Sync">> \o <<"Finish">> = <<"Sync", "Finish">>
  /\ <<"Start">> \o <<"Produce", "Sync">> = <<"Start", "Produce", "Sync">>
  /\ <<"Start", "Sync">> \o <<"Produce", "Sync">> = <<"Start", "Sync", "Produce", "Sync">>
  /\ <<"Start", "Produce", "Sync">> \o <<"Finish">> = <<"Start", "Produce", "Sync", "Finish">>
  /\ <<"Start", "Sync", "Produce", "Sync">> \o <<"Finish">>
       = <<"Start", "Sync", "Produce", "Sync", "Finish">>
<1>1. PICK S : S = {"Start", "Sync", "Produce", "Compute", "Finish"}
  OBVIOUS
<1>2. /\ "Start" \in S /\ "Sync" \in S /\ "Produce" \in S /\ "Compute" \in S /\ "Finish" \in S
      /\ <<"Start">> \in Seq(S) /\ <<"Finish">> \in Seq(S) /\ <<"Compute">> \in Seq(S)
  BY <1>1
<1>3. /\ <<"Start">> \o <<>> = <<"Start">> /\ <<>> \o <<"Finish">> = <<"Finish">>
      /\ <<>> \o <<"Compute">> = <<"Compute">>
  BY <1>2, ConcatEmptySeq
<1>4. <<"Start">> \o <<"Sync">> = <<"Start", "Sync">>
  BY ONLY <1>2, JoinTwo
<1>5. <<"Sync">> \o <<"Finish">> = <<"Sync", "Finish">>
  BY ONLY <1>2, JoinTwo
<1>6. <<"Start">> \o <<"Produce", "Sync">> = <<"Start", "Produce", "Sync">>
  BY ONLY <1>2, JoinThree
<1>7. <<"Start", "Produce", "Sync">> \o <<"Finish">> = <<"Start", "Produce", "Sync", "Finish">>
  BY ONLY <1>2, JoinFour
<1>8. <<"Start", "Sync">> \o <<"Produce", "Sync">> = <<"Start", "Sync", "Produce", "Sync">>
  BY ONLY <1>2, JoinPairs
<1>9. <<"Start", "Sync", "Produce", "Sync">> \o <<"Finish">> = <<"Start", "Sync", "Produce", "Sync", "Finish">>
  BY ONLY <1>2, JoinFive
<1> QED BY <1>3, <1>4, <1>5, <1>6, <1>7, <1>8, <1>9

(* The stages of an execution.                                             *)
LEMMA StagesFacts ==
  ASSUME Steering, NEW m \in Modules
  PROVE  /\ m \in Fed => /\ Stages("Prepare", m) \in {<<"Start">>, <<"Start", "Sync">>}
                         /\ Stages("ComputeObject", m) = <<"Compute">>
                         /\ Stages("Reduce", m) \in {<<"Finish">>, <<"Sync", "Finish">>}
         /\ m \notin Fed => Stages("ComputeExecute", m) \in
              {<<"Start", "Produce", "Sync", "Finish">>, <<"Start", "Sync", "Produce", "Sync", "Finish">>}
<1>1. Collective(m) = <<>> \/ Collective(m) = <<"Sync">>
  BY DEF Collective
<1>2. m \in Fed => ~Gang(m)
  BY DEF Steering, Gang
<1>3. m \notin Fed => IsSource(m)
  BY FedFacts DEF IsSource
<1>4. PICK c : c = Collective(m)
  OBVIOUS
<1>5. /\ Stages("Prepare", m) = <<"Start">> \o c
      /\ m \in Fed => Stages("ComputeObject", m) = <<>> \o <<"Compute">>
      /\ Stages("Reduce", m) = c \o <<"Finish">>
      /\ m \notin Fed => Stages("ComputeExecute", m) = <<"Start">> \o c \o <<"Produce", "Sync">> \o <<"Finish">>
  BY <1>2, <1>3, <1>4 DEF Stages
<1>6. CASE c = <<>>
  BY <1>5, <1>6, StagesJoined
<1>7. CASE c = <<"Sync">>
  BY <1>5, <1>7, StagesJoined
<1> QED BY <1>1, <1>4, <1>6, <1>7

(* The first stage of an order.                                            *)
LEMMA StagesBegin ==
  /\ Tail(<<"Start">>) = <<>> /\ Head(<<"Start">>) = "Start"
  /\ Tail(<<"Start", "Sync">>) = <<"Sync">> /\ Head(<<"Start", "Sync">>) = "Start"
  /\ Tail(<<"Compute">>) = <<>> /\ Head(<<"Compute">>) = "Compute"
  /\ Tail(<<"Start", "Produce", "Sync", "Finish">>) = <<"Produce", "Sync", "Finish">>
  /\ Head(<<"Start", "Produce", "Sync", "Finish">>) = "Start"
  /\ Tail(<<"Start", "Sync", "Produce", "Sync", "Finish">>) = <<"Sync", "Produce", "Sync", "Finish">>
  /\ Head(<<"Start", "Sync", "Produce", "Sync", "Finish">>) = "Start"
  OBVIOUS

(* What a process finds at the head of its queue.                          *)
LEMMA QueueHead ==
  ASSUME ChannelsOK, ProcessesOK, LocalOK, NEW r \in Ranks, NEW m \in Modules,
         module[r][m].rest = <<>>, queue[r][m] # <<>>, queue' = [queue EXCEPT ![r][m] = Tail(@)]
  PROVE  /\ Head(queue[r][m]) \in QueueMsgs(m) /\ Tail(queue[r][m]) \in Seq(QueueMsgs(m))
         /\ QueueIs(r, m, Tail(queue[r][m]))
         /\ m \in Fed =>
              /\ \E b \in 0..1 : /\ Moves(One(module[r][m].prepared), Head(queue[r][m]), b, m)
                                 /\ Walk(Tail(queue[r][m]), b, One(mod[r][m].prepared), TurnIn(QueueMsgs(m), m))
              /\ \A i \in ComputeInputs[m] :
                   \E c \in Nat : /\ Counts(Len(objects[r][i]), Head(queue[r][m]), c, i)
                                  /\ Walk(Tail(queue[r][m]), c, numObject[r][i], SupplyIn(QueueMsgs(m), i))
<1>1. PICK q : q = queue[r][m]
  OBVIOUS
<1>2. q \in Seq(QueueMsgs(m)) /\ q # <<>>
  BY <1>1 DEF ChannelsOK, QueueFuns, Queues
<1>3. Head(q) \in QueueMsgs(m) /\ Tail(q) \in Seq(QueueMsgs(m))
  BY <1>2, HeadTailProperties
<1>4. QueueIs(r, m, Tail(q))
  BY <1>1 DEF QueueIs
<1>5. ASSUME m \in Fed
      PROVE  /\ \E b \in 0..1 : /\ Moves(One(module[r][m].prepared), Head(q), b, m)
                                /\ Walk(Tail(q), b, One(mod[r][m].prepared), TurnIn(QueueMsgs(m), m))
             /\ \A i \in ComputeInputs[m] :
                  \E c \in Nat : /\ Counts(Len(objects[r][i]), Head(q), c, i)
                                 /\ Walk(Tail(q), c, numObject[r][i], SupplyIn(QueueMsgs(m), i))
  <2>1. After(module[r][m]) = One(module[r][m].prepared)
    BY DEF After, Closing
  <2>2. /\ Walk(q, One(module[r][m].prepared), One(mod[r][m].prepared), TurnIn(QueueMsgs(m), m))
        /\ \A i \in ComputeInputs[m] :
             Walk(q, Len(objects[r][i]), numObject[r][i], SupplyIn(QueueMsgs(m), i))
    BY <1>1, <1>5, <2>1 DEF LocalOK, Flows
  <2>3. PICK b \in Nat : /\ <<One(module[r][m].prepared), Head(q), b>> \in TurnIn(QueueMsgs(m), m)
                         /\ Walk(Tail(q), b, One(mod[r][m].prepared), TurnIn(QueueMsgs(m), m))
    BY <1>2, <2>2, WalkHead
  <2>4. b \in 0..1 /\ Moves(One(module[r][m].prepared), Head(q), b, m)
    BY <2>3, TurnIff
  <2>5. ASSUME NEW i \in ComputeInputs[m]
        PROVE  \E c \in Nat : /\ Counts(Len(objects[r][i]), Head(q), c, i)
                              /\ Walk(Tail(q), c, numObject[r][i], SupplyIn(QueueMsgs(m), i))
    <3>1. Walk(q, Len(objects[r][i]), numObject[r][i], SupplyIn(QueueMsgs(m), i))
      BY <2>2
    <3>2. PICK c \in Nat : /\ <<Len(objects[r][i]), Head(q), c>> \in SupplyIn(QueueMsgs(m), i)
                           /\ Walk(Tail(q), c, numObject[r][i], SupplyIn(QueueMsgs(m), i))
      BY <1>2, <3>1, WalkHead
    <3>3. Counts(Len(objects[r][i]), Head(q), c, i)
      BY <3>2, SupplyIff
    <3> QED BY <3>2, <3>3
  <2> QED BY <2>3, <2>4, <2>5
<1> QED BY <1>1, <1>3, <1>4, <1>5

(* The messages to a process are objects at its inputs and orders, which   *)
(* for a source is to execute.                                             *)
LEMMA QueueMsgFacts ==
  ASSUME NEW m \in Modules, NEW x \in QueueMsgs(m)
  PROVE  /\ x.module = m
         /\ x.type = "AddObject" => x.port \in Inputs /\ ModuleOf[x.port] = m /\ x.round \in Nat
         /\ x.type # "AddObject" /\ m \in Fed => x.type \in {"Prepare", "Reduce", "ComputeObject"}
         /\ x.type # "AddObject" /\ m \notin Fed => x.type = "ComputeExecute"
<1>1. CASE x \in AddMsgs(m)
  BY <1>1 DEF AddMsgs
<1>2. CASE x \in [type : Orders(m), module : {m}]
  <2>1. x.type \in Orders(m) /\ x.module = m
    BY <1>2
  <2>2. m \in Fed => x.type \in {"Prepare", "Reduce", "ComputeObject"}
    BY <2>1 DEF Orders
  <2>3. m \notin Fed => x.type = "ComputeExecute"
    BY <2>1 DEF Orders
  <2> QED BY <2>1, <2>2, <2>3
<1> QED BY <1>1, <1>2 DEF QueueMsgs

(* A process gets an object.                                               *)
LEMMA ReceiveObject ==
  ASSUME Steering, IInv, NEW r \in Ranks, NEW m \in Modules, Receive(r, m),
         Head(queue[r][m]).type = "AddObject"
  PROVE  IInv'
<1>1. /\ ManagersOK /\ MasterOK /\ ProcessesOK /\ ChannelsOK /\ LocalOK
  BY DEF IInv
<1>2. PICK x, q : x = Head(queue[r][m]) /\ q = Tail(queue[r][m])
  OBVIOUS
<1>3. /\ module[r][m].rest = <<>> /\ queue[r][m] # <<>>
      /\ queue' = [queue EXCEPT ![r][m] = Tail(@)]
      /\ objects' = [objects EXCEPT ![r][x.port] = Append(@, x.round)] /\ UNCHANGED <<module, out>>
      /\ UNCHANGED <<manager, master, up, down, executed>>
  BY <1>2 DEF Receive
<1>4. /\ x \in QueueMsgs(m) /\ q \in Seq(QueueMsgs(m)) /\ QueueIs(r, m, q)
      /\ m \in Fed =>
           /\ \E b \in 0..1 : /\ Moves(One(module[r][m].prepared), x, b, m)
                              /\ Walk(q, b, One(mod[r][m].prepared), TurnIn(QueueMsgs(m), m))
           /\ \A i \in ComputeInputs[m] :
                \E c \in Nat : /\ Counts(Len(objects[r][i]), x, c, i)
                               /\ Walk(q, c, numObject[r][i], SupplyIn(QueueMsgs(m), i))
  BY <1>1, <1>2, <1>3, QueueHead
<1>5. x.type = "AddObject" /\ x.port \in Inputs /\ ModuleOf[x.port] = m /\ x.round \in Nat
  BY <1>2, <1>4, QueueMsgFacts
<1>6. PICK prepared \in BOOLEAN : prepared = module[r][m].prepared
  BY <1>1, ProcessFacts
<1>7. Does(r, m, <<>>, prepared)
  BY <1>1, <1>3, <1>6, StayDoes
<1>8. <<>> \notin Closing /\ (m \notin Fed => ~prepared)
  <2>1. ProcOK(module[r][m], m)
    BY <1>1, ProcessFacts
  <2> QED BY <1>3, <1>6, <2>1 DEF Closing, ProcOK
<1>9. objects \in [Ranks -> [Inputs -> Seq(Nat)]]
  BY <1>1 DEF ProcessesOK
<1>10. PICK y : y = Append(objects[r][x.port], x.round)
  OBVIOUS
<1>11. y \in Seq(Nat) /\ Len(y) = Len(objects[r][x.port]) + 1
  BY <1>5, <1>9, <1>10, AppendProperties
<1>12. /\ objects' \in [Ranks -> [Inputs -> Seq(Nat)]] /\ objects'[r][x.port] = y
       /\ \A k \in Ranks, i \in Inputs : <<k, i>> # <<r, x.port>> => objects'[k][i] = objects[k][i]
  BY <1>3, <1>5, <1>9, <1>10, <1>11
<1>13. ObjectsStay(r, m)
  BY <1>5, <1>12 DEF ObjectsStay
<1>14. m \in Fed => Walk(q, IF <<>> \in Closing THEN 0 ELSE One(prepared), One(mod[r][m].prepared), TurnIn(QueueMsgs(m), m))
  <2>1. \A a, b : Moves(a, x, b, m) => a = b
    BY <1>5 DEF Moves
  <2> QED BY <1>4, <1>6, <1>8, <2>1
<1>15. m \in Fed => \A i \in ComputeInputs[m] :
          Walk(q, Len(objects'[r][i]), numObject[r][i], SupplyIn(QueueMsgs(m), i))
  <2>1. ASSUME m \in Fed, NEW i \in ComputeInputs[m]
        PROVE  Walk(q, Len(objects'[r][i]), numObject[r][i], SupplyIn(QueueMsgs(m), i))
    <3>1. PICK c \in Nat : /\ Counts(Len(objects[r][i]), x, c, i)
                           /\ Walk(q, c, numObject[r][i], SupplyIn(QueueMsgs(m), i))
      BY <1>4, <2>1
    <3>2. i \in Inputs
      BY FedFacts
    <3>3. c = IF x.port = i THEN Len(objects[r][i]) + 1 ELSE Len(objects[r][i])
      BY <1>5, <3>1 DEF Counts
    <3>4. Len(objects'[r][i]) = c
      <4>1. CASE x.port = i
        BY <1>11, <1>12, <3>3, <4>1
      <4>2. CASE x.port # i
        BY <1>12, <3>2, <3>3, <4>2
      <4> QED BY <4>1, <4>2
    <3> QED BY <3>1, <3>4
  <2> QED BY <2>1
<1>16. m \in Fed /\ <<>> \in Closing => prepared
  BY <1>8
<1>17. m \notin Fed => (prepared <=> <<>> # <<>>)
  BY <1>8
<1>18. UNCHANGED <<manager, master, up, down, executed>>
  BY <1>3
<1> QED BY <1>4, <1>7, <1>13, <1>14, <1>15, <1>16, <1>17, <1>18, DoesKeeps

(* A source is told to execute.                                            *)
LEMMA ReceiveSource ==
  ASSUME Steering, IInv, NEW r \in Ranks, NEW m \in Modules, Receive(r, m),
         Head(queue[r][m]).type # "AddObject", m \notin Fed
  PROVE  IInv'
<1>1. /\ ManagersOK /\ MasterOK /\ ProcessesOK /\ ChannelsOK /\ LocalOK
  BY DEF IInv
<1>2. PICK x, q : x = Head(queue[r][m]) /\ q = Tail(queue[r][m])
  OBVIOUS
<1>3. /\ module[r][m].rest = <<>> /\ queue[r][m] # <<>>
      /\ queue' = [queue EXCEPT ![r][m] = Tail(@)]
      /\ \/ SchedulingPolicy[m] = "Ignore" /\ UNCHANGED <<process, out>>
         \/ Go(r, m, Stages(x.type, m))
      /\ UNCHANGED <<manager, master, up, down, executed>>
  BY <1>2 DEF Receive
<1>4. x \in QueueMsgs(m) /\ q \in Seq(QueueMsgs(m)) /\ QueueIs(r, m, q)
  BY <1>1, <1>2, <1>3, QueueHead
<1>5. x.type = "ComputeExecute"
  BY <1>2, <1>4, QueueMsgFacts
<1>6. ProcOK(module[r][m], m)
  BY <1>1, ProcessFacts
<1>7. ~module[r][m].prepared
  BY <1>3, <1>6 DEF ProcOK
<1>8. objects \in [Ranks -> [Inputs -> Seq(Nat)]]
  BY <1>1 DEF ProcessesOK
<1>9. CASE SchedulingPolicy[m] = "Ignore" /\ UNCHANGED <<process, out>>
  <2>1. module' = module /\ objects' = objects /\ out' = out
    BY <1>9 DEF process
  <2>2. module[r][m].prepared = FALSE
    BY <1>6, <1>7 DEF ProcOK, Processes
  <2>3. Does(r, m, <<>>, FALSE)
    BY <1>1, <1>3, <2>1, <2>2, StayDoes
  <2>4. ObjectsStay(r, m)
    BY <1>8, <2>1 DEF ObjectsStay
  <2>5. FALSE \in BOOLEAN /\ (FALSE <=> <<>> # <<>>) /\ UNCHANGED <<manager, master, up, down, executed>>
    BY <1>3
  <2> QED BY <1>4, <2>3, <2>4, <2>5, DoesKeeps
<1>10. CASE Go(r, m, Stages(x.type, m))
  <2>1. PICK stages : stages = Stages(x.type, m)
    OBVIOUS
  <2>2. stages \in {<<"Start", "Produce", "Sync", "Finish">>, <<"Start", "Sync", "Produce", "Sync", "Finish">>}
    BY <1>5, <2>1, StagesFacts
  <2>3. PICK t : t = Tail(stages)
    OBVIOUS
  <2>4. Head(stages) = "Start" /\ t \in Rests(m) /\ t # <<>>
    <3>1. /\ <<"Produce", "Sync", "Finish">> # <<>>
          /\ <<"Sync", "Produce", "Sync", "Finish">> # <<>>
      OBVIOUS
    <3>2. /\ <<"Produce", "Sync", "Finish">> \in Rests(m)
          /\ <<"Sync", "Produce", "Sync", "Finish">> \in Rests(m)
      BY DEF Rests, SourceRests
    <3>3. CASE stages = <<"Start", "Produce", "Sync", "Finish">>
      BY <2>3, <3>1, <3>2, <3>3
    <3>4. CASE stages = <<"Start", "Sync", "Produce", "Sync", "Finish">>
      BY <2>3, <3>1, <3>2, <3>4
    <3> QED BY <2>2, <3>3, <3>4
  <2>5. Start(r, m, [module[r][m] EXCEPT !.rest = t])
    BY <1>10, <2>1, <2>3, <2>4 DEF Go
  <2>6. Does(r, m, t, TRUE) /\ objects' = objects
    BY <1>1, <1>7, <2>4, <2>5, StartDoes
  <2>7. ObjectsStay(r, m)
    BY <1>8, <2>6 DEF ObjectsStay
  <2>8. TRUE \in BOOLEAN /\ (TRUE <=> t # <<>>) /\ UNCHANGED <<manager, master, up, down, executed>>
    BY <1>3, <2>4
  <2> QED BY <1>4, <2>6, <2>7, <2>8, DoesKeeps
<1> QED BY <1>3, <1>9, <1>10

(* A module downstream is told to prepare, to compute, or to reduce.       *)
LEMMA ReceiveOrder ==
  ASSUME Steering, IInv, NEW r \in Ranks, NEW m \in Modules, Receive(r, m),
         Head(queue[r][m]).type # "AddObject", m \in Fed
  PROVE  IInv'
<1>1. /\ ManagersOK /\ MasterOK /\ ProcessesOK /\ ChannelsOK /\ LocalOK
  BY DEF IInv
<1>2. PICK x, q : x = Head(queue[r][m]) /\ q = Tail(queue[r][m])
  OBVIOUS
<1>3. /\ module[r][m].rest = <<>> /\ queue[r][m] # <<>>
      /\ queue' = [queue EXCEPT ![r][m] = Tail(@)] /\ Go(r, m, Stages(x.type, m))
      /\ UNCHANGED <<manager, master, up, down, executed>>
  <2>1. SchedulingPolicy[m] # "Ignore"
    BY DEF Steering
  <2> QED BY <1>2, <2>1 DEF Receive
<1>4. /\ x \in QueueMsgs(m) /\ q \in Seq(QueueMsgs(m)) /\ QueueIs(r, m, q)
      /\ \E b \in 0..1 : /\ Moves(One(module[r][m].prepared), x, b, m)
                         /\ Walk(q, b, One(mod[r][m].prepared), TurnIn(QueueMsgs(m), m))
      /\ \A i \in ComputeInputs[m] :
           \E c \in Nat : /\ Counts(Len(objects[r][i]), x, c, i)
                          /\ Walk(q, c, numObject[r][i], SupplyIn(QueueMsgs(m), i))
  BY <1>1, <1>2, <1>3, QueueHead
<1>5. x.type \in {"Prepare", "Reduce", "ComputeObject"} /\ x.module = m
  BY <1>2, <1>4, QueueMsgFacts
<1>6. PICK b \in 0..1 : /\ Moves(One(module[r][m].prepared), x, b, m)
                        /\ Walk(q, b, One(mod[r][m].prepared), TurnIn(QueueMsgs(m), m))
  BY <1>4
<1>7. module[r][m].prepared \in BOOLEAN
  BY <1>1, ProcessFacts
<1>8. PICK a : a = One(module[r][m].prepared)
  OBVIOUS
<1>9. (module[r][m].prepared => a = 1) /\ (~module[r][m].prepared => a = 0)
  BY <1>8 DEF One
<1>10. /\ x.type = "Prepare" => a = 0 /\ b = 1
       /\ x.type = "Reduce" => a = 1 /\ b = 0
       /\ x.type = "ComputeObject" => a = 1 /\ b = 1
  BY <1>5, <1>6, <1>8 DEF Moves
<1>11. objects \in [Ranks -> [Inputs -> Seq(Nat)]]
  BY <1>1 DEF ProcessesOK
<1>12. UNCHANGED <<manager, master, up, down, executed>>
  BY <1>3
<1>13. One(TRUE) = 1 /\ One(FALSE) = 0
  BY DEF One
<1>14. ASSUME x.type # "ComputeObject", objects' = objects
       PROVE  /\ ObjectsStay(r, m)
              /\ \A i \in ComputeInputs[m] :
                   Walk(q, Len(objects'[r][i]), numObject[r][i], SupplyIn(QueueMsgs(m), i))
  <2>1. ObjectsStay(r, m)
    BY <1>11, <1>14 DEF ObjectsStay
  <2>2. ASSUME NEW i \in ComputeInputs[m]
        PROVE  Walk(q, Len(objects'[r][i]), numObject[r][i], SupplyIn(QueueMsgs(m), i))
    <3>1. PICK c \in Nat : /\ Counts(Len(objects[r][i]), x, c, i)
                           /\ Walk(q, c, numObject[r][i], SupplyIn(QueueMsgs(m), i))
      BY <1>4
    <3>2. x.type # "AddObject"
      BY <1>5
    <3>3. c = Len(objects[r][i])
      BY <1>14, <3>1, <3>2 DEF Counts
    <3> QED BY <1>14, <3>1, <3>3
  <2> QED BY <2>1, <2>2
<1>15. PICK stages, t : stages = Stages(x.type, m) /\ t = Tail(stages)
  OBVIOUS
<1>16. CASE x.type = "Prepare"
  <2>1. stages \in {<<"Start">>, <<"Start", "Sync">>}
    BY <1>15, <1>16, StagesFacts
  <2>2. Head(stages) = "Start" /\ t \in Rests(m) /\ t \notin Closing
    <3>1. /\ <<>> \in Rests(m) /\ <<"Sync">> \in Rests(m)
          /\ <<>> \notin Closing /\ <<"Sync">> \notin Closing
      BY DEF Rests, FedRests, Closing
    <3>2. CASE stages = <<"Start">>
      BY <1>15, <3>1, <3>2
    <3>3. CASE stages = <<"Start", "Sync">>
      BY <1>15, <3>1, <3>3
    <3> QED BY <2>1, <3>2, <3>3
  <2>3. Start(r, m, [module[r][m] EXCEPT !.rest = t])
    BY <1>3, <1>15, <2>2 DEF Go
  <2>4. ~module[r][m].prepared
    BY <1>9, <1>10, <1>16
  <2>5. Does(r, m, t, TRUE) /\ objects' = objects
    BY <1>1, <2>2, <2>3, <2>4, StartDoes
  <2>6. Walk(q, IF t \in Closing THEN 0 ELSE One(TRUE), One(mod[r][m].prepared), TurnIn(QueueMsgs(m), m))
    BY <1>6, <1>10, <1>13, <1>16, <2>2
  <2>7. /\ ObjectsStay(r, m)
        /\ \A i \in ComputeInputs[m] :
             Walk(q, Len(objects'[r][i]), numObject[r][i], SupplyIn(QueueMsgs(m), i))
    BY <1>14, <1>16, <2>5
  <2>8. TRUE \in BOOLEAN
    OBVIOUS
  <2> QED BY <1>4, <1>12, <2>5, <2>6, <2>7, <2>8, DoesKeeps
<1>17. CASE x.type = "Reduce"
  <2>1. stages \in {<<"Finish">>, <<"Sync", "Finish">>}
    BY <1>15, <1>17, StagesFacts
  <2>2. module[r][m].prepared
    BY <1>7, <1>9, <1>10, <1>17
  <2>3. CASE stages = <<"Finish">>
    <3>1. Head(stages) = "Finish" /\ t = <<>>
      BY <1>15, <2>3, StagesLeft
    <3>2. <<>> \in Rests(m) /\ <<>> \notin Closing
      BY DEF Rests, FedRests, SourceRests, Closing
    <3>3. Finish(r, m, [module[r][m] EXCEPT !.rest = <<>>])
      BY <1>3, <1>15, <3>1 DEF Go
    <3>4. Does(r, m, <<>>, FALSE) /\ objects' = objects
      BY <1>1, <2>2, <3>2, <3>3, FinishDoes
    <3>5. Walk(q, IF <<>> \in Closing THEN 0 ELSE One(FALSE), One(mod[r][m].prepared), TurnIn(QueueMsgs(m), m))
      BY <1>6, <1>10, <1>13, <1>17, <3>2
    <3>6. /\ ObjectsStay(r, m)
          /\ \A i \in ComputeInputs[m] :
               Walk(q, Len(objects'[r][i]), numObject[r][i], SupplyIn(QueueMsgs(m), i))
      BY <1>14, <1>17, <3>4
    <3>7. FALSE \in BOOLEAN
      OBVIOUS
    <3> QED BY <1>4, <1>12, <3>2, <3>4, <3>5, <3>6, <3>7, DoesKeeps
  <2>4. CASE stages = <<"Sync", "Finish">>
    <3>1. Head(stages) = "Sync"
      BY <2>4, StagesLeft
    <3>2. stages \in Rests(m) /\ stages \in Closing
      BY <2>4 DEF Rests, FedRests, Closing
    <3>3. module' = [module EXCEPT ![r][m].rest = stages] /\ objects' = objects /\ out' = out
      BY <1>3, <1>15, <3>1 DEF Go
    <3>4. module[r][m].prepared = TRUE
      BY <1>7, <2>2
    <3>5. Does(r, m, stages, TRUE)
      BY <1>1, <3>2, <3>3, <3>4, SyncDoes
    <3>6. Walk(q, IF stages \in Closing THEN 0 ELSE One(TRUE), One(mod[r][m].prepared), TurnIn(QueueMsgs(m), m))
      BY <1>6, <1>10, <1>17, <3>2
    <3>7. /\ ObjectsStay(r, m)
          /\ \A i \in ComputeInputs[m] :
               Walk(q, Len(objects'[r][i]), numObject[r][i], SupplyIn(QueueMsgs(m), i))
      BY <1>14, <1>17, <3>3
    <3>8. TRUE \in BOOLEAN
      OBVIOUS
    <3> QED BY <1>4, <1>12, <3>5, <3>6, <3>7, <3>8, DoesKeeps
  <2> QED BY <2>1, <2>3, <2>4
<1>18. CASE x.type = "ComputeObject"
  <2>1. Head(stages) = "Compute" /\ t = <<>>
    BY <1>15, <1>18, StagesFacts, StagesBegin
  <2>2. <<>> \in Rests(m) /\ <<>> \notin Closing
    BY DEF Rests, FedRests, SourceRests, Closing
  <2>3. Compute(r, m, [module[r][m] EXCEPT !.rest = <<>>])
    BY <1>3, <1>15, <2>1 DEF Go
  <2>4. /\ Does(r, m, <<>>, module[r][m].prepared) /\ ObjectsStay(r, m)
        /\ \A i \in ComputeInputs[m] :
             objects'[r][i] = IF objects[r][i] # <<>> THEN Tail(objects[r][i]) ELSE objects[r][i]
    BY <1>1, <2>2, <2>3, ComputeDoes
  <2>5. module[r][m].prepared = TRUE
    BY <1>7, <1>9, <1>10, <1>18
  <2>6. Walk(q, IF <<>> \in Closing THEN 0 ELSE One(TRUE), One(mod[r][m].prepared), TurnIn(QueueMsgs(m), m))
    BY <1>6, <1>10, <1>13, <1>18, <2>2
  <2>7. ASSUME NEW i \in ComputeInputs[m]
        PROVE  Walk(q, Len(objects'[r][i]), numObject[r][i], SupplyIn(QueueMsgs(m), i))
    <3>1. PICK c \in Nat : /\ Counts(Len(objects[r][i]), x, c, i)
                           /\ Walk(q, c, numObject[r][i], SupplyIn(QueueMsgs(m), i))
      BY <1>4
    <3>2. Len(objects[r][i]) = c + 1
      BY <1>18, <3>1 DEF Counts
    <3>3. PICK y : y = objects[r][i]
      OBVIOUS
    <3>4. y \in Seq(Nat)
      BY <1>11, <3>3, FedFacts
    <3>5. y # <<>> /\ Len(Tail(y)) = c
      BY <3>2, <3>3, <3>4, HeadTailProperties
    <3>6. objects'[r][i] = Tail(y)
      BY <2>4, <3>3, <3>5
    <3> QED BY <3>1, <3>5, <3>6
  <2>8. TRUE \in BOOLEAN /\ Does(r, m, <<>>, TRUE)
    BY <2>4, <2>5
  <2> QED BY <1>4, <1>12, <2>4, <2>6, <2>7, <2>8, DoesKeeps
<1> QED BY <1>5, <1>16, <1>17, <1>18

(* A process handles a message.                                            *)
LEMMA ReceiveKeeps ==
  ASSUME Steering, IInv, NEW r \in Ranks, NEW m \in Modules, Receive(r, m)
  PROVE  IInv'
<1>1. CASE Head(queue[r][m]).type = "AddObject"
  BY <1>1, ReceiveObject
<1>2. CASE Head(queue[r][m]).type # "AddObject" /\ m \notin Fed
  BY <1>2, ReceiveSource
<1>3. CASE Head(queue[r][m]).type # "AddObject" /\ m \in Fed
  BY <1>3, ReceiveOrder
<1> QED BY <1>1, <1>2, <1>3

(* What is left of the stages when all ranks have taken part in Sync.      *)
LEMMA SyncTail ==
  ASSUME NEW m \in Modules, NEW t \in Rests(m), t # <<>>, Head(t) = "Sync"
  PROVE  /\ Tail(t) \in Rests(m)
         /\ m \in Fed => (Tail(t) \in Closing <=> t \in Closing)
         /\ m \notin Fed => Tail(t) # <<>>
<1>1. PICK s : s = Tail(t)
  OBVIOUS
<1>2. CASE m \in Fed
  <2>1. t = <<"Sync">> \/ t = <<"Sync", "Finish">>
    BY <1>2, StagesLeft DEF Rests, FedRests
  <2>2. CASE t = <<"Sync">>
    <3>1. s = <<>>
      BY <1>1, <2>2, StagesLeft
    <3>2. <<>> \in Rests(m) /\ <<>> \notin Closing /\ <<"Sync">> \notin Closing
      BY <1>2 DEF Rests, FedRests, Closing
    <3> QED BY <1>1, <1>2, <2>2, <3>1, <3>2
  <2>3. CASE t = <<"Sync", "Finish">>
    <3>1. s = <<"Finish">>
      BY <1>1, <2>3, StagesLeft
    <3>2. <<"Finish">> \in Rests(m) /\ <<"Finish">> \in Closing /\ <<"Sync", "Finish">> \in Closing
      BY <1>2 DEF Rests, FedRests, Closing
    <3> QED BY <1>1, <1>2, <2>3, <3>1, <3>2
  <2> QED BY <2>1, <2>2, <2>3
<1>3. CASE m \notin Fed
  <2>1. t = <<"Sync", "Finish">> \/ t = <<"Sync", "Produce", "Sync", "Finish">>
    BY <1>3, StagesLeft DEF Rests, SourceRests
  <2>2. CASE t = <<"Sync", "Finish">>
    <3>1. s = <<"Finish">>
      BY <1>1, <2>2, StagesLeft
    <3>2. <<"Finish">> \in Rests(m) /\ <<"Finish">> # <<>>
      BY <1>3 DEF Rests, SourceRests
    <3> QED BY <1>1, <1>3, <3>1, <3>2
  <2>3. CASE t = <<"Sync", "Produce", "Sync", "Finish">>
    <3>1. s = <<"Produce", "Sync", "Finish">>
      BY <1>1, <2>3, StagesLeft
    <3>2. <<"Produce", "Sync", "Finish">> \in Rests(m) /\ <<"Produce", "Sync", "Finish">> # <<>>
      BY <1>3 DEF Rests, SourceRests
    <3> QED BY <1>1, <1>3, <3>1, <3>2
  <2> QED BY <2>1, <2>2, <2>3
<1> QED BY <1>2, <1>3

(* The process of one rank when all have taken part.                       *)
LEMMA SyncProcess ==
  ASSUME NEW m \in Modules, NEW p, ProcOK(p, m), p.rest # <<>>, Head(p.rest) = "Sync"
  PROVE  LET s == [p EXCEPT !.rest = Tail(p.rest)]
         IN  ProcOK(s, m) /\ s.prepared = p.prepared /\ (m \in Fed => After(s) = After(p))
<1>1. PICK t, s : t = Tail(p.rest) /\ s = [p EXCEPT !.rest = t]
  OBVIOUS
<1>2. p \in Processes(m) /\ p.rest \in Rests(m)
  BY DEF ProcOK, Processes
<1>3. t \in Rests(m) /\ (m \in Fed => (t \in Closing <=> p.rest \in Closing)) /\ (m \notin Fed => t # <<>>)
  BY <1>1, <1>2, SyncTail
<1>4. s \in Processes(m) /\ s.rest = t /\ s.prepared = p.prepared /\ s.reduced = p.reduced
  BY <1>1, <1>2, <1>3, ProcessEdit
<1>5. ProcOK(s, m)
  BY <1>3, <1>4 DEF ProcOK
<1>6. m \in Fed => After(s) = After(p)
  BY <1>3, <1>4 DEF After
<1> QED BY <1>1, <1>4, <1>5, <1>6

(* All ranks of a module go on.                                            *)
LEMMA SyncKeeps ==
  ASSUME IInv, NEW m \in Modules, Sync(m)
  PROVE  IInv'
<1>1. /\ ManagersOK /\ MasterOK /\ ProcessesOK /\ ChannelsOK /\ LocalOK /\ ReportsOK /\ OpenOK
  BY DEF IInv
<1>2. /\ mod' = mod /\ numObject' = numObject /\ up' = up /\ down' = down /\ executed' = executed
      /\ UNCHANGED <<ranksStarted, ranksFinished, objectCount, numReset, numFinish, done>>
      /\ queue' = queue /\ out' = out /\ objects' = objects
  BY DEF Sync, manager, master
<1>3. module \in [Ranks -> ProcFuns]
  BY <1>1 DEF ProcessesOK
<1>4. ASSUME NEW r \in Ranks
      PROVE  /\ module'[r] \in ProcFuns
             /\ \A n \in Modules : /\ module'[r][n].prepared = module[r][n].prepared
                                   /\ n \in Fed => After(module'[r][n]) = After(module[r][n])
  <2>1. PICK f, g, s : /\ f = module[r] /\ s = [f[m] EXCEPT !.rest = Tail(f[m].rest)]
                       /\ g = [f EXCEPT ![m] = s]
    OBVIOUS
  <2>2. module'[r] = g
    BY <2>1 DEF Sync
  <2>3. /\ f \in [Modules -> UNION {Processes(n) : n \in Modules}]
        /\ \A n \in Modules : ProcOK(f[n], n)
    BY <1>3, <2>1 DEF ProcFuns
  <2>4. f[m].rest # <<>> /\ Head(f[m].rest) = "Sync"
    BY <2>1 DEF Sync
  <2>5. ProcOK(s, m) /\ s.prepared = f[m].prepared /\ (m \in Fed => After(s) = After(f[m]))
    BY <2>1, <2>3, <2>4, SyncProcess
  <2>6. s \in UNION {Processes(n) : n \in Modules}
    BY <2>5 DEF ProcOK
  <2>7. /\ g \in [Modules -> UNION {Processes(n) : n \in Modules}] /\ g[m] = s
        /\ \A n \in Modules : n # m => g[n] = f[n]
    BY ONLY <2>1, <2>3, <2>6, m \in Modules
  <2>8. g \in ProcFuns
    BY <2>3, <2>5, <2>7 DEF ProcFuns
  <2>9. \A n \in Modules : g[n].prepared = f[n].prepared /\ (n \in Fed => After(g[n]) = After(f[n]))
    BY ONLY <2>5, <2>7
  <2> QED BY <2>1, <2>2, <2>8, <2>9
<1>5. module' \in [Ranks -> ProcFuns]
  <2>1. module' = [r \in Ranks |-> module'[r]]
    BY DEF Sync
  <2> QED BY <1>4, <2>1
<1>6. ProcessesOK' /\ ManagersOK' /\ MasterOK' /\ ChannelsOK'
  BY <1>1, <1>2, <1>5 DEF ProcessesOK, ManagersOK, MasterOK, ChannelsOK
<1>7. LocalOK'
  <2>1. ASSUME NEW k \in Ranks, NEW d \in Fed
        PROVE  /\ Walk(queue[k][d], After(module'[k][d]), One(mod[k][d].prepared), TurnIn(QueueMsgs(d), d))
               /\ \A i \in ComputeInputs[d] :
                    Walk(queue[k][d], Len(objects[k][i]), numObject[k][i], SupplyIn(QueueMsgs(d), i))
    <3>1. d \in Modules
      BY FedFacts
    <3>2. After(module'[k][d]) = After(module[k][d])
      BY <1>4, <3>1
    <3> QED BY <1>1, <3>2 DEF LocalOK, Flows
  <2> QED BY <1>2, <2>1 DEF LocalOK, Flows
<1>8. ReportsOK'
  <2>1. PICK ex \in Who, mid \in Who : Reporting(ex, mid) /\ RanksOK(ex)
    BY <1>1 DEF ReportsOK
  <2>2. Reporting(ex, mid)'
    BY <1>2, <1>4, <2>1 DEF Reporting
  <2>3. RanksOK(ex)'
    BY <1>2, <2>1 DEF RanksOK
  <2> QED BY <2>1, <2>2, <2>3 DEF ReportsOK
<1>9. OpenOK'
  BY <1>1, <1>2 DEF OpenOK, ResetsOK, Running, Lines
<1> QED BY <1>6, <1>7, <1>8, <1>9 DEF IInv

(* Nothing happens.                                                        *)
LEMMA StutterKeeps ==
  ASSUME IInv, UNCHANGED vars
  PROVE  IInv'
<1>1. /\ UNCHANGED <<mod, numObject, queue, out, up, down, module, objects, executed>>
      /\ UNCHANGED <<ranksStarted, ranksFinished, objectCount, numReset, numFinish, done>>
  BY DEF vars, manager, master, process
<1>2. /\ ManagersOK /\ MasterOK /\ ProcessesOK /\ ChannelsOK /\ LocalOK /\ ReportsOK /\ OpenOK
  BY DEF IInv
<1>3. ManagersOK' /\ MasterOK' /\ ProcessesOK' /\ ChannelsOK'
  BY <1>1, <1>2 DEF ManagersOK, MasterOK, ProcessesOK, ChannelsOK
<1>4. LocalOK'
  BY <1>1, <1>2 DEF LocalOK, Flows
<1>5. ReportsOK'
  BY <1>1, <1>2 DEF ReportsOK, Reporting, RanksOK
<1>6. OpenOK'
  BY <1>1, <1>2 DEF OpenOK, ResetsOK, Running, Lines
<1> QED BY <1>3, <1>4, <1>5, <1>6 DEF IInv

-----------------------------------------------------------------------------
(* The beginning: nobody is prepared, and there is no message.             *)
LEMMA InitInv ==
  ASSUME Steering, Init
  PROVE  IInv
<1> USE DEF Init
<1>1. NumRanks \in Nat \ {0} /\ 0 \in Ranks /\ \A i \in Inputs : ModuleOf[i] \in Modules
  BY ExecutionAssumption, ZeroRank, PortFacts
<1>2. One(FALSE) = 0 /\ 0 \in 0..1 /\ 0 \in Nat
  BY DEF One
<1>3. ManagersOK
  BY DEF ManagersOK, Flags
<1>4. MasterOK
  BY <1>1 DEF MasterOK
<1>5. \A r \in Ranks, m \in Modules :
        /\ module[r][m] = [prepared |-> FALSE, reduced |-> FALSE, withOutput |-> FALSE, round |-> 0, rest |-> <<>>]
        /\ module[r][m].prepared = FALSE /\ module[r][m].rest = <<>>
        /\ queue[r][m] = <<>> /\ out[r][m] = <<>> /\ mod[r][m].prepared = FALSE
  BY DEF Flags
<1>6. ProcessesOK
  <2> DEFINE p == [prepared |-> FALSE, reduced |-> FALSE, withOutput |-> FALSE, round |-> 0, rest |-> <<>>]
  <2>1. ASSUME NEW m \in Modules PROVE ProcOK(p, m) /\ p \in Processes(m)
    <3>1. <<>> \in Rests(m) /\ <<>> \notin Closing
      BY DEF Rests, FedRests, SourceRests, Closing
    <3>2. p \in Processes(m)
      BY <1>2, <3>1 DEF Processes
    <3> QED BY <3>1, <3>2 DEF ProcOK
  <2>2. PICK f : f = [m \in Modules |-> p]
    OBVIOUS
  <2> HIDE DEF p
  <2>3. f \in [Modules -> UNION {Processes(m) : m \in Modules}] /\ \A m \in Modules : ProcOK(f[m], m)
    BY <2>1, <2>2
  <2>4. f \in ProcFuns
    BY <2>3 DEF ProcFuns
  <2>5. module = [r \in Ranks |-> f]
    BY <2>2 DEF p
  <2>6. objects \in [Ranks -> [Inputs -> Seq(Nat)]]
    OBVIOUS
  <2> QED BY <2>4, <2>5, <2>6 DEF ProcessesOK
<1>7. ChannelsOK
  <2>1. PICK f : f = [m \in Modules |-> <<>>]
    OBVIOUS
  <2>2. f \in QueueFuns
    <3>1. \A m \in Modules : <<>> \in Seq(QueueMsgs(m)) /\ <<>> \in UNION {Seq(QueueMsgs(n)) : n \in Modules}
      OBVIOUS
    <3>2. f \in [Modules -> UNION {Seq(QueueMsgs(m)) : m \in Modules}]
      BY <2>1, <3>1
    <3> QED BY <2>1, <3>1, <3>2 DEF QueueFuns, Queues
  <2>3. f \in OutFuns
    <3>1. \A m \in Modules : <<>> \in Seq(OutMsgs(m)) /\ <<>> \in UNION {Seq(OutMsgs(n)) : n \in Modules}
      OBVIOUS
    <3>2. f \in [Modules -> UNION {Seq(OutMsgs(m)) : m \in Modules}]
      BY <2>1, <3>1
    <3> QED BY <2>1, <3>1, <3>2 DEF OutFuns, Outs
  <2>4. queue = [r \in Ranks |-> f] /\ out = [r \in Ranks |-> f]
    BY <2>1
  <2>5. queue \in [Ranks -> QueueFuns] /\ out \in [Ranks -> OutFuns]
    BY <2>2, <2>3, <2>4
  <2>6. /\ up \in [Ranks -> Seq(Reports(Modules))] /\ up[0] = <<>> /\ down \in [Ranks -> Seq(DownMsgs)]
        /\ executed \in [Modules -> Nat]
    BY <1>1
  <2> QED BY <2>5, <2>6 DEF ChannelsOK
<1>8. LocalOK
  <2>1. ASSUME NEW r \in Ranks, NEW d \in Fed
        PROVE  /\ Walk(queue[r][d], After(module[r][d]), One(mod[r][d].prepared), TurnIn(QueueMsgs(d), d))
               /\ \A i \in ComputeInputs[d] :
                    Walk(queue[r][d], Len(objects[r][i]), numObject[r][i], SupplyIn(QueueMsgs(d), i))
    <3>1. d \in Modules /\ \A i \in ComputeInputs[d] : i \in Inputs
      BY FedFacts
    <3>2. <<>> \notin Closing
      BY DEF Closing
    <3>3. queue[r][d] = <<>> /\ After(module[r][d]) = 0 /\ One(mod[r][d].prepared) = 0
      BY <1>2, <1>5, <3>1, <3>2 DEF After
    <3>4. \A i \in ComputeInputs[d] : Len(objects[r][i]) = 0 /\ numObject[r][i] = 0
      BY <3>1
    <3>5. \A R : Walk(<<>>, 0, 0, R)
      BY ONLY <1>2, WalkEmpty
    <3> QED BY ONLY <3>3, <3>4, <3>5
  <2> QED BY <2>1 DEF LocalOK, Flows
<1>9. ReportsOK
  <2>1. PICK ex : ex = [r \in Ranks |-> [m \in Modules |-> 0]]
    OBVIOUS
  <2>2. ex \in Who /\ \A r \in Ranks, m \in Modules : ex[r][m] = 0
    BY <1>2, <2>1 DEF Who
  <2>3. Reporting(ex, ex)
    <3>1. \A r \in Ranks : up[r] = <<>>
      OBVIOUS
    <3> QED BY <1>2, <1>5, <2>2, <3>1, WalkEmpty DEF Reporting
  <2>4. RanksOK(ex)
    <3>1. ASSUME NEW m \in Modules PROVE Cardinality(Busy(ex, m)) = 0
      <4>1. Busy(ex, m) = {}
        BY <2>2 DEF Busy
      <4> QED BY <4>1, FS_EmptySet
    <3>2. \A m \in Modules : ranksStarted[m] = 0 /\ ranksFinished[m] = 0
      OBVIOUS
    <3> QED BY ONLY <3>1, <3>2 DEF RanksOK
  <2> QED BY <2>2, <2>3, <2>4 DEF ReportsOK
<1>10. OpenOK
  <2>1. PICK open : open = [m \in Modules |-> 0]
    OBVIOUS
  <2>2. open \in [Modules -> 0..1] /\ \A m \in Modules : open[m] = 0
    BY <1>2, <2>1
  <2>3. ASSUME NEW d \in Fed
        PROVE  /\ \A i \in ComputeInputs[d] : numReset[i] + open[d] = numFinish[i] + Running(Feeder(i))
               /\ \E i \in ComputeInputs[d] : numReset[i] = 0
               /\ \E i \in ComputeInputs[d] : numFinish[i] = 0
    <3>1. d \in Modules /\ ComputeInputs[d] # {} /\ \A i \in ComputeInputs[d] : i \in Inputs
      BY FedFacts
    <3>2. \A i \in ComputeInputs[d] : numReset[i] = 0 /\ numFinish[i] = 0
      BY <3>1
    <3>3. \A i \in ComputeInputs[d] : Running(Feeder(i)) = 0
      <4>1. \A i \in ComputeInputs[d] : Feeder(i) \in Modules
        BY FeederFacts
      <4>2. \A n \in Modules : ranksStarted[n] = 0
        OBVIOUS
      <4> QED BY <1>1, <4>1, <4>2 DEF Running
    <3> QED BY <2>2, <3>1, <3>2, <3>3
  <2>4. ResetsOK(open)
    BY <2>3 DEF ResetsOK
  <2>5. ASSUME NEW q \in Ranks, NEW e \in Fed
        PROVE  Walk(down[q], One(mod[q][e].prepared), open[e], TurnIn(DownMsgs, e))
    <3>1. e \in Modules
      BY FedFacts
    <3>2. down[q] = <<>> /\ One(mod[q][e].prepared) = 0 /\ open[e] = 0
      BY <1>2, <1>5, <2>2, <3>1
    <3> QED BY <1>2, <3>2, WalkEmpty
  <2> QED BY <2>2, <2>4, <2>5 DEF OpenOK, Lines, LinesOf
<1> QED BY <1>3, <1>4, <1>6, <1>7, <1>8, <1>9, <1>10 DEF IInv

(* The invariant is inductive.                                             *)
LEMMA NextKeeps ==
  ASSUME Steering, IInv, [Next]_vars
  PROVE  IInv'
<1>1. ASSUME NEW r \in Ranks, HandleBroadcast(r) PROVE IInv'
  BY <1>1, BroadcastKeeps
<1>2. ASSUME NEW r \in Ranks, HandleForwarded(r) PROVE IInv'
  BY <1>2, HandleForwardedKeeps
<1>3. CASE HandleOwn
  BY <1>3, NoRequest
<1>4. ASSUME NEW r \in Ranks, NEW m \in Modules, HandleAddObject(r, m) PROVE IInv'
  BY <1>4, AddObjectKeeps
<1>5. ASSUME NEW r \in Ranks, NEW m \in Modules, HandleProgress(r, m) PROVE IInv'
  BY <1>5, HandleProgressKeeps
<1>6. ASSUME NEW r \in Ranks, NEW m \in Modules, Receive(r, m) PROVE IInv'
  BY <1>6, ReceiveKeeps
<1>7. ASSUME NEW r \in Ranks, NEW m \in Modules, Stage(r, m) PROVE IInv'
  BY <1>7, StageKeeps
<1>8. ASSUME NEW m \in Modules, Sync(m) PROVE IInv'
  BY <1>8, SyncKeeps
<1>9. ASSUME NEW m \in Modules, UserExecute(m) PROVE IInv'
  BY <1>9, UserExecuteKeeps
<1>10. CASE UNCHANGED vars
  BY <1>10, StutterKeeps
<1> QED BY <1>1, <1>2, <1>3, <1>4, <1>5, <1>6, <1>7, <1>8, <1>9, <1>10 DEF Next, SystemStep, Terminated

(* The invariant holds always.                                             *)
THEOREM Invariance ==
  ASSUME Steering
  PROVE  Spec => []IInv
<1>1. Init => IInv
  BY InitInv
<1>2. IInv /\ [Next]_vars => IInv'
  BY NextKeeps
<1> QED BY <1>1, <1>2, PTL DEF Spec

(* TypeOK, for any number of ranks and any workflow that Steering admits.  *)
THEOREM TypeCorrect ==
  ASSUME Steering
  PROVE  Spec => []TypeOK
<1>1. IInv => TypeOK
  BY DEF IInv, ManagersOK, MasterOK, ProcessesOK, ChannelsOK, TypeOK
<1> QED BY <1>1, Invariance, PTL

(* The flags of a manager fit the broadcast that it handles next: Prepare  *)
(* and Reduce reach every rank in turns.                                   *)
LEMMA FlagsFromInv ==
  ASSUME IInv
  PROVE  FlagsAgree
<1>1. ManagersOK /\ ChannelsOK /\ OpenOK
  BY DEF IInv
<1>2. ASSUME NEW r \in Ranks, down[r] # <<>>
      PROVE  LET msg  == Head(down[r])
                 flag == mod[r][msg.module]
             IN  CASE msg.type = "Prepare" -> ~flag.prepared /\ flag.reduced
                   [] msg.type = "Reduce"  -> flag.prepared /\ ~flag.reduced
                   [] msg.type \in {"ComputeObject", "Request"} -> flag.prepared
                   [] OTHER -> TRUE
  <2>1. PICK x, q : x = Head(down[r]) /\ q = down[r]
    OBVIOUS
  <2>2. q \in Seq(DownMsgs) /\ q # <<>> /\ x = Head(q) /\ x \in DownMsgs
    BY <1>1, <1>2, <2>1, HeadTailProperties DEF ChannelsOK
  <2>3. CASE x.type = "ComputeExecute"
    BY <2>1, <2>3
  <2>4. CASE x.type \in {"Prepare", "Reduce"} /\ x.module \in Fed
    <3>1. PICK m, f : m = x.module /\ f = mod[r][m]
      OBVIOUS
    <3>2. m \in Fed /\ m \in Modules
      BY <2>4, <3>1, FedFacts
    <3>3. f.prepared \in BOOLEAN /\ f.reduced = ~f.prepared
      BY <1>1, <3>1, <3>2 DEF ManagersOK
    <3>4. PICK open \in [Modules -> 0..1] : Lines(down, open)
      BY <1>1 DEF OpenOK
    <3>5. Walk(q, One(f.prepared), open[m], TurnIn(DownMsgs, m))
      BY <2>1, <3>1, <3>2, <3>4 DEF Lines, LinesOf
    <3>6. PICK b : <<One(f.prepared), x, b>> \in TurnIn(DownMsgs, m)
      BY <2>2, <3>5, WalkHead
    <3>7. Moves(One(f.prepared), x, b, m)
      BY <3>6, TurnIff
    <3>8. x.type = "Prepare" => One(f.prepared) = 0
      BY <3>1, <3>7 DEF Moves
    <3>9. x.type = "Reduce" => One(f.prepared) = 1
      BY <3>1, <3>7 DEF Moves
    <3>10. /\ x.type = "Prepare" => ~f.prepared /\ f.reduced
           /\ x.type = "Reduce" => f.prepared /\ ~f.reduced
      <4>1. One(TRUE) = 1 /\ One(FALSE) = 0 /\ 0 # 1
        BY DEF One
      <4>2. CASE f.prepared = TRUE
        <5>1. f.reduced = FALSE
          BY <3>3, <4>2
        <5>2. x.type # "Prepare"
          BY ONLY <3>8, <4>1, <4>2
        <5> QED BY <4>2, <5>1, <5>2
      <4>3. CASE f.prepared = FALSE
        <5>1. f.reduced = TRUE
          BY <3>3, <4>3
        <5>2. x.type # "Reduce"
          BY ONLY <3>9, <4>1, <4>3
        <5> QED BY <4>3, <5>1, <5>2
      <4> QED BY <3>3, <4>2, <4>3
    <3>12. mod[r][x.module] = f
      BY <3>1
    <3>13. CASE x.type = "Prepare"
      <4>1. ~mod[r][x.module].prepared /\ mod[r][x.module].reduced
        BY <3>10, <3>12, <3>13
      <4> QED BY ONLY <2>1, <3>13, <4>1
    <3>14. CASE x.type = "Reduce"
      <4>1. mod[r][x.module].prepared /\ ~mod[r][x.module].reduced
        BY <3>10, <3>12, <3>14
      <4> QED BY ONLY <2>1, <3>14, <4>1
    <3> QED BY <2>4, <3>13, <3>14
  <2> QED BY <2>2, <2>3, <2>4, DownMsgFacts
<1> QED BY <1>2 DEF FlagsAgree

(* FlagsAgree: Prepare and Reduce reach every rank in turns, whatever the  *)
(* order in which the ranks report their progress, and each with the flags *)
(* its manager asserts.                                                    *)
THEOREM FlagsAlwaysAgree ==
  ASSUME Steering
  PROVE  Spec => []FlagsAgree
<1>1. IInv => FlagsAgree
  BY FlagsFromInv
<1> QED BY <1>1, Invariance, PTL

(* The process is in the state that the order it gets next asks for, and   *)
(* it has an object at every input when it is told to compute.             *)
LEMMA ReadyFromInv ==
  ASSUME IInv
  PROVE  ModuleReady
<1>1. ProcessesOK /\ ChannelsOK /\ LocalOK
  BY DEF IInv
<1>2. ASSUME NEW r \in Ranks, NEW m \in Modules, module[r][m].rest = <<>>, queue[r][m] # <<>>,
             Head(queue[r][m]).type \in {"Prepare", "Reduce", "ComputeObject"}
      PROVE  LET p == module[r][m]
                 type == Head(queue[r][m]).type
             IN  /\ type = "Prepare" => ~p.prepared
                 /\ type = "Reduce" => p.prepared /\ ~p.reduced
                 /\ type = "ComputeObject" =>
                      p.prepared /\ ~p.reduced /\ \A i \in ComputeInputs[m] : objects[r][i] # <<>>
  <2>1. PICK x, q, p : x = Head(queue[r][m]) /\ q = queue[r][m] /\ p = module[r][m]
    OBVIOUS
  <2>2. q \in Seq(QueueMsgs(m)) /\ q # <<>> /\ x = Head(q) /\ x \in QueueMsgs(m)
    <3>1. q \in Seq(QueueMsgs(m))
      BY <1>1, <2>1 DEF ChannelsOK, QueueFuns, Queues
    <3> QED BY <1>2, <2>1, <3>1, HeadTailProperties
  <2>3. x.type \in {"Prepare", "Reduce", "ComputeObject"}
    BY <1>2, <2>1
  <2>4. m \in Fed /\ x.module = m
    BY <2>2, <2>3, QueueMsgFacts
  <2>5. p.prepared \in BOOLEAN /\ (p.prepared => ~p.reduced) /\ p.rest = <<>>
    BY <1>1, <1>2, <2>1, ProcessFacts
  <2>6. After(p) = One(p.prepared)
    BY <2>5 DEF After, Closing
  <2>7. /\ Walk(q, One(p.prepared), One(mod[r][m].prepared), TurnIn(QueueMsgs(m), m))
        /\ \A i \in ComputeInputs[m] :
             Walk(q, Len(objects[r][i]), numObject[r][i], SupplyIn(QueueMsgs(m), i))
    BY <1>1, <2>1, <2>4, <2>6 DEF LocalOK, Flows
  <2>8. PICK b : <<One(p.prepared), x, b>> \in TurnIn(QueueMsgs(m), m)
    BY <2>2, <2>7, WalkHead
  <2>9. Moves(One(p.prepared), x, b, m)
    BY <2>8, TurnIff
  <2>10. /\ x.type = "Prepare" => One(p.prepared) = 0
         /\ x.type \in {"Reduce", "ComputeObject"} => One(p.prepared) = 1
    BY <2>4, <2>9 DEF Moves
  <2>11. /\ x.type = "Prepare" => ~p.prepared
         /\ x.type \in {"Reduce", "ComputeObject"} => p.prepared /\ ~p.reduced
    BY <2>5, <2>10 DEF One
  <2>12. ASSUME x.type = "ComputeObject", NEW i \in ComputeInputs[m] PROVE objects[r][i] # <<>>
    <3>1. Walk(q, Len(objects[r][i]), numObject[r][i], SupplyIn(QueueMsgs(m), i))
      BY <2>7
    <3>2. PICK c : <<Len(objects[r][i]), x, c>> \in SupplyIn(QueueMsgs(m), i)
      BY <2>2, <3>1, WalkHead
    <3>3. c \in Nat /\ Counts(Len(objects[r][i]), x, c, i)
      BY <3>2, SupplyIff
    <3>4. Len(objects[r][i]) = c + 1
      BY <2>12, <3>3 DEF Counts
    <3>5. Len(<<>>) = 0
      OBVIOUS
    <3> QED BY <3>3, <3>4, <3>5
  <2> QED BY <2>1, <2>11, <2>12
<1> QED BY <1>2 DEF ModuleReady, Handles

(* ModuleReady: the assertions of prepareWrapper, handleExecute and        *)
(* reduceWrapper hold in every process, and one that is told to compute    *)
(* has an object at every input.                                           *)
THEOREM ModulesReady ==
  ASSUME Steering
  PROVE  Spec => []ModuleReady
<1>1. IInv => ModuleReady
  BY ReadyFromInv
<1> QED BY <1>1, Invariance, PTL

-----------------------------------------------------------------------------
(***************************************************************************)
(* How often modules execute, when executions do not overlap.  An execution*)
(* of a module is two turns: it starts, and it finishes.  An order makes a *)
(* process take one turn, or both if it is to execute a source; a report   *)
(* tells of one, and the objects are sent between the two.                 *)
(***************************************************************************)
Begins(a, x, z, m) ==
  IF x.type \in {"Prepare", "Reduce"} /\ x.module = m THEN z = a + 1
  ELSE IF x.type = "ComputeExecute" /\ x.module = m /\ SchedulingPolicy[m] # "Ignore" THEN z = a + 2
  ELSE z = a
BeginsIn(S, m) == {t \in Nat \X S \X Nat : Begins(t[1], t[2], t[3], m)}

Tells(a, x, z, m) ==
  IF x.type = "Object" THEN z = a /\ a + 1 = 2 * x.round
  ELSE IF x.module = m
  THEN z = a + 1 /\ \E k \in Nat : a = 2 * k + (IF x.type = "Start" THEN 0 ELSE 1)
  ELSE z = a
TellsIn(S, m) == {t \in Nat \X S \X Nat : Tells(t[1], t[2], t[3], m)}

(* The turns that a process has taken, and those it will have taken when   *)
(* it is done with its stages.                                             *)
Turns(p)    == 2 * p.round - One(p.prepared)
Later(p, m) == 2 * p.round - (IF m \in Fed THEN After(p) ELSE 0)

Amounts == [Modules -> Nat]
Numbers == [Ranks -> Amounts]

(* The reports under way lead from the turns that rank 0 has been told of  *)
(* to those taken, and the orders from there to those that rank 0 has      *)
(* ordered.                                                                *)
Sent(told, mid) ==
  \A r \in Ranks, m \in Modules :
    /\ Walk(out[r][m], mid[r][m], Turns(module[r][m]), TellsIn(OutMsgs(m), m))
    /\ Walk(up[r], told[r][m], mid[r][m], TellsIn(Reports(Modules), m))
Ordered(mgr, starts, ends) ==
  \A r \in Ranks, m \in Modules :
    /\ Walk(queue[r][m], Later(module[r][m], m), mgr[r][m], BeginsIn(QueueMsgs(m), m))
    /\ Walk(down[r], mgr[r][m], starts[m] + ends[m], BeginsIn(DownMsgs, m))

(* A module has been ordered to start as often as all modules upstream     *)
(* have started on all ranks, and to finish as often as they are done.     *)
Counted(starts, ends) ==
  /\ \A d \in Fed : \A i \in ComputeInputs[d] :
       /\ numReset[i] + starts[d] = done[Feeder(i)] + Running(Feeder(i))
       /\ numFinish[i] + ends[d] = done[Feeder(i)]
  /\ \A m \in Modules \ Fed : starts[m] = ends[m]

(* fin and ex tell how often a module has finished on a rank and whether   *)
(* it is executing there, as far as rank 0 has been told; base how often   *)
(* it was done when the user executed last.  It has executed once since    *)
(* then, or not at all.                                                    *)
FinishedBy(fin, base, m) == {r \in Ranks : fin[r][m] = base[m] + 1}
Epoch(fin, ex, base) ==
  /\ RanksOK(ex)
  /\ \A m \in Modules :
       /\ \A r \in Ranks : fin[r][m] \in {base[m], base[m] + 1}
       /\ \/ done[m] = base[m] /\ ranksFinished[m] = Cardinality(FinishedBy(fin, base, m))
          \/ /\ done[m] = base[m] + 1 /\ ranksFinished[m] = 0
             /\ \A r \in Ranks : fin[r][m] = base[m] + 1
Once(starts, base) ==
  /\ \A m \in Modules : starts[m] <= base[m] + 1
  /\ \A d \in Fed : \E i \in ComputeInputs[d] : base[d] = base[Feeder(i)]
Counting(told, fin, ex) ==
  \A r \in Ranks, m \in Modules : told[r][m] = 2 * fin[r][m] + ex[r][m]

Numbered(told, mid, mgr, fin, ex, starts, ends, base) ==
  /\ told \in Numbers /\ mid \in Numbers /\ mgr \in Numbers /\ fin \in Numbers /\ ex \in Who
  /\ starts \in Amounts /\ ends \in Amounts /\ base \in Amounts
  /\ Sent(told, mid) /\ Ordered(mgr, starts, ends) /\ Counting(told, fin, ex)
  /\ Counted(starts, ends) /\ Epoch(fin, ex, base) /\ Once(starts, base)
CountsOK ==
  \E told, mid, mgr, fin, ex, starts, ends, base :
    Numbered(told, mid, mgr, fin, ex, starts, ends, base)

(* Membership of a step in BeginsIn.                                       *)
LEMMA BeginsIff ==
  ASSUME NEW S, NEW m, NEW a, NEW x, NEW z
  PROVE  <<a, x, z>> \in BeginsIn(S, m) <=> a \in Nat /\ x \in S /\ z \in Nat /\ Begins(a, x, z, m)
BY DEF BeginsIn

(* Membership of a step in TellsIn.                                        *)
LEMMA TellsIff ==
  ASSUME NEW S, NEW m, NEW a, NEW x, NEW z
  PROVE  <<a, x, z>> \in TellsIn(S, m) <=> a \in Nat /\ x \in S /\ z \in Nat /\ Tells(a, x, z, m)
BY DEF TellsIn

(* A walk whose steps do not go down stays above its beginning.            *)
LEMMA WalkAbove ==
  ASSUME NEW S, NEW q \in Seq(S), NEW a, NEW z, NEW R, Walk(q, a, z, R),
         \A b, c \in Nat : \A x : <<b, x, c>> \in R => b <= c
  PROVE  \E c \in [0..Len(q) -> Nat] :
           /\ c[0] = a /\ c[Len(q)] = z /\ \A k \in 1..Len(q) : <<c[k - 1], q[k], c[k]>> \in R
           /\ \A k \in 0..Len(q) : a <= c[k]
<1>1. PICK c \in [0..Len(q) -> Nat] :
        c[0] = a /\ c[Len(q)] = z /\ \A k \in 1..Len(q) : <<c[k - 1], q[k], c[k]>> \in R
  BY DEF Walk
<1>2. PICK n \in Nat : n = Len(q)
  OBVIOUS
<1>3. a \in Nat /\ z \in Nat
  BY WalkNat
<1> DEFINE K == {k \in 0..n : a <= c[k]}
<1>4. 0 \in K
  BY <1>1, <1>2, <1>3
<1>5. ASSUME NEW k \in 0..n, k < n, k \in K PROVE k + 1 \in K
  <2>1. k + 1 \in 1..n /\ k + 1 \in 0..n /\ (k + 1) - 1 = k
    BY <1>2, <1>5
  <2>2. <<c[k], q[k + 1], c[k + 1]>> \in R
    BY <1>1, <1>2, <2>1
  <2>3. c[k] \in Nat /\ c[k + 1] \in Nat
    BY <1>1, <1>2, <2>1
  <2>4. c[k] <= c[k + 1]
    BY <2>2, <2>3
  <2> QED BY <1>3, <1>5, <2>1, <2>3, <2>4
<1> HIDE DEF K
<1>6. \A k \in 0..n : k \in K
  BY <1>2, <1>4, <1>5, UpTo
<1>7. \A k \in 0..Len(q) : a <= c[k]
  BY <1>2, <1>6 DEF K
<1> QED BY <1>1, <1>7

(* So it does not go down.                                                 *)
LEMMA WalkUp ==
  ASSUME NEW S, NEW q \in Seq(S), NEW a, NEW z, NEW R, Walk(q, a, z, R),
         \A b, c \in Nat : \A x : <<b, x, c>> \in R => b <= c
  PROVE  a \in Nat /\ z \in Nat /\ a <= z
<1>1. PICK c \in [0..Len(q) -> Nat] : c[Len(q)] = z /\ \A k \in 0..Len(q) : a <= c[k]
  BY WalkAbove
<1>2. Len(q) \in 0..Len(q)
  OBVIOUS
<1>3. a \in Nat /\ z \in Nat
  BY WalkNat
<1> QED BY <1>1, <1>2, <1>3

(* A message on the way, and the number before it.                         *)
LEMMA WalkPlace ==
  ASSUME NEW S, NEW q \in Seq(S), NEW a, NEW z, NEW R, Walk(q, a, z, R),
         \A b, c \in Nat : \A x : <<b, x, c>> \in R => b <= c, NEW k \in 1..Len(q)
  PROVE  \E b, c \in Nat : <<b, q[k], c>> \in R /\ a <= b
<1>1. PICK c \in [0..Len(q) -> Nat] :
        /\ \A j \in 1..Len(q) : <<c[j - 1], q[j], c[j]>> \in R
        /\ \A j \in 0..Len(q) : a <= c[j]
  BY WalkAbove
<1>2. k - 1 \in 0..Len(q) /\ k \in 0..Len(q)
  OBVIOUS
<1>3. c[k - 1] \in Nat /\ c[k] \in Nat /\ a <= c[k - 1] /\ <<c[k - 1], q[k], c[k]>> \in R
  BY <1>1, <1>2
<1> QED BY <1>3

(* Reports and orders only add turns.                                      *)
LEMMA TurnsGrow ==
  ASSUME NEW S, NEW m
  PROVE  /\ \A b, c \in Nat : \A x : <<b, x, c>> \in TellsIn(S, m) => b <= c
         /\ \A b, c \in Nat : \A x : <<b, x, c>> \in BeginsIn(S, m) => b <= c
<1>1. ASSUME NEW b \in Nat, NEW c \in Nat, NEW x, <<b, x, c>> \in TellsIn(S, m) PROVE b <= c
  <2>1. Tells(b, x, c, m)
    BY <1>1, TellsIff
  <2>2. c = b \/ c = b + 1
    BY <2>1 DEF Tells
  <2> QED BY <2>2
<1>2. ASSUME NEW b \in Nat, NEW c \in Nat, NEW x, <<b, x, c>> \in BeginsIn(S, m) PROVE b <= c
  <2>1. Begins(b, x, c, m)
    BY <1>2, BeginsIff
  <2>2. c = b \/ c = b + 1 \/ c = b + 2
    BY <2>1 DEF Begins
  <2> QED BY <2>2
<1> QED BY <1>1, <1>2

(* The turns of a process.                                                 *)
LEMMA TurnsFacts ==
  ASSUME ProcessesOK, NEW r \in Ranks, NEW m \in Modules
  PROVE  LET p == module[r][m]
         IN  /\ Turns(p) \in Int /\ Later(p, m) \in Int /\ Turns(p) <= Later(p, m)
             /\ p.rest = <<>> => Turns(p) = Later(p, m)
<1>1. PICK p : p = module[r][m]
  OBVIOUS
<1>2. ProcOK(p, m) /\ p.prepared \in BOOLEAN /\ p.round \in Nat
  BY <1>1, ProcessFacts
<1>3. PICK n \in Nat : n = p.round
  BY <1>2
<1>4. PICK o \in 0..1 : o = One(p.prepared)
  BY DEF One
<1>5. PICK f \in 0..1 : f = After(p)
  BY <1>4 DEF After
<1>6. f <= o
  BY <1>4, <1>5 DEF After
<1>7. Turns(p) = 2 * n - o
  BY <1>3, <1>4 DEF Turns
<1>8. Later(p, m) = 2 * n - (IF m \in Fed THEN f ELSE 0)
  BY <1>3, <1>5 DEF Later
<1>9. ASSUME p.rest = <<>> PROVE (m \in Fed => f = o) /\ (m \notin Fed => o = 0)
  <2>1. f = o
    BY <1>4, <1>5, <1>9 DEF After, Closing
  <2>2. m \notin Fed => ~p.prepared
    BY <1>2, <1>9 DEF ProcOK
  <2>3. m \notin Fed => o = 0
    BY <1>4, <2>2 DEF One
  <2> QED BY <2>1, <2>3
<1> QED BY <1>1, <1>6, <1>7, <1>8, <1>9

(* The numbers of turns are in order on each rank.                         *)
LEMMA InOrder ==
  ASSUME ProcessesOK, ChannelsOK, NEW told, NEW mid, NEW mgr, NEW starts, NEW ends,
         Sent(told, mid), Ordered(mgr, starts, ends), NEW r \in Ranks, NEW m \in Modules
  PROVE  LET p == module[r][m]
         IN  /\ told[r][m] \in Nat /\ mid[r][m] \in Nat /\ Turns(p) \in Nat /\ Later(p, m) \in Nat
             /\ mgr[r][m] \in Nat /\ starts[m] + ends[m] \in Nat
             /\ told[r][m] <= mid[r][m] /\ mid[r][m] <= Turns(p) /\ Turns(p) <= Later(p, m)
             /\ Later(p, m) <= mgr[r][m] /\ mgr[r][m] <= starts[m] + ends[m]
<1>1. PICK p : p = module[r][m]
  OBVIOUS
<1>2. /\ out[r][m] \in Seq(OutMsgs(m)) /\ up[r] \in Seq(Reports(Modules))
      /\ queue[r][m] \in Seq(QueueMsgs(m)) /\ down[r] \in Seq(DownMsgs)
  BY DEF ChannelsOK, OutFuns, Outs, QueueFuns, Queues
<1>3. /\ Walk(out[r][m], mid[r][m], Turns(p), TellsIn(OutMsgs(m), m))
      /\ Walk(up[r], told[r][m], mid[r][m], TellsIn(Reports(Modules), m))
  BY <1>1 DEF Sent
<1>4. /\ Walk(queue[r][m], Later(p, m), mgr[r][m], BeginsIn(QueueMsgs(m), m))
      /\ Walk(down[r], mgr[r][m], starts[m] + ends[m], BeginsIn(DownMsgs, m))
  BY <1>1 DEF Ordered
<1>5. mid[r][m] \in Nat /\ Turns(p) \in Nat /\ mid[r][m] <= Turns(p)
  <2>1. \A b, c \in Nat : \A x : <<b, x, c>> \in TellsIn(OutMsgs(m), m) => b <= c
    BY TurnsGrow
  <2> QED BY ONLY <1>2, <1>3, <2>1, WalkUp
<1>6. told[r][m] \in Nat /\ told[r][m] <= mid[r][m]
  <2>1. \A b, c \in Nat : \A x : <<b, x, c>> \in TellsIn(Reports(Modules), m) => b <= c
    BY TurnsGrow
  <2> QED BY ONLY <1>2, <1>3, <2>1, WalkUp
<1>7. Later(p, m) \in Nat /\ mgr[r][m] \in Nat /\ Later(p, m) <= mgr[r][m]
  <2>1. \A b, c \in Nat : \A x : <<b, x, c>> \in BeginsIn(QueueMsgs(m), m) => b <= c
    BY TurnsGrow
  <2> QED BY ONLY <1>2, <1>4, <2>1, WalkUp
<1>8. starts[m] + ends[m] \in Nat /\ mgr[r][m] <= starts[m] + ends[m]
  <2>1. \A b, c \in Nat : \A x : <<b, x, c>> \in BeginsIn(DownMsgs, m) => b <= c
    BY TurnsGrow
  <2> QED BY ONLY <1>2, <1>4, <2>1, WalkUp
<1>9. Turns(p) <= Later(p, m)
  BY <1>1, TurnsFacts
<1> QED BY <1>1, <1>5, <1>6, <1>7, <1>8, <1>9

(* What a module has been ordered to finish, and to start.                 *)
LEMMA StartsEnds ==
  ASSUME NEW open \in [Modules -> 0..1], ResetsOK(open), MasterOK, Steering,
         NEW starts \in Amounts, NEW ends \in Amounts, Counted(starts, ends), NEW m \in Modules
  PROVE  ends[m] <= starts[m] /\ (m \in Fed => starts[m] = ends[m] + open[m])
<1>1. starts[m] \in Nat /\ ends[m] \in Nat /\ open[m] \in 0..1
  BY DEF Amounts
<1>2. CASE m \notin Fed
  BY <1>1, <1>2 DEF Counted
<1>3. CASE m \in Fed
  <2>1. PICK i \in ComputeInputs[m] : i \in Inputs
    BY <1>3, FedFacts
  <2>2. /\ numReset[i] + starts[m] = done[Feeder(i)] + Running(Feeder(i))
        /\ numFinish[i] + ends[m] = done[Feeder(i)]
    BY <1>3 DEF Counted
  <2>3. numReset[i] + open[m] = numFinish[i] + Running(Feeder(i))
    BY <1>3 DEF ResetsOK
  <2>4. numReset[i] \in Nat /\ numFinish[i] \in Nat /\ Feeder(i) \in Modules /\ done[Feeder(i)] \in Nat
    BY <1>3, <2>1, FeederFacts DEF MasterOK
  <2>5. Running(Feeder(i)) \in 0..1
    BY DEF Running
  <2> QED BY <1>1, <2>2, <2>3, <2>4, <2>5
<1> QED BY <1>2, <1>3

(* The ranks that have finished since the user executed last.              *)
LEMMA FinishedFacts ==
  ASSUME NEW fin, NEW base, NEW m
  PROVE  LET S == FinishedBy(fin, base, m)
         IN  /\ IsFiniteSet(S) /\ Cardinality(S) \in 0..NumRanks
             /\ Cardinality(S) = NumRanks => S = Ranks
<1>1. PICK S : S = FinishedBy(fin, base, m)
  OBVIOUS
<1>2. IsFiniteSet(Ranks) /\ Cardinality(Ranks) = NumRanks /\ NumRanks \in Nat
  <2>1. NumRanks \in Nat \ {0}
    BY ExecutionAssumption
  <2>2. 0 \in Int /\ NumRanks - 1 \in Int
    BY <2>1
  <2>3. IsFiniteSet(0..(NumRanks - 1)) /\ Cardinality(0..(NumRanks - 1)) = IF 0 > NumRanks - 1 THEN 0 ELSE (NumRanks - 1) - 0 + 1
    BY <2>2, FS_Interval
  <2> QED BY <2>1, <2>3 DEF Ranks
<1>3. S \in SUBSET Ranks
  BY <1>1 DEF FinishedBy
<1>4. IsFiniteSet(S) /\ Cardinality(S) <= Cardinality(Ranks) /\ (Cardinality(S) = Cardinality(Ranks) => S = Ranks)
  BY <1>2, <1>3, FS_Subset
<1>5. Cardinality(S) \in Nat
  BY <1>4, FS_CardinalityType
<1> QED BY <1>1, <1>2, <1>4, <1>5

(* The progress of m on rank r may end an execution there.                 *)
Ended(fin, fin2, r, m, stage) ==
  /\ fin2[r][m] = fin[r][m] + (IF stage = "Finish" THEN 1 ELSE 0)
  /\ \A q \in Ranks, n \in Modules : <<q, n>> # <<r, m>> => fin2[q][n] = fin[q][n]

(* Rank 0 counts the executions that are done.                             *)
LEMMA EpochGoesOn ==
  ASSUME NEW ex, NEW ex2, NEW r \in Ranks, NEW m \in Modules, NEW stage, Told(ex, ex2, r, m, stage),
         NEW fin \in Numbers, NEW fin2 \in Numbers, Ended(fin, fin2, r, m, stage), NEW base \in Amounts,
         MasterOK, Epoch(fin, ex, base), fin2[r][m] <= base[m] + 1,
         NEW u, Progress(m, stage, down, u)
  PROVE  /\ Epoch(fin2, ex2, base)'
         /\ done'[m] = (IF stage = "Finish" /\ AllFinished(m) THEN done[m] + 1 ELSE done[m])
         /\ \A n \in Modules : n # m => done'[n] = done[n]
<1>1. RanksOK(ex) /\ RanksOK(ex2)' /\ ranksFinished' \in [Modules -> 0..(NumRanks - 1)]
  <2>1. RanksOK(ex)
    BY DEF Epoch
  <2> QED BY <2>1, RanksProgress
<1>2. NumRanks \in Nat \ {0} /\ base[m] \in Nat /\ fin[r][m] \in Nat /\ fin2[r][m] \in Nat
  BY ExecutionAssumption DEF Amounts, Numbers
<1>3. /\ ranksFinished' = [ranksFinished EXCEPT ![m] =
            CASE stage = "Start" -> @ [] stage = "Finish" /\ AllFinished(m) -> 0 [] OTHER -> @ + 1]
      /\ done' = [done EXCEPT ![m] = IF stage = "Finish" /\ AllFinished(m) THEN @ + 1 ELSE @]
  BY DEF Progress
<1>4. ranksFinished \in [Modules -> 0..(NumRanks - 1)] /\ done \in [Modules -> Nat]
  BY DEF MasterOK
<1>5. \A n \in Modules : n # m => ranksFinished'[n] = ranksFinished[n] /\ done'[n] = done[n]
  BY <1>3, <1>4
<1>6. /\ \A q \in Ranks : fin[q][m] \in {base[m], base[m] + 1}
      /\ \/ done[m] = base[m] /\ ranksFinished[m] = Cardinality(FinishedBy(fin, base, m))
         \/ /\ done[m] = base[m] + 1 /\ ranksFinished[m] = 0
            /\ \A q \in Ranks : fin[q][m] = base[m] + 1
  BY DEF Epoch
<1>7. \A q \in Ranks : q # r => fin2[q][m] = fin[q][m]
  BY DEF Ended
<1>8. stage = "Start" \/ stage = "Finish"
  BY DEF Told
<1> DEFINE Goal == /\ \A q \in Ranks : fin2[q][m] \in {base[m], base[m] + 1}
                   /\ \/ done'[m] = base[m] /\ ranksFinished'[m] = Cardinality(FinishedBy(fin2, base, m))
                      \/ /\ done'[m] = base[m] + 1 /\ ranksFinished'[m] = 0
                         /\ \A q \in Ranks : fin2[q][m] = base[m] + 1
<1>9. ASSUME stage = "Start" PROVE Goal
  <2>1. ranksFinished'[m] = ranksFinished[m] /\ done'[m] = done[m]
    BY <1>3, <1>4, <1>9
  <2>2. fin2[r][m] = fin[r][m]
    BY <1>2, <1>9 DEF Ended
  <2>3. \A q \in Ranks : fin2[q][m] = fin[q][m]
    BY <1>7, <2>2
  <2>4. FinishedBy(fin2, base, m) = FinishedBy(fin, base, m)
    BY <2>3 DEF FinishedBy
  <2> QED BY <1>6, <2>1, <2>3, <2>4
<1>10. ASSUME stage = "Finish" PROVE Goal
  <2>1. fin2[r][m] = fin[r][m] + 1
    BY <1>2, <1>10 DEF Ended
  <2>2. fin[r][m] = base[m] /\ fin2[r][m] = base[m] + 1
    BY <1>2, <1>6, <2>1
  <2>3. done[m] = base[m] /\ ranksFinished[m] = Cardinality(FinishedBy(fin, base, m))
    BY <1>2, <1>6, <2>2
  <2>4. FinishedBy(fin2, base, m) = FinishedBy(fin, base, m) \cup {r} /\ r \notin FinishedBy(fin, base, m)
    BY <1>2, <1>7, <2>2 DEF FinishedBy
  <2>5. PICK c \in 0..NumRanks : c = Cardinality(FinishedBy(fin, base, m))
    BY FinishedFacts
  <2>6. Cardinality(FinishedBy(fin2, base, m)) = c + 1
    <3>1. IsFiniteSet(FinishedBy(fin, base, m))
      BY FinishedFacts
    <3> QED BY <2>4, <2>5, <3>1, FS_AddElement
  <2>7. \A q \in Ranks : fin2[q][m] \in {base[m], base[m] + 1}
    BY <1>6, <1>7, <2>2
  <2>8. CASE AllFinished(m)
    <3>1. done'[m] = done[m] + 1 /\ ranksFinished'[m] = 0
      BY <1>3, <1>4, <1>10, <2>8
    <3>2. c + 1 = NumRanks
      BY <2>3, <2>5, <2>8 DEF AllFinished
    <3>3. FinishedBy(fin2, base, m) = Ranks
      BY <2>6, <3>2, FinishedFacts
    <3>4. \A q \in Ranks : fin2[q][m] = base[m] + 1
      BY <3>3 DEF FinishedBy
    <3> QED BY <2>3, <2>7, <3>1, <3>4
  <2>9. CASE ~AllFinished(m)
    <3>1. done'[m] = done[m] /\ ranksFinished'[m] = ranksFinished[m] + 1
      BY <1>3, <1>4, <1>10, <2>9
    <3> QED BY <2>3, <2>5, <2>6, <2>7, <3>1
  <2> QED BY <2>8, <2>9
<1>11. Goal
  BY <1>8, <1>9, <1>10
<1>12. ASSUME NEW n \in Modules, n # m
       PROVE  /\ \A q \in Ranks : fin2[q][n] \in {base[n], base[n] + 1}
              /\ \/ done'[n] = base[n] /\ ranksFinished'[n] = Cardinality(FinishedBy(fin2, base, n))
                 \/ /\ done'[n] = base[n] + 1 /\ ranksFinished'[n] = 0
                    /\ \A q \in Ranks : fin2[q][n] = base[n] + 1
  <2>1. \A q \in Ranks : fin2[q][n] = fin[q][n]
    BY <1>12 DEF Ended
  <2>2. FinishedBy(fin2, base, n) = FinishedBy(fin, base, n)
    BY <2>1 DEF FinishedBy
  <2>3. /\ \A q \in Ranks : fin[q][n] \in {base[n], base[n] + 1}
        /\ \/ done[n] = base[n] /\ ranksFinished[n] = Cardinality(FinishedBy(fin, base, n))
           \/ /\ done[n] = base[n] + 1 /\ ranksFinished[n] = 0
              /\ \A q \in Ranks : fin[q][n] = base[n] + 1
    BY DEF Epoch
  <2> QED BY <1>5, <1>12, <2>1, <2>2, <2>3
<1>13. Epoch(fin2, ex2, base)'
  BY <1>1, <1>11, <1>12 DEF Epoch
<1> QED BY <1>3, <1>4, <1>5, <1>13

(* A module upstream is not ahead of the last execution.                   *)
LEMMA RunsOnce ==
  ASSUME NEW fin \in Numbers, NEW ex \in Who, NEW base \in Amounts, Epoch(fin, ex, base)', MasterOK',
         NEW m \in Modules, \A r \in Ranks : 2 * fin[r][m] + ex[r][m] <= 2 * base[m] + 2
  PROVE  done'[m] + Running(m)' <= base[m] + 1
<1>1. base[m] \in Nat /\ done'[m] \in Nat /\ Running(m)' \in 0..1 /\ NumRanks \in Nat \ {0}
  BY ExecutionAssumption DEF Amounts, MasterOK, Running
<1>2. \/ done'[m] = base[m]
      \/ done'[m] = base[m] + 1 /\ ranksFinished'[m] = 0 /\ \A r \in Ranks : fin[r][m] = base[m] + 1
  BY DEF Epoch
<1>3. CASE done'[m] = base[m]
  BY <1>1, <1>3
<1>4. CASE done'[m] = base[m] + 1 /\ ranksFinished'[m] = 0 /\ \A r \in Ranks : fin[r][m] = base[m] + 1
  <2>1. \A r \in Ranks : ex[r][m] \in 0..1
    BY DEF Who
  <2>2. \A r \in Ranks : ex[r][m] = 0
    BY <1>1, <1>4, <2>1
  <2>3. Busy(ex, m) = {}
    BY <2>2 DEF Busy
  <2>4. Cardinality(Busy(ex, m)) = 0
    BY <2>3, FS_EmptySet
  <2>5. ranksStarted'[m] = ranksFinished'[m] + Cardinality(Busy(ex, m))
    BY DEF Epoch, RanksOK, Busy
  <2>6. ranksStarted'[m] = 0
    BY <1>4, <2>4, <2>5
  <2>7. Running(m)' = 0
    BY <1>1, <2>6 DEF Running
  <2> QED BY <1>1, <1>4, <2>7
<1> QED BY <1>2, <1>3, <1>4

(* Rank 0 has not been told of more turns than it has ordered.             *)
Behind(fin, ex, starts, ends) ==
  \A q \in Ranks, n \in Modules : 2 * fin[q][n] + ex[q][n] <= starts[n] + ends[n]

(* Rank 0 has been told of a turn: the modules downstream are ordered to   *)
(* go on, at most once since the user executed last, and on every rank.    *)
OrdersFollow(fin2, ex2, starts, ends, base) ==
  \E starts2, ends2 \in Amounts :
    /\ Counted(starts2, ends2)' /\ Epoch(fin2, ex2, base)' /\ Once(starts2, base)
    /\ \A q \in Ranks, e \in Modules : \A a :
         Walk(down[q], a, starts[e] + ends[e], BeginsIn(DownMsgs, e))
           => Walk(down'[q], a, starts2[e] + ends2[e], BeginsIn(DownMsgs, e))

(* They do when rank 0 handles the progress of a module.                   *)
LEMMA TurnGoesOn ==
  ASSUME Steering,
         NEW ex \in Who, NEW ex2 \in Who, NEW r \in Ranks, NEW m \in Modules, NEW stage,
         Told(ex, ex2, r, m, stage),
         NEW fin \in Numbers, NEW fin2 \in Numbers, Ended(fin, fin2, r, m, stage), NEW base \in Amounts,
         MasterOK, MasterOK', Epoch(fin, ex, base),
         NEW starts \in Amounts, NEW ends \in Amounts, Counted(starts, ends), Once(starts, base),
         Behind(fin2, ex2, starts, ends),
         NEW open \in [Modules -> 0..1], ResetsOK(open), down \in [Ranks -> Seq(DownMsgs)],
         NEW u, Progress(m, stage, down, u)
  PROVE  OrdersFollow(fin2, ex2, starts, ends, base)
<1>1. RanksOK(ex)
  BY DEF Epoch
<1>2. PICK x, y, w : Advances(x, y, w, m, stage, open, u)
  BY <1>1, ProgressAdvances
<1> DEFINE started  == stage = "Start" /\ AllStarted(m)
           finished == stage = "Finish" /\ AllFinished(m)
<1>3. /\ x \in [Inputs -> Nat] /\ y \in [Inputs -> Nat] /\ w \in [Inputs -> 0..1]
      /\ \A i \in Inputs : w[i] = Running(Feeder(i))'
      /\ \A d \in Fed : \A i \in ComputeInputs[d] :
           /\ x[i] = IF started /\ Feeder(i) = m THEN numReset[i] + 1 ELSE numReset[i]
           /\ y[i] = IF finished /\ Feeder(i) = m THEN numFinish[i] + 1 ELSE numFinish[i]
      /\ \A d \in Fed : \E a, b \in 0..1 : Goes(a, b, m, d, x, y, open[d], w)
      /\ numReset' = Popped(x, m) /\ numFinish' = Popped(y, m)
      /\ Cast(0, down, u, FlattenSeq([k \in DOMAIN Downstream[m] |->
                             Steps(m, Downstream[m][k], x, y)]))
  BY <1>2 DEF Advances
<1>4. \A n \in Modules : starts[n] \in Nat /\ ends[n] \in Nat /\ base[n] \in Nat
  BY DEF Amounts
<1>5. \A n \in Modules : starts[n] + ends[n] <= 2 * base[n] + 2
  <2>1. \A n \in Modules : ends[n] <= starts[n]
    BY StartsEnds
  <2>2. \A n \in Modules : starts[n] <= base[n] + 1
    BY DEF Once
  <2> QED BY <1>4, <2>1, <2>2
<1>6. \A q \in Ranks, n \in Modules :
        fin2[q][n] \in Nat /\ ex2[q][n] \in 0..1 /\ 2 * fin2[q][n] + ex2[q][n] <= 2 * base[n] + 2
  <2>1. \A q \in Ranks, n \in Modules : fin2[q][n] \in Nat /\ ex2[q][n] \in 0..1
    BY DEF Numbers, Amounts, Who
  <2>2. ASSUME NEW q \in Ranks, NEW n \in Modules
        PROVE  2 * fin2[q][n] + ex2[q][n] <= 2 * base[n] + 2
    <3>1. PICK k \in Nat : k = 2 * fin2[q][n] + ex2[q][n]
      <4>1. fin2[q][n] \in Nat /\ ex2[q][n] \in 0..1
        BY <2>1
      <4>2. 2 * fin2[q][n] + ex2[q][n] \in Nat
        BY ONLY <4>1
      <4> QED BY <4>2
    <3>2. k <= starts[n] + ends[n]
      BY <3>1 DEF Behind
    <3>3. starts[n] + ends[n] <= 2 * base[n] + 2
      BY <1>5
    <3>4. k <= 2 * base[n] + 2
      BY <1>4, <3>2, <3>3
    <3> QED BY <3>1, <3>4
  <2> QED BY <2>1, <2>2
<1>7. fin2[r][m] <= base[m] + 1
  <2>1. PICK f \in Nat, e \in 0..1, b \in Nat :
          f = fin2[r][m] /\ e = ex2[r][m] /\ b = base[m] /\ 2 * f + e <= 2 * b + 2
    BY <1>4, <1>6
  <2>2. f <= b + 1
    BY ONLY <2>1, f \in Nat, e \in 0..1, b \in Nat
  <2> QED BY <2>1, <2>2
<1>8. /\ Epoch(fin2, ex2, base)'
      /\ done'[m] = (IF finished THEN done[m] + 1 ELSE done[m])
      /\ \A n \in Modules : n # m => done'[n] = done[n]
  BY <1>7, EpochGoesOn
<1>9. /\ \A n \in Modules : n # m => Running(n)' = Running(n)
      /\ started => Running(m) = 0 /\ Running(m)' = 1
      /\ finished => Running(m) = 1 /\ Running(m)' = 0
      /\ ~started /\ ~finished => Running(m)' = Running(m)
      /\ ~(started /\ finished)
  BY <1>1, RanksProgress
<1> HIDE DEF started, finished
<1>10. \A n \in Modules : done'[n] + Running(n)' <= base[n] + 1
  BY <1>6, <1>8, RunsOnce
<1>11. PICK starts2 : starts2 = [n \in Modules |-> IF n \in Fed THEN starts[n] + Rounds(x, m, n) ELSE starts[n]]
  OBVIOUS
<1>12. PICK ends2 : ends2 = [n \in Modules |-> IF n \in Fed THEN ends[n] + Rounds(y, m, n) ELSE ends[n]]
  OBVIOUS
<1>13. ASSUME NEW d \in Fed
       PROVE  \E a, b \in 0..1 :
                /\ Rounds(x, m, d) = a /\ Rounds(y, m, d) = b /\ (a = 1 => b = 0)
                /\ starts2[d] = starts[d] + a /\ ends2[d] = ends[d] + b
                /\ \A i \in ComputeInputs[d] :
                     numReset'[i] = x[i] - a /\ numFinish'[i] = y[i] - b
  <2>1. PICK a \in 0..1, b \in 0..1 : Goes(a, b, m, d, x, y, open[d], w)
    BY <1>3
  <2>2. Rounds(x, m, d) = a /\ Rounds(y, m, d) = b /\ (a = 1 => b = 0)
    BY <2>1 DEF Goes
  <2>3. d \in Modules /\ \A i \in ComputeInputs[d] : i \in Inputs /\ ModuleOf[i] = d
    BY FedFacts
  <2>4. starts2[d] = starts[d] + a /\ ends2[d] = ends[d] + b
    BY <1>11, <1>12, <2>2, <2>3
  <2>5. ASSUME NEW i \in ComputeInputs[d] PROVE numReset'[i] = x[i] - a /\ numFinish'[i] = y[i] - b
    <3>1. i \in Inputs /\ ModuleOf[i] = d
      BY <2>3
    <3>2. Popped(x, m)[i] = x[i] - Rounds(x, m, d) /\ Popped(y, m)[i] = y[i] - Rounds(y, m, d)
      BY <3>1 DEF Popped
    <3> QED BY <1>3, <2>2, <3>2
  <2> QED BY <2>2, <2>4, <2>5
<1>14. starts2 \in Amounts /\ ends2 \in Amounts
  <2>1. \A n \in Modules : n \notin Fed => starts2[n] = starts[n] /\ ends2[n] = ends[n]
    BY <1>11, <1>12
  <2>2. \A n \in Modules : starts2[n] \in Nat /\ ends2[n] \in Nat
    BY <1>4, <1>13, <2>1
  <2>3. starts2 = [n \in Modules |-> starts2[n]] /\ ends2 = [n \in Modules |-> ends2[n]]
    BY <1>11, <1>12
  <2> QED BY <2>2, <2>3 DEF Amounts
<1>15. ASSUME NEW d \in Fed, NEW i \in ComputeInputs[d]
       PROVE  /\ numReset'[i] + starts2[d] = done'[Feeder(i)] + Running(Feeder(i))'
              /\ numFinish'[i] + ends2[d] = done'[Feeder(i)]
              /\ starts2[d] <= done'[Feeder(i)] + Running(Feeder(i))'
  <2>1. PICK a \in 0..1, b \in 0..1 :
                /\ starts2[d] = starts[d] + a /\ ends2[d] = ends[d] + b
                /\ \A j \in ComputeInputs[d] :
                     numReset'[j] = x[j] - a /\ numFinish'[j] = y[j] - b
    BY <1>13
  <2>2. d \in Modules /\ i \in Inputs /\ Feeder(i) \in Modules
    BY FedFacts, FeederFacts
  <2>3. PICK F \in Modules : F = Feeder(i)
    BY <2>2
  <2>4. PICK p, q : p = Running(F) /\ q = Running(F)'
    OBVIOUS
  <2>5. p \in 0..1 /\ q \in 0..1
    BY <2>4 DEF Running
  <2>6. numReset[i] \in Nat /\ numFinish[i] \in Nat /\ done[F] \in Nat /\ done'[F] \in Nat
        /\ numReset'[i] \in Nat /\ numFinish'[i] \in Nat
    BY <2>2, <2>3 DEF MasterOK
  <2>7. numReset[i] + starts[d] = done[F] + p /\ numFinish[i] + ends[d] = done[F]
    BY <2>3, <2>4 DEF Counted
  <2>8. /\ x[i] = IF started /\ F = m THEN numReset[i] + 1 ELSE numReset[i]
        /\ y[i] = IF finished /\ F = m THEN numFinish[i] + 1 ELSE numFinish[i]
    BY <1>3, <2>3
  <2>9. PICK j, k, s, t, g, h, v1, v2 :
          /\ j = numReset[i] /\ k = numFinish[i] /\ s = starts[d] /\ t = ends[d]
          /\ g = done[F] /\ h = done'[F] /\ v1 = x[i] /\ v2 = y[i]
    OBVIOUS
  <2>10. /\ j \in Nat /\ k \in Nat /\ s \in Nat /\ t \in Nat /\ g \in Nat /\ h \in Nat
         /\ v1 \in Nat /\ v2 \in Nat
    BY <1>3, <1>4, <2>2, <2>6, <2>9
  <2>11. j + s = g + p /\ k + t = g
    BY <2>7, <2>9
  <2>12. v1 + s = h + q /\ v2 + t = h
    <3>1. CASE F # m
      <4>1. h = g /\ p = q /\ v1 = j /\ v2 = k
        BY <1>8, <1>9, <2>4, <2>8, <2>9, <3>1
      <4> QED BY ONLY <2>11, <4>1
    <3>2. CASE F = m /\ started
      <4>1. h = g /\ p = 0 /\ q = 1 /\ v1 = j + 1 /\ v2 = k
        BY <1>8, <1>9, <2>4, <2>8, <2>9, <3>2
      <4> QED BY ONLY <2>10, <2>11, <4>1
    <3>3. CASE F = m /\ finished
      <4>1. h = g + 1 /\ p = 1 /\ q = 0 /\ v1 = j /\ v2 = k + 1
        BY <1>8, <1>9, <2>4, <2>8, <2>9, <3>3
      <4> QED BY ONLY <2>10, <2>11, <4>1
    <3>4. CASE F = m /\ ~started /\ ~finished
      <4>1. h = g /\ p = q /\ v1 = j /\ v2 = k
        BY <1>8, <1>9, <2>4, <2>8, <2>9, <3>4
      <4> QED BY ONLY <2>11, <4>1
    <3> QED BY <3>1, <3>2, <3>3, <3>4
  <2>13. numReset'[i] = v1 - a /\ numFinish'[i] = v2 - b /\ starts2[d] = s + a /\ ends2[d] = t + b
    BY <2>1, <2>9
  <2>14. (v1 - a) + (s + a) = h + q /\ (v2 - b) + (t + b) = h
    BY ONLY <2>5, <2>10, <2>12, a \in 0..1, b \in 0..1
  <2>15. v1 - a \in Nat
    BY <2>6, <2>13
  <2>16. s + a <= h + q
    BY ONLY <2>5, <2>10, <2>14, <2>15, a \in 0..1
  <2>17. /\ numReset'[i] + starts2[d] = h + q /\ numFinish'[i] + ends2[d] = h
         /\ starts2[d] <= h + q
    BY <2>13, <2>14, <2>16
  <2> QED BY <2>3, <2>4, <2>9, <2>17
<1>16. Counted(starts2, ends2)'
  <2>1. ASSUME NEW n \in Modules \ Fed PROVE starts2[n] = ends2[n]
    <3>1. starts2[n] = starts[n] /\ ends2[n] = ends[n]
      BY <1>11, <1>12
    <3> QED BY <3>1 DEF Counted
  <2> QED BY <1>15, <2>1 DEF Counted
<1>17. Once(starts2, base)
  <2>1. ASSUME NEW n \in Modules PROVE starts2[n] <= base[n] + 1
    <3>1. CASE n \notin Fed
      <4>1. starts2[n] = starts[n]
        BY <1>11, <3>1
      <4> QED BY <4>1 DEF Once
    <3>2. CASE n \in Fed
      <4>1. PICK i \in ComputeInputs[n] : base[n] = base[Feeder(i)]
        BY <3>2 DEF Once
      <4>2. PICK k : k = done'[Feeder(i)] + Running(Feeder(i))'
        OBVIOUS
      <4>3. Feeder(i) \in Modules
        BY <3>2, FeederFacts
      <4>4. k \in Nat
        <5>1. Running(Feeder(i))' \in 0..1 /\ done'[Feeder(i)] \in Nat
          BY <4>3 DEF Running, MasterOK
        <5> QED BY <4>2, <5>1
      <4>5. k <= base[n] + 1
        BY <1>10, <4>1, <4>2, <4>3
      <4>6. starts2[n] <= k
        BY <1>15, <3>2, <4>2
      <4>7. starts2[n] \in Nat /\ base[n] \in Nat
        BY <1>4, <1>14 DEF Amounts
      <4> QED BY <4>4, <4>5, <4>6, <4>7
    <3> QED BY <3>1, <3>2
  <2> QED BY <2>1 DEF Once
<1>18. PICK msgs : msgs = FlattenSeq([k \in DOMAIN Downstream[m] |-> Steps(m, Downstream[m][k], x, y)])
  OBVIOUS
<1>19. /\ msgs \in Seq(DownMsgs)
       /\ \A R : \A e \in Modules : \A o, z \in Nat :
            Changes(R, m, e, x, y, o, z) => Walk(msgs, o, z, R)
  BY <1>3, <1>18, AllStepsAre
<1>20. Cast(0, down, u, msgs)
  BY <1>3, <1>18
<1>21. \A q \in Ranks : \A R, a, b, z :
         Walk(down[q], a, b, R) /\ Walk(msgs, b, z, R) => Walk(down'[q], a, z, R)
  <2>1. msgs \in Seq(DownMsgs)
    BY <1>19
  <2> QED BY ONLY <1>20, <2>1, down \in [Ranks -> Seq(DownMsgs)], CastGoesOn
<1>22. ASSUME NEW e \in Modules
       PROVE  Walk(msgs, starts[e] + ends[e], starts2[e] + ends2[e], BeginsIn(DownMsgs, e))
  <2>1. PICK o \in Nat, z \in Nat : o = starts[e] + ends[e] /\ z = starts2[e] + ends2[e]
    <3>1. starts[e] \in Nat /\ ends[e] \in Nat /\ starts2[e] \in Nat /\ ends2[e] \in Nat
      BY <1>4, <1>14 DEF Amounts
    <3>2. starts[e] + ends[e] \in Nat /\ starts2[e] + ends2[e] \in Nat
      BY ONLY <3>1
    <3> QED BY <3>2
  <2>2. ASSUME NEW d \in Fed, d # e, NEW v \in Nat
        PROVE  /\ <<v, Execute("Prepare", d), v>> \in BeginsIn(DownMsgs, e)
               /\ <<v, Execute("Reduce", d), v>> \in BeginsIn(DownMsgs, e)
    <3>1. Begins(v, Execute("Prepare", d), v, e) /\ Begins(v, Execute("Reduce", d), v, e)
      BY <2>2 DEF Begins, Execute
    <3>2. Execute("Prepare", d) \in DownMsgs /\ Execute("Reduce", d) \in DownMsgs
      BY FedFacts, OrderFacts
    <3> QED BY <3>1, <3>2, BeginsIff
  <2>3. ASSUME e \in Fed, NEW v \in Nat
        PROVE  /\ <<v, Execute("Prepare", e), v + 1>> \in BeginsIn(DownMsgs, e)
               /\ <<v, Execute("Reduce", e), v + 1>> \in BeginsIn(DownMsgs, e)
    <3>1. Begins(v, Execute("Prepare", e), v + 1, e) /\ Begins(v, Execute("Reduce", e), v + 1, e)
      BY DEF Begins, Execute
    <3>2. Execute("Prepare", e) \in DownMsgs /\ Execute("Reduce", e) \in DownMsgs
      BY <2>3, FedFacts, OrderFacts
    <3>3. v + 1 \in Nat
      OBVIOUS
    <3> QED BY <3>1, <3>2, <3>3, BeginsIff
  <2>4. Changes(BeginsIn(DownMsgs, e), m, e, x, y, o, z)
    <3>1. CASE e \notin Fed
      <4>1. starts2[e] = starts[e] /\ ends2[e] = ends[e]
        BY <1>11, <1>12, <3>1
      <4>2. o = z
        BY <2>1, <4>1
      <4> QED BY <2>2, <3>1, <4>2 DEF Changes
    <3>2. CASE e \in Fed
      <4>1. PICK a \in 0..1, b \in 0..1 :
                /\ Rounds(x, m, e) = a /\ Rounds(y, m, e) = b /\ (a = 1 => b = 0)
                /\ starts2[e] = starts[e] + a /\ ends2[e] = ends[e] + b
        BY <1>13, <3>2
      <4>2. z = o + a + b
        BY <1>4, <2>1, <4>1
      <4>3. (a = 1 => z = o + 1) /\ (b = 1 => z = o + 1) /\ (a = 0 /\ b = 0 => o = z)
        BY <4>1, <4>2
      <4>4. (a = 1 => <<o, Execute("Prepare", e), z>> \in BeginsIn(DownMsgs, e))
            /\ (b = 1 => <<o, Execute("Reduce", e), z>> \in BeginsIn(DownMsgs, e))
        BY <2>3, <3>2, <4>3
      <4> QED BY <2>2, <3>2, <4>1, <4>3, <4>4 DEF Changes
    <3> QED BY <3>1, <3>2
  <2> QED BY <1>19, <2>1, <2>4
<1>23. \A q \in Ranks, e \in Modules : \A a :
         Walk(down[q], a, starts[e] + ends[e], BeginsIn(DownMsgs, e))
           => Walk(down'[q], a, starts2[e] + ends2[e], BeginsIn(DownMsgs, e))
  BY <1>21, <1>22
<1> QED BY <1>8, <1>14, <1>16, <1>17, <1>23 DEF OrdersFollow

(* A number of one module on one rank changes.                             *)
LEMMA NumbersUpdate ==
  ASSUME NEW w \in Numbers, NEW r \in Ranks, NEW m \in Modules, NEW b \in Nat
  PROVE  \E v \in Numbers : Alters(w, v, r, m, b)
<1> DEFINE v == [w EXCEPT ![r] = [w[r] EXCEPT ![m] = b]]
<1>1. v \in Numbers
  BY DEF Numbers, Amounts
<1>2. Alters(w, v, r, m, b)
  BY DEF Numbers, Amounts, Alters
<1> QED BY <1>1, <1>2

(* A report tells of one turn.                                             *)
LEMMA TellsFacts ==
  ASSUME NEW x \in Reports(Modules)
  PROVE  /\ \A a, b \in Nat : Tells(a, x, b, x.module) =>
              b = a + 1 /\ \E k \in Nat : a = 2 * k + (IF x.type = "Start" THEN 0 ELSE 1)
         /\ \A n : n # x.module => \A a, b : Tells(a, x, b, n) <=> a = b
<1>1. x.module \in Modules /\ x.type \in {"Start", "Finish"}
  BY DEF Reports
<1>2. x.type # "Object"
  BY <1>1
<1> QED BY <1>2 DEF Tells

(* Rank 0 is told of a turn.                                               *)
LEMMA TurnTold ==
  ASSUME NEW told \in Numbers, NEW fin \in Numbers, NEW ex \in Who, Counting(told, fin, ex),
         NEW r \in Ranks, NEW m \in Modules, NEW stage \in {"Start", "Finish"}, NEW k \in Nat,
         told[r][m] = 2 * k + (IF stage = "Start" THEN 0 ELSE 1)
  PROVE  \E told2, fin2 \in Numbers : \E ex2 \in Who :
           /\ Alters(told, told2, r, m, told[r][m] + 1) /\ Counting(told2, fin2, ex2)
           /\ Told(ex, ex2, r, m, stage) /\ Ended(fin, fin2, r, m, stage)
<1>1. told[r][m] \in Nat /\ fin[r][m] \in Nat /\ ex[r][m] \in 0..1
  BY DEF Numbers, Amounts, Who
<1>2. told[r][m] = 2 * fin[r][m] + ex[r][m]
  BY DEF Counting
<1>3. PICK s \in 0..1 : s = IF stage = "Start" THEN 0 ELSE 1
  OBVIOUS
<1>4. ex[r][m] = s
  BY <1>1, <1>2, <1>3
<1>5. PICK told2 \in Numbers : Alters(told, told2, r, m, told[r][m] + 1)
  BY <1>1, NumbersUpdate
<1>6. PICK fin2 \in Numbers : Alters(fin, fin2, r, m, fin[r][m] + s)
  BY <1>1, NumbersUpdate
<1>7. PICK ex2 \in Who : Alters(ex, ex2, r, m, 1 - s)
  <2>1. 1 - s \in 0..1
    OBVIOUS
  <2> QED BY <2>1, WhoUpdate
<1>8. Told(ex, ex2, r, m, stage)
  <2>1. ex2[r][m] = 1 - s /\ \A q \in Ranks, n \in Modules : <<q, n>> # <<r, m>> => ex2[q][n] = ex[q][n]
    BY <1>7 DEF Alters
  <2>2. CASE stage = "Start"
    BY <1>3, <1>4, <2>1, <2>2 DEF Told
  <2>3. CASE stage = "Finish"
    BY <1>3, <1>4, <2>1, <2>3 DEF Told
  <2> QED BY <2>2, <2>3
<1>9. Ended(fin, fin2, r, m, stage)
  <2>1. fin2[r][m] = fin[r][m] + s /\ \A q \in Ranks, n \in Modules : <<q, n>> # <<r, m>> => fin2[q][n] = fin[q][n]
    BY <1>6 DEF Alters
  <2>2. s = IF stage = "Finish" THEN 1 ELSE 0
    BY <1>3
  <2> QED BY <2>1, <2>2 DEF Ended
<1>10. Counting(told2, fin2, ex2)
  <2>1. ASSUME NEW q \in Ranks, NEW n \in Modules PROVE told2[q][n] = 2 * fin2[q][n] + ex2[q][n]
    <3>1. CASE <<q, n>> = <<r, m>>
      <4>1. told2[r][m] = told[r][m] + 1 /\ fin2[r][m] = fin[r][m] + s /\ ex2[r][m] = 1 - s
        BY <1>5, <1>6, <1>7 DEF Alters
      <4>2. told2[r][m] = 2 * fin2[r][m] + ex2[r][m]
        BY <1>1, <1>2, <1>4, <4>1
      <4> QED BY <3>1, <4>2
    <3>2. CASE <<q, n>> # <<r, m>>
      BY <1>5, <1>6, <1>7, <3>2 DEF Alters, Counting
    <3> QED BY <3>1, <3>2
  <2> QED BY <2>1 DEF Counting
<1> QED BY <1>5, <1>8, <1>9, <1>10

(* So the numbers that rank 0 keeps are still in step.                     *)
LEMMA TurnHeard ==
  ASSUME Steering, IInv, MasterOK', NEW told, NEW mid, NEW mgr, NEW fin, NEW ex, NEW starts, NEW ends,
         NEW base, Numbered(told, mid, mgr, fin, ex, starts, ends, base),
         NEW r \in Ranks, NEW m \in Modules, NEW stage \in {"Start", "Finish"}, NEW k \in Nat,
         told[r][m] = 2 * k + (IF stage = "Start" THEN 0 ELSE 1),
         told[r][m] + 1 <= starts[m] + ends[m], NEW u, Progress(m, stage, down, u)
  PROVE  \E told2, fin2 \in Numbers : \E ex2 \in Who :
           /\ Alters(told, told2, r, m, told[r][m] + 1) /\ Counting(told2, fin2, ex2)
           /\ OrdersFollow(fin2, ex2, starts, ends, base)
<1>1. /\ told \in Numbers /\ mid \in Numbers /\ mgr \in Numbers /\ fin \in Numbers /\ ex \in Who
      /\ starts \in Amounts /\ ends \in Amounts /\ base \in Amounts
      /\ Sent(told, mid) /\ Ordered(mgr, starts, ends) /\ Counting(told, fin, ex)
      /\ Counted(starts, ends) /\ Epoch(fin, ex, base) /\ Once(starts, base)
  BY DEF Numbered
<1>2. MasterOK /\ ProcessesOK /\ ChannelsOK
  BY DEF IInv
<1>3. PICK open \in [Modules -> 0..1] : ResetsOK(open)
  BY DEF IInv, OpenOK
<1>4. PICK told2 \in Numbers, fin2 \in Numbers, ex2 \in Who :
        /\ Alters(told, told2, r, m, told[r][m] + 1) /\ Counting(told2, fin2, ex2)
        /\ Told(ex, ex2, r, m, stage) /\ Ended(fin, fin2, r, m, stage)
  BY <1>1, TurnTold
<1>5. ASSUME NEW q \in Ranks, NEW n \in Modules
      PROVE  2 * fin2[q][n] + ex2[q][n] <= starts[n] + ends[n]
  <2>1. told2[q][n] = 2 * fin2[q][n] + ex2[q][n]
    BY <1>4 DEF Counting
  <2>2. CASE <<q, n>> = <<r, m>>
    BY <1>4, <2>1, <2>2 DEF Alters
  <2>3. CASE <<q, n>> # <<r, m>>
    <3>1. told2[q][n] = told[q][n]
      BY <1>4, <2>3 DEF Alters
    <3>2. PICK p : p = module[q][n]
      OBVIOUS
    <3>3. /\ told[q][n] \in Nat /\ mid[q][n] \in Nat /\ Turns(p) \in Nat /\ Later(p, n) \in Nat
          /\ mgr[q][n] \in Nat /\ starts[n] + ends[n] \in Nat
          /\ told[q][n] <= mid[q][n] /\ mid[q][n] <= Turns(p) /\ Turns(p) <= Later(p, n)
          /\ Later(p, n) <= mgr[q][n] /\ mgr[q][n] <= starts[n] + ends[n]
      BY <1>1, <1>2, <3>2, InOrder
    <3>4. told[q][n] <= starts[n] + ends[n]
      BY ONLY <3>3
    <3> QED BY <2>1, <3>1, <3>4
  <2> QED BY <2>2, <2>3
<1>6. down \in [Ranks -> Seq(DownMsgs)] /\ Behind(fin2, ex2, starts, ends)
  BY <1>2, <1>5 DEF ChannelsOK, Behind
<1>7. OrdersFollow(fin2, ex2, starts, ends, base)
  BY ONLY Steering, MasterOK', r \in Ranks, m \in Modules, fin2 \in Numbers, ex2 \in Who,
          open \in [Modules -> 0..1], <1>1, <1>2, <1>3, <1>4, <1>6,
          Progress(m, stage, down, u), TurnGoesOn
<1> QED BY <1>4, <1>7

(* The numbers after a step.                                               *)
LEMMA CountsNext ==
  ASSUME NEW told, NEW mid, NEW mgr, NEW fin, NEW ex, NEW starts, NEW ends, NEW base,
         Numbered(told, mid, mgr, fin, ex, starts, ends, base)'
  PROVE  CountsOK'
BY DEF CountsOK

(* Rank 0 counts the turn that another rank has forwarded.                 *)
LEMMA ForwardedCounts ==
  ASSUME Steering, IInv, IInv', CountsOK, NEW r \in Ranks, HandleForwarded(r)
  PROVE  CountsOK'
<1>1. MasterOK' /\ MasterOK /\ ProcessesOK /\ ChannelsOK
  BY DEF IInv
<1>2. up \in [Ranks -> Seq(Reports(Modules))] /\ up[0] = <<>> /\ down \in [Ranks -> Seq(DownMsgs)]
  BY <1>1 DEF ChannelsOK
<1>3. PICK q : q = up[r]
  OBVIOUS
<1>4. PICK x : x = Head(q)
  OBVIOUS
<1>5. q \in Seq(Reports(Modules)) /\ q # <<>> /\ UNCHANGED <<manager, queue, out, process, executed>>
  BY <1>2, <1>3 DEF HandleForwarded
<1>6. x \in Reports(Modules) /\ Tail(q) \in Seq(Reports(Modules))
  BY <1>4, <1>5, HeadTailProperties
<1>7. PICK m, stage : m = x.module /\ stage = x.type
  OBVIOUS
<1>8. m \in Modules /\ stage \in {"Start", "Finish"}
  BY <1>6, <1>7, ReportFacts
<1>9. PICK u : u = Rest(up, r)
  OBVIOUS
<1>10. Progress(m, stage, down, u)
  BY <1>3, <1>4, <1>7, <1>8, <1>9 DEF HandleForwarded
<1>11. u[r] = Tail(q) /\ (\A p \in Ranks : p # r => u[p] = up[p]) /\ up' = u
  <2>1. u[r] = Tail(q) /\ \A p \in Ranks : p # r => u[p] = up[p]
    BY <1>2, <1>3, <1>9 DEF Rest
  <2>2. up' = u
    BY <1>10 DEF Progress, Cast
  <2> QED BY <2>1, <2>2
<1>12. PICK told, mid, mgr, fin, ex, starts, ends, base :
         Numbered(told, mid, mgr, fin, ex, starts, ends, base)
  BY DEF CountsOK
<1>13. /\ told \in Numbers /\ mid \in Numbers /\ mgr \in Numbers /\ base \in Amounts
       /\ Sent(told, mid) /\ Ordered(mgr, starts, ends)
  BY <1>12 DEF Numbered
<1>14. ASSUME NEW n \in Modules
       PROVE  \E b \in Nat : /\ Tells(told[r][n], x, b, n) /\ told[r][n] \in Nat
                             /\ Walk(Tail(q), b, mid[r][n], TellsIn(Reports(Modules), n))
  <2>1. Walk(q, told[r][n], mid[r][n], TellsIn(Reports(Modules), n))
    BY <1>3, <1>13 DEF Sent
  <2>2. PICK b \in Nat : /\ <<told[r][n], x, b>> \in TellsIn(Reports(Modules), n)
                         /\ Walk(Tail(q), b, mid[r][n], TellsIn(Reports(Modules), n))
    BY <1>4, <1>5, <2>1, WalkHead
  <2>3. told[r][n] \in Nat /\ Tells(told[r][n], x, b, n)
    BY <2>2, TellsIff
  <2> QED BY <2>2, <2>3
<1>15. PICK b \in Nat : /\ Tells(told[r][m], x, b, m) /\ told[r][m] \in Nat
                        /\ Walk(Tail(q), b, mid[r][m], TellsIn(Reports(Modules), m))
  BY <1>8, <1>14
<1>16. PICK k \in Nat : b = told[r][m] + 1 /\ told[r][m] = 2 * k + (IF stage = "Start" THEN 0 ELSE 1)
  <2>1. /\ \A a, c \in Nat : Tells(a, x, c, x.module) =>
             c = a + 1 /\ \E k \in Nat : a = 2 * k + (IF x.type = "Start" THEN 0 ELSE 1)
    BY <1>6, TellsFacts
  <2> QED BY <1>7, <1>15, <2>1
<1>17. told[r][m] + 1 <= starts[m] + ends[m]
  <2>1. b <= mid[r][m]
    <3>1. \A i, j \in Nat : \A y : <<i, y, j>> \in TellsIn(Reports(Modules), m) => i <= j
      BY TurnsGrow
    <3> QED BY ONLY <1>6, <1>15, <3>1, WalkUp
  <2>2. PICK p : p = module[r][m]
    OBVIOUS
  <2>3. /\ told[r][m] \in Nat /\ mid[r][m] \in Nat /\ Turns(p) \in Nat /\ Later(p, m) \in Nat
        /\ mgr[r][m] \in Nat /\ starts[m] + ends[m] \in Nat
        /\ told[r][m] <= mid[r][m] /\ mid[r][m] <= Turns(p) /\ Turns(p) <= Later(p, m)
        /\ Later(p, m) <= mgr[r][m] /\ mgr[r][m] <= starts[m] + ends[m]
    BY <1>1, <1>8, <1>13, <2>2, InOrder
  <2>4. b <= starts[m] + ends[m]
    BY ONLY <2>1, <2>3, b \in Nat
  <2> QED BY <1>16, <2>4
<1>18. PICK told2 \in Numbers, fin2 \in Numbers, ex2 \in Who :
         /\ Alters(told, told2, r, m, told[r][m] + 1) /\ Counting(told2, fin2, ex2)
         /\ OrdersFollow(fin2, ex2, starts, ends, base)
  BY ONLY Steering, IInv, r \in Ranks, k \in Nat, <1>1, <1>8, <1>10, <1>12, <1>16, <1>17, TurnHeard
<1>19. PICK starts2 \in Amounts, ends2 \in Amounts :
         /\ Counted(starts2, ends2)' /\ Epoch(fin2, ex2, base)' /\ Once(starts2, base)
         /\ \A p \in Ranks, e \in Modules : \A a :
              Walk(down[p], a, starts[e] + ends[e], BeginsIn(DownMsgs, e))
                => Walk(down'[p], a, starts2[e] + ends2[e], BeginsIn(DownMsgs, e))
  BY <1>18 DEF OrdersFollow
<1>20. queue' = queue /\ out' = out /\ module' = module
  BY <1>5 DEF process
<1>21. ASSUME NEW p \in Ranks, NEW n \in Modules
       PROVE  Walk(u[p], told2[p][n], mid[p][n], TellsIn(Reports(Modules), n))
  <2>1. CASE p = r /\ n = m
    BY <1>11, <1>15, <1>16, <1>18, <2>1 DEF Alters
  <2>2. CASE p = r /\ n # m
    <3>1. PICK j \in Nat : /\ Tells(told[r][n], x, j, n)
                           /\ Walk(Tail(q), j, mid[r][n], TellsIn(Reports(Modules), n))
      BY <1>14
    <3>2. \A i, y : Tells(i, x, y, n) <=> i = y
      BY <1>6, <1>7, <2>2, TellsFacts
    <3>3. j = told[r][n] /\ told2[r][n] = told[r][n]
      BY <1>18, <2>2, <3>1, <3>2 DEF Alters
    <3> QED BY <1>11, <2>2, <3>1, <3>3
  <2>3. CASE p # r
    <3>1. u[p] = up[p] /\ told2[p][n] = told[p][n]
      BY <1>11, <1>18, <2>3 DEF Alters
    <3> QED BY <1>13, <3>1 DEF Sent
  <2> QED BY <2>1, <2>2, <2>3
<1>22. Sent(told2, mid)'
  BY <1>11, <1>13, <1>20, <1>21 DEF Sent
<1>23. Ordered(mgr, starts2, ends2)'
  BY <1>13, <1>19, <1>20 DEF Ordered
<1>24. Numbered(told2, mid, mgr, fin2, ex2, starts2, ends2, base)'
  BY <1>13, <1>18, <1>19, <1>22, <1>23 DEF Numbered
<1> QED BY <1>24, CountsNext

(* The manager of a rank takes the first message of a module.              *)
LEMMA OutTells ==
  ASSUME ChannelsOK, NEW r \in Ranks, NEW m \in Modules, out[r][m] # <<>>, NEW a, NEW z,
         Walk(out[r][m], a, z, TellsIn(OutMsgs(m), m)), Takes(r, m)
  PROVE  /\ out' \in [Ranks -> OutFuns] /\ Head(out[r][m]) \in OutMsgs(m)
         /\ \A q \in Ranks, n \in Modules : <<q, n>> # <<r, m>> => out'[q][n] = out[q][n]
         /\ a \in Nat
         /\ \E b \in Nat : Tells(a, Head(out[r][m]), b, m) /\ Walk(out'[r][m], b, z, TellsIn(OutMsgs(m), m))
<1>1. PICK q : q = out[r][m]
  OBVIOUS
<1>2. q \in Seq(OutMsgs(m)) /\ q # <<>>
  BY <1>1 DEF ChannelsOK, OutFuns, Outs
<1>3. Head(q) \in OutMsgs(m) /\ Tail(q) \in Seq(OutMsgs(m))
  BY <1>2, HeadTailProperties
<1>4. PICK b \in Nat : <<a, Head(q), b>> \in TellsIn(OutMsgs(m), m) /\ Walk(Tail(q), b, z, TellsIn(OutMsgs(m), m))
  BY <1>1, <1>2, WalkHead
<1>5. a \in Nat /\ Tells(a, Head(q), b, m)
  BY <1>4, TellsIff
<1>6. Becomes(r, m, Tail(q))
  BY <1>1 DEF Takes, Becomes
<1>7. /\ out' \in [Ranks -> OutFuns] /\ out'[r][m] = Tail(q)
      /\ \A p \in Ranks, n \in Modules : <<p, n>> # <<r, m>> => out'[p][n] = out[p][n]
  BY <1>3, <1>6, OutIs
<1> QED BY <1>1, <1>3, <1>4, <1>5, <1>7

(* A manager passes on a turn, or counts it on rank 0.                     *)
LEMMA ProgressCounts ==
  ASSUME Steering, IInv, IInv', CountsOK, NEW r \in Ranks, NEW m \in Modules, HandleProgress(r, m)
  PROVE  CountsOK'
<1>1. MasterOK' /\ MasterOK /\ ProcessesOK /\ ChannelsOK /\ ChannelsOK'
  BY DEF IInv
<1>2. PICK x : x = Head(out[r][m])
  OBVIOUS
<1>3. /\ out[r][m] # <<>> /\ ForMaster(x) /\ Takes(r, m)
      /\ IF r = 0 THEN Progress(m, x.type, down, up) ELSE Cast(r, down, up, <<x>>) /\ UNCHANGED master
      /\ UNCHANGED <<manager, queue, process, executed>>
  BY <1>2 DEF HandleProgress, Takes
<1>4. PICK told, mid, mgr, fin, ex, starts, ends, base :
        Numbered(told, mid, mgr, fin, ex, starts, ends, base)
  BY DEF CountsOK
<1>5. /\ told \in Numbers /\ mid \in Numbers /\ mgr \in Numbers /\ fin \in Numbers /\ ex \in Who
      /\ starts \in Amounts /\ ends \in Amounts /\ base \in Amounts
      /\ Sent(told, mid) /\ Ordered(mgr, starts, ends) /\ Counting(told, fin, ex)
      /\ Counted(starts, ends) /\ Epoch(fin, ex, base) /\ Once(starts, base)
  BY <1>4 DEF Numbered
<1>6. PICK a, z : a = mid[r][m] /\ z = Turns(module[r][m])
  OBVIOUS
<1>7. /\ x \in OutMsgs(m) /\ a \in Nat
      /\ \A q \in Ranks, n \in Modules : <<q, n>> # <<r, m>> => out'[q][n] = out[q][n]
      /\ \E b \in Nat : Tells(a, x, b, m) /\ Walk(out'[r][m], b, z, TellsIn(OutMsgs(m), m))
  <2>1. Walk(out[r][m], a, z, TellsIn(OutMsgs(m), m))
    BY <1>5, <1>6 DEF Sent
  <2>2. /\ Head(out[r][m]) \in OutMsgs(m) /\ a \in Nat
        /\ \A q \in Ranks, n \in Modules : <<q, n>> # <<r, m>> => out'[q][n] = out[q][n]
        /\ \E b \in Nat : Tells(a, Head(out[r][m]), b, m) /\ Walk(out'[r][m], b, z, TellsIn(OutMsgs(m), m))
    BY ONLY <1>1, <1>3, <2>1, r \in Ranks, m \in Modules, OutTells
  <2> QED BY <1>2, <2>2
<1>8. PICK b \in Nat : Tells(a, x, b, m) /\ Walk(out'[r][m], b, z, TellsIn(OutMsgs(m), m))
  BY <1>7
<1>9. x \in Reports(Modules) /\ x.module = m /\ x.type \in {"Start", "Finish"}
  <2>1. x \in Reports({m}) /\ x.module = m /\ x.type \in {"Start", "Finish"}
    BY <1>3, <1>7, OutMsgFacts
  <2> QED BY <2>1 DEF Reports
<1>10. PICK stage : stage = x.type
  OBVIOUS
<1>11. PICK k \in Nat : b = a + 1 /\ a = 2 * k + (IF stage = "Start" THEN 0 ELSE 1)
  <2>1. \A i, c \in Nat : Tells(i, x, c, x.module) =>
             c = i + 1 /\ \E k \in Nat : i = 2 * k + (IF x.type = "Start" THEN 0 ELSE 1)
    BY <1>9, TellsFacts
  <2>2. Tells(a, x, b, x.module) /\ a \in Nat
    BY <1>7, <1>8, <1>9
  <2> QED BY <1>10, <2>1, <2>2
<1>12. \A n : n # m => \A i, j : Tells(i, x, j, n) <=> i = j
  BY <1>9, TellsFacts
<1>13. PICK mid2 \in Numbers : Alters(mid, mid2, r, m, b)
  BY <1>5, NumbersUpdate
<1>14. mid2[r][m] = b /\ \A q \in Ranks, n \in Modules : <<q, n>> # <<r, m>> => mid2[q][n] = mid[q][n]
  BY <1>13 DEF Alters
<1>15. queue' = queue /\ module' = module
  BY <1>3 DEF process
<1>16. ASSUME NEW q \in Ranks, NEW n \in Modules
       PROVE  Walk(out'[q][n], mid2[q][n], Turns(module'[q][n]), TellsIn(OutMsgs(n), n))
  <2>1. CASE <<q, n>> = <<r, m>>
    BY <1>6, <1>8, <1>14, <1>15, <2>1
  <2>2. CASE <<q, n>> # <<r, m>>
    <3>1. out'[q][n] = out[q][n] /\ mid2[q][n] = mid[q][n]
      BY <1>7, <1>14, <2>2
    <3> QED BY <1>5, <1>15, <3>1 DEF Sent
  <2> QED BY <2>1, <2>2
<1>17. /\ up \in [Ranks -> Seq(Reports(Modules))] /\ up[0] = <<>> /\ up'[0] = <<>>
       /\ down \in [Ranks -> Seq(DownMsgs)] /\ out'[r][m] \in Seq(OutMsgs(m))
  BY <1>1 DEF ChannelsOK, OutFuns, Outs
<1>18. CASE r = 0
  <2>1. ASSUME NEW n \in Modules PROVE told[r][n] = mid[r][n]
    <3>1. Walk(up[r], told[r][n], mid[r][n], TellsIn(Reports(Modules), n))
      BY <1>5 DEF Sent
    <3>2. told[r][n] \in Nat /\ up[r] = <<>>
      BY <1>5, <1>17, <1>18 DEF Numbers, Amounts
    <3>3. told[r][n] \in Nat /\ Walk(<<>>, told[r][n], mid[r][n], TellsIn(Reports(Modules), n))
      BY <3>1, <3>2
    <3> QED BY ONLY <3>3, WalkEmpty
  <2>2. Progress(m, stage, down, up) /\ stage \in {"Start", "Finish"}
    BY <1>3, <1>9, <1>10, <1>18
  <2>3. told[r][m] = a
    BY <1>6, <2>1
  <2>4. told[r][m] + 1 <= starts[m] + ends[m]
    <3>1. PICK p : p = module[r][m]
      OBVIOUS
    <3>2. /\ told[r][m] \in Nat /\ mid[r][m] \in Nat /\ Turns(p) \in Nat /\ Later(p, m) \in Nat
          /\ mgr[r][m] \in Nat /\ starts[m] + ends[m] \in Nat
          /\ told[r][m] <= mid[r][m] /\ mid[r][m] <= Turns(p) /\ Turns(p) <= Later(p, m)
          /\ Later(p, m) <= mgr[r][m] /\ mgr[r][m] <= starts[m] + ends[m]
      BY <1>1, <1>5, <3>1, InOrder
    <3>3. \A i, j \in Nat : \A y : <<i, y, j>> \in TellsIn(OutMsgs(m), m) => i <= j
      BY TurnsGrow
    <3>4. b <= z
      BY ONLY <1>8, <1>17, <3>3, WalkUp
    <3>5. b <= Turns(p)
      BY <1>6, <3>1, <3>4
    <3>6. b <= starts[m] + ends[m]
      BY ONLY <3>2, <3>5, b \in Nat
    <3> QED BY <1>11, <2>3, <3>6
  <2>5. told[r][m] = 2 * k + (IF stage = "Start" THEN 0 ELSE 1)
    BY <1>11, <2>3
  <2>6. PICK told2 \in Numbers, fin2 \in Numbers, ex2 \in Who :
          /\ Alters(told, told2, r, m, told[r][m] + 1) /\ Counting(told2, fin2, ex2)
          /\ OrdersFollow(fin2, ex2, starts, ends, base)
    BY ONLY Steering, IInv, r \in Ranks, m \in Modules, k \in Nat, <1>1, <1>4, <2>2, <2>4, <2>5, TurnHeard
  <2>7. PICK starts2 \in Amounts, ends2 \in Amounts :
          /\ Counted(starts2, ends2)' /\ Epoch(fin2, ex2, base)' /\ Once(starts2, base)
          /\ \A p \in Ranks, e \in Modules : \A i :
               Walk(down[p], i, starts[e] + ends[e], BeginsIn(DownMsgs, e))
                 => Walk(down'[p], i, starts2[e] + ends2[e], BeginsIn(DownMsgs, e))
    BY <2>6 DEF OrdersFollow
  <2>8. up' = up
    BY <2>2 DEF Progress, Cast
  <2>9. ASSUME NEW q \in Ranks, NEW n \in Modules
        PROVE  Walk(up'[q], told2[q][n], mid2[q][n], TellsIn(Reports(Modules), n))
    <3>1. CASE <<q, n>> = <<r, m>>
      <4>1. up'[q] = <<>> /\ told2[q][n] = b /\ mid2[q][n] = b
        BY <1>11, <1>14, <1>17, <1>18, <2>3, <2>6, <3>1 DEF Alters
      <4> QED BY <4>1, WalkEmpty
    <3>2. CASE <<q, n>> # <<r, m>>
      <4>1. told2[q][n] = told[q][n] /\ mid2[q][n] = mid[q][n] /\ up'[q] = up[q]
        BY <1>14, <2>6, <2>8, <3>2 DEF Alters
      <4> QED BY <1>5, <4>1 DEF Sent
    <3> QED BY <3>1, <3>2
  <2>10. Sent(told2, mid2)'
    BY <1>16, <2>9 DEF Sent
  <2>11. Ordered(mgr, starts2, ends2)'
    BY <1>5, <1>15, <2>7 DEF Ordered
  <2>12. Numbered(told2, mid2, mgr, fin2, ex2, starts2, ends2, base)'
    BY <1>5, <1>13, <2>6, <2>7, <2>10, <2>11 DEF Numbered
  <2> QED BY <2>12, CountsNext
<1>19. CASE r # 0
  <2>1. /\ up' = [up EXCEPT ![r] = up[r] \o <<x>>] /\ down' = down
        /\ UNCHANGED <<ranksStarted, ranksFinished, objectCount, numReset, numFinish, done>>
    BY <1>3, <1>19 DEF Cast, master
  <2>2. up[r] \in Seq(Reports(Modules)) /\ <<x>> \in Seq(Reports(Modules))
    BY <1>9, <1>17
  <2>3. up'[r] = up[r] \o <<x>> /\ \A q \in Ranks : q # r => up'[q] = up[q]
    BY <1>17, <2>1
  <2>4. ASSUME NEW n \in Modules
        PROVE  Walk(up[r] \o <<x>>, told[r][n], mid2[r][n], TellsIn(Reports(Modules), n))
    <3>1. Walk(up[r], told[r][n], mid[r][n], TellsIn(Reports(Modules), n))
      BY <1>5 DEF Sent
    <3>2. mid[r][n] \in Nat /\ mid2[r][n] \in Nat
      BY <1>5, <1>13 DEF Numbers, Amounts
    <3>3. Tells(mid[r][n], x, mid2[r][n], n)
      <4>1. CASE n = m
        BY <1>6, <1>8, <1>14, <4>1
      <4>2. CASE n # m
        BY <1>12, <1>14, <4>2
      <4> QED BY <4>1, <4>2
    <3>4. <<mid[r][n], x, mid2[r][n]>> \in TellsIn(Reports(Modules), n)
      BY <1>9, <3>2, <3>3, TellsIff
    <3>5. Walk(<<x>>, mid[r][n], mid2[r][n], TellsIn(Reports(Modules), n))
      BY <3>2, <3>4, WalkOne
    <3> QED BY <2>2, <3>1, <3>5, WalkConcat
  <2>5. ASSUME NEW q \in Ranks, NEW n \in Modules
        PROVE  Walk(up'[q], told[q][n], mid2[q][n], TellsIn(Reports(Modules), n))
    <3>1. CASE q = r
      BY <2>3, <2>4, <3>1
    <3>2. CASE q # r
      <4>1. mid2[q][n] = mid[q][n] /\ up'[q] = up[q]
        BY <1>14, <2>3, <3>2
      <4> QED BY <1>5, <4>1 DEF Sent
    <3> QED BY <3>1, <3>2
  <2>6. Sent(told, mid2)'
    BY <1>16, <2>5 DEF Sent
  <2>7. Ordered(mgr, starts, ends)'
    BY <1>5, <1>15, <2>1 DEF Ordered
  <2>8. Counted(starts, ends)' /\ Epoch(fin, ex, base)'
    BY <1>5, <2>1 DEF Counted, Epoch, Running, RanksOK
  <2>9. Numbered(told, mid2, mgr, fin, ex, starts, ends, base)'
    BY <1>5, <1>13, <2>6, <2>7, <2>8 DEF Numbered
  <2> QED BY <2>9, CountsNext
<1> QED BY <1>18, <1>19

(***************************************************************************)
(* The orders for each module lead from one number of turns to another,    *)
(* whatever objects a manager delivers.                                    *)
(***************************************************************************)
OrdersLead(q, from, to) ==
  \A m \in Modules : Walk(q[m], from[m], to[m], BeginsIn(QueueMsgs(m), m))

(* An object and the order to compute take no turn.                        *)
LEMMA NoTurn ==
  ASSUME NEW m, NEW n, NEW x \in QueueMsgs(m), x.type \in {"AddObject", "ComputeObject"}, NEW a \in Nat
  PROVE  <<a, x, a>> \in BeginsIn(QueueMsgs(m), n)
<1>1. Begins(a, x, a, n)
  BY DEF Begins
<1> QED BY <1>1, BeginsIff

(* checkExecuteObject only adds orders to compute.                         *)
LEMMA CheckOrders ==
  ASSUME NEW r, NEW m \in Modules, NEW ready, NEW s, NEW b, StateOK(s, r, b),
         NEW from, NEW to \in Amounts, OrdersLead(s.queue, from, to)
  PROVE  OrdersLead(CheckExecuteObject(r, m, ready, s).queue, from, to)
<1>1. PICK n : n = IF ready THEN Tuples(s.count, m) ELSE 0
  OBVIOUS
<1>2. PICK c : c = Repeat(n, Execute("ComputeObject", m))
  OBVIOUS
<1>3. PICK w : w = s.queue
  OBVIOUS
<1>4. PICK q : q = Put(w, m, w[m] \o c)
  OBVIOUS
<1>5. s.count \in [Inputs -> Nat] /\ Queues(w)
  BY <1>3 DEF StateOK
<1>6. w[m] \in Seq(QueueMsgs(m)) /\ w \in [Modules -> UNION {Seq(QueueMsgs(d)) : d \in Modules}]
  BY <1>5 DEF Queues
<1>7. CheckExecuteObject(r, m, ready, s).queue = q \/ CheckExecuteObject(r, m, ready, s).queue = w
  BY <1>1, <1>2, <1>3, <1>4, <1>6 DEF CheckExecuteObject, Put
<1>8. n \in Nat /\ (m \notin Fed => n = 0)
  <2>1. CASE m \in Fed
    BY <1>1, <1>5, <2>1, TuplesBound
  <2>2. CASE m \notin Fed
    BY <1>1, <2>2, FedFacts DEF Tuples
  <2> QED BY <2>1, <2>2
<1>9. c \in Seq(QueueMsgs(m)) /\ \A k \in 1..Len(c) : c[k] \in QueueMsgs(m) /\ c[k].type = "ComputeObject"
  <2>1. CASE m \in Fed
    <3>1. Execute("ComputeObject", m) \in QueueMsgs(m) /\ Execute("ComputeObject", m).type = "ComputeObject"
      BY <2>1, OrderFacts DEF Execute
    <3> QED BY <1>2, <1>8, <3>1, RepeatSeq
  <2>2. CASE m \notin Fed
    <3>1. c = <<>>
      BY <1>2, <1>8, <2>2, RepeatSeq
    <3> QED BY <3>1, EmptySeq
  <2> QED BY <2>1, <2>2
<1>10. Walk(w[m] \o c, from[m], to[m], BeginsIn(QueueMsgs(m), m))
  <2>1. to[m] \in Nat
    BY DEF Amounts
  <2>2. \A k \in 1..Len(c) : <<to[m], c[k], to[m]>> \in BeginsIn(QueueMsgs(m), m)
    BY <1>9, <2>1, NoTurn
  <2>3. Walk(c, to[m], to[m], BeginsIn(QueueMsgs(m), m))
    BY <1>9, <2>1, <2>2, WalkStay
  <2>4. Walk(w[m], from[m], to[m], BeginsIn(QueueMsgs(m), m))
    BY <1>3 DEF OrdersLead
  <2> QED BY ONLY <1>6, <1>9, <2>3, <2>4, WalkConcat
<1>11. OrdersLead(q, from, to)
  <2>1. q[m] = w[m] \o c /\ \A d \in Modules : d # m => q[d] = w[d]
    BY <1>4, <1>6 DEF Put
  <2> QED BY <1>3, <1>10, <2>1 DEF OrdersLead
<1> QED BY <1>3, <1>7, <1>11

(* addObjectDestination, for all inputs that are connected to an output.   *)
LEMMA DeliverOrders ==
  ASSUME Steering, NEW r \in Ranks, NEW n \in Nat, NEW ins \in Seq(Inputs), NEW b, StateOK(Local(r), r, b),
         b = [m \in Modules |-> One(mod[r][m].prepared)],
         NEW from, NEW to \in Amounts, OrdersLead(queue[r], from, to)
  PROVE  OrdersLead(DeliverAll(r, n, ins, Len(ins)).queue, from, to)
<1>1. PICK V : V = {s \in States(r, b) : OrdersLead(s.queue, from, to)}
  OBVIOUS
<1>2. ASSUME NEW i \in Inputs, NEW s \in V PROVE Deliver(r, n, i, s) \in V
  <2>1. StateOK(s, r, b) /\ OrdersLead(s.queue, from, to)
    BY <1>1, <1>2, StatesIff
  <2>2. StateOK(Deliver(r, n, i, s), r, b)
    BY <2>1, DeliverKeeps
  <2>3. PICK m, t, x : m = ModuleOf[i] /\ t = Arrives(s, i, n) /\ x = AddObject(i, n)
    OBVIOUS
  <2>4. /\ StateOK(t, r, b) /\ m \in Modules /\ x \in QueueMsgs(m) /\ t.queue[m] = Append(s.queue[m], x)
        /\ \A d \in Modules : d # m => t.queue[d] = s.queue[d]
    <3>1. b \in [Modules -> 0..1]
      BY DEF One
    <3>2. /\ StateOK(Arrives(s, i, n), r, b) /\ ModuleOf[i] \in Modules
          /\ AddObject(i, n) \in QueueMsgs(ModuleOf[i])
          /\ Appended(Arrives(s, i, n).queue, s.queue, ModuleOf[i], AddObject(i, n))
      BY ONLY <2>1, <3>1, r \in Ranks, i \in Inputs, n \in Nat, ArrivesKeeps
    <3> QED BY <2>3, <3>2 DEF Appended
  <2>5. Walk(Append(s.queue[m], x), from[m], to[m], BeginsIn(QueueMsgs(m), m))
    <3>1. x.type = "AddObject" /\ to[m] \in Nat
      BY <2>3, <2>4 DEF AddObject, Amounts
    <3>2. <<to[m], x, to[m]>> \in BeginsIn(QueueMsgs(m), m)
      BY <2>4, <3>1, NoTurn
    <3>3. s.queue[m] \in Seq(QueueMsgs(m)) /\ Walk(s.queue[m], from[m], to[m], BeginsIn(QueueMsgs(m), m))
      BY <2>1, <2>4 DEF StateOK, Queues, OrdersLead
    <3> QED BY ONLY <2>4, <3>1, <3>2, <3>3, WalkAppend
  <2>6. OrdersLead(t.queue, from, to)
    BY <2>1, <2>4, <2>5 DEF OrdersLead
  <2>7. OrdersLead(CheckExecuteObject(r, m, IsReadyForExecute(r, m), t).queue, from, to)
    BY <2>4, <2>6, CheckOrders
  <2>8. OrdersLead(Deliver(r, n, i, s).queue, from, to)
    BY <2>3, <2>7 DEF Deliver, Arrives
  <2> QED BY <1>1, <2>2, <2>8, StatesIff
<1>3. Local(r) \in V
  <2>1. Local(r).queue = queue[r]
    BY DEF Local
  <2> QED BY <1>1, <2>1, StatesIff
<1>4. DeliverAll(r, n, ins, Len(ins)) \in V
  BY ONLY <1>2, <1>3, ins \in Seq(Inputs), DeliverAllIn
<1> QED BY <1>1, <1>4

(* A manager that sends nothing to others leaves their orders.             *)
LEMMA CastLeaves ==
  ASSUME ChannelsOK, NEW r \in Ranks, NEW d \in [Ranks -> Seq(DownMsgs)], Cast(r, d, up, <<>>)
  PROVE  /\ up' = up
         /\ \A q \in Ranks : \A R, a, z : Walk(d[q], a, z, R) => Walk(down'[q], a, z, R)
<1>1. CASE r = 0
  <2>1. Cast(0, d, up, <<>>) /\ <<>> \in Seq(DownMsgs)
    BY <1>1
  <2>2. up' = up /\ \A q \in Ranks : \A R, a, b, z :
          Walk(d[q], a, b, R) /\ Walk(<<>>, b, z, R) => Walk(down'[q], a, z, R)
    BY ONLY <2>1, d \in [Ranks -> Seq(DownMsgs)], CastGoesOn
  <2>3. ASSUME NEW q \in Ranks, NEW R, NEW a, NEW z, Walk(d[q], a, z, R)
        PROVE  Walk(down'[q], a, z, R)
    <3>1. d[q] \in Seq(DownMsgs)
      OBVIOUS
    <3>2. z \in Nat
      BY ONLY <2>3, <3>1, WalkNat
    <3>3. Walk(<<>>, z, z, R)
      BY ONLY <3>2, WalkEmpty
    <3> QED BY <2>2, <2>3, <3>3
  <2> QED BY <2>2, <2>3
<1>2. CASE r # 0
  <2>1. down' = d /\ up' = [up EXCEPT ![r] = @ \o <<>>]
    BY <1>2 DEF Cast
  <2>2. up \in [Ranks -> Seq(Reports(Modules))] /\ up[r] \o <<>> = up[r]
    BY ConcatEmptySeq DEF ChannelsOK
  <2>3. up' = up
    BY <2>1, <2>2
  <2> QED BY <2>1, <2>3
<1> QED BY <1>1, <1>2

(* What a manager knows after a step of another one, and the orders under  *)
(* way to all of them.                                                     *)
TurnsLater(r) == [m \in Modules |-> Later(module[r][m], m)]
Elsewhere(mgr2, mgr, r) == \A q \in Ranks, m \in Modules : q # r => mgr2[q][m] = mgr[q][m]
OrdersDown(d, mgr, starts, ends) ==
  \A q \in Ranks, m \in Modules :
    Walk(d[q], mgr[q][m], starts[m] + ends[m], BeginsIn(DownMsgs, m))

(* A manager that sends what it has gathered to its modules: the orders    *)
(* lead on.                                                                *)
LEMMA CommitOrders ==
  ASSUME ChannelsOK, NEW r \in Ranks, NEW d \in [Ranks -> Seq(DownMsgs)], NEW s, NEW b,
         StateOK(s, r, b), Commit(r, d, s), module' = module,
         NEW mgr, NEW mgr2, NEW starts, NEW ends, Ordered(mgr, starts, ends),
         Elsewhere(mgr2, mgr, r), OrdersLead(s.queue, TurnsLater(r), mgr2[r]),
         OrdersDown(d, mgr2, starts, ends)
  PROVE  Ordered(mgr2, starts, ends)' /\ up' = up
<1>1. s.cast = <<>>
  <2>1. s = [count |-> s.count, queue |-> s.queue, cast |-> <<>>]
    BY DEF StateOK
  <2>2. [count |-> s.count, queue |-> s.queue, cast |-> <<>>].cast = <<>>
    OBVIOUS
  <2> QED BY <2>1, <2>2
<1>2. queue' = [queue EXCEPT ![r] = s.queue] /\ Cast(r, d, up, <<>>)
  BY <1>1 DEF Commit
<1>3. queue'[r] = s.queue /\ \A q \in Ranks : q # r => queue'[q] = queue[q]
  BY <1>2 DEF ChannelsOK
<1>4. up' = up /\ \A q \in Ranks : \A R, a, z : Walk(d[q], a, z, R) => Walk(down'[q], a, z, R)
  BY ONLY ChannelsOK, <1>2, r \in Ranks, d \in [Ranks -> Seq(DownMsgs)], CastLeaves
<1>5. ASSUME NEW q \in Ranks, NEW m \in Modules
      PROVE  Walk(queue'[q][m], Later(module[q][m], m), mgr2[q][m], BeginsIn(QueueMsgs(m), m))
  <2>1. CASE q = r
    BY <1>3, <2>1 DEF OrdersLead, TurnsLater
  <2>2. CASE q # r
    BY <1>3, <2>2 DEF Ordered, Elsewhere
  <2> QED BY <2>1, <2>2
<1>6. \A q \in Ranks, m \in Modules :
        Walk(down'[q], mgr2[q][m], starts[m] + ends[m], BeginsIn(DownMsgs, m))
  BY <1>4 DEF OrdersDown
<1> QED BY <1>4, <1>5, <1>6 DEF Ordered

(* What rank 0 has counted stays while its counters stay.                  *)
LEMMA CountedStays ==
  ASSUME UNCHANGED <<ranksStarted, ranksFinished, objectCount, numReset, numFinish, done>>,
         NEW starts, NEW ends, NEW fin, NEW ex, NEW base, Counted(starts, ends), Epoch(fin, ex, base)
  PROVE  Counted(starts, ends)' /\ Epoch(fin, ex, base)'
BY DEF Counted, Epoch, Running, RanksOK

(* A manager delivers an object.                                           *)
LEMMA AddObjectCounts ==
  ASSUME Steering, IInv, IInv', CountsOK, NEW r \in Ranks, NEW m \in Modules, HandleAddObject(r, m)
  PROVE  CountsOK'
<1>1. ManagersOK /\ MasterOK /\ ProcessesOK /\ ChannelsOK /\ ChannelsOK' /\ LocalOK
  BY DEF IInv
<1>2. PICK x : x = Head(out[r][m])
  OBVIOUS
<1>3. PICK ins : ins = InputsAt[x.port]
  OBVIOUS
<1>4. PICK s : s = DeliverAll(r, x.round, ins, Len(ins))
  OBVIOUS
<1>5. /\ out[r][m] # <<>> /\ x.type = "Object" /\ Takes(r, m) /\ Commit(r, down, s)
      /\ UNCHANGED <<mod, master, process, executed>>
  BY <1>2, <1>3, <1>4 DEF HandleAddObject, Takes
<1>6. PICK told, mid, mgr, fin, ex, starts, ends, base :
        Numbered(told, mid, mgr, fin, ex, starts, ends, base)
  BY DEF CountsOK
<1>7. /\ told \in Numbers /\ mid \in Numbers /\ mgr \in Numbers /\ fin \in Numbers /\ ex \in Who
      /\ starts \in Amounts /\ ends \in Amounts /\ base \in Amounts
      /\ Sent(told, mid) /\ Ordered(mgr, starts, ends) /\ Counting(told, fin, ex)
      /\ Counted(starts, ends) /\ Epoch(fin, ex, base) /\ Once(starts, base)
  BY <1>6 DEF Numbered
<1>8. PICK a, z : a = mid[r][m] /\ z = Turns(module[r][m])
  OBVIOUS
<1>9. /\ x \in OutMsgs(m) /\ a \in Nat
      /\ \A q \in Ranks, n \in Modules : <<q, n>> # <<r, m>> => out'[q][n] = out[q][n]
      /\ \E b \in Nat : Tells(a, x, b, m) /\ Walk(out'[r][m], b, z, TellsIn(OutMsgs(m), m))
  <2>1. Walk(out[r][m], a, z, TellsIn(OutMsgs(m), m))
    BY <1>7, <1>8 DEF Sent
  <2>2. /\ Head(out[r][m]) \in OutMsgs(m) /\ a \in Nat
        /\ \A q \in Ranks, n \in Modules : <<q, n>> # <<r, m>> => out'[q][n] = out[q][n]
        /\ \E b \in Nat : Tells(a, Head(out[r][m]), b, m) /\ Walk(out'[r][m], b, z, TellsIn(OutMsgs(m), m))
    BY ONLY <1>1, <1>5, <2>1, r \in Ranks, m \in Modules, OutTells
  <2> QED BY <1>2, <2>2
<1>10. Walk(out'[r][m], a, z, TellsIn(OutMsgs(m), m))
  <2>1. \A b : Tells(a, x, b, m) => b = a
    BY <1>5 DEF Tells
  <2> QED BY <1>9, <2>1
<1>11. /\ module' = module /\ UNCHANGED <<ranksStarted, ranksFinished, objectCount, numReset, numFinish, done>>
  BY <1>5 DEF process, master
<1>12. x.port \in Outputs /\ x.round \in Nat
  BY <1>5, <1>9, OutMsgFacts
<1>13. ins \in Seq(Inputs)
  BY <1>3, <1>12, InputsFacts
<1>14. PICK b, from : b = Prepared(r) /\ from = TurnsLater(r)
  OBVIOUS
<1>15. StateOK(Local(r), r, b) /\ b = [k \in Modules |-> One(mod[r][k].prepared)]
  BY <1>1, <1>14, FlowState DEF Prepared
<1>16. StateOK(s, r, b)
  BY ONLY Steering, r \in Ranks, <1>4, <1>12, <1>13, <1>15, DeliverAllKeeps
<1>17. mgr[r] \in Amounts /\ OrdersLead(queue[r], from, mgr[r])
  BY <1>7, <1>14 DEF Numbers, Ordered, OrdersLead, TurnsLater
<1>18. OrdersLead(s.queue, from, mgr[r])
  BY ONLY Steering, r \in Ranks, <1>4, <1>12, <1>13, <1>15, <1>17, DeliverOrders
<1>19. Ordered(mgr, starts, ends)' /\ up' = up
  <2>1. down \in [Ranks -> Seq(DownMsgs)]
    BY <1>1 DEF ChannelsOK
  <2>2. OrdersLead(s.queue, TurnsLater(r), mgr[r])
    BY <1>14, <1>18
  <2>3. OrdersDown(down, mgr, starts, ends) /\ Elsewhere(mgr, mgr, r)
    BY <1>7 DEF Ordered, OrdersDown, Elsewhere
  <2> QED BY ONLY r \in Ranks, <1>1, <1>5, <1>7, <1>11, <1>16, <2>1, <2>2, <2>3, CommitOrders
<1>20. ASSUME NEW q \in Ranks, NEW n \in Modules
       PROVE  Walk(out'[q][n], mid[q][n], Turns(module[q][n]), TellsIn(OutMsgs(n), n))
  <2>1. CASE <<q, n>> = <<r, m>>
    BY <1>8, <1>10, <2>1
  <2>2. CASE <<q, n>> # <<r, m>>
    BY <1>7, <1>9, <2>2 DEF Sent
  <2> QED BY <2>1, <2>2
<1>21. Sent(told, mid)'
  BY <1>7, <1>11, <1>19, <1>20 DEF Sent
<1>22. Counted(starts, ends)' /\ Epoch(fin, ex, base)'
  BY <1>7, <1>11, CountedStays
<1>23. Numbered(told, mid, mgr, fin, ex, starts, ends, base)'
  BY <1>7, <1>19, <1>21, <1>22 DEF Numbered
<1> QED BY <1>23, CountsNext

(* A manager sends on what was broadcast.                                  *)
LEMMA BroadcastCounts ==
  ASSUME Steering, IInv, IInv', CountsOK, NEW r \in Ranks, HandleBroadcast(r)
  PROVE  CountsOK'
<1>1. ManagersOK /\ MasterOK /\ ProcessesOK /\ ChannelsOK /\ ChannelsOK' /\ LocalOK
  BY DEF IInv
<1>2. PICK x, m, p, s, t : \E open, b, b2 \in [Modules -> 0..1] : Handled(r, x, m, p, open, b, b2, s, t)
  BY BroadcastDoes
<1>3. PICK open \in [Modules -> 0..1], c \in [Modules -> 0..1], b2 \in [Modules -> 0..1] :
        Handled(r, x, m, p, open, c, b2, s, t)
  BY <1>2
<1>4. /\ x = Head(down[r]) /\ m = x.module /\ m \in Modules /\ x \in QueueMsgs(m)
      /\ x.type \in {"Prepare", "Reduce", "ComputeExecute"}
      /\ Rest(down, r) \in [Ranks -> Seq(DownMsgs)]
      /\ s = Send(Local(r), x) /\ StateOK(s, r, b2)
      /\ t = (IF x.type = "Prepare" THEN CheckExecuteObject(r, m, TRUE, s) ELSE s)
      /\ StateOK(t, r, b2) /\ Commit(r, Rest(down, r), t)
  BY <1>3 DEF Handled
<1>5. /\ down[r] # <<>> /\ out' = out /\ module' = module
      /\ UNCHANGED <<ranksStarted, ranksFinished, objectCount, numReset, numFinish, done>>
  BY DEF HandleBroadcast, process, master
<1>6. PICK told, mid, mgr, fin, ex, starts, ends, base :
        Numbered(told, mid, mgr, fin, ex, starts, ends, base)
  BY DEF CountsOK
<1>7. /\ told \in Numbers /\ mid \in Numbers /\ mgr \in Numbers /\ fin \in Numbers /\ ex \in Who
      /\ starts \in Amounts /\ ends \in Amounts /\ base \in Amounts
      /\ Sent(told, mid) /\ Ordered(mgr, starts, ends) /\ Counting(told, fin, ex)
      /\ Counted(starts, ends) /\ Epoch(fin, ex, base) /\ Once(starts, base)
  BY <1>6 DEF Numbered
<1>8. PICK q : q = down[r]
  OBVIOUS
<1>9. q \in Seq(DownMsgs) /\ q # <<>> /\ down \in [Ranks -> Seq(DownMsgs)]
  BY <1>1, <1>5, <1>8 DEF ChannelsOK
<1>10. ASSUME NEW n \in Modules
       PROVE  \E a \in Nat : /\ Begins(mgr[r][n], x, a, n)
                             /\ Walk(Tail(q), a, starts[n] + ends[n], BeginsIn(DownMsgs, n))
  <2>1. PICK z : z = starts[n] + ends[n]
    OBVIOUS
  <2>2. Walk(q, mgr[r][n], z, BeginsIn(DownMsgs, n))
    BY <1>7, <1>8, <2>1 DEF Ordered
  <2>3. PICK a \in Nat : <<mgr[r][n], Head(q), a>> \in BeginsIn(DownMsgs, n) /\ Walk(Tail(q), a, z, BeginsIn(DownMsgs, n))
    BY ONLY <1>9, <2>2, WalkHead
  <2>4. Begins(mgr[r][n], Head(q), a, n)
    BY <2>3, BeginsIff
  <2> QED BY <1>4, <1>8, <2>1, <2>3, <2>4
<1>11. PICK a \in Nat : /\ Begins(mgr[r][m], x, a, m)
                        /\ Walk(Tail(q), a, starts[m] + ends[m], BeginsIn(DownMsgs, m))
  BY <1>4, <1>10
<1>12. PICK mgr2 \in Numbers : Alters(mgr, mgr2, r, m, a)
  BY <1>4, <1>7, NumbersUpdate
<1>13. mgr2[r][m] = a /\ \A p2 \in Ranks, n \in Modules : <<p2, n>> # <<r, m>> => mgr2[p2][n] = mgr[p2][n]
  BY <1>12 DEF Alters
<1>14. PICK d : d = Rest(down, r)
  OBVIOUS
<1>15. d[r] = Tail(q) /\ \A p2 \in Ranks : p2 # r => d[p2] = down[p2]
  BY <1>8, <1>9, <1>14 DEF Rest
<1>16. OrdersDown(d, mgr2, starts, ends) /\ Elsewhere(mgr2, mgr, r)
  <2>1. ASSUME NEW p2 \in Ranks, NEW n \in Modules
        PROVE  Walk(d[p2], mgr2[p2][n], starts[n] + ends[n], BeginsIn(DownMsgs, n))
    <3>1. CASE p2 = r /\ n = m
      BY <1>11, <1>13, <1>15, <3>1
    <3>2. CASE p2 = r /\ n # m
      <4>1. PICK a2 \in Nat : /\ Begins(mgr[r][n], x, a2, n)
                              /\ Walk(Tail(q), a2, starts[n] + ends[n], BeginsIn(DownMsgs, n))
        BY <1>10
      <4>2. a2 = mgr[r][n] /\ mgr2[r][n] = mgr[r][n]
        BY <1>4, <1>13, <3>2, <4>1 DEF Begins
      <4> QED BY <1>15, <3>2, <4>1, <4>2
    <3>3. CASE p2 # r
      BY <1>7, <1>13, <1>15, <3>3 DEF Ordered
    <3> QED BY <3>1, <3>2, <3>3
  <2>2. Elsewhere(mgr2, mgr, r)
    BY <1>13 DEF Elsewhere
  <2> QED BY <2>1, <2>2 DEF OrdersDown
<1>17. mgr2[r] \in Amounts
  BY <1>12 DEF Numbers
<1>18. OrdersLead(s.queue, TurnsLater(r), mgr2[r])
  <2>1. PICK w : w = queue[r]
    OBVIOUS
  <2>2. Queues(w) /\ w[m] \in Seq(QueueMsgs(m)) /\ w \in [Modules -> UNION {Seq(QueueMsgs(n)) : n \in Modules}]
    BY <1>1, <1>4, <2>1 DEF ChannelsOK, QueueFuns, Queues
  <2>3. s.queue = [w EXCEPT ![m] = Append(w[m], x)]
    <3>1. Local(r).queue = w
      BY <2>1 DEF Local
    <3>2. s = [Local(r) EXCEPT !.queue = [w EXCEPT ![m] = Append(w[m], x)]]
      BY <1>4, <3>1 DEF Send
    <3>3. Local(r) = [count |-> numObject[r], queue |-> w, cast |-> <<>>]
      BY <2>1 DEF Local
    <3> QED BY ONLY <3>2, <3>3
  <2>4. s.queue[m] = Append(w[m], x) /\ \A n \in Modules : n # m => s.queue[n] = w[n]
    <3>1. PICK y : y = Append(w[m], x)
      OBVIOUS
    <3>2. y \in Seq(QueueMsgs(m)) /\ s.queue = Put(w, m, y)
      <4>1. y \in Seq(QueueMsgs(m))
        BY <1>4, <2>2, <3>1, AppendProperties
      <4>2. s.queue = Put(w, m, y)
        BY ONLY <2>3, <3>1 DEF Put
      <4> QED BY <4>1, <4>2
    <3>3. Put(w, m, y)[m] = y /\ \A n \in Modules : n # m => Put(w, m, y)[n] = w[n]
      <4>1. m \in Modules /\ Queues(w) /\ y \in Seq(QueueMsgs(m))
        BY <1>4, <2>2, <3>2
      <4>2. Queues(Put(w, m, y)) /\ Put(w, m, y)[m] = y /\ \A n \in Modules : n # m => Put(w, m, y)[n] = w[n]
        BY ONLY <4>1, QueuesUpdate
      <4> QED BY <4>2
    <3> QED BY <3>1, <3>2, <3>3
  <2>5. \A n \in Modules : Walk(w[n], TurnsLater(r)[n], mgr[r][n], BeginsIn(QueueMsgs(n), n))
    BY <1>7, <2>1 DEF Ordered, TurnsLater
  <2>6. Walk(Append(w[m], x), TurnsLater(r)[m], a, BeginsIn(QueueMsgs(m), m))
    <3>1. mgr[r][m] \in Nat
      BY <1>4, <1>7 DEF Numbers, Amounts
    <3>2. <<mgr[r][m], x, a>> \in BeginsIn(QueueMsgs(m), m)
      BY <1>4, <1>11, <3>1, BeginsIff
    <3>3. Walk(w[m], TurnsLater(r)[m], mgr[r][m], BeginsIn(QueueMsgs(m), m))
      BY <1>4, <2>5
    <3> QED BY ONLY <1>4, <2>2, <3>2, <3>3, a \in Nat, WalkAppend
  <2>7. ASSUME NEW n \in Modules
        PROVE  Walk(s.queue[n], TurnsLater(r)[n], mgr2[r][n], BeginsIn(QueueMsgs(n), n))
    <3>1. CASE n = m
      BY <1>13, <2>4, <2>6, <3>1
    <3>2. CASE n # m
      BY <1>13, <2>4, <2>5, <3>2
    <3> QED BY <3>1, <3>2
  <2> QED BY <2>7 DEF OrdersLead
<1>19. OrdersLead(t.queue, TurnsLater(r), mgr2[r])
  <2>1. OrdersLead(CheckExecuteObject(r, m, TRUE, s).queue, TurnsLater(r), mgr2[r])
    BY <1>4, <1>17, <1>18, CheckOrders
  <2> QED BY <1>4, <1>18, <2>1
<1>20. Ordered(mgr2, starts, ends)' /\ up' = up
  BY ONLY r \in Ranks, <1>1, <1>4, <1>5, <1>7, <1>14, <1>16, <1>19, CommitOrders
<1>21. Sent(told, mid)'
  BY <1>5, <1>7, <1>20 DEF Sent
<1>22. Counted(starts, ends)' /\ Epoch(fin, ex, base)'
  BY <1>5, <1>7, CountedStays
<1>23. Numbered(told, mid, mgr2, fin, ex, starts, ends, base)'
  BY <1>7, <1>12, <1>20, <1>21, <1>22 DEF Numbered
<1> QED BY <1>23, CountsNext

(* When nothing is under way, all ranks have taken all turns, and rank 0   *)
(* knows.                                                                  *)
LEMMA RestCounts ==
  ASSUME Steering, IInv, AtRest, NEW told, NEW mid, NEW mgr, NEW fin, NEW ex, NEW starts, NEW ends, NEW base,
         Numbered(told, mid, mgr, fin, ex, starts, ends, base), NEW m \in Modules
  PROVE  done[m] = ends[m] /\ ranksFinished[m] = 0 /\ \A r \in Ranks : fin[r][m] = ends[m]
<1>1. ManagersOK /\ MasterOK /\ ProcessesOK /\ ChannelsOK /\ LocalOK
  BY DEF IInv
<1>2. /\ told \in Numbers /\ mid \in Numbers /\ mgr \in Numbers /\ fin \in Numbers /\ ex \in Who
      /\ starts \in Amounts /\ ends \in Amounts /\ base \in Amounts
      /\ Sent(told, mid) /\ Ordered(mgr, starts, ends) /\ Counting(told, fin, ex)
      /\ Counted(starts, ends) /\ Epoch(fin, ex, base)
  BY DEF Numbered
<1>3. PICK open \in [Modules -> 0..1] : ResetsOK(open)
  BY DEF IInv, OpenOK
<1>4. starts[m] \in Nat /\ ends[m] \in Nat /\ base[m] \in Nat /\ open[m] \in 0..1
  BY <1>2 DEF Amounts
<1>5. PICK o \in 0..1 : starts[m] = ends[m] + o
  <2>1. ends[m] <= starts[m] /\ (m \in Fed => starts[m] = ends[m] + open[m])
    BY <1>1, <1>2, <1>3, StartsEnds
  <2>2. CASE m \in Fed
    BY <1>4, <2>1, <2>2
  <2>3. CASE m \notin Fed
    <3>1. starts[m] = ends[m]
      BY <1>2, <2>3 DEF Counted
    <3>2. starts[m] = ends[m] + 0 /\ 0 \in 0..1
      BY <1>4, <3>1
    <3> QED BY <3>2
  <2> QED BY <2>2, <2>3
<1>6. ASSUME NEW r \in Ranks PROVE fin[r][m] = ends[m]
  <2>1. PICK p, z : p = module[r][m] /\ z = starts[m] + ends[m]
    OBVIOUS
  <2>2. up[r] = <<>> /\ down[r] = <<>> /\ queue[r][m] = <<>> /\ out[r][m] = <<>> /\ p.rest = <<>>
    BY <2>1 DEF AtRest
  <2>3. /\ told[r][m] \in Nat /\ mid[r][m] \in Nat /\ Turns(p) \in Nat /\ Later(p, m) \in Nat
        /\ mgr[r][m] \in Nat /\ starts[m] + ends[m] \in Nat
    BY <1>1, <1>2, <2>1, InOrder
  <2>4. /\ Walk(<<>>, mid[r][m], Turns(p), TellsIn(OutMsgs(m), m))
        /\ Walk(<<>>, told[r][m], mid[r][m], TellsIn(Reports(Modules), m))
        /\ Walk(<<>>, Later(p, m), mgr[r][m], BeginsIn(QueueMsgs(m), m))
        /\ Walk(<<>>, mgr[r][m], z, BeginsIn(DownMsgs, m))
    BY <1>2, <2>1, <2>2 DEF Sent, Ordered
  <2>5. mid[r][m] = Turns(p) /\ told[r][m] = mid[r][m] /\ Later(p, m) = mgr[r][m] /\ mgr[r][m] = z
    BY ONLY <2>3, <2>4, WalkEmpty
  <2>6. Turns(p) = Later(p, m)
    BY <1>1, <2>1, <2>2, TurnsFacts
  <2>7. told[r][m] = starts[m] + ends[m]
    BY <2>1, <2>5, <2>6
  <2>8. told[r][m] = 2 * fin[r][m] + ex[r][m]
    BY <1>2 DEF Counting
  <2>9. fin[r][m] \in Nat /\ ex[r][m] \in 0..1
    BY <1>2 DEF Numbers, Amounts, Who
  <2>10. PICK f \in Nat, e \in 0..1 : f = fin[r][m] /\ e = ex[r][m]
    BY <2>9
  <2>11. PICK k \in Nat : k = ends[m]
    BY <1>4
  <2>12. 2 * f + e = (k + o) + k
    BY <1>5, <2>7, <2>8, <2>10, <2>11
  <2>13. f = k
    BY ONLY <2>12, f \in Nat, k \in Nat, e \in 0..1, o \in 0..1
  <2> QED BY <2>10, <2>11, <2>13
<1>7. /\ \A r \in Ranks : fin[r][m] \in {base[m], base[m] + 1}
      /\ \/ done[m] = base[m] /\ ranksFinished[m] = Cardinality(FinishedBy(fin, base, m))
         \/ /\ done[m] = base[m] + 1 /\ ranksFinished[m] = 0
            /\ \A r \in Ranks : fin[r][m] = base[m] + 1
  BY <1>2 DEF Epoch
<1>8. 0 \in Ranks /\ ranksFinished[m] \in 0..(NumRanks - 1) /\ NumRanks \in Nat \ {0}
  BY <1>1, ZeroRank, ExecutionAssumption DEF MasterOK
<1>9. CASE ends[m] = base[m]
  <2>1. FinishedBy(fin, base, m) = {}
    BY <1>4, <1>6, <1>9 DEF FinishedBy
  <2>2. Cardinality(FinishedBy(fin, base, m)) = 0
    BY <2>1, FS_EmptySet
  <2>3. fin[0][m] = base[m] /\ base[m] # base[m] + 1
    BY <1>4, <1>6, <1>8, <1>9
  <2>4. done[m] = base[m] /\ ranksFinished[m] = 0
    BY <1>7, <1>8, <2>2, <2>3
  <2> QED BY <1>6, <1>9, <2>4
<1>10. CASE ends[m] = base[m] + 1
  <2>1. FinishedBy(fin, base, m) = Ranks
    BY <1>6, <1>10 DEF FinishedBy
  <2>2. Cardinality(Ranks) = NumRanks
    <3>1. 0 \in Int /\ NumRanks - 1 \in Int
      BY <1>8
    <3>2. Cardinality(0..(NumRanks - 1)) = IF 0 > NumRanks - 1 THEN 0 ELSE (NumRanks - 1) - 0 + 1
      BY <3>1, FS_Interval
    <3> QED BY <1>8, <3>2 DEF Ranks
  <2>3. ranksFinished[m] # NumRanks
    BY <1>8
  <2>4. done[m] = base[m] + 1 /\ ranksFinished[m] = 0
    BY <1>7, <2>1, <2>2, <2>3
  <2> QED BY <1>6, <1>10, <2>4
<1>11. ends[m] = base[m] \/ ends[m] = base[m] + 1
  BY <1>6, <1>7, <1>8
<1> QED BY <1>9, <1>10, <1>11

(* The user executes a source while nothing is under way.                  *)
LEMMA UserExecuteCounts ==
  ASSUME Steering, ~Overlap, IInv, IInv', CountsOK, NEW m \in Modules, UserExecute(m)
  PROVE  CountsOK'
<1>1. ManagersOK /\ MasterOK /\ ProcessesOK /\ ChannelsOK /\ LocalOK
  BY DEF IInv
<1>2. /\ executed[m] < MaxExecutes[m] /\ AtRest /\ Cast(0, down, up, <<Execute("ComputeExecute", m)>>)
      /\ UNCHANGED <<manager, master, queue, out, process>>
  BY DEF UserExecute
<1>3. m \notin Fed
  <2>1. executed[m] \in Nat
    BY <1>1 DEF ChannelsOK
  <2>2. m \in Fed => MaxExecutes[m] = 0
    BY DEF Steering
  <2> QED BY <1>2, <2>1, <2>2
<1>4. /\ queue' = queue /\ out' = out /\ module' = module
      /\ UNCHANGED <<ranksStarted, ranksFinished, objectCount, numReset, numFinish, done>>
  BY <1>2 DEF process, master
<1>5. PICK told, mid, mgr, fin, ex, starts, ends, base :
        Numbered(told, mid, mgr, fin, ex, starts, ends, base)
  BY DEF CountsOK
<1>6. /\ told \in Numbers /\ mid \in Numbers /\ mgr \in Numbers /\ fin \in Numbers /\ ex \in Who
      /\ starts \in Amounts /\ ends \in Amounts /\ base \in Amounts
      /\ Sent(told, mid) /\ Ordered(mgr, starts, ends) /\ Counting(told, fin, ex)
      /\ Counted(starts, ends) /\ Epoch(fin, ex, base) /\ Once(starts, base)
  BY <1>5 DEF Numbered
<1>7. ASSUME NEW n \in Modules
      PROVE  done[n] = ends[n] /\ ranksFinished[n] = 0 /\ \A r \in Ranks : fin[r][n] = ends[n]
  BY <1>2, <1>5, RestCounts
<1>8. PICK open \in [Modules -> 0..1] : ResetsOK(open)
  BY DEF IInv, OpenOK
<1>9. PICK k \in 0..1 : k = IF SchedulingPolicy[m] = "Ignore" THEN 0 ELSE 1
  OBVIOUS
<1>10. PICK starts2, ends2 : starts2 = [starts EXCEPT ![m] = @ + k] /\ ends2 = [ends EXCEPT ![m] = @ + k]
  OBVIOUS
<1>11. /\ starts2 \in Amounts /\ ends2 \in Amounts /\ starts2[m] = starts[m] + k /\ ends2[m] = ends[m] + k
       /\ \A n \in Modules : n # m => starts2[n] = starts[n] /\ ends2[n] = ends[n]
  BY <1>6, <1>9, <1>10 DEF Amounts
<1>12. \A n \in Modules : starts[n] \in Nat /\ ends[n] \in Nat /\ done[n] \in Nat
  BY <1>1, <1>6 DEF Amounts, MasterOK
<1>13. Counted(starts2, ends2)'
  <2>1. \A d \in Fed : d \in Modules /\ d # m
    BY <1>3, FedFacts
  <2>2. \A d \in Fed : starts2[d] = starts[d] /\ ends2[d] = ends[d]
    BY <1>11, <2>1
  <2>3. \A n \in Modules \ Fed : starts2[n] = ends2[n]
    BY <1>6, <1>11 DEF Counted
  <2> QED BY <1>4, <1>6, <2>2, <2>3 DEF Counted, Running
<1>14. PICK base2 : base2 = done
  OBVIOUS
<1>15. base2 \in Amounts
  BY <1>1, <1>14 DEF Amounts, MasterOK
<1>16. Epoch(fin, ex, base2)'
  <2>1. RanksOK(ex)'
    BY <1>4, <1>6 DEF Epoch, RanksOK
  <2>2. ASSUME NEW n \in Modules
        PROVE  /\ \A r \in Ranks : fin[r][n] = base2[n]
               /\ done'[n] = base2[n] /\ ranksFinished'[n] = Cardinality(FinishedBy(fin, base2, n))
    <3>1. \A r \in Ranks : fin[r][n] = base2[n]
      BY <1>7, <1>14
    <3>2. base2[n] # base2[n] + 1
      BY <1>12, <1>14
    <3>3. FinishedBy(fin, base2, n) = {}
      BY <3>1, <3>2 DEF FinishedBy
    <3>4. Cardinality(FinishedBy(fin, base2, n)) = 0
      BY <3>3, FS_EmptySet
    <3> QED BY <1>4, <1>7, <1>14, <3>1, <3>4
  <2> QED BY <2>1, <2>2 DEF Epoch
<1>17. Once(starts2, base2)
  <2>1. ASSUME NEW n \in Modules PROVE starts2[n] <= base2[n] + 1
    <3>1. base2[n] = ends[n]
      BY <1>7, <1>14
    <3>2. open[n] \in 0..1 /\ starts[n] \in Nat /\ ends[n] \in Nat
      BY <1>12
    <3>3. CASE n \in Fed
      <4>1. starts[n] = ends[n] + open[n] /\ starts2[n] = starts[n]
        BY <1>1, <1>3, <1>6, <1>8, <1>11, <3>3, StartsEnds
      <4> QED BY <3>1, <3>2, <4>1
    <3>4. CASE n \notin Fed
      <4>1. starts[n] = ends[n]
        BY <1>6, <3>4 DEF Counted
      <4>2. starts2[n] = starts[n] \/ starts2[n] = starts[n] + k
        BY <1>11
      <4> QED BY <3>1, <3>2, <4>1, <4>2
    <3> QED BY <3>3, <3>4
  <2>2. ASSUME NEW d \in Fed PROVE \E i \in ComputeInputs[d] : base2[d] = base2[Feeder(i)]
    <3>1. PICK i \in ComputeInputs[d] : numFinish[i] = 0
      BY <1>8 DEF ResetsOK
    <3>2. numFinish[i] + ends[d] = done[Feeder(i)]
      BY <1>6 DEF Counted
    <3>3. d \in Modules
      BY FedFacts
    <3>4. ends[d] = done[Feeder(i)] /\ done[d] = ends[d]
      BY <1>7, <1>12, <3>1, <3>2, <3>3
    <3> QED BY <1>14, <3>4
  <2> QED BY <2>1, <2>2 DEF Once
<1>18. PICK x : x = Execute("ComputeExecute", m)
  OBVIOUS
<1>19. /\ x.type = "ComputeExecute" /\ x.module = m /\ x \in DownMsgs
  BY <1>3, <1>18, OrderFacts DEF Execute
<1>20. /\ up' = up
       /\ \A q \in Ranks : \A R, a, b, z :
            Walk(down[q], a, b, R) /\ Walk(<<x>>, b, z, R) => Walk(down'[q], a, z, R)
  <2>1. down \in [Ranks -> Seq(DownMsgs)] /\ <<x>> \in Seq(DownMsgs) /\ Cast(0, down, up, <<x>>)
    BY <1>1, <1>2, <1>18, <1>19 DEF ChannelsOK
  <2> QED BY ONLY <2>1, CastGoesOn
<1>21. ASSUME NEW n \in Modules
       PROVE  Walk(<<x>>, starts[n] + ends[n], starts2[n] + ends2[n], BeginsIn(DownMsgs, n))
  <2>1. PICK a \in Nat, z \in Nat : a = starts[n] + ends[n] /\ z = starts2[n] + ends2[n]
    BY <1>11, <1>12
  <2>2. Begins(a, x, z, n)
    <3>1. CASE n = m /\ SchedulingPolicy[m] # "Ignore"
      <4>1. z = a + 2
        BY <1>9, <1>11, <1>12, <2>1, <3>1
      <4> QED BY <1>19, <3>1, <4>1 DEF Begins
    <3>2. CASE ~(n = m /\ SchedulingPolicy[m] # "Ignore")
      <4>1. z = a
        BY <1>9, <1>11, <1>12, <2>1, <3>2
      <4> QED BY <1>19, <3>2, <4>1 DEF Begins
    <3> QED BY <3>1, <3>2
  <2>3. <<a, x, z>> \in BeginsIn(DownMsgs, n)
    BY <1>19, <2>2, BeginsIff
  <2> QED BY <2>1, <2>3, WalkOne
<1>22. ASSUME NEW q \in Ranks, NEW n \in Modules
       PROVE  Walk(down'[q], mgr[q][n], starts2[n] + ends2[n], BeginsIn(DownMsgs, n))
  BY <1>6, <1>20, <1>21 DEF Ordered
<1>23. Ordered(mgr, starts2, ends2)'
  BY <1>4, <1>6, <1>22 DEF Ordered
<1>24. Sent(told, mid)'
  BY <1>4, <1>6, <1>20 DEF Sent
<1>25. Numbered(told, mid, mgr, fin, ex, starts2, ends2, base2)'
  BY <1>6, <1>11, <1>13, <1>15, <1>16, <1>17, <1>23, <1>24 DEF Numbered
<1> QED BY <1>25, CountsNext

-----------------------------------------------------------------------------
(* The turns of a process when one stage is done, where t are the stages   *)
(* left, and n is the number of its executions; and what it tells of them. *)
TurnsOf(prepared, n) == 2 * n - One(prepared)
LaterOf(t, prepared, n, m) ==
  2 * n - (IF m \in Fed THEN (IF t \in Closing THEN 0 ELSE One(prepared)) ELSE 0)
Speaks(r, m, a, z) ==
  \E msgs \in Seq(OutMsgs(m)) : Report(r, m, msgs) /\ Walk(msgs, a, z, TellsIn(OutMsgs(m), m))
Turned(r, m, t, prepared, n) ==
  /\ \E p : ProcessIs(r, m, p) /\ p.rest = t /\ p.prepared = prepared /\ p.round = n
  /\ Speaks(r, m, Turns(module[r][m]), TurnsOf(prepared, n))
Follows(r, m, q, later) ==
  \A z : Walk(queue[r][m], Later(module[r][m], m), z, BeginsIn(QueueMsgs(m), m))
           => Walk(q, later, z, BeginsIn(QueueMsgs(m), m))

(* The state of one process is replaced.                                   *)
LEMMA ProcessReplaced ==
  ASSUME ProcessesOK, NEW r \in Ranks, NEW m \in Modules, NEW p, ProcessIs(r, m, p)
  PROVE  /\ module'[r][m] = p
         /\ \A q \in Ranks, n \in Modules : <<q, n>> # <<r, m>> => module'[q][n] = module[q][n]
<1>1. module \in [Ranks -> ProcFuns]
  BY DEF ProcessesOK
<1>2. PICK f, g : f = module[r] /\ g = [module[r] EXCEPT ![m] = p]
  OBVIOUS
<1>3. f \in [Modules -> UNION {Processes(n) : n \in Modules}]
  BY <1>1, <1>2 DEF ProcFuns
<1>4. g[m] = p /\ \A n \in Modules : n # m => g[n] = f[n]
  BY <1>2, <1>3
<1>5. module' = [module EXCEPT ![r] = g]
  BY <1>2 DEF ProcessIs
<1>6. module'[r] = g /\ \A q \in Ranks : q # r => module'[q] = module[q]
  BY <1>1, <1>5
<1> QED BY <1>2, <1>4, <1>6

(* A stage keeps count if the orders that are left lead from its turns to  *)
(* those of its manager.                                                   *)
LEMMA TurnedCounts ==
  ASSUME Steering, IInv, IInv', CountsOK, NEW r \in Ranks, NEW m \in Modules,
         NEW t, NEW prepared, NEW n, Turned(r, m, t, prepared, n),
         NEW q \in Seq(QueueMsgs(m)), QueueIs(r, m, q), Follows(r, m, q, LaterOf(t, prepared, n, m)),
         UNCHANGED <<manager, master, up, down, executed>>
  PROVE  CountsOK'
<1>1. ProcessesOK /\ ChannelsOK
  BY DEF IInv
<1>2. PICK p : ProcessIs(r, m, p) /\ p.rest = t /\ p.prepared = prepared /\ p.round = n
  BY DEF Turned
<1>3. PICK msgs \in Seq(OutMsgs(m)) :
        /\ Report(r, m, msgs)
        /\ Walk(msgs, Turns(module[r][m]), TurnsOf(prepared, n), TellsIn(OutMsgs(m), m))
  BY DEF Turned, Speaks
<1>4. /\ module'[r][m] = p
      /\ \A k \in Ranks, e \in Modules : <<k, e>> # <<r, m>> => module'[k][e] = module[k][e]
  BY <1>1, <1>2, ProcessReplaced
<1>5. TurnsOf(prepared, n) = Turns(p) /\ LaterOf(t, prepared, n, m) = Later(p, m)
  BY <1>2 DEF TurnsOf, LaterOf, Turns, Later, After
<1>6. /\ queue'[r][m] = q
      /\ \A k \in Ranks, e \in Modules : <<k, e>> # <<r, m>> => queue'[k][e] = queue[k][e]
  BY <1>1, QueueUpdate
<1>7. PICK y : y = out[r][m] \o msgs
  OBVIOUS
<1>8. out[r][m] \in Seq(OutMsgs(m))
  BY <1>1 DEF ChannelsOK, OutFuns, Outs
<1>9. y \in Seq(OutMsgs(m)) /\ Becomes(r, m, y)
  <2>1. y \in Seq(OutMsgs(m))
    BY <1>7, <1>8, ConcatProperties
  <2> QED BY <1>3, <1>7, <2>1 DEF Report, Becomes
<1>10. /\ out'[r][m] = y
       /\ \A k \in Ranks, e \in Modules : <<k, e>> # <<r, m>> => out'[k][e] = out[k][e]
  BY ONLY <1>1, <1>9, r \in Ranks, m \in Modules, OutIs
<1>11. up' = up /\ down' = down
       /\ UNCHANGED <<ranksStarted, ranksFinished, objectCount, numReset, numFinish, done>>
  BY DEF master
<1>12. PICK told, mid, mgr, fin, ex, starts, ends, base :
         Numbered(told, mid, mgr, fin, ex, starts, ends, base)
  BY DEF CountsOK
<1>13. /\ told \in Numbers /\ mid \in Numbers /\ mgr \in Numbers /\ fin \in Numbers /\ ex \in Who
       /\ starts \in Amounts /\ ends \in Amounts /\ base \in Amounts
       /\ Sent(told, mid) /\ Ordered(mgr, starts, ends) /\ Counting(told, fin, ex)
       /\ Counted(starts, ends) /\ Epoch(fin, ex, base) /\ Once(starts, base)
  BY <1>12 DEF Numbered
<1>14. ASSUME NEW k \in Ranks, NEW e \in Modules
       PROVE  Walk(out'[k][e], mid[k][e], Turns(module'[k][e]), TellsIn(OutMsgs(e), e))
  <2>1. CASE <<k, e>> = <<r, m>>
    <3>1. Walk(out[r][m], mid[r][m], Turns(module[r][m]), TellsIn(OutMsgs(m), m))
      BY <1>13 DEF Sent
    <3>2. PICK a, b, c, w, R : /\ a = mid[r][m] /\ b = Turns(module[r][m]) /\ c = Turns(p)
                               /\ w = out[r][m] /\ R = TellsIn(OutMsgs(m), m)
      OBVIOUS
    <3>3. Walk(w, a, b, R) /\ Walk(msgs, b, c, R) /\ w \in Seq(OutMsgs(m))
      BY <1>3, <1>5, <1>8, <3>1, <3>2
    <3>4. Walk(w \o msgs, a, c, R)
      BY ONLY <3>3, msgs \in Seq(OutMsgs(m)), WalkConcat
    <3> QED BY <1>4, <1>7, <1>10, <2>1, <3>2, <3>4
  <2>2. CASE <<k, e>> # <<r, m>>
    <3>1. out'[k][e] = out[k][e] /\ module'[k][e] = module[k][e]
      BY <1>4, <1>10, <2>2
    <3> QED BY <1>13, <3>1 DEF Sent
  <2> QED BY <2>1, <2>2
<1>15. ASSUME NEW k \in Ranks, NEW e \in Modules
       PROVE  Walk(queue'[k][e], Later(module'[k][e], e), mgr[k][e], BeginsIn(QueueMsgs(e), e))
  <2>1. CASE <<k, e>> = <<r, m>>
    <3>1. Walk(queue[r][m], Later(module[r][m], m), mgr[r][m], BeginsIn(QueueMsgs(m), m))
      BY <1>13 DEF Ordered
    <3>2. Walk(q, LaterOf(t, prepared, n, m), mgr[r][m], BeginsIn(QueueMsgs(m), m))
      BY <3>1 DEF Follows
    <3> QED BY <1>4, <1>5, <1>6, <2>1, <3>2
  <2>2. CASE <<k, e>> # <<r, m>>
    <3>1. queue'[k][e] = queue[k][e] /\ module'[k][e] = module[k][e]
      BY <1>4, <1>6, <2>2
    <3> QED BY <1>13, <3>1 DEF Ordered
  <2> QED BY <2>1, <2>2
<1>16. Sent(told, mid)'
  BY <1>11, <1>13, <1>14 DEF Sent
<1>17. Ordered(mgr, starts, ends)'
  BY <1>11, <1>13, <1>15 DEF Ordered
<1>18. Counted(starts, ends)' /\ Epoch(fin, ex, base)'
  BY <1>11, <1>13, CountedStays
<1>19. Numbered(told, mid, mgr, fin, ex, starts, ends, base)'
  BY <1>13, <1>16, <1>17, <1>18 DEF Numbered
<1> QED BY <1>19, CountsNext

(* A report of one turn.                                                   *)
LEMMA ReportTells ==
  ASSUME NEW m \in Modules, NEW type \in {"Start", "Finish"}, NEW k \in Nat
  PROVE  LET a == 2 * k + (IF type = "Start" THEN 0 ELSE 1)
         IN  /\ <<[type |-> type, module |-> m]>> \in Seq(OutMsgs(m))
             /\ Walk(<<[type |-> type, module |-> m]>>, a, a + 1, TellsIn(OutMsgs(m), m))
<1>1. PICK x : x = [type |-> type, module |-> m]
  OBVIOUS
<1>2. x \in OutMsgs(m) /\ x.type = type /\ x.module = m /\ x.type # "Object"
  BY <1>1 DEF OutMsgs, Reports
<1>3. PICK a \in Nat : a = 2 * k + (IF type = "Start" THEN 0 ELSE 1)
  OBVIOUS
<1>4. Tells(a, x, a + 1, m)
  BY <1>2, <1>3 DEF Tells
<1>5. <<a, x, a + 1>> \in TellsIn(OutMsgs(m), m)
  BY <1>2, <1>4, TellsIff
<1>6. Walk(<<x>>, a, a + 1, TellsIn(OutMsgs(m), m))
  BY <1>5, WalkOne
<1>7. <<x>> \in Seq(OutMsgs(m))
  BY <1>2
<1> QED BY <1>1, <1>3, <1>6, <1>7

(* The objects of an execution, sent in the course of it.                  *)
LEMMA NewObjectsTell ==
  ASSUME NEW m \in Modules, NEW n \in Nat, NEW round \in Nat, NEW a \in Nat, a + 1 = 2 * round
  PROVE  /\ NewObjects(m, n, round) \in Seq(OutMsgs(m))
         /\ Walk(NewObjects(m, n, round), a, a, TellsIn(OutMsgs(m), m))
<1>1. PICK q : q = NewObjects(m, n, round)
  OBVIOUS
<1>2. /\ q \in Seq(OutMsgs(m))
      /\ \A R : \A b \in Nat : (\A x \in OutMsgs(m) : x.type = "Object" /\ x.round = round => <<b, x, b>> \in R)
                           => Walk(q, b, b, R)
  BY <1>1, NewObjectsStay
<1>3. ASSUME NEW x \in OutMsgs(m), x.type = "Object", x.round = round PROVE <<a, x, a>> \in TellsIn(OutMsgs(m), m)
  <2>1. Tells(a, x, a, m)
    BY <1>3 DEF Tells
  <2> QED BY <2>1, TellsIff
<1> QED BY <1>1, <1>2, <1>3

(* prepareWrapper begins the next execution.                               *)
LEMMA StartTurns ==
  ASSUME ProcessesOK, NEW r \in Ranks, NEW m \in Modules, NEW t \in Rests(m), ~module[r][m].prepared,
         Start(r, m, [module[r][m] EXCEPT !.rest = t])
  PROVE  Turned(r, m, t, TRUE, module[r][m].round + 1)
<1>1. PICK p0, p : p0 = module[r][m] /\ p = [p0 EXCEPT !.rest = t]
  OBVIOUS
<1>2. p0 \in Processes(m) /\ ~p0.prepared
  BY <1>1, ProcessFacts
<1>3. PICK k \in Nat : k = p0.round
  BY <1>2 DEF Processes
<1>4. p \in Processes(m) /\ p.rest = t /\ p.round = k
  BY <1>1, <1>2, <1>3, ProcessEdit
<1>5. PICK p2 : p2 = [p EXCEPT !.prepared = TRUE, !.reduced = FALSE, !.withOutput = FALSE, !.round = @ + 1]
  OBVIOUS
<1>6. p2.rest = t /\ p2.prepared = TRUE /\ p2.round = k + 1
  BY <1>4, <1>5 DEF Processes
<1>7. PICK msgs : msgs = <<[type |-> "Start", module |-> m]>>
  OBVIOUS
<1>8. ProcessIs(r, m, p2) /\ Report(r, m, msgs)
  BY <1>1, <1>5, <1>7 DEF Start, ProcessIs
<1>9. msgs \in Seq(OutMsgs(m)) /\ Walk(msgs, 2 * k, 2 * k + 1, TellsIn(OutMsgs(m), m))
  <2>1. "Start" \in {"Start", "Finish"} /\ 2 * k + 0 = 2 * k
    BY <1>3
  <2> QED BY <1>3, <1>7, <2>1, ReportTells
<1>10. Turns(module[r][m]) = 2 * k /\ TurnsOf(TRUE, k + 1) = 2 * k + 1
  <2>1. One(p0.prepared) = 0 /\ One(TRUE) = 1
    BY <1>2 DEF One
  <2>2. Turns(p0) = 2 * k - 0
    BY <1>3, <2>1 DEF Turns
  <2>3. TurnsOf(TRUE, k + 1) = 2 * (k + 1) - 1
    BY <2>1 DEF TurnsOf
  <2>4. 2 * k - 0 = 2 * k /\ 2 * (k + 1) - 1 = 2 * k + 1
    BY ONLY k \in Nat
  <2>5. p0 = module[r][m]
    BY <1>1
  <2> QED BY ONLY <2>2, <2>3, <2>4, <2>5
<1>11. Speaks(r, m, Turns(module[r][m]), TurnsOf(TRUE, k + 1))
  BY <1>8, <1>9, <1>10 DEF Speaks
<1> QED BY <1>1, <1>3, <1>6, <1>8, <1>11 DEF Turned

(* A stage that sends objects.                                             *)
LEMMA ObjectsTurns ==
  ASSUME ProcessesOK, NEW r \in Ranks, NEW m \in Modules, NEW t \in Rests(m), module[r][m].prepared,
         Turns(module[r][m]) \in Nat, NEW n \in Nat, NEW p, ProcessIs(r, m, p),
         p.rest = t, p.prepared = module[r][m].prepared, p.round = module[r][m].round,
         Report(r, m, NewObjects(m, n, module[r][m].round))
  PROVE  Turned(r, m, t, TRUE, module[r][m].round)
<1>1. PICK p0 : p0 = module[r][m]
  OBVIOUS
<1>2. p0 \in Processes(m) /\ p0.prepared = TRUE
  BY <1>1, ProcessFacts
<1>3. PICK k \in Nat : k = p0.round
  BY <1>2 DEF Processes
<1>4. PICK msgs : msgs = NewObjects(m, n, k)
  OBVIOUS
<1>5. PICK a \in Nat : a = Turns(p0)
  BY <1>1
<1>6. a = 2 * k - 1 /\ TurnsOf(TRUE, k) = a
  BY <1>2, <1>3, <1>5 DEF Turns, TurnsOf, One
<1>7. a + 1 = 2 * k
  BY <1>6
<1>8. msgs \in Seq(OutMsgs(m)) /\ Walk(msgs, a, a, TellsIn(OutMsgs(m), m))
  BY <1>4, <1>7, NewObjectsTell
<1>9. Speaks(r, m, Turns(module[r][m]), TurnsOf(TRUE, k))
  BY <1>1, <1>3, <1>4, <1>5, <1>6, <1>8 DEF Speaks
<1>10. p.rest = t /\ p.prepared = TRUE /\ p.round = k
  BY <1>1, <1>2, <1>3
<1> QED BY <1>1, <1>3, <1>9, <1>10 DEF Turned

(* prepare of a source.                                                    *)
LEMMA ProduceTurns ==
  ASSUME ProcessesOK, NEW r \in Ranks, NEW m \in Modules, NEW t \in Rests(m), module[r][m].prepared,
         Turns(module[r][m]) \in Nat, Produce(r, m, [module[r][m] EXCEPT !.rest = t])
  PROVE  Turned(r, m, t, TRUE, module[r][m].round)
<1>1. PICK p0, p : p0 = module[r][m] /\ p = [p0 EXCEPT !.rest = t]
  OBVIOUS
<1>2. p0 \in Processes(m)
  BY <1>1, ProcessFacts
<1>3. p \in Processes(m) /\ p.rest = t /\ p.prepared = p0.prepared /\ p.round = p0.round
  BY <1>1, <1>2, ProcessEdit
<1>4. PICK p2 : p2 = [p EXCEPT !.withOutput = @ \/ Produces[m][r] > 0]
  OBVIOUS
<1>5. p2.rest = t /\ p2.prepared = p0.prepared /\ p2.round = p0.round
  BY <1>3, <1>4 DEF Processes
<1>6. Produces[m][r] \in Nat
  BY ExecutionAssumption
<1>7. ProcessIs(r, m, p2) /\ Report(r, m, NewObjects(m, Produces[m][r], module[r][m].round))
  BY <1>1, <1>3, <1>4 DEF Produce, ProcessIs
<1> QED BY <1>1, <1>5, <1>6, <1>7, ObjectsTurns

(* compute.                                                                *)
LEMMA ComputeTurns ==
  ASSUME ProcessesOK, NEW r \in Ranks, NEW m \in Modules, NEW t \in Rests(m), module[r][m].prepared,
         Turns(module[r][m]) \in Nat, Compute(r, m, [module[r][m] EXCEPT !.rest = t])
  PROVE  Turned(r, m, t, TRUE, module[r][m].round)
<1>1. PICK p0, p : p0 = module[r][m] /\ p = [p0 EXCEPT !.rest = t]
  OBVIOUS
<1>2. p0 \in Processes(m)
  BY <1>1, ProcessFacts
<1>3. p \in Processes(m) /\ p.rest = t /\ p.prepared = p0.prepared /\ p.round = p0.round
  BY <1>1, <1>2, ProcessEdit
<1>4. PICK made \in Nat : /\ ProcessIs(r, m, [p EXCEPT !.withOutput = @ \/ made > 0])
                          /\ Report(r, m, NewObjects(m, made, p.round))
  <2>1. PICK n \in Results :
          LET made == IF \E i \in ComputeInputs[m] : objects[r][i] = <<>> THEN 0 ELSE n
          IN  /\ module' = [module EXCEPT ![r][m] = [p EXCEPT !.withOutput = @ \/ made > 0]]
              /\ Report(r, m, NewObjects(m, made, p.round))
    BY <1>1 DEF Compute
  <2>2. PICK made : made = IF \E i \in ComputeInputs[m] : objects[r][i] = <<>> THEN 0 ELSE n
    OBVIOUS
  <2>3. made \in Nat
    BY <2>2, ExecutionAssumption
  <2> QED BY <2>1, <2>2, <2>3 DEF ProcessIs
<1>5. PICK p2 : p2 = [p EXCEPT !.withOutput = @ \/ made > 0]
  OBVIOUS
<1>6. p2.rest = t /\ p2.prepared = p0.prepared /\ p2.round = p0.round
  BY <1>3, <1>5 DEF Processes
<1>7. ProcessIs(r, m, p2) /\ Report(r, m, NewObjects(m, made, module[r][m].round))
  BY <1>1, <1>3, <1>4, <1>5
<1> QED BY <1>1, <1>6, <1>7, ObjectsTurns

(* reduceWrapper ends the execution.                                       *)
LEMMA FinishTurns ==
  ASSUME ProcessesOK, NEW r \in Ranks, NEW m \in Modules, NEW t \in Rests(m), module[r][m].prepared,
         Turns(module[r][m]) \in Nat, Finish(r, m, [module[r][m] EXCEPT !.rest = t])
  PROVE  Turned(r, m, t, FALSE, module[r][m].round)
<1>1. PICK p0, p : p0 = module[r][m] /\ p = [p0 EXCEPT !.rest = t]
  OBVIOUS
<1>2. p0 \in Processes(m) /\ p0.prepared = TRUE
  BY <1>1, ProcessFacts
<1>3. PICK k \in Nat : k = p0.round
  BY <1>2 DEF Processes
<1>4. p \in Processes(m) /\ p.rest = t /\ p.round = k
  BY <1>1, <1>2, <1>3, ProcessEdit
<1>5. PICK p2 : p2 = [p EXCEPT !.prepared = FALSE, !.reduced = TRUE]
  OBVIOUS
<1>6. p2.rest = t /\ p2.prepared = FALSE /\ p2.round = k
  BY <1>4, <1>5 DEF Processes
<1>7. PICK n \in Nat : n = IF p.withOutput THEN 0 ELSE 1
  OBVIOUS
<1>8. PICK new, last : new = NewObjects(m, n, k) /\ last = <<[type |-> "Finish", module |-> m]>>
  OBVIOUS
<1>9. PICK msgs : msgs = new \o last
  OBVIOUS
<1>10. ProcessIs(r, m, p2) /\ Report(r, m, msgs)
  BY <1>1, <1>4, <1>5, <1>7, <1>8, <1>9 DEF Finish, ProcessIs
<1>11. PICK a \in Nat : a = Turns(p0)
  BY <1>1
<1>12. a = 2 * k - 1 /\ TurnsOf(FALSE, k) = 2 * k
  <2>1. One(p0.prepared) = 1 /\ One(FALSE) = 0
    BY <1>2 DEF One
  <2>2. TurnsOf(FALSE, k) = 2 * k - 0
    BY <2>1 DEF TurnsOf
  <2>3. Turns(p0) = 2 * k - 1
    BY <1>3, <2>1 DEF Turns
  <2>4. 2 * k - 0 = 2 * k
    BY ONLY k \in Nat
  <2> QED BY ONLY <1>11, <2>2, <2>3, <2>4
<1>13. PICK j \in Nat : k = j + 1
  <2>1. k - 1 \in Nat /\ k = (k - 1) + 1
    BY ONLY <1>12, k \in Nat, a \in Nat
  <2> QED BY <2>1
<1>14. a + 1 = 2 * k /\ a = 2 * j + 1 /\ TurnsOf(FALSE, k) = a + 1
  <2>1. a = 2 * k - 1 /\ k = j + 1
    BY <1>12, <1>13
  <2>2. a + 1 = 2 * k
    BY ONLY <2>1, k \in Nat, a \in Nat
  <2>3. a = 2 * j + 1
    BY ONLY <2>1, k \in Nat, a \in Nat, j \in Nat
  <2> QED BY <1>12, <2>2, <2>3
<1>15. new \in Seq(OutMsgs(m)) /\ Walk(new, a, a, TellsIn(OutMsgs(m), m))
  BY <1>8, <1>14, NewObjectsTell
<1>16. last \in Seq(OutMsgs(m)) /\ Walk(last, a, a + 1, TellsIn(OutMsgs(m), m))
  <2>1. "Finish" \in {"Start", "Finish"} /\ "Finish" # "Start"
    OBVIOUS
  <2> QED BY <1>8, <1>14, <2>1, ReportTells
<1>17. msgs \in Seq(OutMsgs(m)) /\ Walk(msgs, a, a + 1, TellsIn(OutMsgs(m), m))
  <2>1. new \o last \in Seq(OutMsgs(m))
    BY <1>15, <1>16, ConcatProperties
  <2>2. PICK b : b = a + 1
    OBVIOUS
  <2>3. Walk(new \o last, a, b, TellsIn(OutMsgs(m), m))
    BY <1>15, <1>16, <2>2, WalkConcat
  <2> QED BY <1>9, <2>1, <2>2, <2>3
<1>18. Speaks(r, m, Turns(module[r][m]), TurnsOf(FALSE, k))
  BY <1>1, <1>10, <1>11, <1>14, <1>17 DEF Speaks
<1> QED BY <1>1, <1>3, <1>6, <1>10, <1>18 DEF Turned

(* A process comes to an operation that all ranks take part in.            *)
LEMMA SyncTurns ==
  ASSUME ProcessesOK, ChannelsOK, NEW r \in Ranks, NEW m \in Modules, NEW t \in Rests(m),
         Turns(module[r][m]) \in Nat, module' = [module EXCEPT ![r][m].rest = t], out' = out
  PROVE  Turned(r, m, t, module[r][m].prepared, module[r][m].round)
<1>1. PICK p0, p : p0 = module[r][m] /\ p = [p0 EXCEPT !.rest = t]
  OBVIOUS
<1>2. p0 \in Processes(m)
  BY <1>1, ProcessFacts
<1>3. p.rest = t /\ p.prepared = p0.prepared /\ p.round = p0.round
  BY <1>1, <1>2, ProcessEdit
<1>4. ProcessIs(r, m, p)
  BY <1>1 DEF ProcessIs
<1>5. Report(r, m, <<>>) /\ <<>> \in Seq(OutMsgs(m))
  BY NothingSent
<1>6. PICK a \in Nat : a = Turns(p0)
  BY <1>1
<1>7. TurnsOf(p0.prepared, p0.round) = a
  BY <1>6 DEF TurnsOf, Turns
<1>8. Walk(<<>>, a, a, TellsIn(OutMsgs(m), m))
  BY WalkEmpty
<1>9. Speaks(r, m, Turns(module[r][m]), TurnsOf(p0.prepared, p0.round))
  BY <1>1, <1>5, <1>6, <1>7, <1>8 DEF Speaks
<1> QED BY <1>1, <1>3, <1>4, <1>9 DEF Turned

(* A process that only takes a message.                                    *)
LEMMA StayTurns ==
  ASSUME ProcessesOK, ChannelsOK, NEW r \in Ranks, NEW m \in Modules, Turns(module[r][m]) \in Nat,
         UNCHANGED <<module, out>>
  PROVE  Turned(r, m, module[r][m].rest, module[r][m].prepared, module[r][m].round)
<1>1. module \in [Ranks -> ProcFuns]
  BY DEF ProcessesOK
<1>2. PICK f, p, t : f = module[r] /\ p = f[m] /\ t = p.rest
  OBVIOUS
<1>3. f \in [Modules -> UNION {Processes(n) : n \in Modules}] /\ p \in Processes(m) /\ t \in Rests(m)
  BY <1>1, <1>2 DEF ProcFuns, ProcOK, Processes
<1>4. [p EXCEPT !.rest = t] = p
  BY <1>2, <1>3 DEF Processes
<1>5. [f EXCEPT ![m] = p] = f
  BY <1>2, <1>3
<1>6. [module EXCEPT ![r] = f] = module
  BY <1>1, <1>2
<1>7. module' = [module EXCEPT ![r][m].rest = t]
  BY <1>2, <1>4, <1>5, <1>6
<1> QED BY <1>2, <1>3, <1>7, SyncTurns

(* A process has taken no negative number of turns.                        *)
LEMMA TurnsNat ==
  ASSUME ProcessesOK, ChannelsOK, CountsOK, NEW r \in Ranks, NEW m \in Modules
  PROVE  Turns(module[r][m]) \in Nat /\ Later(module[r][m], m) \in Nat
<1>1. PICK told, mid, mgr, fin, ex, starts, ends, base :
        Numbered(told, mid, mgr, fin, ex, starts, ends, base)
  BY DEF CountsOK
<1>2. Sent(told, mid) /\ Ordered(mgr, starts, ends)
  BY <1>1 DEF Numbered
<1> QED BY <1>2, InOrder

(* The orders that are left when a process has taken the first message of  *)
(* its queue.                                                              *)
LEMMA FollowsTail ==
  ASSUME ChannelsOK, NEW r \in Ranks, NEW m \in Modules, queue[r][m] # <<>>, NEW later,
         \A b : Begins(Later(module[r][m], m), Head(queue[r][m]), b, m) => b = later
  PROVE  Follows(r, m, Tail(queue[r][m]), later)
<1>1. PICK q, a : q = queue[r][m] /\ a = Later(module[r][m], m)
  OBVIOUS
<1>2. q \in Seq(QueueMsgs(m)) /\ q # <<>>
  BY <1>1 DEF ChannelsOK, QueueFuns, Queues
<1>3. ASSUME NEW z, Walk(q, a, z, BeginsIn(QueueMsgs(m), m))
      PROVE  Walk(Tail(q), later, z, BeginsIn(QueueMsgs(m), m))
  <2>1. PICK b \in Nat : <<a, Head(q), b>> \in BeginsIn(QueueMsgs(m), m) /\ Walk(Tail(q), b, z, BeginsIn(QueueMsgs(m), m))
    BY <1>2, <1>3, WalkHead
  <2>2. Begins(a, Head(q), b, m)
    BY <2>1, BeginsIff
  <2>3. b = later
    BY <1>1, <2>2
  <2> QED BY <2>1, <2>3
<1> QED BY <1>1, <1>3 DEF Follows

(* What a process will have turned when it is done with what is left.      *)
LEMMA LaterFacts ==
  ASSUME ProcessesOK, NEW r \in Ranks, NEW m \in Modules
  PROVE  LET p == module[r][m]
         IN  /\ Later(p, m) = LaterOf(p.rest, p.prepared, p.round, m)
             /\ \A n \in Nat : \A t :
                  /\ m \notin Fed \/ t \in Closing => \A b : LaterOf(t, b, n, m) = 2 * n
                  /\ LaterOf(t, FALSE, n, m) = 2 * n
                  /\ m \in Fed /\ t \notin Closing => LaterOf(t, TRUE, n, m) = 2 * n - 1
<1>1. Later(module[r][m], m) = LaterOf(module[r][m].rest, module[r][m].prepared, module[r][m].round, m)
  BY DEF Later, LaterOf, After
<1>2. One(TRUE) = 1 /\ One(FALSE) = 0
  BY DEF One
<1>3. ASSUME NEW n \in Nat, NEW t
      PROVE  /\ m \notin Fed \/ t \in Closing => \A b : LaterOf(t, b, n, m) = 2 * n
             /\ LaterOf(t, FALSE, n, m) = 2 * n
             /\ m \in Fed /\ t \notin Closing => LaterOf(t, TRUE, n, m) = 2 * n - 1
  <2>1. 2 * n - 0 = 2 * n
    OBVIOUS
  <2>2. m \notin Fed \/ t \in Closing => \A b : LaterOf(t, b, n, m) = 2 * n
    BY <2>1 DEF LaterOf
  <2>3. LaterOf(t, FALSE, n, m) = 2 * n
    BY <1>2, <2>1 DEF LaterOf
  <2>4. m \in Fed /\ t \notin Closing => LaterOf(t, TRUE, n, m) = 2 * n - 1
    BY <1>2 DEF LaterOf
  <2> QED BY <2>2, <2>3, <2>4
<1> QED BY <1>1, <1>3

(* A process goes on.                                                      *)
LEMMA StageCounts ==
  ASSUME Steering, IInv, IInv', CountsOK, NEW r \in Ranks, NEW m \in Modules, Stage(r, m)
  PROVE  CountsOK'
<1>1. ProcessesOK /\ ChannelsOK
  BY DEF IInv
<1>2. PICK p, stages, q : p = module[r][m] /\ stages = module[r][m].rest /\ q = queue[r][m]
  OBVIOUS
<1>3. /\ stages # <<>> /\ Head(stages) # "Sync" /\ Go(r, m, stages)
      /\ UNCHANGED <<manager, master, queue, up, down, executed>>
  BY <1>2 DEF Stage
<1>4. ProcOK(p, m) /\ stages \in Rests(m) /\ p.rest = stages
  BY <1>1, <1>2, ProcessFacts
<1>5. QueueIs(r, m, q) /\ q \in Seq(QueueMsgs(m))
  BY <1>1, <1>2, <1>3, QueueSame
<1>6. PICK n \in Nat : n = p.round
  BY <1>1, <1>2, ProcessFacts
<1>7. Turns(module[r][m]) \in Nat
  BY <1>1, TurnsNat
<1>8. UNCHANGED <<manager, master, up, down, executed>>
  BY <1>3
<1>9. \A t, b : LaterOf(t, b, n, m) = Later(p, m) => Follows(r, m, q, LaterOf(t, b, n, m))
  BY <1>2 DEF Follows
<1>10. stages = <<"Finish">> \/ (m \notin Fed /\ stages = <<"Produce", "Sync", "Finish">>)
  BY <1>3, <1>4, StagesLeft DEF Rests, FedRests, SourceRests
<1>11. m \notin Fed \/ stages \in Closing => Later(p, m) = 2 * n
  <2>1. Later(p, m) = LaterOf(stages, p.prepared, n, m)
    BY <1>1, <1>2, <1>6, LaterFacts
  <2>2. m \notin Fed \/ stages \in Closing => LaterOf(stages, p.prepared, n, m) = 2 * n
    BY <1>1, LaterFacts
  <2> QED BY <2>1, <2>2
<1>12. CASE stages = <<"Finish">>
  <2>1. Tail(stages) = <<>> /\ Head(stages) = "Finish"
    BY <1>12, StagesLeft
  <2>2. p.prepared /\ stages \in Closing
    BY <1>3, <1>4, <1>12 DEF ProcOK, Closing
  <2>3. Finish(r, m, [module[r][m] EXCEPT !.rest = <<>>])
    BY <1>3, <2>1 DEF Go
  <2>4. <<>> \in Rests(m)
    BY DEF Rests, FedRests, SourceRests
  <2>5. Turned(r, m, <<>>, FALSE, n)
    BY <1>1, <1>2, <1>6, <1>7, <2>2, <2>3, <2>4, FinishTurns
  <2>6. LaterOf(<<>>, FALSE, n, m) = 2 * n
    BY <1>1, LaterFacts
  <2>7. Follows(r, m, q, LaterOf(<<>>, FALSE, n, m))
    BY <1>9, <1>11, <2>2, <2>6
  <2> QED BY <1>5, <1>8, <2>5, <2>7, TurnedCounts
<1>13. CASE m \notin Fed /\ stages = <<"Produce", "Sync", "Finish">>
  <2>1. Tail(stages) = <<"Sync", "Finish">> /\ Head(stages) = "Produce"
    BY <1>13, StagesLeft
  <2>2. PICK t : t = <<"Sync", "Finish">>
    OBVIOUS
  <2>3. t \in Rests(m)
    BY <1>13, <2>2 DEF Rests, SourceRests
  <2>4. Produce(r, m, [module[r][m] EXCEPT !.rest = t])
    BY <1>3, <2>1, <2>2 DEF Go
  <2>5. p.prepared
    BY <1>3, <1>4, <1>13 DEF ProcOK
  <2>6. Turned(r, m, t, TRUE, n)
    BY <1>1, <1>2, <1>6, <1>7, <2>3, <2>4, <2>5, ProduceTurns
  <2>7. LaterOf(t, TRUE, n, m) = 2 * n
    BY <1>1, <1>13, LaterFacts
  <2>8. Follows(r, m, q, LaterOf(t, TRUE, n, m))
    BY <1>9, <1>11, <1>13, <2>7
  <2> QED BY <1>5, <1>8, <2>6, <2>8, TurnedCounts
<1> QED BY <1>10, <1>12, <1>13

(* A process gets an object.                                               *)
LEMMA ReceiveObjectCounts ==
  ASSUME Steering, IInv, IInv', CountsOK, NEW r \in Ranks, NEW m \in Modules, Receive(r, m),
         Head(queue[r][m]).type = "AddObject"
  PROVE  CountsOK'
<1>1. ProcessesOK /\ ChannelsOK /\ LocalOK
  BY DEF IInv
<1>2. PICK x, q, p : x = Head(queue[r][m]) /\ q = Tail(queue[r][m]) /\ p = module[r][m]
  OBVIOUS
<1>3. /\ p.rest = <<>> /\ queue[r][m] # <<>> /\ queue' = [queue EXCEPT ![r][m] = Tail(@)]
      /\ UNCHANGED <<module, out>> /\ UNCHANGED <<manager, master, up, down, executed>>
  BY <1>2 DEF Receive
<1>4. q \in Seq(QueueMsgs(m)) /\ QueueIs(r, m, q)
  BY <1>1, <1>2, <1>3, QueueHead
<1>5. Turned(r, m, p.rest, p.prepared, p.round)
  <2>1. Turns(module[r][m]) \in Nat
    BY <1>1, TurnsNat
  <2>2. UNCHANGED <<module, out>>
    BY <1>3
  <2>3. Turned(r, m, module[r][m].rest, module[r][m].prepared, module[r][m].round)
    BY ONLY <1>1, <2>1, <2>2, r \in Ranks, m \in Modules, StayTurns
  <2> QED BY <1>2, <2>3
<1>6. Follows(r, m, q, LaterOf(p.rest, p.prepared, p.round, m))
  <2>1. PICK later : later = Later(p, m)
    OBVIOUS
  <2>2. \A b : Begins(later, x, b, m) => b = later
    BY <1>2 DEF Begins
  <2>3. Follows(r, m, q, later)
    BY <1>1, <1>2, <1>3, <2>1, <2>2, FollowsTail
  <2>4. later = LaterOf(p.rest, p.prepared, p.round, m)
    BY <1>1, <1>2, <2>1, LaterFacts
  <2> QED BY <2>3, <2>4
<1>7. UNCHANGED <<manager, master, up, down, executed>>
  BY <1>3
<1> QED BY <1>4, <1>5, <1>6, <1>7, TurnedCounts

(* A source is told to execute.                                            *)
LEMMA ReceiveSourceCounts ==
  ASSUME Steering, IInv, IInv', CountsOK, NEW r \in Ranks, NEW m \in Modules, Receive(r, m),
         Head(queue[r][m]).type # "AddObject", m \notin Fed
  PROVE  CountsOK'
<1>1. ProcessesOK /\ ChannelsOK /\ LocalOK
  BY DEF IInv
<1>2. PICK x, q, p : x = Head(queue[r][m]) /\ q = Tail(queue[r][m]) /\ p = module[r][m]
  OBVIOUS
<1>3. /\ p.rest = <<>> /\ queue[r][m] # <<>> /\ queue' = [queue EXCEPT ![r][m] = Tail(@)]
      /\ SchedulingPolicy[m] = "Ignore" => UNCHANGED <<process, out>>
      /\ SchedulingPolicy[m] # "Ignore" => Go(r, m, Stages(x.type, m))
      /\ UNCHANGED <<manager, master, up, down, executed>>
  BY <1>2 DEF Receive
<1>4. x \in QueueMsgs(m) /\ q \in Seq(QueueMsgs(m)) /\ QueueIs(r, m, q)
  BY <1>1, <1>2, <1>3, QueueHead
<1>5. x.type = "ComputeExecute" /\ x.module = m
  BY <1>2, <1>4, QueueMsgFacts
<1>6. ~p.prepared
  <2>1. ProcOK(p, m)
    BY <1>1, <1>2, ProcessFacts
  <2> QED BY <1>3, <2>1 DEF ProcOK
<1>7. UNCHANGED <<manager, master, up, down, executed>>
  BY <1>3
<1>8. Turns(module[r][m]) \in Nat
  BY <1>1, TurnsNat
<1>9. PICK n \in Nat : n = p.round
  BY <1>1, <1>2, ProcessFacts
<1>10. PICK later : later = Later(p, m)
  OBVIOUS
<1>11. later = LaterOf(p.rest, p.prepared, n, m) /\ later = 2 * n
  <2>1. later = LaterOf(p.rest, p.prepared, n, m)
    BY <1>1, <1>2, <1>9, <1>10, LaterFacts
  <2>2. LaterOf(p.rest, p.prepared, n, m) = 2 * n
    BY <1>1, LaterFacts
  <2> QED BY <2>1, <2>2
<1>12. CASE SchedulingPolicy[m] = "Ignore"
  <2>1. UNCHANGED <<module, out>>
    BY <1>3, <1>12 DEF process
  <2>2. Turned(r, m, module[r][m].rest, module[r][m].prepared, module[r][m].round)
    BY ONLY <1>1, <1>8, <2>1, r \in Ranks, m \in Modules, StayTurns
  <2>3. \A b : Begins(later, x, b, m) => b = later
    BY <1>5, <1>12 DEF Begins
  <2>4. Follows(r, m, q, later)
    BY <1>1, <1>2, <1>3, <1>10, <2>3, FollowsTail
  <2>5. Turned(r, m, p.rest, p.prepared, n) /\ Follows(r, m, q, LaterOf(p.rest, p.prepared, n, m))
    BY <1>2, <1>9, <1>11, <2>2, <2>4
  <2> QED BY <1>4, <1>7, <2>5, TurnedCounts
<1>13. CASE SchedulingPolicy[m] # "Ignore"
  <2>1. PICK stages : stages = Stages(x.type, m)
    OBVIOUS
  <2>2. stages \in {<<"Start", "Produce", "Sync", "Finish">>, <<"Start", "Sync", "Produce", "Sync", "Finish">>}
    BY <1>5, <2>1, StagesFacts
  <2>3. PICK t : t = Tail(stages)
    OBVIOUS
  <2>4. Head(stages) = "Start" /\ t \in Rests(m)
    <3>1. /\ <<"Produce", "Sync", "Finish">> \in Rests(m)
          /\ <<"Sync", "Produce", "Sync", "Finish">> \in Rests(m)
      BY DEF Rests, SourceRests
    <3>2. CASE stages = <<"Start", "Produce", "Sync", "Finish">>
      BY <2>3, <3>1, <3>2
    <3>3. CASE stages = <<"Start", "Sync", "Produce", "Sync", "Finish">>
      BY <2>3, <3>1, <3>3
    <3> QED BY <2>2, <3>2, <3>3
  <2>5. Start(r, m, [module[r][m] EXCEPT !.rest = t])
    BY <1>3, <1>13, <2>1, <2>3, <2>4 DEF Go
  <2>6. Turned(r, m, t, TRUE, n + 1)
    BY <1>1, <1>2, <1>6, <1>9, <2>4, <2>5, StartTurns
  <2>7. \A b : Begins(later, x, b, m) => b = later + 2
    BY <1>5, <1>13 DEF Begins
  <2>8. PICK k : k = later + 2
    OBVIOUS
  <2>9. Follows(r, m, q, k)
    BY <1>1, <1>2, <1>3, <1>10, <2>7, <2>8, FollowsTail
  <2>10. LaterOf(t, TRUE, n + 1, m) = k
    <3>1. n + 1 \in Nat /\ 2 * (n + 1) = 2 * n + 2
      BY ONLY n \in Nat
    <3>2. LaterOf(t, TRUE, n + 1, m) = 2 * (n + 1)
      BY <1>1, <3>1, LaterFacts
    <3> QED BY ONLY <1>11, <2>8, <3>1, <3>2
  <2>11. Follows(r, m, q, LaterOf(t, TRUE, n + 1, m))
    BY <2>9, <2>10
  <2> QED BY <1>4, <1>7, <2>6, <2>11, TurnedCounts
<1> QED BY <1>12, <1>13

(* A module downstream is told to prepare, to compute, or to reduce.       *)
LEMMA ReceiveOrderCounts ==
  ASSUME Steering, IInv, IInv', CountsOK, NEW r \in Ranks, NEW m \in Modules, Receive(r, m),
         Head(queue[r][m]).type # "AddObject", m \in Fed
  PROVE  CountsOK'
<1>1. ProcessesOK /\ ChannelsOK /\ LocalOK
  BY DEF IInv
<1>2. PICK x, q, p : x = Head(queue[r][m]) /\ q = Tail(queue[r][m]) /\ p = module[r][m]
  OBVIOUS
<1>3. /\ p.rest = <<>> /\ queue[r][m] # <<>> /\ queue' = [queue EXCEPT ![r][m] = Tail(@)]
      /\ Go(r, m, Stages(x.type, m))
      /\ UNCHANGED <<manager, master, up, down, executed>>
  <2>1. SchedulingPolicy[m] # "Ignore"
    BY DEF Steering
  <2> QED BY <1>2, <2>1 DEF Receive
<1>4. /\ x \in QueueMsgs(m) /\ q \in Seq(QueueMsgs(m)) /\ QueueIs(r, m, q)
      /\ \E b \in 0..1 : /\ Moves(One(p.prepared), x, b, m)
                         /\ Walk(q, b, One(mod[r][m].prepared), TurnIn(QueueMsgs(m), m))
  BY <1>1, <1>2, <1>3, QueueHead
<1>5. x.type \in {"Prepare", "Reduce", "ComputeObject"} /\ x.module = m
  BY <1>2, <1>4, QueueMsgFacts
<1>6. PICK b \in 0..1 : Moves(One(p.prepared), x, b, m)
  BY <1>4
<1>7. p.prepared \in BOOLEAN
  BY <1>1, <1>2, ProcessFacts
<1>8. PICK a : a = One(p.prepared)
  OBVIOUS
<1>9. (p.prepared => a = 1) /\ (~p.prepared => a = 0)
  BY <1>8 DEF One
<1>10. /\ x.type = "Prepare" => a = 0
       /\ x.type = "Reduce" => a = 1
       /\ x.type = "ComputeObject" => a = 1
  BY <1>5, <1>6, <1>8 DEF Moves
<1>11. UNCHANGED <<manager, master, up, down, executed>>
  BY <1>3
<1>12. Turns(module[r][m]) \in Nat
  BY <1>1, TurnsNat
<1>13. PICK n \in Nat : n = p.round
  BY <1>1, <1>2, ProcessFacts
<1>14. PICK later : later = Later(p, m)
  OBVIOUS
<1>15. <<>> \notin Closing /\ <<>> \in Rests(m)
  BY DEF Closing, Rests, FedRests, SourceRests
<1>16. later = LaterOf(<<>>, p.prepared, n, m)
  BY <1>1, <1>2, <1>3, <1>13, <1>14, LaterFacts
<1>17. LaterOf(<<>>, FALSE, n, m) = 2 * n /\ LaterOf(<<>>, TRUE, n, m) = 2 * n - 1
  BY <1>1, <1>15, LaterFacts
<1>18. ASSUME NEW k, \A c : Begins(later, x, c, m) => c = k
       PROVE  Follows(r, m, q, k)
  BY <1>1, <1>2, <1>3, <1>14, <1>18, FollowsTail
<1>19. PICK stages, t : stages = Stages(x.type, m) /\ t = Tail(stages)
  OBVIOUS
<1>20. CASE x.type = "Prepare"
  <2>1. stages \in {<<"Start">>, <<"Start", "Sync">>}
    BY <1>19, <1>20, StagesFacts
  <2>2. Head(stages) = "Start" /\ t \in Rests(m) /\ t \notin Closing
    <3>1. <<"Sync">> \in Rests(m) /\ <<"Sync">> \notin Closing
      BY DEF Rests, FedRests, Closing
    <3>2. CASE stages = <<"Start">>
      BY <1>15, <1>19, <3>2
    <3>3. CASE stages = <<"Start", "Sync">>
      BY <1>19, <3>1, <3>3
    <3> QED BY <2>1, <3>2, <3>3
  <2>3. Start(r, m, [module[r][m] EXCEPT !.rest = t])
    BY <1>3, <1>19, <2>2 DEF Go
  <2>4. p.prepared = FALSE
    BY <1>7, <1>9, <1>10, <1>20
  <2>5. Turned(r, m, t, TRUE, n + 1)
    BY <1>1, <1>2, <1>13, <2>2, <2>3, <2>4, StartTurns
  <2>6. n + 1 \in Nat /\ 2 * (n + 1) - 1 = 2 * n + 1
    BY ONLY n \in Nat
  <2>7. LaterOf(t, TRUE, n + 1, m) = 2 * n + 1
    <3>1. LaterOf(t, TRUE, n + 1, m) = 2 * (n + 1) - 1
      BY <1>1, <2>2, <2>6, LaterFacts
    <3> QED BY ONLY <2>6, <3>1
  <2>8. later = 2 * n
    BY <1>16, <1>17, <2>4
  <2>9. \A c : Begins(later, x, c, m) => c = 2 * n + 1
    BY <1>5, <1>20, <2>8 DEF Begins
  <2>10. Follows(r, m, q, LaterOf(t, TRUE, n + 1, m))
    BY <1>18, <2>7, <2>9
  <2> QED BY <1>4, <1>11, <2>5, <2>10, TurnedCounts
<1>21. CASE x.type = "Reduce"
  <2>1. stages \in {<<"Finish">>, <<"Sync", "Finish">>}
    BY <1>19, <1>21, StagesFacts
  <2>2. p.prepared = TRUE
    BY <1>7, <1>9, <1>10, <1>21
  <2>3. later = 2 * n - 1
    BY <1>16, <1>17, <2>2
  <2>4. \A c : Begins(later, x, c, m) => c = 2 * n
    <3>1. (2 * n - 1) + 1 = 2 * n
      BY ONLY n \in Nat
    <3>2. \A c : Begins(later, x, c, m) => c = later + 1
      BY <1>5, <1>21 DEF Begins
    <3> QED BY ONLY <2>3, <3>1, <3>2
  <2>5. Follows(r, m, q, 2 * n)
    BY <1>18, <2>4
  <2>6. CASE stages = <<"Finish">>
    <3>1. Head(stages) = "Finish" /\ t = <<>>
      BY <1>19, <2>6, StagesLeft
    <3>2. Finish(r, m, [module[r][m] EXCEPT !.rest = <<>>])
      BY <1>3, <1>19, <3>1 DEF Go
    <3>3. Turned(r, m, <<>>, FALSE, n)
      BY <1>1, <1>2, <1>12, <1>13, <1>15, <2>2, <3>2, FinishTurns
    <3>4. Follows(r, m, q, LaterOf(<<>>, FALSE, n, m))
      BY <1>17, <2>5
    <3> QED BY <1>4, <1>11, <3>3, <3>4, TurnedCounts
  <2>7. CASE stages = <<"Sync", "Finish">>
    <3>1. Head(stages) = "Sync"
      BY <2>7, StagesLeft
    <3>2. stages \in Rests(m) /\ stages \in Closing
      BY <2>7 DEF Rests, FedRests, Closing
    <3>3. module' = [module EXCEPT ![r][m].rest = stages] /\ out' = out
      BY <1>3, <1>19, <3>1 DEF Go
    <3>4. Turned(r, m, stages, p.prepared, n)
      BY <1>1, <1>2, <1>12, <1>13, <3>2, <3>3, SyncTurns
    <3>5. LaterOf(stages, p.prepared, n, m) = 2 * n
      BY <1>1, <3>2, LaterFacts
    <3>6. Follows(r, m, q, LaterOf(stages, p.prepared, n, m))
      BY <2>5, <3>5
    <3> QED BY <1>4, <1>11, <3>4, <3>6, TurnedCounts
  <2> QED BY <2>1, <2>6, <2>7
<1>22. CASE x.type = "ComputeObject"
  <2>1. Head(stages) = "Compute" /\ t = <<>>
    BY <1>19, <1>22, StagesFacts, StagesBegin
  <2>2. Compute(r, m, [module[r][m] EXCEPT !.rest = <<>>])
    BY <1>3, <1>19, <2>1 DEF Go
  <2>3. p.prepared = TRUE
    BY <1>7, <1>9, <1>10, <1>22
  <2>4. Turned(r, m, <<>>, TRUE, n)
    BY <1>1, <1>2, <1>12, <1>13, <1>15, <2>2, <2>3, ComputeTurns
  <2>5. \A c : Begins(later, x, c, m) => c = later
    BY <1>22 DEF Begins
  <2>6. Follows(r, m, q, LaterOf(<<>>, TRUE, n, m))
    BY <1>16, <1>18, <2>3, <2>5
  <2> QED BY <1>4, <1>11, <2>4, <2>6, TurnedCounts
<1> QED BY <1>5, <1>20, <1>21, <1>22

(* A process handles a message.                                            *)
LEMMA ReceiveCounts ==
  ASSUME Steering, IInv, IInv', CountsOK, NEW r \in Ranks, NEW m \in Modules, Receive(r, m)
  PROVE  CountsOK'
<1>1. CASE Head(queue[r][m]).type = "AddObject"
  BY <1>1, ReceiveObjectCounts
<1>2. CASE Head(queue[r][m]).type # "AddObject" /\ m \notin Fed
  BY <1>2, ReceiveSourceCounts
<1>3. CASE Head(queue[r][m]).type # "AddObject" /\ m \in Fed
  BY <1>3, ReceiveOrderCounts
<1> QED BY <1>1, <1>2, <1>3

(* All ranks of a module go on: none takes a turn.                         *)
LEMMA SyncCounts ==
  ASSUME IInv, CountsOK, NEW m \in Modules, Sync(m)
  PROVE  CountsOK'
<1>1. ProcessesOK
  BY DEF IInv
<1>2. /\ up' = up /\ down' = down /\ queue' = queue /\ out' = out
      /\ UNCHANGED <<ranksStarted, ranksFinished, objectCount, numReset, numFinish, done>>
  BY DEF Sync, master
<1>3. module \in [Ranks -> ProcFuns]
  BY <1>1 DEF ProcessesOK
<1>4. ASSUME NEW r \in Ranks, NEW n \in Modules
      PROVE  Turns(module'[r][n]) = Turns(module[r][n]) /\ Later(module'[r][n], n) = Later(module[r][n], n)
  <2>1. PICK f, g, s : /\ f = module[r] /\ s = [f[m] EXCEPT !.rest = Tail(f[m].rest)]
                       /\ g = [f EXCEPT ![m] = s]
    OBVIOUS
  <2>2. module'[r] = g
    BY <2>1 DEF Sync
  <2>3. /\ f \in [Modules -> UNION {Processes(e) : e \in Modules}]
        /\ \A e \in Modules : ProcOK(f[e], e)
    BY <1>3, <2>1 DEF ProcFuns
  <2>4. f[m].rest # <<>> /\ Head(f[m].rest) = "Sync"
    BY <2>1 DEF Sync
  <2>5. s.prepared = f[m].prepared /\ (m \in Fed => After(s) = After(f[m]))
    BY <2>1, <2>3, <2>4, SyncProcess
  <2>6. s.round = f[m].round
    <3>1. f[m] \in Processes(m)
      BY <2>3 DEF ProcOK
    <3> QED BY <2>1, <3>1 DEF Processes
  <2>7. g[m] = s /\ \A e \in Modules : e # m => g[e] = f[e]
    BY ONLY <2>1, <2>3, m \in Modules
  <2>8. Turns(s) = Turns(f[m]) /\ Later(s, m) = Later(f[m], m)
    BY <2>5, <2>6 DEF Turns, Later
  <2> QED BY <2>1, <2>2, <2>7, <2>8
<1>5. PICK told, mid, mgr, fin, ex, starts, ends, base :
        Numbered(told, mid, mgr, fin, ex, starts, ends, base)
  BY DEF CountsOK
<1>6. /\ told \in Numbers /\ mid \in Numbers /\ mgr \in Numbers /\ fin \in Numbers /\ ex \in Who
      /\ starts \in Amounts /\ ends \in Amounts /\ base \in Amounts
      /\ Sent(told, mid) /\ Ordered(mgr, starts, ends) /\ Counting(told, fin, ex)
      /\ Counted(starts, ends) /\ Epoch(fin, ex, base) /\ Once(starts, base)
  BY <1>5 DEF Numbered
<1>7. Sent(told, mid)'
  BY <1>2, <1>4, <1>6 DEF Sent
<1>8. Ordered(mgr, starts, ends)'
  BY <1>2, <1>4, <1>6 DEF Ordered
<1>9. Counted(starts, ends)' /\ Epoch(fin, ex, base)'
  BY <1>2, <1>6, CountedStays
<1>10. Numbered(told, mid, mgr, fin, ex, starts, ends, base)'
  BY <1>6, <1>7, <1>8, <1>9 DEF Numbered
<1> QED BY <1>10, CountsNext

(* Nothing happens.                                                        *)
LEMMA StutterCounts ==
  ASSUME CountsOK, UNCHANGED vars
  PROVE  CountsOK'
<1>1. /\ up' = up /\ down' = down /\ queue' = queue /\ out' = out /\ module' = module
      /\ UNCHANGED <<ranksStarted, ranksFinished, objectCount, numReset, numFinish, done>>
  BY DEF vars, master, process
<1>2. PICK told, mid, mgr, fin, ex, starts, ends, base :
        Numbered(told, mid, mgr, fin, ex, starts, ends, base)
  BY DEF CountsOK
<1>3. /\ told \in Numbers /\ mid \in Numbers /\ mgr \in Numbers /\ fin \in Numbers /\ ex \in Who
      /\ starts \in Amounts /\ ends \in Amounts /\ base \in Amounts
      /\ Sent(told, mid) /\ Ordered(mgr, starts, ends) /\ Counting(told, fin, ex)
      /\ Counted(starts, ends) /\ Epoch(fin, ex, base) /\ Once(starts, base)
  BY <1>2 DEF Numbered
<1>4. Sent(told, mid)' /\ Ordered(mgr, starts, ends)'
  BY <1>1, <1>3 DEF Sent, Ordered
<1>5. Counted(starts, ends)' /\ Epoch(fin, ex, base)'
  BY <1>1, <1>3, CountedStays
<1>6. Numbered(told, mid, mgr, fin, ex, starts, ends, base)'
  BY <1>3, <1>4, <1>5 DEF Numbered
<1> QED BY <1>6, CountsNext

(* The beginning: there has been no turn.                                  *)
LEMMA InitCounts ==
  ASSUME Steering, Init
  PROVE  CountsOK
<1> USE DEF Init
<1>1. NumRanks \in Nat \ {0}
  BY ExecutionAssumption
<1>2. One(FALSE) = 0 /\ 0 \in 0..1 /\ 0 \in Nat /\ 0 + 0 = 0 /\ 2 * 0 - 0 = 0 /\ 0 # 0 + 1 /\ 0 <= 0 + 1
      /\ 2 * 0 + 0 = 0
  BY DEF One
<1>3. PICK zero : zero = [m \in Modules |-> 0]
  OBVIOUS
<1>4. PICK none : none = [r \in Ranks |-> zero]
  OBVIOUS
<1>5. zero \in Amounts /\ \A m \in Modules : zero[m] = 0
  BY <1>2, <1>3 DEF Amounts
<1>6. none \in Numbers /\ none \in Who /\ \A r \in Ranks, m \in Modules : none[r][m] = 0
  <2>1. zero \in [Modules -> 0..1]
    BY <1>2, <1>3
  <2> QED BY <1>4, <1>5, <2>1 DEF Numbers, Who
<1>7. ASSUME NEW r \in Ranks, NEW m \in Modules
      PROVE  /\ Turns(module[r][m]) = 0 /\ Later(module[r][m], m) = 0
             /\ queue[r][m] = <<>> /\ out[r][m] = <<>> /\ up[r] = <<>> /\ down[r] = <<>>
  <2>1. PICK p : p = module[r][m]
    OBVIOUS
  <2>2. p.prepared = FALSE /\ p.rest = <<>> /\ p.round = 0
    BY <2>1
  <2>3. After(p) = 0
    BY <1>2, <2>2 DEF After, Closing
  <2>4. Turns(p) = 0
    BY <1>2, <2>2 DEF Turns
  <2>5. Later(p, m) = 0
    BY <1>2, <2>2, <2>3 DEF Later
  <2> QED BY <2>1, <2>4, <2>5
<1>8. \A R : Walk(<<>>, 0, 0, R)
  BY ONLY <1>2, WalkEmpty
<1>9. Sent(none, none)
  BY ONLY <1>6, <1>7, <1>8 DEF Sent
<1>10. Ordered(none, zero, zero)
  BY ONLY <1>2, <1>5, <1>6, <1>7, <1>8 DEF Ordered
<1>11. Counting(none, none, none)
  BY ONLY <1>2, <1>6 DEF Counting
<1>12. \A m \in Modules : ranksStarted[m] = 0 /\ ranksFinished[m] = 0 /\ done[m] = 0 /\ Running(m) = 0
  BY <1>1 DEF Running
<1>13. Counted(zero, zero)
  <2>1. ASSUME NEW d \in Fed, NEW i \in ComputeInputs[d]
        PROVE  /\ numReset[i] + zero[d] = done[Feeder(i)] + Running(Feeder(i))
               /\ numFinish[i] + zero[d] = done[Feeder(i)]
    <3>1. d \in Modules /\ i \in Inputs /\ Feeder(i) \in Modules
      BY FedFacts, FeederFacts
    <3>2. numReset[i] = 0 /\ numFinish[i] = 0
      BY <3>1
    <3> QED BY <1>2, <1>5, <1>12, <3>1, <3>2
  <2> QED BY <2>1 DEF Counted
<1>14. Epoch(none, none, zero)
  <2>1. ASSUME NEW m \in Modules PROVE Cardinality(Busy(none, m)) = 0 /\ Cardinality(FinishedBy(none, zero, m)) = 0
    <3>1. Busy(none, m) = {}
      BY <1>6 DEF Busy
    <3>2. FinishedBy(none, zero, m) = {}
      BY <1>2, <1>5, <1>6 DEF FinishedBy
    <3> QED BY <3>1, <3>2, FS_EmptySet
  <2>2. RanksOK(none)
    BY ONLY <1>2, <1>12, <2>1 DEF RanksOK
  <2> QED BY ONLY <1>5, <1>6, <1>12, <2>1, <2>2 DEF Epoch
<1>15. Once(zero, zero)
  <2>1. \A d \in Fed : \E i \in ComputeInputs[d] : zero[d] = zero[Feeder(i)]
    <3>1. ASSUME NEW d \in Fed PROVE \E i \in ComputeInputs[d] : zero[d] = zero[Feeder(i)]
      <4>1. PICK i \in ComputeInputs[d] : TRUE
        BY ONLY d \in Fed, FedFacts
      <4>2. d \in Modules /\ Feeder(i) \in Modules
        BY ONLY Steering, d \in Fed, i \in ComputeInputs[d], FedFacts, FeederFacts
      <4>3. zero[d] = zero[Feeder(i)]
        BY <1>5, <4>2
      <4> QED BY <4>1, <4>3
    <3> QED BY <3>1
  <2> QED BY <1>2, <1>5, <2>1 DEF Once
<1>16. Numbered(none, none, none, none, none, zero, zero, zero)
  BY ONLY <1>5, <1>6, <1>9, <1>10, <1>11, <1>13, <1>14, <1>15 DEF Numbered
<1> QED BY ONLY <1>16 DEF CountsOK

(* The numbers of turns are kept.                                          *)
LEMMA NextCounts ==
  ASSUME Steering, ~Overlap, IInv, CountsOK, [Next]_vars
  PROVE  CountsOK'
<1>0. IInv'
  BY NextKeeps
<1>1. ASSUME NEW r \in Ranks, HandleBroadcast(r) PROVE CountsOK'
  BY <1>0, <1>1, BroadcastCounts
<1>2. ASSUME NEW r \in Ranks, HandleForwarded(r) PROVE CountsOK'
  BY <1>0, <1>2, ForwardedCounts
<1>3. CASE HandleOwn
  BY <1>3, NoRequest
<1>4. ASSUME NEW r \in Ranks, NEW m \in Modules, HandleAddObject(r, m) PROVE CountsOK'
  BY <1>0, <1>4, AddObjectCounts
<1>5. ASSUME NEW r \in Ranks, NEW m \in Modules, HandleProgress(r, m) PROVE CountsOK'
  BY <1>0, <1>5, ProgressCounts
<1>6. ASSUME NEW r \in Ranks, NEW m \in Modules, Receive(r, m) PROVE CountsOK'
  BY <1>0, <1>6, ReceiveCounts
<1>7. ASSUME NEW r \in Ranks, NEW m \in Modules, Stage(r, m) PROVE CountsOK'
  BY <1>0, <1>7, StageCounts
<1>8. ASSUME NEW m \in Modules, Sync(m) PROVE CountsOK'
  BY <1>8, SyncCounts
<1>9. ASSUME NEW m \in Modules, UserExecute(m) PROVE CountsOK'
  BY <1>0, <1>9, UserExecuteCounts
<1>10. CASE UNCHANGED vars
  BY <1>10, StutterCounts
<1> QED BY <1>1, <1>2, <1>3, <1>4, <1>5, <1>6, <1>7, <1>8, <1>9, <1>10 DEF Next, SystemStep, Terminated

(* They always lead from what rank 0 has been told to what it has ordered. *)
THEOREM CountsInvariance ==
  ASSUME Steering, ~Overlap
  PROVE  Spec => []CountsOK
<1>1. Init => CountsOK
  BY InitCounts
<1>2. IInv /\ CountsOK /\ [Next]_vars => CountsOK'
  BY NextCounts
<1>3. Spec => []IInv
  BY Invariance
<1> QED BY <1>1, <1>2, <1>3, PTL DEF Spec

(* The input of a connection is fed by its output.                         *)
LEMMA FeederIs ==
  ASSUME Steering, NEW m \in Modules, NEW c \in Connections, c[2] \in ComputeInputs[m]
  PROVE  m \in Fed /\ Feeder(c[2]) = ModuleOf[c[1]]
<1>1. m \in Fed /\ c[2] \notin NoCompute
  BY FedFacts
<1>2. PICK d : d = CHOOSE x \in Connections : x[2] = c[2]
  OBVIOUS
<1>3. d \in Connections /\ d[2] = c[2]
  <2>1. \E x \in Connections : x[2] = c[2]
    OBVIOUS
  <2> QED BY <1>2, <2>1
<1>4. d = c
  BY <1>1, <1>3 DEF Steering
<1> QED BY <1>1, <1>2, <1>4 DEF Feeder

(* When a process is about to reduce, its module upstream has executed on  *)
(* this rank as often, and rank 0 has been told of that.                   *)
LEMMA UpstreamTold ==
  ASSUME Steering, IInv, NEW told, NEW mid, NEW mgr, NEW fin, NEW ex, NEW starts, NEW ends, NEW base,
         Numbered(told, mid, mgr, fin, ex, starts, ends, base),
         NEW r \in Ranks, NEW m \in Fed, NEW i \in ComputeInputs[m], Handles(r, m, "Reduce")
  PROVE  Feeder(i) \in Modules /\ 2 * module[r][m].round <= told[r][Feeder(i)]
<1>1. MasterOK /\ ProcessesOK /\ ChannelsOK /\ LocalOK
  BY DEF IInv
<1>2. /\ told \in Numbers /\ mid \in Numbers /\ mgr \in Numbers /\ fin \in Numbers /\ ex \in Who
      /\ starts \in Amounts /\ ends \in Amounts /\ base \in Amounts
      /\ Sent(told, mid) /\ Ordered(mgr, starts, ends) /\ Counting(told, fin, ex)
      /\ Counted(starts, ends) /\ Epoch(fin, ex, base)
  BY DEF Numbered
<1>3. m \in Modules /\ i \in Inputs
  BY FedFacts
<1>4. PICK x, q, p : x = Head(queue[r][m]) /\ q = queue[r][m] /\ p = module[r][m]
  OBVIOUS
<1>5. p.rest = <<>> /\ q # <<>> /\ x.type = "Reduce" /\ x = Head(q)
  BY <1>4 DEF Handles
<1>6. q \in Seq(QueueMsgs(m))
  BY <1>1, <1>3, <1>4 DEF ChannelsOK, QueueFuns, Queues
<1>7. x \in QueueMsgs(m) /\ Tail(q) \in Seq(QueueMsgs(m))
  BY <1>5, <1>6, HeadTailProperties
<1>8. x.module = m
  BY <1>3, <1>7, QueueMsgFacts
<1>9. p.prepared = TRUE
  <2>1. ModuleReady
    BY ReadyFromInv
  <2>2. p.prepared
    BY <1>3, <1>4, <2>1 DEF ModuleReady
  <2> QED BY <1>1, <1>3, <1>4, <2>2, ProcessFacts
<1>10. PICK n \in Nat : n = p.round
  BY <1>1, <1>3, <1>4, ProcessFacts
<1>11. Later(p, m) = 2 * n - 1
  <2>1. Later(p, m) = LaterOf(<<>>, TRUE, n, m)
    BY <1>1, <1>3, <1>4, <1>5, <1>9, <1>10, LaterFacts
  <2>2. <<>> \notin Closing
    BY DEF Closing
  <2>3. LaterOf(<<>>, TRUE, n, m) = 2 * n - 1
    BY <1>1, <1>3, <2>2, LaterFacts
  <2> QED BY <2>1, <2>3
<1>12. 2 * n <= mgr[r][m]
  <2>1. Walk(q, Later(p, m), mgr[r][m], BeginsIn(QueueMsgs(m), m))
    BY <1>2, <1>3, <1>4 DEF Ordered
  <2>2. PICK b \in Nat : /\ <<Later(p, m), x, b>> \in BeginsIn(QueueMsgs(m), m)
                         /\ Walk(Tail(q), b, mgr[r][m], BeginsIn(QueueMsgs(m), m))
    BY <1>5, <1>6, <2>1, WalkHead
  <2>3. Begins(Later(p, m), x, b, m)
    BY <2>2, BeginsIff
  <2>4. b = Later(p, m) + 1
    BY <1>5, <1>8, <2>3 DEF Begins
  <2>5. (2 * n - 1) + 1 = 2 * n
    BY ONLY n \in Nat
  <2>6. b <= mgr[r][m]
    <3>1. \A j, k \in Nat : \A y : <<j, y, k>> \in BeginsIn(QueueMsgs(m), m) => j <= k
      BY TurnsGrow
    <3> QED BY ONLY <1>7, <2>2, <3>1, WalkUp
  <2>7. b = 2 * n
    BY ONLY <1>11, <2>4, <2>5
  <2> QED BY <2>6, <2>7
<1>13. mgr[r][m] \in Nat /\ mgr[r][m] <= starts[m] + ends[m]
  BY <1>1, <1>2, <1>3, InOrder
<1>14. PICK open \in [Modules -> 0..1] : ResetsOK(open)
  BY DEF IInv, OpenOK
<1>15. PICK s \in Nat, e \in Nat, o \in 0..1 : s = starts[m] /\ e = ends[m] /\ o = open[m]
  BY <1>2, <1>3 DEF Amounts
<1>16. s = e + o
  BY <1>1, <1>2, <1>3, <1>14, <1>15, StartsEnds
<1>17. n <= e
  <2>1. 2 * n <= s + e
    BY <1>12, <1>13, <1>15
  <2> QED BY ONLY <1>16, <2>1, n \in Nat, s \in Nat, e \in Nat, o \in 0..1
<1>18. PICK f : f = Feeder(i)
  OBVIOUS
<1>19. f \in Modules
  BY <1>18, FeederFacts
<1>20. n <= done[f]
  <2>1. numFinish[i] + ends[m] = done[f]
    BY <1>2, <1>18 DEF Counted
  <2>2. numFinish[i] \in Nat
    BY <1>1, <1>3 DEF MasterOK
  <2> QED BY <1>15, <1>17, <2>1, <2>2
<1>21. done[f] <= fin[r][f] /\ fin[r][f] \in Nat /\ done[f] \in Nat
  <2>1. /\ fin[r][f] \in {base[f], base[f] + 1}
        /\ done[f] = base[f] \/ (done[f] = base[f] + 1 /\ fin[r][f] = base[f] + 1)
    BY <1>2, <1>19 DEF Epoch
  <2>2. base[f] \in Nat
    BY <1>2, <1>19 DEF Amounts
  <2> QED BY <2>1, <2>2
<1>22. told[r][f] = 2 * fin[r][f] + ex[r][f] /\ ex[r][f] \in 0..1
  BY <1>2, <1>19 DEF Counting, Who
<1>23. 2 * n <= told[r][f]
  <2>1. PICK k \in Nat, g \in 0..1 : k = fin[r][f] /\ g = ex[r][f]
    BY <1>21, <1>22
  <2>2. n <= k
    BY <1>20, <1>21, <2>1
  <2>3. 2 * n <= 2 * k + g
    BY ONLY <2>2, n \in Nat, k \in Nat, g \in 0..1
  <2> QED BY <1>22, <2>1, <2>3
<1> QED BY <1>4, <1>10, <1>18, <1>19, <1>23

(* ReduceHasAll follows: what is under way from the module upstream        *)
(* belongs to later executions.                                            *)
LEMMA ReduceFromCounts ==
  ASSUME Steering, IInv, CountsOK
  PROVE  ReduceHasAll
<1>1. ProcessesOK /\ ChannelsOK
  BY DEF IInv
<1>2. PICK told, mid, mgr, fin, ex, starts, ends, base :
        Numbered(told, mid, mgr, fin, ex, starts, ends, base)
  BY DEF CountsOK
<1>3. Sent(told, mid) /\ Ordered(mgr, starts, ends)
  BY <1>2 DEF Numbered
<1>4. SUFFICES ASSUME NEW r \in Ranks, NEW m \in Modules, Handles(r, m, "Reduce"),
                      NEW c \in Connections, c[2] \in ComputeInputs[m]
               PROVE  LET n == module[r][m].round
                          p == module[r][ModuleOf[c[1]]]
                          sent == out[r][ModuleOf[c[1]]]
                      IN  /\ p.round >= n /\ (p.round = n => ~p.prepared)
                          /\ \A k \in DOMAIN sent :
                               sent[k].type = "Object" /\ sent[k].port = c[1] => sent[k].round > n
  BY DEF ReduceHasAll
<1>5. PICK f : f = ModuleOf[c[1]]
  OBVIOUS
<1>6. m \in Fed /\ Feeder(c[2]) = f
  BY <1>4, <1>5, FeederIs
<1>7. PICK n \in Nat : n = module[r][m].round
  BY <1>1, ProcessFacts
<1>8. f \in Modules /\ 2 * n <= told[r][f]
  <2>1. Feeder(c[2]) \in Modules /\ 2 * module[r][m].round <= told[r][Feeder(c[2])]
    BY <1>2, <1>4, <1>6, UpstreamTold
  <2> QED BY <1>6, <1>7, <2>1
<1>9. PICK p, q : p = module[r][f] /\ q = out[r][f]
  OBVIOUS
<1>10. /\ told[r][f] \in Nat /\ mid[r][f] \in Nat /\ Turns(p) \in Nat
       /\ told[r][f] <= mid[r][f] /\ mid[r][f] <= Turns(p)
  BY <1>1, <1>3, <1>8, <1>9, InOrder
<1>11. PICK a \in Nat : a = mid[r][f] /\ 2 * n <= a
  BY <1>8, <1>10
<1>12. PICK k \in Nat : k = p.round
  BY <1>1, <1>8, <1>9, ProcessFacts
<1>13. k >= n /\ (k = n => ~p.prepared)
  <2>1. PICK o \in 0..1 : o = One(p.prepared) /\ (p.prepared => o = 1)
    BY DEF One
  <2>2. Turns(p) = 2 * k - o
    BY <1>12, <2>1 DEF Turns
  <2>3. 2 * n <= 2 * k - o
    BY <1>10, <1>11, <2>2
  <2>4. k >= n /\ (k = n => o = 0)
    BY ONLY <2>3, n \in Nat, k \in Nat, o \in 0..1
  <2> QED BY <2>1, <2>4
<1>14. q \in Seq(OutMsgs(f)) /\ Walk(q, a, Turns(p), TellsIn(OutMsgs(f), f))
  BY <1>1, <1>3, <1>8, <1>9, <1>11 DEF ChannelsOK, OutFuns, Outs, Sent
<1>15. ASSUME NEW j \in DOMAIN q, q[j].type = "Object" PROVE q[j].round > n
  <2>1. j \in 1..Len(q) /\ q[j] \in OutMsgs(f)
    BY <1>14
  <2>2. q[j].round \in Nat
    BY <1>8, <1>15, <2>1, OutMsgFacts
  <2>3. \A b, d \in Nat : \A x : <<b, x, d>> \in TellsIn(OutMsgs(f), f) => b <= d
    BY TurnsGrow
  <2>4. PICK b \in Nat, d \in Nat : <<b, q[j], d>> \in TellsIn(OutMsgs(f), f) /\ a <= b
    BY ONLY <1>14, <2>1, <2>3, WalkPlace
  <2>5. Tells(b, q[j], d, f)
    BY <2>4, TellsIff
  <2>6. PICK w \in Nat : w = q[j].round
    BY <2>2
  <2>7. b + 1 = 2 * w
    BY <1>15, <2>5, <2>6 DEF Tells
  <2>8. w > n
    BY ONLY <1>11, <2>4, <2>7, a \in Nat, b \in Nat, w \in Nat, n \in Nat
  <2> QED BY <2>6, <2>8
<1> QED BY <1>5, <1>7, <1>9, <1>12, <1>13, <1>15

(* ReduceHasAll: however the messages of the ranks are interleaved, reduce *)
(* of a module is called after all objects of the execution have been      *)
(* handed to its manager and none of them is still under way to it, on     *)
(* every rank.                                                             *)
THEOREM ReduceGetsAll ==
  ASSUME Steering, ~Overlap
  PROVE  Spec => []ReduceHasAll
<1>1. IInv /\ CountsOK => ReduceHasAll
  BY ReduceFromCounts
<1> QED BY <1>1, Invariance, CountsInvariance, PTL
=============================================================================
