------------------------------ MODULE NuLemmas ------------------------------
(***************************************************************************)
(* Facts of numbers and sequences the proofs about reading need: induction *)
(* over a bounded range, sequences put together of sequences.              *)
(***************************************************************************)
EXTENDS Naturals, SequencesExt, SequenceTheorems, FiniteSetTheorems, WellFoundedInduction,
        TLAPS

-----------------------------------------------------------------------------
(* Induction, and sequences put together of sequences *)

(* A set of numbers that is not empty has a least one.                     *)
LEMMA LeastNat ==
    ASSUME NEW T, T \subseteq Nat, T # {}
    PROVE  \E x \in T : \A y \in T : x <= y
<1> DEFINE R == {ss \in Nat \X Nat : ss[1] < ss[2]}
           S == Nat
<1>1. IsWellFoundedOn(R, S)
  BY NatLessThanWellFounded DEF OpToRel
<1>2. \A x, y \in Nat : y < x => <<y, x>> \in R
  OBVIOUS
<1>3. T \subseteq S
  OBVIOUS
<1>4. \E x \in T : \A y \in T : ~ (<<y, x>> \in R)
  <2> HIDE DEF R, S
  <2> QED BY <1>1, <1>3, WFMin
<1> HIDE DEF R, S
<1>5. PICK x \in T : \A y \in T : ~ (<<y, x>> \in R)
  BY <1>4
<1>6. \A y \in T : ~ (y < x)
  BY <1>2, <1>5, Zenon
<1> QED BY <1>6

(* Induction up to n: a set with 0 in it that has m + 1 with m.            *)
LEMMA UpTo ==
    ASSUME NEW n \in Nat, NEW T, 0 \in T,
           \A m \in 0 .. n - 1 : m \in T => m + 1 \in T
    PROVE  \A m \in 0 .. n : m \in T
<1> DEFINE Bad == {m \in 0 .. n : m \notin T}
<1>1. SUFFICES ASSUME Bad # {} PROVE FALSE
  OBVIOUS
<1>2. PICK x \in Bad : \A y \in Bad : x <= y
  <2>1. Bad \subseteq Nat  OBVIOUS
  <2> HIDE DEF Bad
  <2> QED BY <1>1, <2>1, LeastNat
<1>3. x # 0 /\ x \in 1 .. n /\ x - 1 \in 0 .. n - 1
  BY <1>2
<1>4. x - 1 \in T
  BY <1>2, <1>3
<1>5. (x - 1) + 1 \in T
  BY <1>3, <1>4
<1> QED BY <1>2, <1>3, <1>5

(* g[i] is the first i members of ss one after the other.                  *)
IsChain(ss, g, n) ==
    g = [i \in 1 .. n |-> IF i = 1 THEN ss[i] ELSE g[i-1] \o ss[i]]

(* There is such a g, so that FlattenSeq is defined.                       *)
LEMMA ChainExists ==
    ASSUME NEW ss, NEW n \in Nat
    PROVE  \E g : IsChain(ss, g, n)
<1> DEFINE T == {m \in 0 .. n : \E g : IsChain(ss, g, m)}
<1>1. 0 \in T
  <2>1. IsChain(ss, [i \in 1 .. 0 |-> 0], 0)
    BY DEF IsChain
  <2> QED BY <2>1
<1>2. ASSUME NEW m \in 0 .. n - 1, m \in T
      PROVE  m + 1 \in T
  <2>1. PICK g : IsChain(ss, g, m)
    BY <1>2
  <2> DEFINE h == [i \in 1 .. m + 1 |-> IF i <= m THEN g[i]
                                        ELSE IF i = 1 THEN ss[i] ELSE g[i-1] \o ss[i]]
  <2>2. \A i \in 1 .. m : h[i] = g[i]
    OBVIOUS
  <2>9. \A i \in 1 .. m : g[i] = IF i = 1 THEN ss[i] ELSE g[i-1] \o ss[i]
    BY <2>1, Zenon DEF IsChain
  <2>3. \A i \in 1 .. m + 1 : i # 1 => h[i-1] = g[i-1]
    BY <2>2
  <2>4. \A i \in 1 .. m + 1 : h[i] = IF i = 1 THEN ss[i] ELSE g[i-1] \o ss[i]
    <3>1. \A i \in 1 .. m + 1 : i \in 1 .. m \/ ~(i <= m)
      OBVIOUS
    <3> QED BY <2>2, <2>9, <3>1, Zenon
  <2>5. \A i \in 1 .. m + 1 : h[i] = IF i = 1 THEN ss[i] ELSE h[i-1] \o ss[i]
    <3> HIDE DEF h
    <3> QED BY <2>3, <2>4
  <2>6. h = [i \in 1 .. m + 1 |-> h[i]]
    OBVIOUS
  <2>7. IsChain(ss, h, m + 1)
    <3> HIDE DEF h
    <3> QED BY <2>5, <2>6 DEF IsChain
  <2> HIDE DEF h
  <2> QED BY <2>7
<1>3. n \in T
  <2> HIDE DEF T
  <2> QED BY <1>1, <1>2, UpTo
<1> QED BY <1>3

(* FlattenSeq is the end of the chain.                                     *)
LEMMA FlattenIsChain ==
    ASSUME NEW ss, Len(ss) \in Nat \ {0}
    PROVE  \E g : IsChain(ss, g, Len(ss)) /\ FlattenSeq(ss) = g[Len(ss)]
<1> DEFINE G == CHOOSE g : g = [i \in 1 .. Len(ss) |->
                                  IF i = 1 THEN ss[i] ELSE g[i-1] \o ss[i]]
<1>1. G = [i \in 1 .. Len(ss) |-> IF i = 1 THEN ss[i] ELSE G[i-1] \o ss[i]]
  <2>1. \E g : g = [i \in 1 .. Len(ss) |-> IF i = 1 THEN ss[i] ELSE g[i-1] \o ss[i]]
    BY ChainExists DEF IsChain
  <2> QED BY <2>1
<1>2. FlattenSeq(ss) = G[Len(ss)]
  BY DEF FlattenSeq
<1> HIDE DEF G
<1> QED BY <1>1, <1>2 DEF IsChain

(* What the chain is at each place.                                        *)
LEMMA ChainStep ==
    ASSUME NEW ss, NEW n \in Nat, NEW g, IsChain(ss, g, n), NEW i \in 1 .. n
    PROVE  g[i] = IF i = 1 THEN ss[i] ELSE g[i-1] \o ss[i]
BY Zenon DEF IsChain

(* Its members are sequences of what the members of ss are sequences of.   *)
LEMMA ChainSeqs ==
    ASSUME NEW S, NEW ss \in Seq(Seq(S)), NEW g, IsChain(ss, g, Len(ss))
    PROVE  \A i \in 1 .. Len(ss) : g[i] \in Seq(S)
<1> DEFINE n == Len(ss)
           T == {m \in 0 .. n : m = 0 \/ g[m] \in Seq(S)}
<1>1. n \in Nat /\ \A i \in 1 .. n : ss[i] \in Seq(S)
  OBVIOUS
<1>2. ASSUME NEW m \in 0 .. n - 1, m \in T
      PROVE  m + 1 \in T
  <2>1. m + 1 \in 1 .. n /\ (m + 1) - 1 = m /\ m \in Nat
    BY <1>1
  <2>2. g[m + 1] = IF m + 1 = 1 THEN ss[m + 1] ELSE g[m] \o ss[m + 1]
    <3>1. \A i \in 1 .. n : g[i] = IF i = 1 THEN ss[i] ELSE g[i-1] \o ss[i]
      <4> HIDE DEF n
      <4> QED BY <1>1, ChainStep DEF n
    <3> HIDE DEF n
    <3> QED BY <2>1, <3>1
  <2>3. ss[m + 1] \in Seq(S)
    BY <1>1, <2>1
  <2>4. CASE m = 0
    BY <2>1, <2>2, <2>3, <2>4
  <2>5. CASE m # 0
    <3>1. g[m] \in Seq(S) /\ m + 1 # 1
      BY <1>2, <2>1, <2>5
    <3>2. g[m] \o ss[m + 1] \in Seq(S)
      BY <2>3, <3>1
    <3>3. g[m + 1] = g[m] \o ss[m + 1]
      BY <2>2, <3>1, Zenon
    <3>4. g[m + 1] \in Seq(S)
      BY <3>2, <3>3, Zenon
    <3> QED BY <2>1, <3>4
  <2> QED BY <2>4, <2>5
<1>3. \A m \in 0 .. n : m \in T
  <2>1. 0 \in T  BY <1>1
  <2> HIDE DEF T, n
  <2> QED BY <1>1, <1>2, <2>1, UpTo
<1> QED BY <1>3

(* off[i] is where the members of ss up to the i-th end in FlattenSeq(ss). *)
Offsets(ss, off) ==
    /\ off \in [0 .. Len(ss) -> Nat]
    /\ off[0] = 0
    /\ \A i \in 1 .. Len(ss) : off[i] = off[i-1] + Len(ss[i])

(* Offsets do not go down.                                                 *)
LEMMA OffsetsGrow ==
    ASSUME NEW S, NEW ss \in Seq(Seq(S)), NEW off, Offsets(ss, off),
           NEW i \in 0 .. Len(ss), NEW j \in 0 .. Len(ss), i <= j
    PROVE  off[i] <= off[j]
<1> DEFINE n == Len(ss)
           T == {m \in 0 .. n : i <= m => off[i] <= off[m]}
<1>1. n \in Nat /\ (\A k \in 0 .. n : off[k] \in Nat) /\ \A k \in 1 .. n : Len(ss[k]) \in Nat
  <2>1. n \in Nat /\ \A k \in 1 .. n : ss[k] \in Seq(S)
    OBVIOUS
  <2>2. \A k \in 1 .. n : Len(ss[k]) \in Nat
    BY <2>1
  <2> QED BY <2>1, <2>2 DEF Offsets
<1>2. ASSUME NEW m \in 0 .. n - 1, m \in T
      PROVE  m + 1 \in T
  <2>1. m + 1 \in 1 .. n /\ m \in 0 .. n /\ (m + 1) - 1 = m
    BY <1>1
  <2>2. off[m + 1] = off[m] + Len(ss[m + 1])
    BY <2>1 DEF Offsets
  <2>3. off[m] <= off[m + 1]
    BY <1>1, <2>1, <2>2
  <2>4. ASSUME i <= m + 1 PROVE off[i] <= off[m + 1]
    <3>1. CASE i = m + 1
      BY <1>1, <3>1, <2>1
    <3>2. CASE i <= m
      BY <1>1, <1>2, <2>1, <2>3, <3>2
    <3> QED BY <2>4, <3>1, <3>2, <2>1
  <2> QED BY <2>1, <2>4
<1>3. 0 \in T
  BY <1>1
<1>4. \A m \in 0 .. n : m \in T
  <2> HIDE DEF T, n
  <2> QED BY <1>1, <1>2, <1>3, UpTo
<1> QED BY <1>4

(* Every place is in one of the members.                                   *)
LEMMA OffsetsCover ==
    ASSUME NEW S, NEW ss \in Seq(Seq(S)), NEW off, Offsets(ss, off),
           NEW p \in 1 .. off[Len(ss)]
    PROVE  \E i \in 1 .. Len(ss) : off[i-1] < p /\ p <= off[i]
<1> DEFINE n == Len(ss)
           T == {m \in 0 .. n : p <= off[m]}
<1>1. n \in Nat /\ (\A k \in 0 .. n : off[k] \in Nat) /\ p \in Nat /\ off[0] = 0 /\ p > 0
  BY DEF Offsets
<1>2. PICK x \in T : \A y \in T : x <= y
  <2>1. T \subseteq Nat /\ n \in T
    BY <1>1
  <2> HIDE DEF T
  <2> QED BY <2>1, LeastNat
<1>3. x # 0 /\ x \in 1 .. n /\ x - 1 \in 0 .. n
  BY <1>1, <1>2
<1>4. ~(p <= off[x-1])
  BY <1>2, <1>3
<1>5. off[x-1] < p
  <2>1. off[x-1] \in Nat
    BY <1>1, <1>3
  <2> HIDE DEF n, T
  <2> QED BY <1>1, <1>4, <2>1
<1> QED BY <1>2, <1>3, <1>5

(* FlattenSeq(ss) is the members of ss, each at its offset.                *)
Placed(ss, off) ==
    /\ Offsets(ss, off)
    /\ Len(FlattenSeq(ss)) = off[Len(ss)]
    /\ \A i \in 1 .. Len(ss) : \A j \in 1 .. Len(ss[i]) :
          FlattenSeq(ss)[off[i-1] + j] = ss[i][j]

(* Every sequence of sequences has such offsets.                           *)
LEMMA FlattenPlaces ==
    ASSUME NEW S, NEW ss \in Seq(Seq(S))
    PROVE  FlattenSeq(ss) \in Seq(S) /\ \E off : Placed(ss, off)
<1> DEFINE n == Len(ss)
<1>1. n \in Nat /\ \A i \in 1 .. n : ss[i] \in Seq(S) /\ Len(ss[i]) \in Nat
  <2>1. n \in Nat /\ \A k \in 1 .. n : ss[k] \in Seq(S)
    OBVIOUS
  <2>2. \A k \in 1 .. n : Len(ss[k]) \in Nat
    BY <2>1
  <2> QED BY <2>1, <2>2
<1>2. CASE n = 0
  <2>1. ss = <<>> /\ FlattenSeq(ss) = <<>>
    BY <1>2 DEF FlattenSeq
  <2>2. Placed(ss, [i \in 0 .. 0 |-> 0])
    BY <1>2, <2>1 DEF Placed, Offsets
  <2> QED BY <2>1, <2>2
<1>3. CASE n # 0
  <2>1. PICK g : IsChain(ss, g, n) /\ FlattenSeq(ss) = g[n]
    BY <1>1, <1>3, FlattenIsChain
  <2>2. \A i \in 1 .. n : g[i] \in Seq(S)
    BY <2>1, ChainSeqs
  <2>3. \A i \in 1 .. n : g[i] = IF i = 1 THEN ss[i] ELSE g[i-1] \o ss[i]
    <3> HIDE DEF n
    <3> QED BY <1>1, <2>1, ChainStep
  <2> DEFINE off == [i \in 0 .. n |-> IF i = 0 THEN 0 ELSE Len(g[i])]
  <2>4. /\ off \in [0 .. n -> Nat] /\ off[0] = 0
        /\ \A i \in 1 .. n : off[i] = Len(g[i]) /\ Len(g[i]) \in Nat
    <3>1. \A i \in 1 .. n : Len(g[i]) \in Nat
      BY <2>2
    <3> HIDE DEF n
    <3> QED BY <1>1, <3>1
  <2>5. ASSUME NEW i \in 1 .. n
        PROVE  off[i] = off[i-1] + Len(ss[i])
    <3>1. CASE i = 1
      BY <1>1, <2>3, <2>4, <3>1
    <3>2. CASE i # 1
      <4>1. i - 1 \in 1 .. n /\ g[i] = g[i-1] \o ss[i]
        <5> HIDE DEF n
        <5>1. i - 1 \in 1 .. n  BY <1>1, <3>2
        <5>2. g[i] = g[i-1] \o ss[i]  BY <2>3, <3>2, Zenon
        <5> QED BY <5>1, <5>2
      <4>2. Len(g[i]) = Len(g[i-1]) + Len(ss[i])
        BY <1>1, <2>2, <4>1, ConcatProperties
      <4> HIDE DEF off
      <4> QED BY <2>4, <4>1, <4>2
    <3> QED BY <3>1, <3>2
  <2>6. Offsets(ss, off)
    <3> HIDE DEF off
    <3> QED BY <2>4, <2>5 DEF Offsets
  <2> DEFINE T == {m \in 0 .. n : \A i \in 1 .. m : \A j \in 1 .. Len(ss[i]) :
                                     g[m][off[i-1] + j] = ss[i][j]}
  <2> HIDE DEF off
  <2>7. ASSUME NEW m \in 0 .. n - 1, m \in T
        PROVE  m + 1 \in T
    <3>1. m + 1 \in 1 .. n /\ (m + 1) - 1 = m /\ m \in 0 .. n /\ m \in Nat
      BY <1>1
    <3>2. ASSUME NEW i \in 1 .. m + 1, NEW j \in 1 .. Len(ss[i])
          PROVE  g[m + 1][off[i-1] + j] = ss[i][j]
      <4>1. i \in 1 .. n /\ i - 1 \in 0 .. n /\ i \in 0 .. n
        BY <3>1
      <4>2. /\ off[i-1] \in Nat /\ Len(ss[i]) \in Nat /\ j \in Nat
            /\ off[i] = off[i-1] + Len(ss[i])
        <5>1. off[i-1] \in Nat
          BY <2>4, <4>1
        <5>2. off[i] = off[i-1] + Len(ss[i])
          BY <2>5, <4>1
        <5>3. Len(ss[i]) \in Nat
          BY <1>1, <4>1
        <5> QED BY <5>1, <5>2, <5>3
      <4>3. CASE m = 0
        <5>1. i = 1 /\ m + 1 = 1
          BY <4>3
        <5>2. g[1] = ss[1] /\ off[0] = 0
          BY <2>3, <2>4, <3>1, <5>1
        <5> QED BY <4>2, <5>1, <5>2
      <4>4. CASE m # 0
        <5>1. m \in 1 .. n /\ m + 1 # 1
          BY <3>1, <4>4
        <5>2. g[m + 1] = g[m] \o ss[m + 1]
          BY <2>3, <3>1, <5>1
        <5>3. g[m] \in Seq(S) /\ ss[m + 1] \in Seq(S) /\ off[m] = Len(g[m])
          BY <1>1, <2>2, <2>4, <3>1, <5>1
        <5>4. \A p \in 1 .. Len(g[m]) + Len(ss[m + 1]) :
                 g[m + 1][p] = IF p <= Len(g[m]) THEN g[m][p]
                               ELSE ss[m + 1][p - Len(g[m])]
          BY <5>2, <5>3, ConcatProperties
        <5>5. Len(g[m]) \in Nat /\ Len(ss[m + 1]) \in Nat
          BY <5>3
        <5>6. CASE i <= m
          <6>1. off[i] <= off[m]
            BY <2>6, <3>1, <4>1, <5>6, OffsetsGrow
          <6>2. off[i-1] + j \in 1 .. Len(g[m])
            <7> DEFINE a == off[i-1]   b == Len(ss[i])   c == Len(g[m])
            <7>1. a \in Nat /\ b \in Nat /\ c \in Nat /\ j \in 1 .. b /\ a + b <= c
              BY <4>2, <5>3, <5>5, <6>1
            <7> HIDE DEF a, b, c
            <7>2. a + j \in 1 .. c  BY <7>1
            <7> QED BY <7>2 DEF a, c
          <6>3. g[m + 1][off[i-1] + j] = g[m][off[i-1] + j]
            <7> DEFINE p == off[i-1] + j   c == Len(g[m])
            <7>1. p \in 1 .. c /\ c \in Nat /\ Len(ss[m + 1]) \in Nat
              BY <5>5, <6>2
            <7>2. p \in 1 .. c + Len(ss[m + 1]) /\ p <= c
              <8> HIDE DEF p, c
              <8> QED BY <7>1
            <7> QED BY <5>4, <7>2, Zenon
          <6>4. i \in 1 .. m
            BY <5>6
          <6> QED BY <2>7, <6>3, <6>4
        <5>7. CASE i = m + 1
          <6>1. off[i-1] = Len(g[m])
            BY <3>1, <5>3, <5>7
          <6>2. off[i-1] + j \in 1 .. Len(g[m]) + Len(ss[m + 1])
            <7> DEFINE b == Len(ss[m + 1])   c == Len(g[m])
            <7>1. b \in Nat /\ c \in Nat /\ j \in 1 .. b /\ off[i-1] = c
              BY <4>2, <5>5, <5>7, <6>1
            <7> HIDE DEF b, c
            <7>2. off[i-1] + j \in 1 .. c + b  BY <7>1
            <7> QED BY <7>2 DEF b, c
          <6>3. ~(off[i-1] + j <= Len(g[m])) /\ (off[i-1] + j) - Len(g[m]) = j
            BY <4>2, <5>5, <6>1
          <6> QED BY <5>4, <5>7, <6>2, <6>3
        <5> QED BY <3>1, <5>6, <5>7
      <4> QED BY <4>3, <4>4
    <3> HIDE DEF n
    <3> QED BY <3>1, <3>2
  <2>8. \A m \in 0 .. n : m \in T
    <3>1. 0 \in T  BY <1>1
    <3> HIDE DEF T, n
    <3> QED BY <1>1, <2>7, <3>1, UpTo
  <2>9. Placed(ss, off)
    <3>2. n \in 0 .. n /\ n \in 1 .. n
      BY <1>1, <1>3
    <3>1. n \in T /\ off[n] = Len(g[n])
      <4> HIDE DEF T, n
      <4> QED BY <2>4, <2>8, <3>2
    <3> QED BY <2>1, <2>6, <3>1 DEF Placed
  <2>10. FlattenSeq(ss) \in Seq(S)
    BY <1>1, <1>3, <2>1, <2>2
  <2> QED BY <2>9, <2>10
<1> QED BY <1>2, <1>3

-----------------------------------------------------------------------------
(* The greatest and the least of some numbers *)

LEMMA MaxUpTo ==
    ASSUME NEW n \in Nat, NEW S, S \subseteq 0 .. n, S # {}
    PROVE  Max(S) \in S /\ \A y \in S : y <= Max(S)
<1> DEFINE T == {n - x : x \in S}
<1>1. PICK t \in T : \A u \in T : t <= u
  <2>1. \A x \in S : n - x \in Nat
    OBVIOUS
  <2>2. T \subseteq Nat
    BY <2>1
  <2>3. PICK x \in S : TRUE
    OBVIOUS
  <2>4. n - x \in T
    BY <2>3
  <2> HIDE DEF T
  <2> QED BY <2>2, <2>4, LeastNat
<1>2. PICK x \in S : t = n - x
  BY <1>1
<1>3. \A y \in S : x >= y
  <2> SUFFICES ASSUME NEW y \in S PROVE x >= y
    OBVIOUS
  <2>1. n - x <= n - y
    BY <1>1, <1>2
  <2> HIDE DEF T
  <2>2. x \in Nat /\ y \in Nat
    OBVIOUS
  <2>3. \A a, b, c \in Nat : a - b <= a - c => b >= c
    OBVIOUS
  <2> QED BY <2>1, <2>2, <2>3
<1>4. Max(S) \in S /\ \A y \in S : Max(S) >= y
  BY <1>3 DEF Max
<1> QED BY <1>4

LEMMA MaxOfTwo ==
    ASSUME NEW a \in Int, NEW b \in Int
    PROVE  Max({a, b}) = IF a >= b THEN a ELSE b
<1> DEFINE m == IF a >= b THEN a ELSE b
<1>1. m \in {a, b} /\ \A y \in {a, b} : m >= y
  OBVIOUS
<1>2. \A x \in {a, b} : (\A y \in {a, b} : x >= y) => x = m
  OBVIOUS
<1> HIDE DEF m
<1>3. Max({a, b}) = m
  BY <1>1, <1>2 DEF Max
<1> QED BY <1>3 DEF m

LEMMA MinOfTwo ==
    ASSUME NEW a \in Int, NEW b \in Int
    PROVE  Min({a, b}) = IF a <= b THEN a ELSE b
<1> DEFINE m == IF a <= b THEN a ELSE b
<1>1. m \in {a, b} /\ \A y \in {a, b} : m <= y
  OBVIOUS
<1>2. \A x \in {a, b} : (\A y \in {a, b} : x <= y) => x = m
  OBVIOUS
<1> HIDE DEF m
<1>3. Min({a, b}) = m
  BY <1>1, <1>2 DEF Min
<1> QED BY <1>3 DEF m

(* Running sums, as a recursive definition makes them, exist.              *)
IsSums(h, n, g) == g = [i \in 1 .. n + 1 |-> IF i = 1 THEN 0 ELSE g[i-1] + h[i-1]]

LEMMA SumsExist ==
    ASSUME NEW n \in Nat, NEW h
    PROVE  \E g : IsSums(h, n, g)
<1> DEFINE T == {m \in 0 .. n : \E g : IsSums(h, m, g)}
<1>1. 0 \in T
  <2>1. IsSums(h, 0, [i \in 1 .. 1 |-> 0])
    BY DEF IsSums
  <2> QED BY <2>1
<1>2. ASSUME NEW m \in 0 .. n - 1, m \in T
      PROVE  m + 1 \in T
  <2>1. PICK g : IsSums(h, m, g)
    BY <1>2
  <2> DEFINE k == [i \in 1 .. (m + 1) + 1 |-> IF i <= m + 1 THEN g[i] ELSE g[i-1] + h[i-1]]
  <2>2. \A i \in 1 .. m + 1 : k[i] = g[i]
    OBVIOUS
  <2>3. \A i \in 1 .. m + 1 : g[i] = IF i = 1 THEN 0 ELSE g[i-1] + h[i-1]
    BY <2>1, Zenon DEF IsSums
  <2>4. \A i \in 1 .. (m + 1) + 1 : k[i] = IF i = 1 THEN 0 ELSE k[i-1] + h[i-1]
    <3> SUFFICES ASSUME NEW i \in 1 .. (m + 1) + 1
                 PROVE  k[i] = IF i = 1 THEN 0 ELSE k[i-1] + h[i-1]
      OBVIOUS
    <3>1. i # 1 => i - 1 \in 1 .. m + 1 /\ k[i-1] = g[i-1]
      <4>1. i # 1 => i - 1 \in 1 .. m + 1
        OBVIOUS
      <4> QED BY <2>2, <4>1
    <3>2. CASE i <= m + 1
      <4>1. i \in 1 .. m + 1
        BY <3>2
      <4>2. k[i] = g[i]
        BY <2>2, <4>1
      <4> QED BY <2>3, <3>1, <4>1, <4>2
    <3>3. CASE ~(i <= m + 1)
      <4>1. k[i] = g[i-1] + h[i-1] /\ i # 1
        BY <3>3
      <4> QED BY <3>1, <4>1
    <3> QED BY <3>2, <3>3
  <2>5. IsSums(h, m + 1, k)
    <3>1. k = [i \in 1 .. (m + 1) + 1 |-> k[i]]
      OBVIOUS
    <3> HIDE DEF k
    <3>2. k = [i \in 1 .. (m + 1) + 1 |-> IF i = 1 THEN 0 ELSE k[i-1] + h[i-1]]
      BY <2>4, <3>1, Zenon
    <3> QED BY <3>2 DEF IsSums
  <2> QED BY <2>5
<1>3. \A m \in 0 .. n : m \in T
  <2> HIDE DEF T
  <2> QED BY <1>1, <1>2, UpTo
<1> QED BY <1>3

(* The two parts of a sequence that was put together                       *)
LEMMA ConcatParts ==
    ASSUME NEW S, NEW s \in Seq(S), NEW t \in Seq(S)
    PROVE  /\ s \o t \in Seq(S)
           /\ Len(s \o t) = Len(s) + Len(t)
           /\ \A i \in 1 .. Len(s) : (s \o t)[i] = s[i]
           /\ \A i \in 1 .. Len(t) : (s \o t)[Len(s) + i] = t[i]
<1>1. /\ s \o t \in Seq(S)
      /\ Len(s \o t) = Len(s) + Len(t)
      /\ \A i \in 1 .. Len(s) + Len(t) :
            (s \o t)[i] = IF i <= Len(s) THEN s[i] ELSE t[i - Len(s)]
  BY ConcatProperties
<1>2. Len(s) \in Nat /\ Len(t) \in Nat
  OBVIOUS
<1>3. ASSUME NEW i \in 1 .. Len(s) PROVE (s \o t)[i] = s[i]
  <2>1. i \in 1 .. Len(s) + Len(t) /\ i <= Len(s)
    BY <1>2
  <2> QED BY <1>1, <2>1
<1>4. ASSUME NEW i \in 1 .. Len(t) PROVE (s \o t)[Len(s) + i] = t[i]
  <2>1. /\ Len(s) + i \in 1 .. Len(s) + Len(t) /\ ~(Len(s) + i <= Len(s))
        /\ (Len(s) + i) - Len(s) = i
    BY <1>2
  <2> QED BY <1>1, <2>1
<1> QED BY <1>1, <1>3, <1>4
=============================================================================
