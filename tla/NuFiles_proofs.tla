--------------------------- MODULE NuFiles_proofs ---------------------------
(***************************************************************************)
(* What is in the two files at every step of Nu_Flush, and what follows:   *)
(* between calls the archive file is what memory says it is, a crash or a  *)
(* failed flush leaves the old or the new contents whole in one file, the  *)
(* archive is not touched while the temp file takes the changes, and the   *)
(* status flags tell the truth.                                            *)
(***************************************************************************)
EXTENDS NuFlush_proofs

-----------------------------------------------------------------------------
(* Places of records in a list *)

IsList(S) == DOMAIN S \subseteq Nat /\ IsFiniteSet(DOMAIN S)

Upto(i, S) == {j \in DOMAIN S : j <= i}

LEMMA RankIs ==
    ASSUME NEW S, IsList(S)
    PROVE  /\ Count(S) \in Nat
           /\ \A i : Rank(i, S) = Cardinality(Upto(i, S)) /\ IsFiniteSet(Upto(i, S))
           /\ \A i \in DOMAIN S : Rank(i, S) \in 1 .. Count(S)
<1>1. Count(S) \in Nat
  BY FS_CardinalityType DEF IsList, Count
<1>2. ASSUME NEW i
      PROVE  /\ Rank(i, S) = Cardinality(Upto(i, S)) /\ IsFiniteSet(Upto(i, S))
             /\ Rank(i, S) \in Nat /\ Rank(i, S) <= Count(S)
  <2>1. Upto(i, S) \in SUBSET DOMAIN S
    BY DEF Upto
  <2>2. /\ IsFiniteSet(Upto(i, S)) /\ Cardinality(Upto(i, S)) <= Count(S)
        /\ Cardinality(Upto(i, S)) \in Nat
    BY <2>1, FS_Subset, FS_CardinalityType DEF IsList, Count
  <2> QED
    BY <2>2 DEF Rank, Upto
<1>3. ASSUME NEW i \in DOMAIN S PROVE Rank(i, S) # 0
  <2>1. i \in Upto(i, S)
    BY DEF Upto, IsList
  <2>2. Cardinality(Upto(i, S)) # 0
    BY <1>2, <2>1, FS_EmptySet
  <2> QED
    BY <1>2, <2>2
<1>4. ASSUME NEW i \in DOMAIN S PROVE Rank(i, S) \in 1 .. Count(S)
  BY <1>1, <1>2, <1>3
<1> QED
  BY <1>1, <1>2, <1>4

LEMMA RankGrows ==
    ASSUME NEW S, IsList(S), NEW i \in DOMAIN S, NEW j \in DOMAIN S, i < j
    PROVE  Rank(i, S) < Rank(j, S)
<1>1. i \in Nat /\ j \in Nat /\ DOMAIN S \subseteq Nat
  BY DEF IsList
<1>2. Upto(i, S) \in SUBSET Upto(j, S) /\ j \in Upto(j, S) /\ j \notin Upto(i, S)
  BY <1>1 DEF Upto
<1>3. IsFiniteSet(Upto(j, S)) /\ IsFiniteSet(Upto(i, S))
  BY RankIs
<1>4. /\ Cardinality(Upto(i, S)) <= Cardinality(Upto(j, S))
      /\ Cardinality(Upto(j, S)) # Cardinality(Upto(i, S))
  BY <1>2, <1>3, FS_Subset
<1>5. Cardinality(Upto(i, S)) \in Nat /\ Cardinality(Upto(j, S)) \in Nat
  BY <1>3, FS_CardinalityType
<1> QED
  BY <1>4, <1>5, RankIs

(* No two records share a place. *)
LEMMA RankTells ==
    ASSUME NEW S, IsList(S), NEW i \in DOMAIN S, NEW j \in DOMAIN S, i # j
    PROVE  Rank(i, S) # Rank(j, S)
<1>1. i \in Nat /\ j \in Nat
  BY DEF IsList
<1>2. Rank(i, S) \in Nat /\ Rank(j, S) \in Nat
  BY RankIs
<1>3. CASE i < j
  BY <1>2, <1>3, RankGrows
<1>4. CASE j < i
  BY <1>2, <1>4, RankGrows
<1> QED
  BY <1>1, <1>3, <1>4

(* Every place is taken. *)
LEMMA RankReaches ==
    ASSUME NEW S, IsList(S), NEW k \in 1 .. Count(S)
    PROVE  \E i \in DOMAIN S : Rank(i, S) = k
<1> DEFINE f == [i \in DOMAIN S |-> Rank(i, S)]
           T == 1 .. Count(S)
<1>1. Count(S) \in Nat
  BY RankIs
<1>2. IsFiniteSet(T) /\ Cardinality(T) = Count(S)
  <2>1. /\ IsFiniteSet(1 .. Count(S))
        /\ Cardinality(1 .. Count(S)) = IF 1 > Count(S) THEN 0 ELSE Count(S) - 1 + 1
    BY <1>1, FS_Interval
  <2> QED
    BY <1>1, <2>1
<1>3. f \in [DOMAIN S -> T]
  BY RankIs
<1>4. f \in Injection(DOMAIN S, T)
  <2>1. \A i, j \in DOMAIN S : f[i] = f[j] => i = j
    BY RankTells
  <2> QED
    BY <1>3, <2>1 DEF Injection, IsInjective
<1>5. f \in Surjection(DOMAIN S, T)
  BY <1>2, <1>4, FS_Injection DEF Count
<1>6. \E i \in DOMAIN S : f[i] = k
  BY <1>5 DEF Surjection
<1> QED
  BY <1>6

LEMMA RankOfDomain ==
    ASSUME NEW S, NEW T, DOMAIN S = DOMAIN T
    PROVE  Count(S) = Count(T) /\ \A i : Rank(i, S) = Rank(i, T)
BY DEF Count, Rank

(* What comes after does not count. *)
LEMMA RankBefore ==
    ASSUME NEW S, NEW T, NEW i, {j \in DOMAIN S : j <= i} = {j \in DOMAIN T : j <= i}
    PROVE  Rank(i, S) = Rank(i, T)
BY DEF Rank

-----------------------------------------------------------------------------
(* Files *)

IsMap(f) == f = [p \in DOMAIN f |-> f[p]]

(* Where the records of S are in a file whose master header is at w *)
Ranks(S, w) == [i \in DOMAIN S |-> w + Rank(i, S)]

(* FileOf without the CHOOSE, and what of it does not take in the wrapper *)
Body(f, S, w) ==
    /\ IsMap(f) /\ DOMAIN f = 0 .. (w + Count(S))
    /\ f[w] = Head(Count(S), Count(S) + 1)
    /\ \A i \in DOMAIN S : f[w + Rank(i, S)] = RecCell(S[i])
IsFileOf(f, S, w) == Body(f, S, w) /\ (w = 1 => f[0] = Wrap)

LEMMA FileOfIs ==
    ASSUME NEW S, IsList(S), NEW w \in {0, 1}
    PROVE  IsFileOf(FileOf(S, w), S, w)
<1> DEFINE f == FileOf(S, w)
           n == Count(S)
<1>1. n \in Nat /\ \A i \in DOMAIN S : Rank(i, S) \in 1 .. n
  BY RankIs
<1>2. f = [p \in 0 .. (w + n) |->
              IF p < w THEN Wrap ELSE IF p = w THEN Head(n, n + 1)
              ELSE RecCell(S[CHOOSE i \in DOMAIN S : w + Rank(i, S) = p])]
  BY DEF FileOf, Count
<1> HIDE DEF f
<1>3. IsMap(f) /\ DOMAIN f = 0 .. (w + n)
  BY <1>2 DEF IsMap
<1>4. f[w] = Head(n, n + 1)
  BY <1>1, <1>2
<1>5. w = 1 => f[0] = Wrap
  BY <1>1, <1>2
<1>6. ASSUME NEW i \in DOMAIN S PROVE f[w + Rank(i, S)] = RecCell(S[i])
  <2> DEFINE c == CHOOSE j \in DOMAIN S : w + Rank(j, S) = w + Rank(i, S)
  <2>1. c \in DOMAIN S /\ w + Rank(c, S) = w + Rank(i, S)
    OBVIOUS
  <2>2. Rank(c, S) = Rank(i, S)
    <3>1. Rank(c, S) \in Nat /\ Rank(i, S) \in Nat
      BY <1>1, <2>1
    <3> QED
      BY <2>1, <3>1
  <2>3. c = i
    BY <2>1, <2>2, RankTells
  <2>4. f[w + Rank(i, S)] = RecCell(S[c])
    <3>1. w + Rank(i, S) \in 0 .. (w + n) /\ ~(w + Rank(i, S) < w) /\ ~(w + Rank(i, S) = w)
      BY <1>1
    <3> QED
      BY <1>2, <3>1
  <2> QED
    BY <2>3, <2>4
<1>7. IsFileOf(f, S, w)
  BY <1>3, <1>4, <1>5, <1>6 DEF IsFileOf, Body
<1> QED
  BY <1>7 DEF f

LEMMA FileIs ==
    ASSUME NEW S, IsList(S), NEW w \in {0, 1}, NEW f
    PROVE  f = FileOf(S, w) <=> IsFileOf(f, S, w)
<1> DEFINE g == FileOf(S, w)
           n == Count(S)
<1>1. IsFileOf(g, S, w)
  BY FileOfIs
<1> HIDE DEF g
<1>2. ASSUME IsFileOf(f, S, w) PROVE f = g
  <2>1. n \in Nat
    BY RankIs
  <2>2. ASSUME NEW p \in 0 .. (w + n) PROVE f[p] = g[p]
    <3>1. CASE p < w
      <4>1. w = 1 /\ p = 0
        BY <3>1
      <4> QED
        BY <1>1, <1>2, <4>1 DEF IsFileOf
    <3>2. CASE p = w
      BY <1>1, <1>2, <3>2 DEF IsFileOf, Body
    <3>3. CASE p > w
      <4>1. p - w \in 1 .. n
        BY <2>1, <3>3
      <4>2. PICK i \in DOMAIN S : Rank(i, S) = p - w
        BY <4>1, RankReaches
      <4>3. w + Rank(i, S) = p
        BY <4>2
      <4>4. f[p] = RecCell(S[i]) /\ g[p] = RecCell(S[i])
        BY <1>1, <1>2, <4>3 DEF IsFileOf, Body
      <4> QED
        BY <4>4
    <3> QED
      BY <2>1, <3>1, <3>2, <3>3
  <2>3. f = [p \in 0 .. (w + n) |-> f[p]] /\ g = [p \in 0 .. (w + n) |-> g[p]]
    BY <1>1, <1>2 DEF IsFileOf, Body, IsMap
  <2> QED
    BY <2>2, <2>3
<1>3. f = g => IsFileOf(f, S, w)
  BY <1>1
<1> QED
  BY <1>2, <1>3 DEF g

LEMMA HoldsIs ==
    ASSUME NEW S, NEW f, NEW w \in {0, 1}, w \in DOMAIN f,
           f[w] = Head(Count(S), Count(S) + 1),
           w = 1 => 0 \in DOMAIN f /\ f[0] = Wrap,
           \A i \in DOMAIN S : /\ w + Rank(i, S) \in DOMAIN f
                               /\ f[w + Rank(i, S)] = RecCell(S[i])
    PROVE  Holds(f, S)
<1>1. (IF 0 \in DOMAIN f /\ f[0] = Wrap THEN 1 ELSE 0) = w
  <2>1. Head(Count(S), Count(S) + 1) # Wrap
    BY DEF Head, Wrap
  <2> QED
    BY <2>1
<1> QED
  BY <1>1 DEF Holds, Count

LEMMA FileHolds ==
    ASSUME NEW S, IsList(S), NEW w \in {0, 1}, NEW f, IsFileOf(f, S, w)
    PROVE  Holds(f, S)
<1>1. /\ Count(S) \in Nat /\ DOMAIN f = 0 .. (w + Count(S))
      /\ \A i \in DOMAIN S : Rank(i, S) \in 1 .. Count(S)
  BY RankIs DEF IsFileOf, Body
<1>2. w \in DOMAIN f /\ 0 \in DOMAIN f
  BY <1>1
<1>3. \A i \in DOMAIN S : w + Rank(i, S) \in DOMAIN f
  BY <1>1
<1> QED
  BY <1>2, <1>3, HoldsIs DEF IsFileOf, Body

-----------------------------------------------------------------------------
(* Files being written *)

(* The records of M are laid out one after the other, up to those of U. *)
Laid(f, M, U, at, w, off) ==
    /\ at = w + 1 + Cardinality(DOMAIN M \ U)
    /\ \A i \in DOMAIN M \ U, j \in U : i < j
    /\ \A i \in DOMAIN M \ U : /\ off[i] = w + Rank(i, M)
                               /\ f[w + Rank(i, M)] = RecCell(M[i])
    /\ IsMap(f) /\ IsMap(off)
    /\ (0 .. (at - 1)) \ {w} \subseteq DOMAIN f /\ DOMAIN f \subseteq 0 .. at

LEMMA PutIs ==
    ASSUME NEW f, NEW p, NEW c
    PROVE  /\ IsMap(Put(f, p, c)) /\ DOMAIN Put(f, p, c) = DOMAIN f \cup {p}
           /\ Put(f, p, c)[p] = c
           /\ \A q \in DOMAIN f : q # p => Put(f, p, c)[q] = f[q]
BY DEF Put, IsMap

LEMMA WithIs ==
    ASSUME NEW f, NEW p, NEW c
    PROVE  /\ IsMap(With(f, p, c)) /\ DOMAIN With(f, p, c) = DOMAIN f \cup {p}
           /\ With(f, p, c)[p] = c
           /\ \A q \in DOMAIN f : q # p => With(f, p, c)[q] = f[q]
BY DEF With, IsMap

(* The records laid out are the first ones. *)
LEMMA LaidRanks ==
    ASSUME NEW M, IsList(M), NEW U, \A i \in DOMAIN M \ U, j \in U : i < j
    PROVE  /\ Cardinality(DOMAIN M \ U) \in Nat
           /\ \A i \in DOMAIN M \ U : Rank(i, M) \in 1 .. Cardinality(DOMAIN M \ U)
           /\ \A i \in DOMAIN M \cap U : (\A j \in U : i <= j) =>
                 Rank(i, M) = Cardinality(DOMAIN M \ U) + 1
<1> DEFINE D == DOMAIN M \ U
<1>1. D \in SUBSET DOMAIN M /\ IsFiniteSet(D) /\ Cardinality(D) \in Nat
  BY FS_Subset, FS_CardinalityType DEF IsList
<1>2. ASSUME NEW i \in D PROVE Rank(i, M) \in 1 .. Cardinality(D)
  <2>1. Upto(i, M) \in SUBSET D
    BY DEF Upto, IsList
  <2>2. Cardinality(Upto(i, M)) <= Cardinality(D)
    BY <1>1, <2>1, FS_Subset
  <2>3. Rank(i, M) = Cardinality(Upto(i, M)) /\ Rank(i, M) \in 1 .. Count(M) /\ Count(M) \in Nat
    BY RankIs
  <2> QED
    BY <1>1, <2>2, <2>3
<1>3. ASSUME NEW i \in DOMAIN M \cap U, \A j \in U : i <= j
      PROVE  Rank(i, M) = Cardinality(D) + 1
  <2>1. Upto(i, M) = D \cup {i}
    BY <1>3 DEF Upto, IsList
  <2>2. Cardinality(D \cup {i}) = Cardinality(D) + 1
    BY <1>1, FS_AddElement
  <2>3. Rank(i, M) = Cardinality(Upto(i, M))
    BY RankIs
  <2> QED
    BY <2>1, <2>2, <2>3
<1> QED
  BY <1>1, <1>2, <1>3

LEMMA LaidStart ==
    ASSUME NEW M, NEW U, DOMAIN M \subseteq U, NEW w \in {0, 1}, NEW off, IsMap(off)
    PROVE  Laid([p \in 0 .. w |-> Hole], M, U, w + 1, w, off)
<1>1. DOMAIN M \ U = {}
  OBVIOUS
<1>2. Cardinality(DOMAIN M \ U) = 0
  BY <1>1, FS_EmptySet
<1> QED
  BY <1>1, <1>2 DEF Laid, IsMap

(* Record i is the next to be laid out: the records of M but for those of  *)
(* U are laid out, and those have not changed in N.                        *)
IsNext(i, M, N, f, U, at, w, off) ==
    /\ IsList(M) /\ w \in {0, 1} /\ Laid(f, M, U, at, w, off)
    /\ DOMAIN M \ U \subseteq DOMAIN off
    /\ i \in DOMAIN M \cap U /\ (\A j \in U : i <= j) /\ U \subseteq Nat
    /\ DOMAIN N = DOMAIN M /\ \A j \in DOMAIN M \ U : N[j] = M[j]

(* One more record *)
LEMMA LaidNext ==
    ASSUME NEW i, NEW M, NEW N, NEW f, NEW U, NEW at, NEW w, NEW off,
           IsNext(i, M, N, f, U, at, w, off)
    PROVE  Laid(Put(f, at, RecCell(N[i])), N, U \ {i}, at + 1, w, With(off, i, at))
<1> USE DEF IsNext
<1> DEFINE D == DOMAIN M \ U
           d == Cardinality(D)
           g == Put(f, at, RecCell(N[i]))
           o == With(off, i, at)
           E == DOMAIN N \ (U \ {i})
           next == at + 1
<1>1. /\ at = w + 1 + d /\ \A k \in D, j \in U : k < j
      /\ \A k \in D : off[k] = w + Rank(k, M) /\ f[w + Rank(k, M)] = RecCell(M[k])
      /\ (0 .. (at - 1)) \ {w} \subseteq DOMAIN f /\ DOMAIN f \subseteq 0 .. at
  BY DEF Laid
<1>2. /\ d \in Nat /\ \A k \in D : Rank(k, M) \in 1 .. d
      /\ Rank(i, M) = d + 1
  BY <1>1, LaidRanks
<1>3. DOMAIN N \ (U \ {i}) = D \cup {i} /\ i \notin D
  OBVIOUS
<1>4. Cardinality(D \cup {i}) = d + 1
  <2>1. IsFiniteSet(D)
    BY FS_Subset DEF IsList
  <2> QED
    BY <1>3, <2>1, FS_AddElement
<1>5. \A k \in D \cup {i}, j \in U \ {i} : k < j
  BY <1>1 DEF IsList
<1>6. /\ IsMap(g) /\ DOMAIN g = DOMAIN f \cup {at} /\ g[at] = RecCell(N[i])
      /\ \A q \in DOMAIN f : q # at => g[q] = f[q]
  BY DEF Put, IsMap
<1>7. /\ IsMap(o) /\ o[i] = at /\ \A q \in DOMAIN off : q # i => o[q] = off[q]
  BY DEF With, IsMap
<1> HIDE DEF D, d, g, o
<1>8. \A k : Rank(k, N) = Rank(k, M)
  BY RankOfDomain
<1>9. ASSUME NEW k \in D
      PROVE  o[k] = w + Rank(k, N) /\ g[w + Rank(k, N)] = RecCell(N[k])
  <2>1. w + Rank(k, M) \in (0 .. (at - 1)) \ {w} /\ w + Rank(k, M) # at
    BY <1>1, <1>2
  <2>2. o[k] = off[k] /\ g[w + Rank(k, M)] = f[w + Rank(k, M)]
    BY <1>1, <1>3, <1>6, <1>7, <2>1 DEF D
  <2> QED
    BY <1>1, <1>8, <2>2 DEF D
<1>10. o[i] = w + Rank(i, N) /\ g[w + Rank(i, N)] = RecCell(N[i])
  <2>1. w + Rank(i, N) = at
    BY <1>1, <1>2, <1>8
  <2> QED
    BY <1>6, <1>7, <2>1
<1>11. (0 .. (next - 1)) \ {w} \subseteq DOMAIN g /\ DOMAIN g \subseteq 0 .. next
  BY <1>1, <1>2, <1>6
<1>12. next = w + 1 + Cardinality(E)
  <2>1. Cardinality(E) = d + 1
    BY <1>3, <1>4
  <2>2. at = w + 1 + d
    BY <1>1 DEF d, D
  <2> HIDE DEF E
  <2> QED
    BY <1>2, <2>1, <2>2
<1>13. \A k \in E : o[k] = w + Rank(k, N) /\ g[w + Rank(k, N)] = RecCell(N[k])
  BY <1>3, <1>9, <1>10
<1>14. \A k \in E, j \in U \ {i} : k < j
  BY <1>3, <1>5
<1> HIDE DEF next
<1>15. Laid(g, N, U \ {i}, next, w, o)
  BY <1>6, <1>7, <1>11, <1>12, <1>13, <1>14 DEF Laid
<1> QED
  BY <1>15 DEF g, o, next

(* Record i is dropped instead: the list is N from now on.                 *)
IsDropped(i, M, N, f, U, at, w, off) ==
    /\ IsList(M) /\ w \in {0, 1} /\ Laid(f, M, U, at, w, off) /\ i \in U
    /\ DOMAIN N = DOMAIN M \ {i} /\ \A j \in DOMAIN M \ U : N[j] = M[j]

(* A record dropped from the list, and something else where it would be *)
LEMMA LaidSkip ==
    ASSUME NEW i, NEW M, NEW N, NEW f, NEW U, NEW at, NEW w, NEW off, NEW c,
           IsDropped(i, M, N, f, U, at, w, off)
    PROVE  Laid(Put(f, at, c), N, U \ {i}, at, w, off)
<1> USE DEF IsDropped
<1> DEFINE D == DOMAIN M \ U
           g == Put(f, at, c)
<1>1. /\ at = w + 1 + Cardinality(D) /\ \A k \in D, j \in U : k < j
      /\ \A k \in D : off[k] = w + Rank(k, M) /\ f[w + Rank(k, M)] = RecCell(M[k])
      /\ (0 .. (at - 1)) \ {w} \subseteq DOMAIN f /\ DOMAIN f \subseteq 0 .. at
      /\ IsMap(off)
  BY DEF Laid
<1>2. Cardinality(D) \in Nat /\ \A k \in D : Rank(k, M) \in 1 .. Cardinality(D)
  BY <1>1, LaidRanks
<1>3. DOMAIN N \ (U \ {i}) = D
  OBVIOUS
<1>4. /\ IsMap(g) /\ DOMAIN g = DOMAIN f \cup {at}
      /\ \A q \in DOMAIN f : q # at => g[q] = f[q]
  BY DEF Put, IsMap
<1> HIDE DEF g
<1>5. ASSUME NEW k \in D
      PROVE  off[k] = w + Rank(k, N) /\ g[w + Rank(k, N)] = RecCell(N[k])
  <2>1. Rank(k, N) = Rank(k, M)
    <3>1. \A j \in DOMAIN M : j <= k => j # i
      BY <1>1 DEF IsList
    <3>2. {j \in DOMAIN N : j <= k} = {j \in DOMAIN M : j <= k}
      BY <3>1
    <3> QED
      BY <3>2, RankBefore
  <2>2. w + Rank(k, M) \in (0 .. (at - 1)) \ {w} /\ w + Rank(k, M) # at
    BY <1>1, <1>2
  <2>3. g[w + Rank(k, M)] = f[w + Rank(k, M)]
    BY <1>1, <1>4, <2>2
  <2> QED
    BY <1>1, <2>1, <2>3
<1>6. /\ (0 .. (at - 1)) \ {w} \subseteq DOMAIN g /\ DOMAIN g \subseteq 0 .. at
  <2>1. at \in 0 .. at
    BY <1>1, <1>2
  <2> QED
    BY <1>1, <1>4, <2>1
<1>7. Laid(g, N, U \ {i}, at, w, off)
  BY <1>1, <1>3, <1>4, <1>5, <1>6 DEF Laid
<1> QED
  BY <1>7 DEF g

(* All records laid out, the file cut off behind them, and its header put  *)
(* in                                                                      *)
Topped(f, M, at, w) == Put(Truncate(f, at), w, Head(Count(M), at - w))

LEMMA LaidHead ==
    ASSUME NEW M, IsList(M), NEW w \in {0, 1},
           NEW f, NEW at, NEW off, Laid(f, M, {}, at, w, off)
    PROVE  /\ at - w = Count(M) + 1
           /\ Body(Topped(f, M, at, w), M, w)
           /\ w = 1 => Topped(f, M, at, w)[0] = f[0]
           /\ \A i \in DOMAIN M : off[i] = w + Rank(i, M)
<1> DEFINE U == {}
           n == Count(M)
           t == Truncate(f, at)
           g == Put(t, w, Head(n, at - w))
<1>1. DOMAIN M \ U = DOMAIN M
  OBVIOUS
<1>2. /\ at = w + 1 + n
      /\ \A k \in DOMAIN M : off[k] = w + Rank(k, M) /\ f[w + Rank(k, M)] = RecCell(M[k])
      /\ (0 .. (at - 1)) \ {w} \subseteq DOMAIN f /\ DOMAIN f \subseteq 0 .. at
  BY <1>1 DEF Laid, Count
<1>3. n \in Nat /\ \A k \in DOMAIN M : Rank(k, M) \in 1 .. n
  BY RankIs
<1>4. DOMAIN t = {p \in DOMAIN f : p < at} /\ \A p \in DOMAIN t : t[p] = f[p]
  BY DEF Truncate, Restrict
<1>5. /\ IsMap(g) /\ DOMAIN g = DOMAIN t \cup {w} /\ g[w] = Head(n, at - w)
      /\ \A q \in DOMAIN t : q # w => g[q] = t[q]
  <2> HIDE DEF t
  <2> QED
    BY DEF Put, IsMap
<1> HIDE DEF t, g
<1>6. at - w = n + 1
  BY <1>2, <1>3
<1>7. DOMAIN g = 0 .. (w + n)
  BY <1>2, <1>3, <1>4, <1>5
<1>8. ASSUME NEW k \in DOMAIN M PROVE g[w + Rank(k, M)] = RecCell(M[k])
  <2>1. /\ w + Rank(k, M) \in (0 .. (at - 1)) \ {w} /\ w + Rank(k, M) < at
        /\ w + Rank(k, M) # w
    BY <1>2, <1>3
  <2> QED
    BY <1>2, <1>4, <1>5, <2>1
<1>9. Body(g, M, w)
  BY <1>5, <1>6, <1>7, <1>8 DEF Body
<1>10. w = 1 => g[0] = f[0]
  <2>1. w = 1 => 0 \in (0 .. (at - 1)) \ {w} /\ 0 < at
    BY <1>2, <1>3
  <2> QED
    BY <1>2, <1>4, <1>5, <2>1
<1>11. \A i \in DOMAIN M : off[i] = w + Rank(i, M)
  BY <1>2
<1> QED
  BY <1>6, <1>9, <1>10, <1>11 DEF t, g, Topped

-----------------------------------------------------------------------------
(* The invariant *)

(* The records still to be laid out *)
Undone == OldTodo \cup NewTodo

TempLaid == Laid(temp, Merged, Undone, fl.at, hoff, fl.off)
ArchLaid == Laid(arch, Merged, Undone, fl.at, hoff, fl.off)

(* A file with the contents of orig, or of orig after the flush *)
ArchHasOrig(w) == IsFileOf(arch, orig, w)
ArchIsMerged   == IsFileOf(arch, Merged, hoff)
TempIsMerged   == IsFileOf(temp, Merged, hoff)

(* The archive file has what is in orig; one just created has nothing. *)
WasOnDisk(w) == \/ created /\ DOMAIN orig = {} /\ arch = EmptyFile /\ w = 0
                \/ ArchHasOrig(w)
OnDisk == WasOnDisk(hoff) /\ offs = Ranks(orig, hoff)

(* What Nu_Flush found, and where it knows the records to be *)
OldPlaces == \A i \in fl.todo : /\ offs[i] = fl.before.hoff + Rank(i, orig)
                                /\ fl.off[i] = fl.before.hoff + Rank(i, orig)
NewPlaces == fl.head.eof = Count(Merged) + 1 /\ fl.off = Ranks(Merged, hoff)

Known ==
    /\ fl.before.offs = Ranks(orig, fl.before.hoff) /\ fl.before.hoff \in {0, 1}
    /\ hoff = IF fl.discard THEN 0 ELSE fl.before.hoff
    /\ fl.len0 = 0 => created /\ DOMAIN orig = {} /\ hoff = 0
    /\ pc = "old" => OldPlaces
    /\ pc = "new" => fl.todo \subseteq DOMAIN new
    /\ pc \in Headed => NewPlaces

ThroughTemp ==
    /\ pc \in {"old", "new", "wrap", "delete"} => WasOnDisk(fl.before.hoff)
    /\ pc \in {"old", "new"} => TempLaid
    /\ pc = "wrap" => Body(temp, Merged, hoff)
    /\ pc \in Swapping => TempIsMerged
    /\ pc \in {"reopen", "commit"} => ArchIsMerged

(* The archive as it was but for the updates *)
OldHead ==
    /\ hoff = 1 => arch[0] = Wrap
    /\ \/ created /\ DOMAIN orig = {}
       \/ hoff \in DOMAIN arch /\ arch[hoff] = Head(Count(orig), Count(orig) + 1)
PlaceOld ==
    /\ DOMAIN Cur = DOMAIN orig /\ IsMap(arch) /\ IsMap(fl.off)
    /\ (0 .. (hoff + Count(orig))) \ {hoff} \subseteq DOMAIN arch
    /\ DOMAIN arch \subseteq 0 .. (hoff + Count(orig))
    /\ \A i \in DOMAIN orig :
          /\ arch[hoff + Rank(i, orig)] = RecCell(IF i \in fl.todo THEN orig[i] ELSE Cur[i])
          /\ fl.off[i] = hoff + Rank(i, orig)

InPlace ==
    /\ ~fl.discard
    /\ pc \in {"old", "new"} => OldHead
    /\ pc = "old" => PlaceOld
    /\ pc = "new" => ArchLaid
    /\ pc \in {"wrap", "sync", "commit"} => ArchIsMerged

Walk == pc \in Rewriting => Known /\ (fl.toTemp => ThroughTemp) /\ (~fl.toTemp => InPlace)

(* A flush is through, or had nothing to do. *)
End == pc = "reset" => /\ OnDisk
                       /\ \/ fl.before.orig = orig /\ flags = {}
                          \/ Merged = orig /\ ArchHasOrig(hoff)

(* No more edits: what is left of the archive *)
Left == (Idle /\ mode = "RO") \/ pc = "closed" =>
           \/ DOMAIN orig = {} \/ Holds(arch, orig) \/ Holds(arch, Merged)
           \/ ~fp.tmp /\ Holds(temp, Merged)

Right == /\ mh.eof = Count(orig) + 1
         /\ Idle /\ mode = "RW" => OnDisk
         /\ Walk /\ End /\ Left
         /\ pc \in {"crashed", "abend"} => NothingLost

Files == /\ pc \in {"closetmp", "rename"} => arch = NoFile
         /\ ~stale => Right

-----------------------------------------------------------------------------
(* What the invariant says *)

LEMMA SoundLists == Sound => IsList(orig) /\ hoff \in {0, 1}
BY DEF Sound, Shape, Memory, Disk, TypeOK, IsRecordSet, IsList

(* The lists and the locals while the records are being written *)
WayLists ==
    /\ WaySets /\ Sizes /\ Phase
    /\ IsList(orig) /\ IsList(Cur) /\ IsList(new) /\ IsList(Merged)
    /\ DOMAIN Merged = DOMAIN Cur \cup DOMAIN new /\ DOMAIN Cur \cap DOMAIN new = {}
    /\ \A i \in DOMAIN Cur : Merged[i] = Cur[i] /\ Rank(i, Merged) = Rank(i, Cur)
    /\ \A i \in DOMAIN new : Merged[i] = new[i]
    /\ pc = "old" => OldTodo = fl.todo /\ fl.todo \subseteq DOMAIN Cur
    /\ hoff \in {0, 1}

LEMMA OnTheWay == Sound /\ pc \in Rewriting => WayLists
<1> SUFFICES ASSUME Sound, pc \in Rewriting PROVE WayLists
  OBVIOUS
<1>1. WaySets /\ Sizes /\ Phase /\ hoff \in {0, 1} /\ orig = Before
  BY SetsOnTheWay DEF Sound, Shape, Locals, Disk, WaySets
<1>2. /\ IsList(orig) /\ IsList(Cur) /\ IsList(new) /\ IsList(Merged)
      /\ DOMAIN Merged = DOMAIN Cur \cup DOMAIN new /\ DOMAIN Cur \cap DOMAIN new = {}
  BY <1>1, MergedCount DEF WaySets, IsList
<1>3. /\ \A i \in DOMAIN Cur : Merged[i] = Cur[i]
      /\ \A i \in DOMAIN new : Merged[i] = new[i]
  BY <1>2 DEF Merged
<1>4. ASSUME NEW i \in DOMAIN Cur PROVE Rank(i, Merged) = Rank(i, Cur)
  <2>1. \A j \in DOMAIN new : i < j /\ i \in Nat /\ j \in Nat
    BY <1>1, <1>2 DEF WaySets, IsList
  <2>2. \A j \in DOMAIN new : ~(j <= i)
    BY <2>1
  <2>3. {j \in DOMAIN Merged : j <= i} = {j \in DOMAIN Cur : j <= i}
    BY <1>2, <2>2
  <2> QED
    BY <2>3, RankBefore
<1>5. pc = "old" => OldTodo = fl.todo /\ fl.todo \subseteq DOMAIN Cur
  BY <1>1 DEF WaySets, Walking, OldWell, OldTodo
<1> QED
  BY <1>1, <1>2, <1>3, <1>4, <1>5 DEF WayLists

LEMMA OnTheWayNext == (Sound /\ pc \in Rewriting => WayLists)'
BY OnTheWay, PTL

(* A record with nothing pending is the one in orig. *)
LEMMA UnmodifiedOld ==
    ASSUME A!Whole, NEW i \in DOMAIN A!OldRecords, ~Modified(A!OldRecords[i])
    PROVE  A!OldRecords[i] = Before[i]
<1>1. A!Inv
  BY DEF A!Whole, A!Full
<1>2. /\ i \in DOMAIN Before /\ A!IsRecordSet(A!OldRecords) /\ A!IsRecordSet(Before)
      /\ A!Derived(A!OldRecords[i], Before[i])
  BY <1>1, A!OldRecordsDerived, Assumptions DEF A!Inv, A!TypeOK
<1>3. /\ A!IsRecord(A!OldRecords[i]) /\ A!IsRecord(Before[i])
      /\ Before[i].mods = {} /\ ~Before[i].dirty
  BY <1>1, <1>2 DEF A!IsRecordSet, A!Inv, A!OrigClean
<1>4. A!OldRecords[i].mods = {} /\ ~A!OldRecords[i].dirty
  BY DEF Modified
<1> QED
  BY <1>2, <1>3, <1>4, A!UnmodifiedIsOrig, Assumptions

(* The archive file as it was has the records of orig. *)
LEMMA DiskHolds ==
    ASSUME IsList(orig), NEW w \in {0, 1}, WasOnDisk(w)
    PROVE  DOMAIN orig = {} \/ Holds(arch, orig)
BY FileHolds DEF WasOnDisk, ArchHasOrig

LEMMA DiskCell ==
    ASSUME IsList(orig), NEW w \in {0, 1}, WasOnDisk(w), NEW i \in DOMAIN orig
    PROVE  w + Rank(i, orig) \in DOMAIN arch /\ arch[w + Rank(i, orig)] = RecCell(orig[i])
<1>1. Body(arch, orig, w)
  BY DEF WasOnDisk, ArchHasOrig, IsFileOf
<1>2. Rank(i, orig) \in 1 .. Count(orig) /\ Count(orig) \in Nat
  BY RankIs
<1>3. w + Rank(i, orig) \in 0 .. (w + Count(orig))
  BY <1>2
<1> QED
  BY <1>1, <1>3 DEF Body

(* In place and with no copy set, the archive keeps the records of orig.   *)
LEMMA InPlaceHolds ==
    ASSUME WayLists, Known, InPlace, pc \in {"old", "new"}, ~copyLoaded
    PROVE  DOMAIN orig = {} \/ Holds(arch, orig)
<1> SUFFICES ASSUME DOMAIN orig # {} PROVE Holds(arch, orig)
  OBVIOUS
<1>1. Cur = orig
  BY DEF Cur
<1>2. /\ IsList(orig) /\ hoff \in {0, 1}
      /\ hoff \in DOMAIN arch /\ arch[hoff] = Head(Count(orig), Count(orig) + 1)
      /\ hoff = 1 => arch[0] = Wrap
  BY DEF InPlace, OldHead, WayLists
<1>3. \A i \in DOMAIN orig : Rank(i, orig) \in 1 .. Count(orig) /\ Count(orig) \in Nat
  BY <1>2, RankIs
<1>4. /\ hoff = 1 => 0 \in DOMAIN arch
      /\ \A i \in DOMAIN orig : /\ hoff + Rank(i, orig) \in DOMAIN arch
                                /\ arch[hoff + Rank(i, orig)] = RecCell(orig[i])
  <2>1. CASE pc = "old"
    <3>1. /\ (0 .. (hoff + Count(orig))) \ {hoff} \subseteq DOMAIN arch
          /\ \A i \in DOMAIN orig : arch[hoff + Rank(i, orig)] = RecCell(orig[i])
      BY <1>1, <2>1 DEF InPlace, PlaceOld
    <3>2. \A i \in DOMAIN orig : hoff + Rank(i, orig) \in (0 .. (hoff + Count(orig))) \ {hoff}
      BY <1>2, <1>3
    <3>3. hoff = 1 => 0 \in (0 .. (hoff + Count(orig))) \ {hoff}
      BY <1>2, <1>3
    <3> QED
      BY <3>1, <3>2, <3>3
  <2>2. CASE pc = "new"
    <3>1. /\ fl.at = hoff + 1 + Cardinality(DOMAIN Merged \ Undone)
          /\ \A i \in DOMAIN Merged \ Undone, j \in Undone : i < j
          /\ \A i \in DOMAIN Merged \ Undone : arch[hoff + Rank(i, Merged)] = RecCell(Merged[i])
          /\ (0 .. (fl.at - 1)) \ {hoff} \subseteq DOMAIN arch
      BY <2>2 DEF InPlace, ArchLaid, Laid
    <3>2. Undone = fl.todo /\ fl.todo \subseteq DOMAIN new
      BY <2>2 DEF Undone, OldTodo, NewTodo, Known
    <3>3. DOMAIN orig \subseteq DOMAIN Merged \ Undone
      BY <1>1, <3>2 DEF WayLists
    <3>4. /\ Cardinality(DOMAIN Merged \ Undone) \in Nat
          /\ \A i \in DOMAIN orig : Rank(i, Merged) \in 1 .. Cardinality(DOMAIN Merged \ Undone)
      BY <3>1, <3>3, LaidRanks DEF WayLists
    <3>5. \A i \in DOMAIN orig : Rank(i, Merged) = Rank(i, orig) /\ Merged[i] = orig[i]
      BY <1>1 DEF WayLists
    <3>6. ASSUME NEW i \in DOMAIN orig
          PROVE  hoff + Rank(i, orig) \in (0 .. (fl.at - 1)) \ {hoff}
      <4> DEFINE d == Cardinality(DOMAIN Merged \ Undone)
      <4>1. d \in Nat /\ Rank(i, orig) \in 1 .. d /\ fl.at = hoff + 1 + d
        BY <3>1, <3>4, <3>5
      <4> HIDE DEF d
      <4> QED
        BY <1>2, <4>1
    <3>7. hoff = 1 => 0 \in (0 .. (fl.at - 1)) \ {hoff}
      BY <1>2, <3>1, <3>4
    <3> QED
      BY <3>1, <3>3, <3>5, <3>6, <3>7
  <2> QED
    BY <2>1, <2>2
<1> QED
  BY <1>2, <1>4, HoldsIs

LEMMA NothingIsLost ==
    ASSUME Sound, Files
    PROVE  NothingLost
<1> SUFFICES ASSUME ~stale, pc \notin {"crashed", "abend"} PROVE NothingLost
  BY DEF NothingLost, Files, Right
<1>1. Right /\ IsList(orig) /\ hoff \in {0, 1} /\ Shape /\ FlushInv
  BY SoundLists DEF Files, Sound
<1>2. CASE pc \in Rewriting
  <2>1. WayLists /\ Walk /\ Before = orig
    BY <1>1, <1>2, OnTheWay DEF Right, WayLists, WaySets
  <2>2. CASE fl.toTemp
    <3>1. CASE pc \in {"old", "new", "wrap", "delete"}
      BY <1>1, <1>2, <2>1, <2>2, <3>1, DiskHolds DEF Walk, ThroughTemp, Known, NothingLost
    <3>2. CASE pc \in Swapping
      BY <1>2, <2>1, <2>2, <3>2, FileHolds
         DEF Walk, ThroughTemp, TempIsMerged, NothingLost, WayLists
    <3>3. CASE pc \in {"reopen", "commit"}
      BY <1>2, <2>1, <2>2, <3>3, FileHolds
         DEF Walk, ThroughTemp, ArchIsMerged, NothingLost, WayLists
    <3>4. pc # "sync"
      BY <2>1, <2>2 DEF WayLists, Phase
    <3> QED
      BY <1>2, <3>1, <3>2, <3>3, <3>4 DEF Rewriting, Headed, Swapping
  <2>3. CASE ~fl.toTemp
    <3>1. CASE pc \in {"old", "new"} /\ copyLoaded
      <4>1. Midway /\ fl.before.loaded
        BY <1>2, <2>1, <3>1 DEF Midway, InFlush, WayLists, Phase
      <4> QED
        BY <2>3, <4>1 DEF NothingLost, InPlaceUpdate
    <3>2. CASE pc \in {"old", "new"} /\ ~copyLoaded
      BY <1>2, <2>1, <2>3, <3>2, InPlaceHolds DEF Walk, NothingLost
    <3>3. CASE pc \in {"wrap", "sync", "commit"}
      BY <1>2, <2>1, <2>3, <3>3, FileHolds
         DEF Walk, InPlace, ArchIsMerged, NothingLost, WayLists
    <3>4. pc \notin {"delete", "closetmp", "rename", "reopen"}
      BY <2>1, <2>3 DEF WayLists, Phase
    <3> QED
      BY <1>2, <3>1, <3>2, <3>3, <3>4 DEF Rewriting, Headed
  <2> QED
    BY <2>2, <2>3
<1>3. CASE pc = "reset"
  <2>1. Before = fl.before.orig
    BY <1>3 DEF Before, Midway, InFlush
  <2> QED
    BY <1>1, <1>3, <2>1, DiskHolds, FileHolds
       DEF Right, End, OnDisk, ArchHasOrig, NothingLost
<1>4. CASE pc \in {"idle", "closed"}
  <2>1. Before = orig
    BY <1>4 DEF Before, Midway, InFlush
  <2>2. CASE Idle /\ mode = "RW"
    BY <1>1, <2>1, <2>2, DiskHolds DEF Right, OnDisk, NothingLost
  <2>3. CASE (Idle /\ mode = "RO") \/ pc = "closed"
    BY <1>1, <2>1, <2>3 DEF Right, Left, NothingLost
  <2> QED
    BY <1>1, <1>4, <2>2, <2>3 DEF Idle, Shape, Memory, TypeOK
<1> QED
  BY <1>1, <1>2, <1>3, <1>4 DEF Shape, Memory, Places, Rewriting, Headed

LEMMA TocMatches ==
    ASSUME Sound, Files
    PROVE  TocMatchesFile
<1> SUFFICES ASSUME Idle, mode = "RW", ~stale,
                    ~(created /\ DOMAIN orig = {} /\ arch = EmptyFile)
             PROVE  /\ arch = FileOf(orig, hoff)
                    /\ arch[hoff] = Head(mh.count, mh.eof)
                    /\ offs = [i \in DOMAIN orig |-> hoff + Rank(i, orig)]
  BY DEF TocMatchesFile
<1>1. /\ IsFileOf(arch, orig, hoff) /\ offs = Ranks(orig, hoff)
      /\ mh.count = Count(orig) /\ mh.eof = Count(orig) + 1
  BY DEF Files, Right, OnDisk, WasOnDisk, ArchHasOrig, Sound, Shape, Memory
<1>2. arch = FileOf(orig, hoff)
  BY <1>1, SoundLists, FileIs
<1> QED
  BY <1>1, <1>2 DEF Ranks, IsFileOf, Body

-----------------------------------------------------------------------------
(* The invariant is kept: between flushes *)

LEMMA InitFiles == FInit => Files
<1> SUFFICES ASSUME FInit PROVE Files
  OBVIOUS
<1>1. /\ Sound /\ Idle /\ mode = "RW" /\ pc = "idle"
      /\ created = (DOMAIN orig = {}) /\ hoff \in {0, 1}
      /\ arch = IF created THEN EmptyFile ELSE FileOf(orig, hoff)
      /\ created => hoff = 0
      /\ mh = [count |-> Count(orig), eof |-> Count(orig) + 1]
      /\ offs = [i \in DOMAIN orig |-> hoff + Rank(i, orig)]
  BY InitShape, FlushAssumption DEF FInit, Init, Idle, Count
<1>2. OnDisk
  BY <1>1, SoundLists, FileOfIs DEF OnDisk, WasOnDisk, ArchHasOrig, Ranks
<1> QED
  BY <1>1, <1>2 DEF Files, Right, Walk, End, Left, Idle, Rewriting, Headed

(* Memory and the archive file left alone *)
LEMMA SameDisk ==
    ASSUME UNCHANGED <<orig, arch, created, hoff, offs>>
    PROVE  (OnDisk <=> OnDisk') /\ \A w : WasOnDisk(w)' <=> WasOnDisk(w)
BY DEF OnDisk, WasOnDisk, ArchHasOrig, IsFileOf, Body, Ranks, IsMap, EmptyFile, Count, Rank,
       RecCell, Stored

LEMMA OpenFiles ==
    ASSUME Sound, Files, EditStep \/ GiveUp
    PROVE  Files'
<1>1. /\ Idle /\ mode = "RW" /\ mode' = mode /\ pc = "idle" /\ pc' = "idle"
      /\ UNCHANGED <<orig, arch, created, hoff, offs, mh, stale>>
  BY EditCallIs DEF EditStep, GiveUp, Idle, fileVars
<1> QED
  BY <1>1, SameDisk DEF Files, Right, Walk, End, Left, Idle, Rewriting, Headed, Count

LEMMA CloseFiles ==
    ASSUME Sound, Files, Close
    PROVE  Files'
<1>1. /\ Idle /\ pc' = "closed" /\ UNCHANGED <<vars, mh, stale>>
      /\ temp' = (IF fp.tmp THEN NoFile ELSE temp)
      /\ arch' = arch \/ DOMAIN orig = {}
      /\ fp' = [fp EXCEPT !.arch = FALSE, !.tmp = FALSE]
  BY DEF Close
<1>2. ~fp'.tmp
  <2>1. fp \in [{"arch", "tmp", "known"} -> BOOLEAN]
    BY DEF Sound, Shape, Memory
  <2> QED
    BY <1>1, <2>1
<1>3. Merged' = Merged
  BY <1>1 DEF Merged, Cur, vars
<1>4. ASSUME ~stale PROVE Left'
  <2>1. \/ DOMAIN orig = {} \/ Holds(arch, orig) \/ Holds(arch, Merged)
        \/ ~fp.tmp /\ Holds(temp, Merged)
    <3>1. CASE mode = "RW"
      BY <1>1, <1>4, <3>1, SoundLists, DiskHolds DEF Files, Right, OnDisk
    <3>2. CASE mode = "RO"
      BY <1>1, <1>4, <3>2 DEF Files, Right, Left
    <3> QED
      BY <3>1, <3>2 DEF Sound, Shape, Memory, TypeOK
  <2>2. CASE DOMAIN orig = {}
    BY <1>1, <2>2 DEF Left, vars
  <2>3. CASE DOMAIN orig # {}
    BY <1>1, <1>2, <1>3, <2>1, <2>3 DEF Left, vars
  <2> QED
    BY <2>2, <2>3
<1> QED
  BY <1>1, <1>4 DEF Files, Right, Walk, End, Idle, Rewriting, Headed, Count, vars

LEMMA BeginNothingFiles ==
    ASSUME Sound, Files, BeginNothing
    PROVE  Files'
<1>1. /\ Idle /\ mode = "RW" /\ pc' = "reset" /\ UNCHANGED <<vars, fileVars>>
      /\ fl'.before.orig = orig /\ flags' = {}
  BY DEF BeginNothing
<1> QED
  BY <1>1, SameDisk
     DEF Files, Right, Walk, End, Left, Idle, Rewriting, Headed, Count, vars, fileVars

(* A walk that has begun *)
LEMMA WalkOn ==
    ASSUME Files, pc' \in Rewriting, pc' \in {"closetmp", "rename"} => arch' = NoFile,
           UNCHANGED <<orig, mh>>, ~stale' => ~stale /\ Walk'
    PROVE  Files'
BY DEF Files, Right, End, Left, Idle, Rewriting, Headed, Count

(* The archive file left alone is what it was. *)
LEMMA StillOnDisk ==
    ASSUME NEW w, WasOnDisk(w), UNCHANGED <<orig, arch, created>>, fl'.before.hoff = w
    PROVE  WasOnDisk(fl.before.hoff)'
BY DEF WasOnDisk, ArchHasOrig, IsFileOf, Body, IsMap, EmptyFile, Count, Rank, RecCell, Stored

(* What a flush knows as long as it runs *)
LEMMA KnownOn ==
    ASSUME UNCHANGED <<orig, created>>,
           NEW w \in {0, 1}, fl'.before.hoff = w, fl'.before.offs = Ranks(orig, w),
           hoff' = IF fl'.discard THEN 0 ELSE w,
           fl'.len0 = 0 => created /\ DOMAIN orig = {} /\ hoff' = 0,
           pc' = "old" => OldPlaces', pc' = "new" => fl'.todo \subseteq DOMAIN new',
           pc' \in Headed => NewPlaces'
    PROVE  Known'
<1>1. (fl.before.offs = Ranks(orig, fl.before.hoff))'
  BY DEF Ranks, Rank
<1> QED
  BY <1>1 DEF Known

LEMMA BeginFiles ==
    ASSUME Sound, Files, Begin
    PROVE  Files'
<1>1. /\ FlushInv /\ Idle /\ mode = "RW" /\ pc' = "old" /\ copyLoaded' = Touched
      /\ copy' = (IF Touched THEN OldRecords ELSE EmptyMap)
      /\ UNCHANGED <<orig, mode, arch, mh, offs, created, stale>>
  BY DEF Sound, Begin
<1>2. /\ fl'.toTemp \in BOOLEAN /\ fl'.discard \in BOOLEAN
      /\ fl'.discard => fl'.toTemp
      /\ ~fl'.toTemp => NoHeavyUpdates
      /\ hoff' = IF fl'.discard THEN 0 ELSE hoff
      /\ temp' = IF fl'.toTemp THEN [p \in 0 .. hoff' |-> Hole] ELSE temp
      /\ fl'.todo = IF fl'.toTemp THEN DOMAIN OldRecords
                    ELSE {i \in DOMAIN OldRecords : Modified(OldRecords[i])}
      /\ fl'.at = hoff' + 1 /\ fl'.len0 = Length(arch)
      /\ fl'.off = Restrict(offs, DOMAIN OldRecords)
      /\ fl'.before.hoff = hoff /\ fl'.before.offs = offs
  BY BeginIs
<1>3. Plain /\ A!OldRecords = OldRecords /\ Before = orig /\ A!Whole
  BY <1>1, OpenIsPlain, SamePending DEF FlushInv, Plain
<1>4. Cur' = OldRecords /\ Sound' /\ WayLists'
  <2>1. Cur' = OldRecords
    BY <1>1 DEF Cur, OldRecords
  <2>2. Sound'
    BY SoundKept DEF FNext
  <2> QED
    BY <1>1, <2>1, <2>2, OnTheWayNext DEF Rewriting
<1>5. /\ DOMAIN OldRecords \subseteq DOMAIN orig /\ fl'.todo \subseteq DOMAIN OldRecords
      /\ \A i \in DOMAIN OldRecords : ~Modified(OldRecords[i]) => OldRecords[i] = orig[i]
  <2>1. A!Inv
    BY <1>3 DEF A!Whole, A!Full
  <2>2. DOMAIN A!OldRecords \subseteq DOMAIN Before
    BY <2>1, A!OldRecordsDerived, Assumptions
  <2> QED
    BY <1>2, <1>3, <2>2, UnmodifiedOld, SameRecords
<1> SUFFICES ASSUME ~stale PROVE Walk'
  BY <1>1, WalkOn DEF Rewriting
<1>6. /\ WasOnDisk(hoff) /\ offs = Ranks(orig, hoff) /\ hoff \in {0, 1} /\ IsList(orig)
      /\ hoff' \in {0, 1}
  BY <1>1, <1>2, SoundLists DEF Files, Right, OnDisk
<1>7. /\ IsMap(fl'.off) /\ DOMAIN fl'.off = DOMAIN OldRecords
      /\ \A i \in DOMAIN OldRecords : fl'.off[i] = hoff + Rank(i, orig)
      /\ \A i \in DOMAIN orig : offs[i] = hoff + Rank(i, orig)
  <2>1. \A i \in DOMAIN orig : offs[i] = hoff + Rank(i, orig)
    BY <1>6 DEF Ranks
  <2>2. DOMAIN offs = DOMAIN orig
    BY <1>6 DEF Ranks
  <2> QED
    BY <1>2, <1>5, <2>1, <2>2 DEF Restrict, IsMap
<1>8. \A i : Rank(i, orig)' = Rank(i, orig)
  BY <1>1 DEF Rank
<1>9. Known'
  <2>1. fl'.len0 = 0 => created /\ DOMAIN orig = {} /\ hoff' = 0
    <3> SUFFICES ASSUME Length(arch) = 0 PROVE created /\ DOMAIN orig = {} /\ hoff = 0
      BY <1>2, <1>6
    <3>1. DOMAIN arch = {}
      BY FS_EmptySet DEF Length, Sound, Shape, Disk
    <3>2. ~ArchHasOrig(hoff)
      <4>1. ArchHasOrig(hoff) => 0 \in DOMAIN arch
        BY <1>6, RankIs DEF ArchHasOrig, IsFileOf, Body
      <4> QED
        BY <3>1, <4>1
    <3> QED
      BY <1>6, <3>2 DEF WasOnDisk
  <2>2. OldPlaces'
    BY <1>1, <1>2, <1>5, <1>7, <1>8 DEF OldPlaces
  <2> QED
    BY <1>1, <1>2, <1>6, <2>1, <2>2, KnownOn DEF Headed
<1>10. DOMAIN Merged' \subseteq Undone' \/ ~fl'.toTemp
  BY <1>1, <1>2, <1>4 DEF WayLists, Undone, OldTodo, NewTodo
<1>11. CASE fl'.toTemp
  <2>1. WasOnDisk(fl.before.hoff)'
    BY <1>1, <1>2, <1>6, StillOnDisk
  <2>2. TempLaid'
    <3>1. Laid([p \in 0 .. hoff' |-> Hole], Merged', Undone', hoff' + 1, hoff', fl'.off)
      BY <1>6, <1>7, <1>10, <1>11, LaidStart
    <3> QED
      BY <1>2, <1>11, <3>1 DEF TempLaid
  <2> QED
    BY <1>1, <1>9, <1>11, <2>1, <2>2 DEF Walk, ThroughTemp, Swapping
<1>12. CASE ~fl'.toTemp
  <2>1. hoff' = hoff /\ fl'.discard = FALSE
    BY <1>2, <1>12
  <2>2. /\ IsMap(arch)
        /\ (0 .. (hoff + Count(orig))) \ {hoff} \subseteq DOMAIN arch
        /\ DOMAIN arch \subseteq 0 .. (hoff + Count(orig))
        /\ \A i \in DOMAIN orig : arch[hoff + Rank(i, orig)] = RecCell(orig[i])
        /\ hoff = 1 => arch[0] = Wrap
        /\ \/ created /\ DOMAIN orig = {}
           \/ hoff \in DOMAIN arch /\ arch[hoff] = Head(Count(orig), Count(orig) + 1)
    <3>1. CASE ArchHasOrig(hoff)
      <4>1. hoff \in 0 .. (hoff + Count(orig))
        BY <1>6, RankIs
      <4> QED
        BY <3>1, <4>1 DEF ArchHasOrig, IsFileOf, Body
    <3>2. CASE ~ArchHasOrig(hoff)
      <4>1. /\ created /\ DOMAIN orig = {} /\ arch = EmptyFile /\ hoff = 0
        BY <1>6, <3>2 DEF WasOnDisk
      <4>2. Count(orig) = 0
        BY <4>1, FS_EmptySet DEF Count
      <4>3. (0 .. (hoff + Count(orig))) \ {hoff} = {}
        BY <4>1, <4>2
      <4>4. IsMap(EmptyFile) /\ DOMAIN EmptyFile = {}
        BY DEF EmptyFile, IsMap
      <4> QED
        BY <4>1, <4>3, <4>4
    <3> QED
      BY <3>1, <3>2
  <2>3. DOMAIN OldRecords = DOMAIN orig
    <3>1. CASE ~Touched
      BY <3>1 DEF OldRecords
    <3>2. CASE Touched
      <4>1. Cardinality(DOMAIN OldRecords) = Cardinality(DOMAIN orig)
        BY <1>2, <1>12, <3>2 DEF NoHeavyUpdates
      <4>2. DOMAIN OldRecords \in SUBSET DOMAIN orig
        BY <1>5
      <4> QED
        BY <1>6, <4>1, <4>2, FS_Subset DEF IsList
    <3> QED
      BY <3>1, <3>2
  <2>4. OldHead'
    BY <1>1, <2>1, <2>2 DEF OldHead, Count
  <2>5. \A i \in DOMAIN orig : (IF i \in fl'.todo THEN orig[i] ELSE Cur'[i]) = orig[i]
    BY <1>2, <1>4, <1>5, <1>12, <2>3
  <2>6. PlaceOld'
    <3>1. Count(orig)' = Count(orig) /\ \A r : RecCell(r)' = RecCell(r)
      BY <1>1 DEF Count, RecCell, Stored
    <3>2. DOMAIN Cur' = DOMAIN orig' /\ IsMap(arch') /\ IsMap(fl'.off)
      BY <1>1, <1>4, <1>7, <2>2, <2>3
    <3>3. \A i \in DOMAIN orig :
             /\ arch[hoff + Rank(i, orig)]
                   = RecCell(IF i \in fl'.todo THEN orig[i] ELSE Cur'[i])
             /\ fl'.off[i] = hoff + Rank(i, orig)
      BY <1>7, <2>2, <2>3, <2>5
    <3> QED
      BY <1>1, <1>8, <2>1, <2>2, <3>1, <3>2, <3>3 DEF PlaceOld
  <2> QED
    BY <1>1, <1>9, <1>12, <2>1, <2>4, <2>6 DEF Walk, InPlace
<1> QED
  BY <1>2, <1>11, <1>12

-----------------------------------------------------------------------------
(* The invariant is kept: the walks *)

(* What a record of the walk over copy or orig has to go by *)
LEMMA AtOld ==
    ASSUME Sound, Right, pc = "old", NEW i \in DOMAIN Cur, AtRecord(i)
    PROVE  /\ WayLists /\ Known /\ (fl.toTemp => ThroughTemp) /\ (~fl.toTemp => InPlace)
           /\ i \in DOMAIN orig /\ i \in fl.todo /\ fl.todo \subseteq DOMAIN Cur
           /\ \A j \in fl.todo : i <= j
           /\ Undone = fl.todo \cup DOMAIN new /\ i \notin DOMAIN new /\ DOMAIN fl = FlFields
           /\ fl.before.hoff \in {0, 1}
           /\ offs[i] = fl.before.hoff + Rank(i, orig)
           /\ fl.off[i] = fl.before.hoff + Rank(i, orig)
           /\ ~Modified(Cur[i]) => Cur[i] = orig[i]
           /\ Modified(Cur[i]) => copyLoaded /\ Cur = copy
<1>1. WayLists /\ Walk
  BY OnTheWay DEF Right, Rewriting
<1>2. /\ i \in fl.todo /\ \A j \in fl.todo : i <= j
  BY DEF AtRecord, IsFirst
<1>3. /\ fl.todo \subseteq DOMAIN Cur /\ i \in DOMAIN orig /\ i \notin DOMAIN new
      /\ Undone = fl.todo \cup DOMAIN new /\ DOMAIN fl = FlFields
  BY <1>1 DEF WayLists, WaySets, Undone, NewTodo
<1>4. /\ Known /\ (fl.toTemp => ThroughTemp) /\ (~fl.toTemp => InPlace)
  BY <1>1 DEF Walk, Rewriting
<1>5. /\ i \in DOMAIN A!OldRecords /\ Cur[i] = A!OldRecords[i]
      /\ Modified(Cur[i]) => copyLoaded /\ Cur = copy
  BY OldFacts DEF Sound
<1>6. ~Modified(Cur[i]) => Cur[i] = orig[i]
  BY <1>1, <1>5, UnmodifiedOld DEF Sound, FlushInv, WayLists, WaySets
<1> QED
  BY <1>1, <1>2, <1>3, <1>4, <1>5, <1>6 DEF Known, OldPlaces

(* The next record reaches the temp file as it is in memory. *)
LEMMA TempOld ==
    ASSUME Sound, Right, pc = "old", pc' = "old", fl.toTemp,
           NEW i \in DOMAIN Cur, AtRecord(i), WriteTemp(i, RecCell(Cur'[i])),
           UNCHANGED <<orig, new, arch, hoff, created>>,
           DOMAIN Cur' = DOMAIN Cur, \A j \in DOMAIN Cur : j # i => Cur'[j] = Cur[j],
           \A j \in DOMAIN orig : j # i => offs'[j] = offs[j]
    PROVE  Walk'
<1>1. /\ WayLists /\ Known /\ ThroughTemp
      /\ i \in DOMAIN orig /\ i \in fl.todo /\ fl.todo \subseteq DOMAIN Cur
      /\ \A j \in fl.todo : i <= j
      /\ Undone = fl.todo \cup DOMAIN new /\ i \notin DOMAIN new /\ DOMAIN fl = FlFields
  BY AtOld
<1>2. /\ temp' = Put(temp, fl.at, RecCell(Cur'[i])) /\ SameLocals
      /\ fl'.todo = fl.todo \ {i} /\ fl'.at = fl.at + 1
      /\ fl'.off = With(fl.off, i, fl.at) /\ fl'.discard = fl.discard
  BY <1>1, WriteTempDoes DEF WriteTemp, FlFields
<1>3. /\ DOMAIN Merged = DOMAIN Cur \cup DOMAIN new /\ DOMAIN Cur \cap DOMAIN new = {}
      /\ DOMAIN Merged' = DOMAIN Merged
      /\ Merged'[i] = Cur'[i] /\ \A j \in DOMAIN Merged : j # i => Merged'[j] = Merged[j]
  BY <1>1 DEF Merged, WayLists
<1>4. /\ i \in DOMAIN Merged \cap Undone /\ Undone \subseteq Nat
      /\ \A j \in Undone : i <= j
  BY <1>1, <1>3 DEF WayLists, WaySets, IsList
<1>5. Undone' = Undone \ {i} /\ DOMAIN Merged \ Undone \subseteq DOMAIN fl.off
  <2>1. DOMAIN fl.off = DOMAIN Merged \ DOMAIN new
    BY <1>1 DEF WayLists, Sizes, NewTodo
  <2>2. Undone' = fl'.todo \cup DOMAIN new
    BY DEF Undone, OldTodo, NewTodo
  <2> QED
    BY <1>1, <1>2, <2>1, <2>2
<1>6. Laid(temp, Merged, Undone, fl.at, hoff, fl.off) /\ IsList(Merged) /\ hoff \in {0, 1}
  BY <1>1 DEF ThroughTemp, TempLaid, WayLists
<1>7. Laid(Put(temp, fl.at, RecCell(Merged'[i])), Merged', Undone \ {i}, fl.at + 1, hoff,
           With(fl.off, i, fl.at))
  <2> DEFINE N == Merged'
  <2>1. DOMAIN N = DOMAIN Merged /\ \A j \in DOMAIN Merged \ Undone : N[j] = Merged[j]
    BY <1>3, <1>4
  <2> HIDE DEF N
  <2>2. Laid(Put(temp, fl.at, RecCell(N[i])), N, Undone \ {i}, fl.at + 1, hoff,
             With(fl.off, i, fl.at))
    <3>1. IsNext(i, Merged, N, temp, Undone, fl.at, hoff, fl.off)
      BY <1>4, <1>5, <1>6, <2>1 DEF IsNext
    <3> QED BY <3>1, LaidNext
  <2> QED
    BY <2>2 DEF N
<1>8. TempLaid'
  BY <1>2, <1>3, <1>5, <1>7 DEF TempLaid
<1>9. WasOnDisk(fl.before.hoff)'
  BY <1>1, <1>2, StillOnDisk DEF ThroughTemp, SameLocals
<1>10. OldPlaces'
  <2>1. ASSUME NEW j \in fl.todo, j # i
        PROVE  /\ offs'[j] = fl.before.hoff + Rank(j, orig)
               /\ fl'.off[j] = fl.before.hoff + Rank(j, orig)
    <3>1. /\ offs[j] = fl.before.hoff + Rank(j, orig)
          /\ fl.off[j] = fl.before.hoff + Rank(j, orig) /\ j \in DOMAIN orig
      BY <1>1 DEF Known, OldPlaces, WayLists, WaySets
    <3>2. j \in DOMAIN fl.off
      BY <1>1, <1>3 DEF WayLists, Sizes, NewTodo
    <3>3. fl'.off[j] = fl.off[j]
      BY <1>2, <2>1, <3>2 DEF With
    <3> QED
      BY <2>1, <3>1, <3>3
  <2>2. \A j : Rank(j, orig)' = Rank(j, orig)
    BY DEF Rank
  <2> QED
    BY <1>2, <2>1, <2>2 DEF OldPlaces, SameLocals
<1>11. Known'
  BY <1>1, <1>2, <1>10, KnownOn DEF Known, SameLocals, Headed
<1> QED
  BY <1>2, <1>8, <1>9, <1>11 DEF Walk, ThroughTemp, Swapping, SameLocals

LEMMA CopyOldFiles ==
    ASSUME Sound, Files, NEW i \in DOMAIN Cur, CopyOld(i)
    PROVE  Files'
<1>1. /\ pc = "old" /\ pc' = "old" /\ fl.toTemp /\ AtRecord(i) /\ ~Modified(Cur[i])
      /\ WriteTemp(i, arch[fl.off[i]])
      /\ offs' = (IF copyLoaded THEN offs ELSE [offs EXCEPT ![i] = fl.at])
      /\ UNCHANGED <<vars, arch, hoff, mh, created, stale>>
  BY DEF CopyOld
<1> SUFFICES ASSUME Right PROVE Walk'
  BY <1>1, WalkOn DEF Rewriting, vars, Files
<1>2. /\ ThroughTemp /\ WayLists /\ fl.before.hoff \in {0, 1} /\ i \in DOMAIN orig
      /\ fl.off[i] = fl.before.hoff + Rank(i, orig) /\ Cur[i] = orig[i]
  BY <1>1, AtOld
<1>3. arch[fl.off[i]] = RecCell(orig[i])
  BY <1>1, <1>2, DiskCell DEF ThroughTemp, WayLists
<1>4. Cur' = Cur
  BY <1>1 DEF Cur, vars
<1>5. \A j \in DOMAIN orig : j # i => offs'[j] = offs[j]
  BY <1>1 DEF Sound, Shape, Memory
<1> QED
  BY <1>1, <1>2, <1>3, <1>4, <1>5, TempOld DEF vars

LEMMA BuildOldFiles ==
    ASSUME Sound, Files, NEW i \in DOMAIN Cur, BuildOld(i) \/ SkipOld(i)
    PROVE  Files'
<1>1. /\ pc = "old" /\ pc' = "old" /\ fl.toTemp /\ AtRecord(i) /\ Modified(Cur[i])
      /\ UNCHANGED <<orig, copyLoaded, new, arch, hoff, mh, offs, created, stale>>
      /\ \E r : copy' = [copy EXCEPT ![i] = r]
      /\ \/ WriteTemp(i, Carry(i, copy'[i]))
         \/ WriteTemp(i, arch[offs[i]]) /\ copy' = [copy EXCEPT ![i] = orig[i]]
  BY DEF BuildOld, SkipOld, Modified
<1> SUFFICES ASSUME Right PROVE Walk'
  BY <1>1, WalkOn DEF Rewriting, Files
<1>2. /\ ThroughTemp /\ WayLists /\ fl.before.hoff \in {0, 1} /\ i \in DOMAIN orig
      /\ offs[i] = fl.before.hoff + Rank(i, orig) /\ copyLoaded /\ Cur = copy
  BY <1>1, AtOld
<1>3. offs[i] \in DOMAIN arch /\ arch[offs[i]] = RecCell(orig[i])
  BY <1>1, <1>2, DiskCell DEF ThroughTemp, WayLists
<1>4. PICK r : copy' = [copy EXCEPT ![i] = r]
  BY <1>1
<1>5. /\ DOMAIN Cur' = DOMAIN Cur /\ Cur'[i] = r /\ copy'[i] = r
      /\ \A j \in DOMAIN Cur : j # i => Cur'[j] = Cur[j]
  BY <1>1, <1>2, <1>4, CopySetIs
<1>6. WriteTemp(i, RecCell(Cur'[i]))
  <2>1. CASE WriteTemp(i, Carry(i, copy'[i]))
    BY <1>3, <1>5, <2>1 DEF Carry
  <2>2. CASE WriteTemp(i, arch[offs[i]]) /\ copy' = [copy EXCEPT ![i] = orig[i]]
    <3>1. copy'[i] = orig[i]
      BY <1>2, <2>2
    <3> QED
      BY <1>3, <1>5, <2>2, <3>1
  <2> QED
    BY <1>1, <2>1, <2>2
<1> QED
  BY <1>1, <1>2, <1>5, <1>6, TempOld

(* An update in place touches the cell of its record and no other. *)
LEMMA UpdateOldFiles ==
    ASSUME Sound, Files, NEW i \in DOMAIN Cur, UpdateOld(i)
    PROVE  Files'
<1>1. /\ pc = "old" /\ pc' = "old" /\ ~fl.toTemp /\ AtRecord(i)
      /\ \E r : copy' = [copy EXCEPT ![i] = r]
      /\ arch' = Put(arch, offs[i], Carry(i, copy'[i]))
      /\ fl' = [fl EXCEPT !.todo = @ \ {i}]
      /\ UNCHANGED <<orig, copyLoaded, new, hoff, mh, offs, created, stale>>
  BY DEF UpdateOld
<1> SUFFICES ASSUME Right PROVE Walk'
  BY <1>1, WalkOn DEF Rewriting, Files
<1> DEFINE w == hoff
           p == w + Rank(i, orig)
           n == Count(orig)
<1>2. /\ WayLists /\ Known /\ InPlace
      /\ i \in DOMAIN orig /\ i \in fl.todo /\ fl.todo \subseteq DOMAIN Cur
      /\ DOMAIN fl = FlFields /\ fl.before.hoff = w /\ w \in {0, 1} /\ IsList(orig)
      /\ offs[i] = p /\ copyLoaded /\ Cur = copy
  <2>1. Modified(Cur[i])
    BY <1>1, OldFacts DEF Sound
  <2>2. fl.before.hoff = hoff
    BY <1>1, AtOld DEF Known, InPlace
  <2> QED
    BY <1>1, <2>1, <2>2, AtOld DEF WayLists
<1>3. /\ fl'.todo = fl.todo \ {i} /\ fl'.off = fl.off /\ fl'.before = fl.before
      /\ fl'.discard = fl.discard /\ fl'.len0 = fl.len0 /\ fl'.toTemp = fl.toTemp
  BY <1>1, <1>2 DEF FlFields
<1>4. /\ OldHead /\ DOMAIN Cur = DOMAIN orig /\ IsMap(arch) /\ IsMap(fl.off)
      /\ (0 .. (w + n)) \ {w} \subseteq DOMAIN arch /\ DOMAIN arch \subseteq 0 .. (w + n)
      /\ \A j \in DOMAIN orig :
            /\ arch[w + Rank(j, orig)] = RecCell(IF j \in fl.todo THEN orig[j] ELSE Cur[j])
            /\ fl.off[j] = w + Rank(j, orig)
  BY <1>1, <1>2 DEF InPlace, PlaceOld
<1>5. /\ n \in Nat /\ \A j \in DOMAIN orig : Rank(j, orig) \in 1 .. n
      /\ \A j \in DOMAIN orig : j # i => Rank(j, orig) # Rank(i, orig)
  BY <1>2, RankIs, RankTells
<1>6. /\ DOMAIN Cur' = DOMAIN Cur /\ copy'[i] = Cur'[i]
      /\ \A j \in DOMAIN Cur : j # i => Cur'[j] = Cur[j]
  BY <1>1, <1>2, CopySetIs
<1> HIDE DEF w, n
<1>7. \A j \in DOMAIN orig : w + Rank(j, orig) \in (0 .. (w + n)) \ {w}
  BY <1>2, <1>5
<1>8. p \in DOMAIN arch /\ arch[p] = RecCell(orig[i])
  BY <1>2, <1>4, <1>7
<1>9. arch' = Put(arch, p, RecCell(Cur'[i]))
  <2>1. Carry(i, copy'[i]) = RecCell(copy'[i])
    BY <1>2, <1>8 DEF Carry
  <2> QED
    BY <1>1, <1>2, <1>6, <2>1
<1>10. /\ IsMap(arch') /\ DOMAIN arch' = DOMAIN arch /\ arch'[p] = RecCell(Cur'[i])
       /\ \A q \in DOMAIN arch : q # p => arch'[q] = arch[q]
  BY <1>8, <1>9 DEF Put, IsMap
<1>11. Count(orig)' = n /\ hoff' = w /\ hoff = w /\ \A j : Rank(j, orig)' = Rank(j, orig)
  BY <1>1 DEF Count, Rank, n, w
<1>12. PlaceOld'
  <2>1. ASSUME NEW j \in DOMAIN orig
        PROVE  arch'[w + Rank(j, orig)] = RecCell(IF j \in fl'.todo THEN orig[j] ELSE Cur'[j])
    <3>1. CASE j = i
      BY <1>3, <1>10, <3>1
    <3>2. CASE j # i
      <4>1. w + Rank(j, orig) # p /\ w + Rank(j, orig) \in DOMAIN arch
        BY <1>2, <1>4, <1>5, <1>7, <3>2
      <4> QED
        BY <1>3, <1>4, <1>6, <1>10, <3>2, <4>1
    <3> QED
      BY <3>1, <3>2
  <2> QED
    BY <1>1, <1>3, <1>4, <1>6, <1>10, <1>11, <2>1 DEF PlaceOld
<1>13. OldHead'
  <2>1. /\ w = 1 => arch[0] = Wrap
        /\ \/ created /\ DOMAIN orig = {}
           \/ w \in DOMAIN arch /\ arch[w] = Head(n, n + 1)
    BY <1>4, <1>11 DEF OldHead, n
  <2>2. p # w /\ (w = 1 => p # 0 /\ 0 \in DOMAIN arch)
    BY <1>2, <1>4, <1>5
  <2>3. /\ w = 1 => arch'[0] = Wrap
        /\ \/ created' /\ DOMAIN orig' = {}
           \/ w \in DOMAIN arch' /\ arch'[w] = Head(n, n + 1)
    BY <1>1, <1>10, <2>1, <2>2
  <2> QED
    BY <1>11, <2>3 DEF OldHead
<1>14. Known'
  <2>1. OldPlaces'
    BY <1>1, <1>2, <1>3, <1>11 DEF Known, OldPlaces
  <2> QED
    BY <1>1, <1>2, <1>3, <1>11, <2>1, KnownOn DEF Known, InPlace, Headed
<1> QED
  BY <1>1, <1>2, <1>3, <1>12, <1>13, <1>14 DEF Walk, InPlace

(* In place the new records go where the archive ended. *)
LEMMA OldDoneFiles ==
    ASSUME Sound, Files, OldDone
    PROVE  Files'
<1>1. /\ pc = "old" /\ pc' = "new" /\ fl.todo = {} /\ UNCHANGED <<vars, fileVars>>
      /\ fl' = [fl EXCEPT !.todo = DOMAIN new,
                          !.at = IF fl.toTemp THEN @ ELSE hoff + mh.eof]
  BY DEF OldDone
<1> SUFFICES ASSUME Right PROVE Walk'
  BY <1>1, WalkOn DEF Rewriting, Files, vars, fileVars
<1>2. /\ WayLists /\ Known /\ (fl.toTemp => ThroughTemp) /\ (~fl.toTemp => InPlace)
      /\ DOMAIN fl = FlFields /\ IsList(orig) /\ hoff \in {0, 1}
      /\ mh.eof = Count(orig) + 1
  BY <1>1, OnTheWay DEF Right, Walk, Rewriting, WayLists, WaySets
<1>3. /\ fl'.todo = DOMAIN new /\ fl'.off = fl.off /\ fl'.before = fl.before
      /\ fl'.discard = fl.discard /\ fl'.len0 = fl.len0 /\ fl'.toTemp = fl.toTemp
      /\ fl'.at = IF fl.toTemp THEN fl.at ELSE hoff + mh.eof
  BY <1>1, <1>2 DEF FlFields
<1>4. /\ Undone = DOMAIN new /\ Undone' = DOMAIN new /\ Merged' = Merged
  BY <1>1, <1>3 DEF Undone, OldTodo, NewTodo, Merged, Cur, vars
<1>5. Known'
  BY <1>1, <1>2, <1>3, KnownOn DEF Known, Headed, vars, fileVars
<1>6. CASE fl.toTemp
  <2>1. TempLaid'
    BY <1>1, <1>2, <1>3, <1>4, <1>6 DEF TempLaid, ThroughTemp, fileVars
  <2>2. WasOnDisk(fl.before.hoff)'
    BY <1>1, <1>2, <1>3, <1>6, StillOnDisk DEF ThroughTemp, vars, fileVars
  <2> QED
    BY <1>1, <1>3, <1>5, <1>6, <2>1, <2>2 DEF Walk, ThroughTemp, Swapping
<1>7. CASE ~fl.toTemp
  <2> DEFINE n == Count(orig)
             at == hoff + (n + 1)
  <2>1. /\ PlaceOld /\ OldHead /\ ~fl.discard
    BY <1>1, <1>2, <1>7 DEF InPlace
  <2>2. /\ DOMAIN Cur = DOMAIN orig /\ IsMap(arch) /\ IsMap(fl.off)
        /\ (0 .. (hoff + n)) \ {hoff} \subseteq DOMAIN arch
        /\ DOMAIN arch \subseteq 0 .. (hoff + n)
        /\ \A i \in DOMAIN orig : /\ arch[hoff + Rank(i, orig)] = RecCell(Cur[i])
                                  /\ fl.off[i] = hoff + Rank(i, orig)
    BY <1>1, <2>1 DEF PlaceOld
  <2>3. /\ DOMAIN Merged \ DOMAIN new = DOMAIN orig
        /\ \A i \in DOMAIN orig : Merged[i] = Cur[i] /\ Rank(i, Merged) = Rank(i, orig)
        /\ \A i \in DOMAIN orig, j \in DOMAIN new : i < j
    <3>1. \A i : Rank(i, Cur) = Rank(i, orig)
      BY <2>2, RankOfDomain
    <3> QED
      BY <1>2, <2>2, <3>1 DEF WayLists, WaySets
  <2>4. n \in Nat /\ Cardinality(DOMAIN Merged \ DOMAIN new) = n
    BY <1>2, <2>3, RankIs DEF Count
  <2> HIDE DEF n
  <2>5. /\ at = hoff + 1 + Cardinality(DOMAIN Merged \ DOMAIN new)
        /\ (0 .. (at - 1)) \ {hoff} \subseteq DOMAIN arch /\ DOMAIN arch \subseteq 0 .. at
    <3>1. 0 .. (at - 1) = 0 .. (hoff + n) /\ 0 .. (hoff + n) \subseteq 0 .. at
          /\ at = hoff + 1 + n
      BY <1>2, <2>4
    <3> HIDE DEF at
    <3> QED
      BY <2>2, <2>4, <3>1
  <2> HIDE DEF at
  <2>6. Laid(arch, Merged, DOMAIN new, at, hoff, fl.off)
    BY <2>2, <2>3, <2>5 DEF Laid
  <2>7. ArchLaid'
    <3>1. fl'.at = at
      BY <1>2, <1>3, <1>7 DEF at, n
    <3> QED
      BY <1>1, <1>3, <1>4, <2>6, <3>1 DEF ArchLaid, fileVars
  <2>8. OldHead'
    BY <1>1, <2>1 DEF OldHead, Count, vars, fileVars
  <2> QED
    BY <1>1, <1>3, <1>5, <1>7, <2>1, <2>7, <2>8 DEF Walk, InPlace
<1> QED
  BY <1>2, <1>6, <1>7

(* The file being written, and the locals a new record has to go by *)
Written == IF fl.toTemp THEN temp ELSE arch

LEMMA AtNew ==
    ASSUME Sound, Right, pc = "new"
    PROVE  /\ WayLists /\ Known /\ (fl.toTemp => ThroughTemp) /\ (~fl.toTemp => InPlace)
           /\ Laid(Written, Merged, fl.todo, fl.at, hoff, fl.off)
           /\ Undone = fl.todo /\ fl.todo \subseteq DOMAIN new
           /\ IsList(Merged) /\ hoff \in {0, 1} /\ DOMAIN fl = FlFields
           /\ fl.before.hoff \in {0, 1} /\ fl.at >= hoff + 1 /\ fl.at \in Nat
<1>1. /\ WayLists /\ Known /\ (fl.toTemp => ThroughTemp) /\ (~fl.toTemp => InPlace)
      /\ IsList(Merged) /\ hoff \in {0, 1} /\ DOMAIN fl = FlFields
  BY OnTheWay DEF Right, Walk, Rewriting, WayLists, WaySets
<1>2. Undone = fl.todo /\ fl.todo \subseteq DOMAIN new /\ fl.before.hoff \in {0, 1}
  BY <1>1 DEF Known, Undone, OldTodo, NewTodo
<1>3. Laid(Written, Merged, fl.todo, fl.at, hoff, fl.off)
  BY <1>1, <1>2 DEF ThroughTemp, InPlace, TempLaid, ArchLaid, Written
<1>4. fl.at >= hoff + 1 /\ fl.at \in Nat
  <2> DEFINE d == Cardinality(DOMAIN Merged \ fl.todo)
  <2>1. fl.at = hoff + 1 + d /\ \A i \in DOMAIN Merged \ fl.todo, j \in fl.todo : i < j
    BY <1>3 DEF Laid
  <2>2. d \in Nat
    BY <1>1, <2>1, LaidRanks
  <2> HIDE DEF d
  <2> QED
    BY <1>1, <2>1, <2>2
<1> QED
  BY <1>1, <1>2, <1>3, <1>4

LEMMA NewOn ==
    ASSUME Sound, Right, pc = "new", pc' = "new", NEW c, Write(fl.at, c),
           UNCHANGED <<orig, hoff, created>>, SameLocals,
           fl'.todo \subseteq DOMAIN new',
           Laid(Put(Written, fl.at, c), Merged', fl'.todo, fl'.at, hoff, fl'.off)
    PROVE  Walk'
<1>1. /\ Known /\ (fl.toTemp => ThroughTemp) /\ (~fl.toTemp => InPlace)
      /\ fl.before.hoff \in {0, 1} /\ hoff \in {0, 1} /\ fl.at >= hoff + 1 /\ fl.at \in Nat
  BY AtNew
<1>2. Undone' = fl'.todo
  BY DEF Undone, OldTodo, NewTodo
<1>3. Known'
  BY <1>1, KnownOn DEF Known, SameLocals, Headed
<1>4. CASE fl.toTemp
  <2>1. TempLaid'
    BY <1>2, <1>4 DEF TempLaid, Write, Written
  <2>2. WasOnDisk(fl.before.hoff)'
    BY <1>1, <1>4, StillOnDisk DEF ThroughTemp, SameLocals, Write
  <2> QED
    BY <1>3, <1>4, <2>1, <2>2 DEF Walk, ThroughTemp, SameLocals, Swapping
<1>5. CASE ~fl.toTemp
  <2>1. ArchLaid'
    BY <1>2, <1>5 DEF ArchLaid, Write, Written
  <2>2. OldHead'
    <3>1. OldHead
      BY <1>1, <1>5 DEF InPlace
    <3>2. arch' = Put(arch, fl.at, c) /\ fl.at # hoff /\ fl.at # 0
      BY <1>1, <1>5 DEF Write
    <3>3. hoff = 1 => 0 \in DOMAIN arch
      BY DEF Sound, Shape, Disk
    <3>4. \A q \in DOMAIN arch : q # fl.at => q \in DOMAIN arch' /\ arch'[q] = arch[q]
      BY <3>2 DEF Put
    <3>5. Count(orig)' = Count(orig)
      BY DEF Count
    <3>6. /\ hoff = 1 => arch'[0] = Wrap
          /\ \/ created' /\ DOMAIN orig' = {}
             \/ hoff \in DOMAIN arch' /\ arch'[hoff] = Head(Count(orig), Count(orig) + 1)
      BY <3>1, <3>2, <3>3, <3>4 DEF OldHead
    <3> QED
      BY <3>5, <3>6 DEF OldHead
  <2> QED
    BY <1>1, <1>3, <1>5, <2>1, <2>2 DEF Walk, InPlace, SameLocals
<1> QED
  BY <1>4, <1>5

LEMMA BuildNewFiles ==
    ASSUME Sound, Files, NEW i \in DOMAIN new, BuildNew(i)
    PROVE  Files'
<1>1. /\ pc = "new" /\ pc' = "new" /\ AtRecord(i)
      /\ new' = [new EXCEPT ![i] = Constructed(@, i)]
      /\ Write(fl.at, RecCell(new'[i]))
      /\ fl' = [fl EXCEPT !.todo = @ \ {i}, !.at = @ + 1, !.off = With(@, i, fl.at)]
      /\ UNCHANGED <<orig, copy, copyLoaded, hoff, mh, offs, created, stale>>
  BY DEF BuildNew
<1> SUFFICES ASSUME Right PROVE Walk'
  BY <1>1, WalkOn DEF Rewriting, Files
<1>2. /\ WayLists /\ Laid(Written, Merged, fl.todo, fl.at, hoff, fl.off)
      /\ fl.todo \subseteq DOMAIN new /\ IsList(Merged) /\ hoff \in {0, 1}
      /\ DOMAIN fl = FlFields
  BY <1>1, AtNew
<1>3. /\ SameLocals /\ fl'.todo = fl.todo \ {i} /\ fl'.at = fl.at + 1
      /\ fl'.off = With(fl.off, i, fl.at)
  BY <1>1, <1>2 DEF SameLocals, FlFields
<1>4. i \in fl.todo /\ \A j \in fl.todo : i <= j
  BY <1>1 DEF AtRecord, IsFirst
<1>5. /\ DOMAIN Merged = DOMAIN Cur \cup DOMAIN new
      /\ DOMAIN Merged' = DOMAIN Merged
      /\ Merged'[i] = new'[i] /\ \A j \in DOMAIN Merged : j # i => Merged'[j] = Merged[j]
  <2>1. Cur' = Cur /\ DOMAIN new' = DOMAIN new /\ \A j \in DOMAIN new : j # i => new'[j] = new[j]
    BY <1>1 DEF Cur
  <2> QED
    BY <1>2, <2>1 DEF Merged
<1>6. /\ i \in DOMAIN Merged \cap fl.todo /\ fl.todo \subseteq Nat
      /\ DOMAIN Merged \ fl.todo \subseteq DOMAIN fl.off
  BY <1>1, <1>2, <1>4, <1>5 DEF WayLists, IsList, Sizes, NewTodo
<1>7. Laid(Put(Written, fl.at, RecCell(Merged'[i])), Merged', fl.todo \ {i}, fl.at + 1, hoff,
           With(fl.off, i, fl.at))
  <2> DEFINE M == Merged
             N == Merged'
             U == fl.todo
             f == Written
             at == fl.at
             off == fl.off
  <2>1. DOMAIN N = DOMAIN M /\ \A j \in DOMAIN M \ U : N[j] = M[j]
    BY <1>5, <1>6
  <2>2. /\ IsList(M) /\ hoff \in {0, 1} /\ Laid(f, M, U, at, hoff, off)
        /\ DOMAIN M \ U \subseteq DOMAIN off /\ i \in DOMAIN M \cap U
        /\ \A j \in U : i <= j
    BY <1>2, <1>4, <1>6
  <2>3. U \subseteq Nat
    BY <1>6
  <2> HIDE DEF M, N, U, f, at, off
  <2>4. Laid(Put(f, at, RecCell(N[i])), N, U \ {i}, at + 1, hoff, With(off, i, at))
    <3>1. IsNext(i, M, N, f, U, at, hoff, off)
      BY <2>1, <2>2, <2>3 DEF IsNext
    <3> QED BY <3>1, LaidNext
  <2> QED
    BY <2>4 DEF N, U, f, at, off
<1>8. Laid(Put(Written, fl.at, RecCell(new'[i])), Merged', fl'.todo, fl'.at, hoff, fl'.off)
  BY <1>3, <1>5, <1>7
<1>9. fl'.todo \subseteq DOMAIN new'
  BY <1>1, <1>2, <1>3
<1> QED
  BY <1>1, <1>3, <1>8, <1>9, NewOn

LEMMA SkipNewFiles ==
    ASSUME Sound, Files, NEW i \in DOMAIN new, SkipNew(i)
    PROVE  Files'
<1>1. /\ pc = "new" /\ pc' = "new" /\ AtRecord(i)
      /\ new' = Without(new, {i}) /\ Write(fl.at, Torn)
      /\ fl' = [fl EXCEPT !.todo = @ \ {i}]
      /\ UNCHANGED <<orig, copy, copyLoaded, hoff, mh, offs, created, stale>>
  BY DEF SkipNew
<1> SUFFICES ASSUME Right PROVE Walk'
  BY <1>1, WalkOn DEF Rewriting, Files
<1>2. /\ WayLists /\ Laid(Written, Merged, fl.todo, fl.at, hoff, fl.off)
      /\ fl.todo \subseteq DOMAIN new /\ IsList(Merged) /\ hoff \in {0, 1}
      /\ DOMAIN fl = FlFields
  BY <1>1, AtNew
<1>3. /\ SameLocals /\ fl'.todo = fl.todo \ {i} /\ fl'.at = fl.at /\ fl'.off = fl.off
  BY <1>1, <1>2 DEF SameLocals, FlFields
<1>4. i \in fl.todo
  BY <1>1 DEF AtRecord, IsFirst
<1>5. DOMAIN new' = DOMAIN new \ {i} /\ \A j \in DOMAIN new \ {i} : new'[j] = new[j]
  BY <1>1 DEF Without, Restrict
<1>6. /\ DOMAIN Merged' = DOMAIN Merged \ {i}
      /\ \A j \in DOMAIN Merged' : Merged'[j] = Merged[j]
  <2>1. Cur' = Cur /\ DOMAIN Cur \cap DOMAIN new = {}
    BY <1>1, <1>2 DEF Cur, WayLists
  <2> QED
    BY <1>5, <2>1 DEF Merged
<1>7. Laid(Put(Written, fl.at, Torn), Merged', fl.todo \ {i}, fl.at, hoff, fl.off)
  <2> DEFINE M == Merged
             N == Merged'
             U == fl.todo
             f == Written
             at == fl.at
             off == fl.off
             w == hoff
  <2>1. DOMAIN N = DOMAIN M \ {i}
    BY <1>6
  <2>2. \A j \in DOMAIN M \ U : N[j] = M[j]
    BY <1>4, <1>6
  <2>3. IsList(M) /\ w \in {0, 1} /\ i \in U
    BY <1>2, <1>4
  <2>4. Laid(f, M, U, at, w, off)
    BY <1>2
  <2> HIDE DEF M, N, U, f, at, off, w
  <2>5. IsDropped(i, M, N, f, U, at, w, off)
    BY <2>1, <2>2, <2>3, <2>4 DEF IsDropped
  <2>6. Laid(Put(f, at, Torn), N, U \ {i}, at, w, off)
    BY <2>5, LaidSkip
  <2> QED
    BY <2>6 DEF N, U, f, at, off, w
<1>8. fl'.todo \subseteq DOMAIN new'
  BY <1>2, <1>3, <1>5
<1> QED
  BY <1>1, <1>3, <1>7, <1>8, NewOn

-----------------------------------------------------------------------------
(* The invariant is kept: the header, and the files swapped *)

LEMMA WriteHeaderFiles ==
    ASSUME Sound, Files, WriteHeader
    PROVE  Files'
<1> DEFINE M == Merged
           w == hoff
           n == Count(M)
           at == fl.at
           off == fl.off
           f == Written
           g == Topped(f, M, at, w)
<1>1. /\ pc = "new" /\ pc' = "wrap" /\ fl.todo = {}
      /\ UNCHANGED <<vars, hoff, mh, offs, created, stale>>
  BY DEF WriteHeader
<1> SUFFICES ASSUME Right PROVE Walk'
  BY <1>1, WalkOn DEF Rewriting, Headed, Files, vars
<1>2. /\ WayLists /\ Known /\ (fl.toTemp => ThroughTemp) /\ (~fl.toTemp => InPlace)
      /\ Laid(f, M, {}, at, w, off)
      /\ IsList(M) /\ w \in {0, 1} /\ DOMAIN fl = FlFields /\ fl.before.hoff \in {0, 1}
  BY <1>1, AtNew
<1>3. n = Cardinality(DOMAIN Cur) + Cardinality(DOMAIN new)
  BY <1>2, MergedCount DEF WayLists, Count
<1>4. /\ fl' = [fl EXCEPT !.head = [count |-> n, eof |-> at - w]]
      /\ IF fl.toTemp THEN temp' = g /\ arch' = arch ELSE arch' = g /\ temp' = temp
  BY <1>3 DEF WriteHeader, Written, Topped
<1>5. /\ fl'.head.eof = at - w /\ fl'.off = off /\ fl'.before = fl.before
      /\ fl'.discard = fl.discard /\ fl'.len0 = fl.len0 /\ fl'.toTemp = fl.toTemp
  BY <1>2, <1>4 DEF FlFields
<1>6. /\ at - w = n + 1 /\ Body(g, M, w) /\ (w = 1 => g[0] = f[0])
      /\ \A i \in DOMAIN M : off[i] = w + Rank(i, M)
  <2> HIDE DEF M, w, at, off, f
  <2> QED
    BY <1>2, LaidHead
<1>7. Merged' = M /\ hoff' = w
  BY <1>1 DEF Merged, Cur, vars
<1> HIDE DEF g, f
<1>8. NewPlaces'
  <2>1. IsMap(off) /\ DOMAIN off = DOMAIN M
    BY <1>1, <1>2 DEF Laid, WayLists, Sizes, NewTodo
  <2>2. off = Ranks(M, w)
    BY <1>6, <2>1 DEF Ranks, IsMap
  <2>3. Ranks(Merged, hoff)' = Ranks(M, w) /\ Count(Merged)' = n
    BY <1>7 DEF Ranks, Rank, Count
  <2> QED
    BY <1>5, <1>6, <2>2, <2>3 DEF NewPlaces
<1>9. Known'
  BY <1>1, <1>2, <1>5, <1>8, KnownOn DEF Known, vars
<1>10. CASE fl.toTemp
  <2>1. Body(temp, Merged, hoff)'
    BY <1>4, <1>6, <1>7, <1>10
  <2>2. WasOnDisk(fl.before.hoff)'
    BY <1>1, <1>2, <1>4, <1>5, <1>10, StillOnDisk DEF ThroughTemp, vars
  <2> QED
    BY <1>1, <1>5, <1>9, <1>10, <2>1, <2>2 DEF Walk, ThroughTemp, Swapping
<1>11. CASE ~fl.toTemp
  <2>1. w = 1 => f[0] = Wrap
    BY <1>1, <1>2, <1>11 DEF InPlace, OldHead, f, Written
  <2>2. IsFileOf(g, M, w)
    BY <1>6, <2>1 DEF IsFileOf
  <2>3. ArchIsMerged'
    BY <1>4, <1>7, <1>11, <2>2 DEF ArchIsMerged
  <2> QED
    BY <1>1, <1>2, <1>5, <1>9, <1>11, <2>3 DEF Walk, InPlace
<1> QED
  BY <1>10, <1>11

(* What a flush that has written its header goes by *)
LEMMA HeadedOn ==
    ASSUME Sound, Right, pc \in Headed, pc' \in Headed,
           UNCHANGED <<vars, hoff, offs, created>>, fl'.off = fl.off, fl'.head = fl.head,
           fl'.before = fl.before, fl'.discard = fl.discard, fl'.len0 = fl.len0
    PROVE  /\ WayLists /\ Known /\ (fl.toTemp => ThroughTemp) /\ (~fl.toTemp => InPlace)
           /\ fl.before.hoff \in {0, 1} /\ Known' /\ Merged' = Merged
<1>1. /\ WayLists /\ Known /\ (fl.toTemp => ThroughTemp) /\ (~fl.toTemp => InPlace)
      /\ fl.before.hoff \in {0, 1}
  BY OnTheWay DEF Right, Walk, Rewriting, Known
<1>2. Merged' = Merged
  BY DEF Merged, Cur, vars
<1>3. NewPlaces'
  <2>1. Ranks(Merged, hoff)' = Ranks(Merged, hoff) /\ Count(Merged)' = Count(Merged)
    BY <1>2 DEF Ranks, Rank, Count
  <2> QED
    BY <1>1, <2>1 DEF Known, NewPlaces
<1>4. Known'
  BY <1>1, <1>3, KnownOn DEF Known, Headed, vars
<1> QED
  BY <1>1, <1>2, <1>4

LEMMA CarryWrapperFiles ==
    ASSUME Sound, Files, CarryWrapper
    PROVE  Files'
<1>1. /\ pc = "wrap" /\ pc' = (IF fl.toTemp THEN "delete" ELSE "sync")
      /\ temp' = IF fl.toTemp /\ hoff > 0 /\ ~fl.discard THEN Put(temp, 0, arch[0]) ELSE temp
      /\ UNCHANGED <<vars, fl, arch, hoff, mh, offs, created, stale>>
  BY DEF CarryWrapper
<1>2. pc \in Headed /\ pc' \in Headed \ {"closetmp", "rename"}
  BY <1>1 DEF Headed
<1> SUFFICES ASSUME Right PROVE Walk'
  BY <1>1, <1>2, WalkOn DEF Rewriting, Files, vars
<1>3. /\ WayLists /\ Known /\ (fl.toTemp => ThroughTemp) /\ (~fl.toTemp => InPlace)
      /\ fl.before.hoff \in {0, 1} /\ Known' /\ Merged' = Merged
  BY <1>1, <1>2, HeadedOn
<1>4. CASE fl.toTemp
  <2> DEFINE n == Count(Merged)
  <2>1. Body(temp, Merged, hoff) /\ WasOnDisk(fl.before.hoff)
    BY <1>1, <1>3, <1>4 DEF ThroughTemp
  <2>2. IsFileOf(temp', Merged, hoff)
    <3>1. CASE hoff = 1
      <4>1. ~fl.discard /\ fl.before.hoff = 1
        BY <1>3, <3>1 DEF Known
      <4>2. arch[0] = Wrap
        BY <2>1, <4>1 DEF WasOnDisk, ArchHasOrig, IsFileOf
      <4>3. temp' = Put(temp, 0, Wrap)
        BY <1>1, <1>4, <3>1, <4>1, <4>2
      <4>4. /\ IsMap(temp') /\ DOMAIN temp' = DOMAIN temp \cup {0} /\ temp'[0] = Wrap
            /\ \A q \in DOMAIN temp : q # 0 => temp'[q] = temp[q]
        BY <4>3 DEF Put, IsMap
      <4>5. n \in Nat /\ \A i \in DOMAIN Merged : Rank(i, Merged) \in 1 .. n
        BY <1>3, RankIs DEF WayLists
      <4>6. /\ DOMAIN temp = 0 .. (1 + n) /\ temp[1] = Head(n, n + 1)
            /\ \A i \in DOMAIN Merged : temp[1 + Rank(i, Merged)] = RecCell(Merged[i])
        BY <2>1, <3>1 DEF Body
      <4> HIDE DEF n
      <4>7. DOMAIN temp' = 0 .. (1 + n) /\ temp'[1] = Head(n, n + 1)
        BY <4>4, <4>5, <4>6
      <4>8. \A i \in DOMAIN Merged : temp'[1 + Rank(i, Merged)] = RecCell(Merged[i])
        <5>1. \A i \in DOMAIN Merged : /\ 1 + Rank(i, Merged) \in 0 .. (1 + n)
                                       /\ 1 + Rank(i, Merged) # 0
          BY <4>5
        <5> QED
          BY <4>4, <4>6, <5>1
      <4> QED
        BY <3>1, <4>4, <4>7, <4>8 DEF IsFileOf, Body, n
    <3>2. CASE hoff # 1
      <4>1. hoff = 0 /\ temp' = temp
        BY <1>1, <1>3, <3>2 DEF WayLists
      <4> QED
        BY <2>1, <4>1 DEF IsFileOf
    <3> QED
      BY <3>1, <3>2
  <2>3. TempIsMerged'
    BY <1>1, <1>3, <2>2 DEF TempIsMerged
  <2>4. WasOnDisk(fl.before.hoff)'
    BY <1>1, <2>1, StillOnDisk DEF vars
  <2> QED
    BY <1>1, <1>3, <1>4, <2>3, <2>4 DEF Walk, ThroughTemp
<1>5. CASE ~fl.toTemp
  <2>1. ArchIsMerged'
    BY <1>1, <1>3, <1>5 DEF ArchIsMerged, InPlace
  <2> QED
    BY <1>1, <1>3, <1>5, <2>1 DEF Walk, InPlace
<1> QED
  BY <1>4, <1>5

LEMMA SyncFiles ==
    ASSUME Sound, Files, Sync
    PROVE  Files'
<1>1. /\ pc = "sync" /\ pc' = "commit" /\ fl' = [fl EXCEPT !.canAbort = FALSE]
      /\ UNCHANGED <<vars, arch, hoff, mh, offs, created, stale>>
  BY DEF Sync, fileVars
<1> SUFFICES ASSUME Right PROVE Walk'
  BY <1>1, WalkOn DEF Rewriting, Headed, Files, vars
<1>2. /\ DOMAIN fl = FlFields /\ ~fl.toTemp
  BY <1>1, OnTheWay DEF WayLists, WaySets, Phase, Rewriting, Headed
<1>3. /\ fl'.off = fl.off /\ fl'.head = fl.head /\ fl'.before = fl.before
      /\ fl'.discard = fl.discard /\ fl'.len0 = fl.len0 /\ fl'.toTemp = fl.toTemp
  BY <1>1, <1>2 DEF FlFields
<1>4. InPlace /\ Known' /\ Merged' = Merged
  BY <1>1, <1>2, <1>3, HeadedOn DEF Headed
<1> QED
  BY <1>1, <1>2, <1>3, <1>4 DEF Walk, InPlace, ArchIsMerged

LEMMA SwapFiles ==
    ASSUME Sound, Files, DeleteArchive \/ CloseTemp \/ RenameTemp \/ Reopen
    PROVE  Files'
<1>1. /\ pc \in Headed /\ pc' \in Headed
      /\ fl' = fl \/ fl' = [fl EXCEPT !.canAbort = FALSE]
      /\ UNCHANGED <<vars, hoff, mh, offs, created, stale>>
      /\ \/ pc \in Swapping /\ pc' \in {"closetmp", "rename"} /\ temp' = temp
         \/ pc = "rename" /\ pc' = "reopen" /\ arch' = temp
         \/ pc = "reopen" /\ pc' = "commit" /\ arch' = arch
  BY DEF DeleteArchive, CloseTemp, RenameTemp, Reopen, Headed, Swapping
<1>2. pc' \in {"closetmp", "rename"} => arch' = NoFile
  BY DEF DeleteArchive, CloseTemp, RenameTemp, Reopen, Files
<1> SUFFICES ASSUME Right PROVE Walk'
  BY <1>1, <1>2, WalkOn DEF Rewriting, Files, vars
<1>3. DOMAIN fl = FlFields /\ fl.toTemp
  BY <1>1, OnTheWay DEF WayLists, WaySets, Phase, Rewriting, Swapping
<1>4. /\ fl'.off = fl.off /\ fl'.head = fl.head /\ fl'.before = fl.before
      /\ fl'.discard = fl.discard /\ fl'.len0 = fl.len0 /\ fl'.toTemp = fl.toTemp
  BY <1>1, <1>3 DEF FlFields
<1>5. ThroughTemp /\ Known' /\ Merged' = Merged
  BY <1>1, <1>3, <1>4, HeadedOn
<1>6. /\ pc' \in Swapping => TempIsMerged'
      /\ pc' \in {"reopen", "commit"} => ArchIsMerged'
      /\ pc' \notin {"old", "new", "wrap", "delete"}
  BY <1>1, <1>5 DEF ThroughTemp, TempIsMerged, ArchIsMerged, Swapping
<1> QED
  BY <1>3, <1>4, <1>5, <1>6 DEF Walk, ThroughTemp

-----------------------------------------------------------------------------
(* The invariant is kept: the end of a flush *)

LEMMA CommitFiles ==
    ASSUME Sound, Files, Commit
    PROVE  Files'
<1>1. /\ pc = "commit" /\ pc' = "reset" /\ mh' = fl.head /\ orig' = Merged /\ offs' = fl.off
      /\ copyLoaded' = FALSE /\ new' = EmptyMap
      /\ UNCHANGED <<arch, hoff, created, stale>>
  BY DEF Commit, DropSets
<1> SUFFICES ASSUME Right PROVE Right'
  BY <1>1 DEF Files
<1>2. WayLists /\ Known /\ ArchIsMerged
  <2>1. WayLists /\ Walk
    BY <1>1, OnTheWay DEF Right, Rewriting, Headed
  <2>2. fl.toTemp => ArchIsMerged
    BY <1>1, <2>1 DEF Walk, ThroughTemp, Rewriting, Headed
  <2>3. ~fl.toTemp => ArchIsMerged
    BY <1>1, <2>1 DEF Walk, InPlace, Rewriting, Headed
  <2> QED
    BY <1>1, <2>1, <2>2, <2>3 DEF Walk, Rewriting, Headed
<1>3. fl.head.eof = Count(Merged) + 1 /\ fl.off = Ranks(Merged, hoff)
  BY <1>1, <1>2 DEF Known, NewPlaces, Headed
<1>4. ArchHasOrig(hoff)'
  BY <1>1, <1>2 DEF ArchIsMerged, ArchHasOrig, IsFileOf, Body, Count, Rank, IsMap, RecCell, Stored
<1>5. OnDisk'
  <2>1. Ranks(orig, hoff)' = Ranks(Merged, hoff)
    BY <1>1 DEF Ranks, Rank
  <2> QED
    BY <1>1, <1>3, <1>4, <2>1 DEF OnDisk, WasOnDisk, ArchHasOrig, IsFileOf, Body, Count, Rank,
                                  IsMap, RecCell, Stored
<1>6. Merged' = orig'
  <2>1. Cur' = orig' /\ DOMAIN new' = {}
    BY <1>1 DEF Cur, EmptyMap
  <2>2. Merged' = [i \in DOMAIN orig' |-> orig'[i]]
    BY <2>1 DEF Merged
  <2>3. orig' = [i \in DOMAIN orig' |-> orig'[i]]
    BY <1>1 DEF Merged
  <2> QED
    BY <2>2, <2>3
<1>7. mh'.eof = Count(orig)' + 1
  BY <1>1, <1>3 DEF Count
<1> QED
  BY <1>1, <1>4, <1>5, <1>6, <1>7 DEF Right, Walk, End, Left, Idle, Rewriting, Headed

LEMMA ResetFiles ==
    ASSUME Sound, Files, Reset \/ FailReset
    PROVE  Files'
<1>1. /\ pc = "reset" /\ pc' = "idle"
      /\ created' = created \/ created' = (created \/ fl.deleteAll)
      /\ UNCHANGED <<orig, arch, hoff, mh, offs, stale>>
  BY DEF Reset, FailReset
<1> SUFFICES ASSUME Right PROVE Right'
  BY <1>1 DEF Files
<1>2. OnDisk /\ IsList(orig) /\ hoff \in {0, 1}
  BY <1>1, SoundLists DEF Right, End
<1>3. WasOnDisk(hoff)'
  BY <1>1, <1>2 DEF OnDisk, WasOnDisk, ArchHasOrig, IsFileOf, Body, IsMap, EmptyFile, Count,
                    Rank, RecCell, Stored
<1>4. OnDisk'
  <2>1. Ranks(orig, hoff)' = Ranks(orig, hoff)
    BY <1>1 DEF Ranks, Rank
  <2> QED
    BY <1>1, <1>2, <1>3, <2>1 DEF OnDisk
<1>5. Left'
  <2>1. DOMAIN orig = {} \/ Holds(arch, orig)
    BY <1>2, DiskHolds DEF OnDisk
  <2> QED
    BY <1>1, <2>1 DEF Left
<1>6. mh'.eof = Count(orig)' + 1
  BY <1>1 DEF Right, Count
<1> QED
  BY <1>1, <1>4, <1>5, <1>6 DEF Right, Walk, End, Idle, Rewriting, Headed

(* What is on disk after a rollback that put everything back *)
LEMMA AbortFiles ==
    ASSUME Sound, Files, pc \in {"old", "new", "wrap", "sync"}, NEW damaged, Abort(damaged),
           fl.toTemp => damaged = arch, DOMAIN damaged \subseteq DOMAIN arch \cup Nat
    PROVE  Files'
<1>1. /\ pc' = "idle" /\ UNCHANGED <<orig, mode, hoff, mh, offs, created>>
      /\ arch' = IF fl.toTemp THEN damaged ELSE Truncate(damaged, fl.len0)
      /\ ~stale' => /\ ~stale /\ hoff = fl.before.hoff /\ offs = fl.before.offs
                    /\ \/ fl.toTemp \/ ~(fl.len0 > 0)
                       \/ Truncate(damaged, fl.len0) = FileOf(orig, hoff)
  BY DEF Abort
<1> SUFFICES ASSUME ~stale' PROVE Right'
  BY <1>1 DEF Files
<1>2. /\ Right /\ WayLists /\ Known /\ (fl.toTemp => ThroughTemp) /\ (~fl.toTemp => InPlace)
      /\ hoff \in {0, 1} /\ IsList(orig) /\ mode = "RW" /\ fl.len0 \in Nat
  <2>1. Right /\ WayLists /\ Walk
    BY <1>1, OnTheWay DEF Files, Right, Rewriting, Headed
  <2>2. mode = "RW"
    BY DEF Sound, FlushInv, InFlush
  <2> QED
    BY <2>1, <2>2 DEF Walk, WayLists, Sizes, Rewriting, Headed
<1>3. WasOnDisk(hoff)'
  <2>1. CASE fl.toTemp
    <3>1. WasOnDisk(fl.before.hoff) /\ arch' = arch
      BY <1>1, <1>2, <2>1 DEF ThroughTemp, WayLists, Phase
    <3> QED
      BY <1>1, <3>1 DEF WasOnDisk, ArchHasOrig, IsFileOf, Body, IsMap, EmptyFile, Count, Rank,
                        RecCell, Stored
  <2>2. CASE ~fl.toTemp /\ fl.len0 > 0
    <3>1. arch' = FileOf(orig, hoff)
      BY <1>1, <2>2
    <3>2. IsFileOf(arch', orig, hoff)
      BY <1>2, <3>1, FileOfIs
    <3> QED
      BY <1>1, <3>2 DEF WasOnDisk, ArchHasOrig, IsFileOf, Body, Count, Rank, RecCell, Stored
  <2>3. CASE ~fl.toTemp /\ fl.len0 = 0
    <3>1. created /\ DOMAIN orig = {} /\ hoff = 0
      BY <1>2, <2>3 DEF Known
    <3>2. DOMAIN arch \subseteq Nat
      <4>1. IsList(Merged)
        BY <1>2 DEF WayLists
      <4>2. CASE pc = "old"
        BY <1>2, <2>3, <4>2 DEF InPlace, PlaceOld
      <4>3. CASE pc = "new"
        BY <1>2, <2>3, <4>3 DEF InPlace, ArchLaid, Laid
      <4>4. CASE pc \in {"wrap", "sync"}
        <5>1. DOMAIN arch = 0 .. (hoff + Count(Merged))
          BY <1>2, <2>3, <4>4 DEF InPlace, ArchIsMerged, IsFileOf, Body
        <5>2. Count(Merged) \in Nat
          BY <4>1, RankIs
        <5> QED
          BY <1>2, <5>1, <5>2
      <4> QED
        BY <4>2, <4>3, <4>4
    <3>3. arch' = Restrict(damaged, {p \in DOMAIN damaged : p < 0})
      BY <1>1, <2>3 DEF Truncate
    <3>4. {p \in DOMAIN damaged : p < 0} = {}
      BY <3>2
    <3>5. arch' = EmptyFile
      BY <3>3, <3>4 DEF Restrict, EmptyFile
    <3> QED
      BY <1>1, <3>1, <3>5 DEF WasOnDisk, EmptyFile
  <2> QED
    BY <1>2, <2>1, <2>2, <2>3
<1>4. OnDisk'
  <2>1. Ranks(orig, hoff)' = Ranks(orig, hoff)
    BY <1>1 DEF Ranks, Rank
  <2> QED
    BY <1>1, <1>2, <1>3, <2>1 DEF OnDisk, Known
<1>5. mh'.eof = Count(orig)' + 1
  BY <1>1, <1>2 DEF Right, Count
<1> QED
  BY <1>1, <1>2, <1>4, <1>5 DEF Right, Walk, End, Left, Idle, Rewriting, Headed

(* An archive locked while the temp file takes the changes *)
LEMMA LockFiles ==
    ASSUME Sound, Files, NEW reported, Lock(reported),
           fl.toTemp => \/ DOMAIN orig = {} \/ Holds(arch', orig) \/ Holds(arch', Merged)
                        \/ ~fp'.tmp /\ Holds(temp', Merged)
                        \/ stale
    PROVE  Files'
<1>1. /\ pc' = "idle" /\ mode' = "RO" /\ stale' = (stale \/ ~fl.toTemp)
      /\ UNCHANGED <<orig, copy, copyLoaded, new, mh>>
  BY DEF Lock
<1>2. Merged' = Merged
  BY <1>1 DEF Merged, Cur
<1>3. ~stale' => Left'
  BY <1>1, <1>2 DEF Left
<1> QED
  BY <1>1, <1>3 DEF Files, Right, Walk, End, Idle, Rewriting, Headed, Count

LEMMA FailEarlyFiles ==
    ASSUME Sound, Files, FailOld \/ FailNew \/ FailWrapper \/ FailSync
    PROVE  Files'
<1>1. pc \in {"old", "new", "wrap", "sync"}
  BY DEF FailOld, FailNew, FailWrapper, FailSync
<1>2. fl.toTemp => fl.canAbort
  BY <1>1, OnTheWay DEF WayLists, Phase, Rewriting, Headed
<1>3. \/ \E reported : Lock(reported) /\ ~fl.canAbort
      \/ \E damaged : /\ Abort(damaged) /\ (fl.toTemp => damaged = arch)
                      /\ DOMAIN damaged \subseteq DOMAIN arch \cup Nat
  <2>1. CASE FailOld \/ FailWrapper \/ FailSync
    BY <2>1 DEF FailOld, FailWrapper, FailSync
  <2>2. CASE FailNew
    <3>1. hoff \in Nat /\ fl.at \in Nat
      BY <2>2, OnTheWay DEF FailNew, WayLists, Sizes, Rewriting
    <3>2. \A p \in Nat : DOMAIN Put(arch, p, Torn) \subseteq DOMAIN arch \cup Nat
      BY DEF Put
    <3> QED
      BY <2>2, <3>1, <3>2 DEF FailNew
  <2> QED
    BY <2>1, <2>2
<1> QED
  BY <1>1, <1>2, <1>3, AbortFiles, LockFiles

LEMMA FailSwapFiles ==
    ASSUME Sound, Files, FailDelete \/ FailRename \/ FailReopen
    PROVE  Files'
<1>1. /\ pc \in {"delete", "rename", "reopen"} /\ UNCHANGED <<arch, temp>>
      /\ \E reported : Lock(reported)
      /\ pc = "rename" => fp' = [fp EXCEPT !.known = FALSE]
  BY DEF FailDelete, FailRename, FailReopen
<1>2. ~stale => \/ DOMAIN orig = {} \/ Holds(arch, orig) \/ Holds(arch, Merged)
                \/ ~fp'.tmp /\ Holds(temp, Merged)
  <2> SUFFICES ASSUME Right
               PROVE  \/ DOMAIN orig = {} \/ Holds(arch, orig) \/ Holds(arch, Merged)
                      \/ ~fp'.tmp /\ Holds(temp, Merged)
    BY DEF Files
  <2>1. WayLists /\ Known /\ ThroughTemp /\ IsList(orig) /\ IsList(Merged) /\ hoff \in {0, 1}
        /\ fl.before.hoff \in {0, 1}
    <3>1. WayLists /\ Walk
      BY <1>1, OnTheWay DEF Right, Rewriting, Headed
    <3> QED
      BY <1>1, <3>1 DEF Walk, WayLists, Phase, Known, Rewriting, Headed
  <2>2. CASE pc = "delete"
    BY <2>1, <2>2, DiskHolds DEF ThroughTemp
  <2>3. CASE pc = "rename"
    <3>1. ~fp'.tmp
      <4>1. ~fp.tmp /\ fp \in [{"arch", "tmp", "known"} -> BOOLEAN]
        BY <2>1, <2>3 DEF WayLists, Phase, Sound, Shape, Memory
      <4> QED
        BY <1>1, <2>3, <4>1
    <3>2. TempIsMerged
      BY <2>1, <2>3 DEF ThroughTemp, Swapping
    <3> QED
      BY <2>1, <3>1, <3>2, FileHolds DEF TempIsMerged
  <2>4. CASE pc = "reopen"
    BY <2>1, <2>4, FileHolds DEF ThroughTemp, ArchIsMerged
  <2> QED
    BY <1>1, <2>2, <2>3, <2>4
<1> QED
  BY <1>1, <1>2, LockFiles

LEMMA DeathFiles ==
    ASSUME Sound, Files, Crash \/ \E i : Abend(i)
    PROVE  Files'
<1>1. /\ InFlush /\ pc' \in {"crashed", "abend"} /\ UNCHANGED <<vars, fl, flags, fileVars>>
  BY DEF Crash, Abend, InFlush
<1> SUFFICES ASSUME Right PROVE Right'
  BY <1>1 DEF Files, fileVars
<1>2. NothingLost
  BY NothingIsLost
<1>3. NothingLost'
  <2>1. Midway /\ Midway' /\ Merged' = Merged
    BY <1>1 DEF Midway, Merged, Cur, vars
  <2>2. Before' = Before /\ (InPlaceUpdate' <=> InPlaceUpdate)
    BY <1>1, <2>1 DEF Before, InPlaceUpdate
  <2> QED
    BY <1>1, <1>2, <2>1, <2>2 DEF NothingLost, fileVars
<1> QED
  BY <1>1, <1>3 DEF Right, Walk, End, Left, Idle, Rewriting, Headed, Count, vars, fileVars

LEMMA NothingFiles ==
    ASSUME Sound, Files, UNCHANGED allVars
    PROVE  Files'
<1>1. UNCHANGED <<vars, pc, fl, flags, fileVars>>
  BY DEF allVars, flushVars
<1>2. /\ UNCHANGED <<orig, copy, copyLoaded, new, mode>>
      /\ UNCHANGED <<arch, temp, fp, hoff, mh, offs, created, stale>>
  BY <1>1 DEF vars, fileVars
<1> SUFFICES ASSUME Right PROVE Right'
  BY <1>1, <1>2 DEF Files
<1>3. /\ Cur' = Cur /\ Merged' = Merged /\ Undone' = Undone
      /\ Ranks(orig, hoff)' = Ranks(orig, hoff) /\ Ranks(Merged, hoff)' = Ranks(Merged, hoff)
      /\ Count(orig)' = Count(orig) /\ Count(Merged)' = Count(Merged)
      /\ \A i : Rank(i, orig)' = Rank(i, orig)
  <2>1. Cur' = Cur /\ Merged' = Merged
    BY <1>2 DEF Cur, Merged
  <2> QED
    BY <1>1, <1>2, <2>1 DEF Undone, OldTodo, NewTodo, Ranks, Rank, Count
<1>4. OnDisk => OnDisk'
  BY <1>2, SameDisk
<1>5. Walk'
  <2> SUFFICES ASSUME pc \in Rewriting PROVE Walk'
    BY <1>1 DEF Walk
  <2>1. /\ WayLists /\ Known /\ (fl.toTemp => ThroughTemp) /\ (~fl.toTemp => InPlace)
        /\ fl.before.hoff \in {0, 1}
    BY OnTheWay DEF Right, Walk, Known
  <2>2. OldPlaces => OldPlaces'
    BY <1>1, <1>2, <1>3 DEF OldPlaces
  <2>3. NewPlaces => NewPlaces'
    BY <1>1, <1>2, <1>3 DEF NewPlaces
  <2>4. Known'
    BY <1>1, <1>2, <2>1, <2>2, <2>3, KnownOn DEF Known
  <2>5. WasOnDisk(fl.before.hoff) => WasOnDisk(fl.before.hoff)'
    BY <1>1, <1>2, <2>1, StillOnDisk
  <2>6. fl.toTemp => ThroughTemp'
    BY <1>1, <1>2, <1>3, <2>1, <2>5 DEF ThroughTemp, TempLaid, TempIsMerged, ArchIsMerged
  <2>7. OldHead => OldHead'
    BY <1>2, <1>3 DEF OldHead
  <2>8. PlaceOld => PlaceOld'
    BY <1>1, <1>2, <1>3 DEF PlaceOld
  <2>9. ~fl.toTemp => InPlace'
    BY <1>1, <1>2, <1>3, <2>1, <2>7, <2>8 DEF InPlace, ArchLaid, ArchIsMerged
  <2> QED
    BY <1>1, <2>4, <2>6, <2>9 DEF Walk
<1>6. End'
  <2>1. ArchHasOrig(hoff) => ArchHasOrig(hoff)'
    BY <1>2 DEF ArchHasOrig, IsFileOf, Body, Count, Rank, IsMap, RecCell, Stored
  <2> QED
    BY <1>1, <1>2, <1>3, <1>4, <2>1 DEF Right, End
<1>7. Left'
  BY <1>1, <1>2, <1>3 DEF Right, Left, Idle
<1>8. NothingLost => NothingLost'
  BY <1>1, <1>2, <1>3 DEF NothingLost, InPlaceUpdate, Before, Midway, InFlush
<1>9. mh'.eof = Count(orig)' + 1 /\ (Idle' /\ mode' = "RW" => OnDisk')
  BY <1>1, <1>2, <1>3, <1>4 DEF Right, Idle
<1> QED
  BY <1>1, <1>5, <1>6, <1>7, <1>8, <1>9 DEF Right

(* The invariant is inductive, given Sound. *)
LEMMA FilesKept == Sound /\ Files /\ [FNext]_allVars => Files'
<1> SUFFICES ASSUME Sound, Files, [FNext]_allVars PROVE Files'
  OBVIOUS
<1>1. CASE EditStep \/ GiveUp \/ BeginNothing \/ Begin \/ Close
  BY <1>1, OpenFiles, BeginNothingFiles, BeginFiles, CloseFiles
<1>2. CASE Crash
  BY <1>2, DeathFiles
<1>3. CASE UNCHANGED allVars
  BY <1>3, NothingFiles
<1>4. CASE FlushStep
  <2>1. ASSUME NEW i \in DOMAIN Cur, WalkOld(i) PROVE Files'
    BY <2>1, CopyOldFiles, BuildOldFiles, UpdateOldFiles, DeathFiles DEF WalkOld
  <2>2. ASSUME NEW i \in DOMAIN new, WalkNew(i) PROVE Files'
    BY <2>2, BuildNewFiles, SkipNewFiles DEF WalkNew
  <2>3. CASE OldDone \/ WriteHeader \/ CarryWrapper \/ Sync \/ Commit
    BY <2>3, OldDoneFiles, WriteHeaderFiles, CarryWrapperFiles, SyncFiles, CommitFiles
  <2>4. CASE DeleteArchive \/ CloseTemp \/ RenameTemp \/ Reopen
    BY <2>4, SwapFiles
  <2>5. CASE Reset \/ FailReset
    BY <2>5, ResetFiles
  <2>6. CASE \/ FailOld \/ FailNew \/ FailWrapper \/ FailSync
             \/ FailDelete \/ FailRename \/ FailReopen
    BY <2>6, FailEarlyFiles, FailSwapFiles
  <2> QED
    BY <1>4, <2>1, <2>2, <2>3, <2>4, <2>5, <2>6 DEF FlushStep
<1> QED
  BY <1>1, <1>2, <1>3, <1>4 DEF FNext

(* The two files are right at every step of every flush, as long as no     *)
(* flush failed in a way that left memory and file at odds.                *)
THEOREM FilesInvariance == FSpec => [](Sound /\ Files)
<1>1. FInit => Sound /\ Files
  BY InitShape, InitFiles
<1>2. Sound /\ Files /\ [FNext]_allVars => (Sound /\ Files)'
  BY SoundKept, FilesKept
<1> QED
  BY <1>1, <1>2, PTL DEF FSpec

(* Between calls the archive file is what memory says it is: every record  *)
(* where its fileOffset says, counted by the master header, the archive    *)
(* ending where mhMasterEOF says, so that the next flush finds what it     *)
(* copies (Nu_CopyArchiveRecord) or writes over in place.                  *)
THEOREM TocCorrect == FSpec => []TocMatchesFile
<1>1. Sound /\ Files => TocMatchesFile
  BY TocMatches
<1> QED
  BY <1>1, FilesInvariance, PTL

(* Whatever fails, and whenever the process dies, one of the two files     *)
(* holds the whole old or the whole new contents, existing records updated *)
(* in place apart.                                                         *)
THEOREM OldOrNewSurvives == FSpec => []NothingLost
<1>1. Sound /\ Files => NothingLost
  BY NothingIsLost
<1> QED
  BY <1>1, FilesInvariance, PTL

-----------------------------------------------------------------------------
(* What a step may do *)

OnlySwapped == \/ arch' = NoFile /\ (Holds(temp, Merged) \/ stale)
               \/ arch = NoFile /\ arch' = temp

LEMMA SwapStep ==
    ASSUME Sound, Files, [FNext]_allVars, InFlush, fl.toTemp, arch' # arch
    PROVE  OnlySwapped
<1>1. FlushStep
  <2>1. ~Idle
    BY DEF Idle, InFlush
  <2>2. ~(EditStep \/ GiveUp \/ BeginNothing \/ Begin \/ Close)
    BY <2>1 DEF EditStep, GiveUp, BeginNothing, Begin, Close
  <2>3. ~(Crash \/ UNCHANGED allVars)
    BY DEF Crash, allVars, flushVars, fileVars
  <2> QED
    BY <2>2, <2>3 DEF FNext
<1>2. ~\E i : WalkOld(i) \/ WalkNew(i)
  BY DEF WalkOld, CopyOld, BuildOld, SkipOld, UpdateOld, Abend, WalkNew, BuildNew, SkipNew,
         Write, fileVars
<1>3. ~(OldDone \/ WriteHeader \/ CarryWrapper \/ Sync \/ CloseTemp \/ Reopen \/ Commit
        \/ Reset \/ FailReset \/ FailDelete \/ FailRename \/ FailReopen)
  BY DEF OldDone, WriteHeader, CarryWrapper, Sync, CloseTemp, Reopen, Commit, Reset, FailReset,
         FailDelete, FailRename, FailReopen, fileVars
<1>4. ~(FailOld \/ FailNew \/ FailWrapper \/ FailSync)
  <2>1. \A damaged : Abort(damaged) => arch' = damaged
    BY DEF Abort
  <2> QED
    BY <2>1 DEF FailOld, FailNew, FailWrapper, FailSync, Damage
<1>5. CASE DeleteArchive
  <2>1. arch' = NoFile /\ pc = "delete"
    BY <1>5 DEF DeleteArchive
  <2>2. ASSUME Right PROVE Holds(temp, Merged)
    <3>1. WayLists /\ Walk
      BY <2>1, <2>2, OnTheWay DEF Right, Rewriting, Headed
    <3>2. TempIsMerged
      BY <2>1, <3>1 DEF Walk, ThroughTemp, Swapping, Rewriting, Headed
    <3> QED
      BY <3>1, <3>2, FileHolds DEF TempIsMerged, WayLists
  <2>3. stale \/ Right
    BY DEF Files
  <2> QED
    BY <2>1, <2>2, <2>3 DEF OnlySwapped, Sound, Shape, Memory
<1>6. CASE RenameTemp
  BY <1>6 DEF RenameTemp, Files, OnlySwapped
<1> QED
  BY <1>1, <1>2, <1>3, <1>4, <1>5, <1>6 DEF FlushStep

(* Nothing is written to the archive file while the changes go to the temp *)
(* file: steps 5 to 9, and every failure in them, leave it alone, and step *)
(* 10 unlinks it only when the temp file is whole, then puts that in its   *)
(* place.                                                                  *)
THEOREM SwapOnly == FSpec => ArchiveUntouchedUntilSwap
<1>1. Sound /\ Files /\ [FNext]_allVars =>
         [InFlush /\ fl.toTemp /\ arch' # arch =>
             \/ arch' = NoFile /\ (Holds(temp, Merged) \/ stale)
             \/ arch = NoFile /\ arch' = temp]_allVars
  BY SwapStep DEF OnlySwapped
<1> QED
  BY <1>1, FilesInvariance, PTL DEF FSpec, ArchiveUntouchedUntilSwap

Truth ==
    /\ ~("Aborted" \in flags' /\ "Succeeded" \in flags')
    /\ "Aborted" \in flags' /\ fl.toTemp => arch' = arch /\ orig' = fl.before.orig
    /\ "Succeeded" \in flags' /\ ~stale' =>
          \/ Holds(arch', orig')
          \/ "ReadOnly" \in flags' /\ \E f \in {arch', temp'} : Holds(f, Merged')

LEMMA EndTruth ==
    ASSUME Sound, Files, Reset \/ FailReset
    PROVE  Truth
<1>1. /\ pc = "reset" /\ flags' \in {flags, flags \cup {"ReadOnly"}}
      /\ UNCHANGED <<orig, arch, stale>>
  BY DEF Reset, FailReset
<1>2. flags \subseteq {"Succeeded"}
  BY <1>1 DEF Sound, Shape, Around
<1>3. ASSUME Right, "Succeeded" \in flags PROVE Holds(arch, orig)
  <2>1. ArchHasOrig(hoff)
    BY <1>1, <1>3 DEF Right, End
  <2> QED
    BY <2>1, SoundLists, FileHolds DEF ArchHasOrig
<1> QED
  BY <1>1, <1>2, <1>3 DEF Truth, Files

LEMMA EarlyTruth ==
    ASSUME Sound, FailOld \/ FailNew \/ FailWrapper \/ FailSync
    PROVE  Truth
<1>1. pc \in {"old", "new", "wrap", "sync"}
  BY DEF FailOld, FailNew, FailWrapper, FailSync
<1>2. flags = {} /\ orig = fl.before.orig
  BY <1>1, OnTheWay
     DEF WayLists, WaySets, Phase, Before, Midway, InFlush, Rewriting, Headed
<1>3. \/ flags' \subseteq {"ReadOnly", "Corrupted"}
      \/ flags' = {"Aborted"} /\ orig' = orig /\ (fl.toTemp => arch' = arch)
  <2>1. \A damaged : Abort(damaged) => /\ flags' = {"Aborted"} /\ orig' = orig
                                       /\ fl.toTemp => arch' = damaged
    BY <1>2 DEF Abort
  <2>2. \A reported : Lock(reported) => flags' = {"ReadOnly"} \cup reported
    BY <1>2 DEF Lock
  <2>3. CASE FailOld
    BY <2>1, <2>2, <2>3 DEF FailOld
  <2>4. CASE FailNew
    BY <2>1, <2>2, <2>4 DEF FailNew
  <2>5. CASE FailWrapper \/ FailSync
    BY <2>1, <2>2, <2>5 DEF FailWrapper, FailSync
  <2> QED
    BY <2>3, <2>4, <2>5
<1> QED
  BY <1>2, <1>3 DEF Truth

LEMMA SwapTruth ==
    ASSUME Sound, Files, FailDelete \/ FailRename \/ FailReopen
    PROVE  Truth
<1>1. /\ pc \in {"delete", "rename", "reopen"} /\ UNCHANGED <<arch, temp>>
      /\ UNCHANGED <<orig, copy, copyLoaded, new>> /\ stale' = (stale \/ ~fl.toTemp)
      /\ "ReadOnly" \in flags'
      /\ flags' \subseteq flags \cup {"ReadOnly", "Succeeded", "Inaccessible"}
  BY DEF FailDelete, FailRename, FailReopen, Lock
<1>2. WayLists /\ flags \subseteq {"Succeeded"}
  BY <1>1, OnTheWay DEF WayLists, Phase, Rewriting, Headed
<1>3. ASSUME Right PROVE Holds(arch, Merged) \/ Holds(temp, Merged)
  <2>1. ThroughTemp
    BY <1>1, <1>2, <1>3 DEF Right, Walk, WayLists, Phase, Rewriting, Headed
  <2>2. TempIsMerged \/ ArchIsMerged
    BY <1>1, <2>1 DEF ThroughTemp, Swapping
  <2> QED
    BY <1>2, <2>2, FileHolds DEF TempIsMerged, ArchIsMerged, WayLists
<1>4. Merged' = Merged
  BY <1>1 DEF Merged, Cur
<1>5. ~stale' => \E f \in {arch', temp'} : Holds(f, Merged')
  BY <1>1, <1>3, <1>4 DEF Files
<1> QED
  BY <1>1, <1>2, <1>5 DEF Truth

LEMMA TruthStep ==
    ASSUME Sound, Files, [FNext]_allVars, InFlush, pc' = "idle"
    PROVE  Truth
<1>1. FlushStep
  <2>1. ~Idle
    BY DEF Idle, InFlush
  <2>2. ~(EditStep \/ GiveUp \/ BeginNothing \/ Begin \/ Close)
    BY <2>1 DEF EditStep, GiveUp, BeginNothing, Begin, Close
  <2>3. ~(Crash \/ UNCHANGED allVars)
    BY <2>1 DEF Crash, allVars, flushVars, Idle
  <2> QED
    BY <2>2, <2>3 DEF FNext
<1>2. ~\E i : WalkOld(i) \/ WalkNew(i)
  BY DEF WalkOld, CopyOld, BuildOld, SkipOld, UpdateOld, Abend, WalkNew, BuildNew, SkipNew
<1>3. ~(OldDone \/ WriteHeader \/ CarryWrapper \/ Sync \/ DeleteArchive \/ CloseTemp
        \/ RenameTemp \/ Reopen \/ Commit)
  BY DEF OldDone, WriteHeader, CarryWrapper, Sync, DeleteArchive, CloseTemp, RenameTemp, Reopen,
         Commit
<1> QED
  BY <1>1, <1>2, <1>3, EndTruth, EarlyTruth, SwapTruth DEF FlushStep

(* What the status flags tell the application is true: Aborted, that the   *)
(* archive and its record list are as they were; Succeeded, that the       *)
(* changes are whole in the archive, or in one of the two files if         *)
(* ReadOnly is said as well.                                               *)
THEOREM FlagsAreTrue == FSpec => FlagsTellTheTruth
<1>1. Sound /\ Files /\ [FNext]_allVars =>
         [InFlush /\ pc' = "idle" =>
             /\ ~("Aborted" \in flags' /\ "Succeeded" \in flags')
             /\ "Aborted" \in flags' /\ fl.toTemp => arch' = arch /\ orig' = fl.before.orig
             /\ "Succeeded" \in flags' /\ ~stale' =>
                   \/ Holds(arch', orig')
                   \/ "ReadOnly" \in flags' /\ \E f \in {arch', temp'} : Holds(f, Merged')]_allVars
  BY TruthStep DEF Truth
<1> QED
  BY <1>1, FilesInvariance, PTL DEF FSpec, FlagsTellTheTruth
=============================================================================
