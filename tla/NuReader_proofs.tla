-------------------------- MODULE NuReader_proofs --------------------------
(***************************************************************************)
(* NuExtract implements NuReader: whatever the archive, the settings and   *)
(* the answers of the callbacks, every call hands out what it was asked    *)
(* for, each item once and in order, as long as a stream is kept in step.  *)
(***************************************************************************)
EXTENDS NuExtract_proofs

-----------------------------------------------------------------------------
(* What is promised of a record, thread by thread *)

(* How many forks are among the first n threads of record i                *)
Seen(i, n) == Cardinality({k \in 1 .. n : Threads(i)[k].id \in Forks})

(* The forks that are made up when all threads have been seen              *)
Rest(i) == InOrder(Wanting(i, Len(Threads(i))))

(* Forks are counted one thread at a time.                                 *)
LEMMA SeenFacts ==
    ASSUME NEW i
    PROVE  /\ Seen(i, 0) = 0
           /\ \A n \in Nat :
                 /\ Seen(i, n) \in Nat
                 /\ Seen(i, n + 1) = Seen(i, n) + (IF Threads(i)[n + 1].id \in Forks THEN 1 ELSE 0)
<1>1. Seen(i, 0) = 0
  <2>1. {k \in 1 .. 0 : Threads(i)[k].id \in Forks} = {}
    OBVIOUS
  <2> QED BY <2>1, FS_EmptySet DEF Seen
<1>2. ASSUME NEW n \in Nat
      PROVE  /\ Seen(i, n) \in Nat
             /\ Seen(i, n + 1) = Seen(i, n) + (IF Threads(i)[n + 1].id \in Forks THEN 1 ELSE 0)
  <2> DEFINE X == {k \in 1 .. n : Threads(i)[k].id \in Forks}
             Y == {k \in 1 .. n + 1 : Threads(i)[k].id \in Forks}
  <2>1. IsFiniteSet(1 .. n) /\ X \subseteq 1 .. n /\ n + 1 \notin X
    BY FS_Interval
  <2>2. IsFiniteSet(X) /\ Cardinality(X) \in Nat
    <3> HIDE DEF X
    <3> QED BY <2>1, FS_Subset, FS_CardinalityType
  <2>3. CASE Threads(i)[n + 1].id \in Forks
    <3>1. Y = X \cup {n + 1}
      BY <2>3
    <3> HIDE DEF X, Y
    <3>2. Cardinality(Y) = Cardinality(X) + 1
      BY <2>1, <2>2, <3>1, FS_AddElement
    <3> QED BY <2>2, <2>3, <3>2 DEF X, Y, Seen
  <2>4. CASE Threads(i)[n + 1].id \notin Forks
    <3>1. Y = X
      BY <2>4
    <3>2. Seen(i, n) = Cardinality(X) /\ Seen(i, n + 1) = Cardinality(Y)
      BY DEF Seen
    <3> HIDE DEF X, Y
    <3> QED BY <2>2, <2>4, <3>1, <3>2
  <2> QED BY <2>3, <2>4
<1> QED BY <1>1, <1>2

(* The forks of a record on disk                                           *)
ForkSeq(i) == [k \in DOMAIN arc[i].threads |->
                  IF Kind(i, k) \in Forks THEN <<<<i, Kind(i, k)>>>> ELSE <<>>]

(* The forks Promised adds to them                                         *)
Added(i) == IF HasKind(i, {"control"}) /\ ~opt.mask THEN <<>> ELSE InOrder(MissingForks(i))

(* They are what MaskDataless makes up, or else what is made up at the end.*)
LEMMA AddedIs ==
    ASSUME Located, NEW i \in DOMAIN arc
    PROVE  /\ Added(i) \in Seq({"data", "rsrc"}) /\ Len(Added(i)) \in Nat
           /\ opt.mask => Made(i) = Added(i) /\ Rest(i) = <<>>
           /\ ~opt.mask => Made(i) = <<>> /\ Rest(i) = Added(i)
<1>1. Added(i) \in Seq({"data", "rsrc"}) /\ Len(Added(i)) \in Nat
  <2>1. InOrder(MissingForks(i)) \in Seq({"data", "rsrc"}) /\ <<>> \in Seq({"data", "rsrc"})
    BY InOrderFacts
  <2>2. Added(i) \in Seq({"data", "rsrc"})
    BY <2>1 DEF Added
  <2> QED BY <2>2, LenProperties
<1>2. CASE opt.mask
  <2>1. Made(i) = InOrder(MissingForks(i))
    BY <1>2, NiceArchives DEF Located, Made
  <2>2. Rest(i) = <<>>
    BY <1>2, AllSeen, InOrderIs DEF Rest
  <2> QED BY <1>1, <1>2, <2>1, <2>2 DEF Added
<1>3. CASE ~opt.mask
  <2>1. Made(i) = <<>>
    BY <1>3 DEF Made
  <2>2. /\ Len(Threads(i)) = Count(i) /\ Count(i) \in Nat
        /\ DOMAIN arc[i].threads = 1 .. Count(i)
        /\ \A k \in 1 .. Count(i) : Threads(i)[k] = arc[i].threads[k] /\ Kind(i, k) \in Kinds
    <3>1. Len(Threads(i)) = Count(i) + Len(Made(i)) /\ Len(Made(i)) = 0
      BY <2>1, ThreadsFacts
    <3>2. /\ Count(i) \in Nat /\ DOMAIN arc[i].threads = 1 .. Count(i)
          /\ arc[i].threads \in Seq(Thread)
      BY ArcTypes
    <3>3. \A k \in 1 .. Count(i) : arc[i].threads[k] \in Thread
      BY <3>2, ElementOfSeq
    <3>4. \A k \in 1 .. Count(i) : Kind(i, k) \in Kinds
      BY <3>3 DEF Kind, Thread
    <3> QED BY <3>1, <3>2, <3>4, ThreadsFacts
  <2>3. \A f \in {"data", "rsrc"} : \A id \in Kinds :
           f \in Supplies(id) <=> id \in {f, "disk", "control"}
    BY DEF Supplies, Kinds, Forks
  <2>4. \A f \in {"data", "rsrc"} :
           (\A k \in 1 .. Count(i) : f \notin Supplies(Threads(i)[k].id))
              <=> ~HasKind(i, {f, "disk"}) /\ ~HasKind(i, {"control"})
    <3> TAKE f \in {"data", "rsrc"}
    <3>1. \A k \in 1 .. Count(i) :
             f \in Supplies(Threads(i)[k].id) <=> Kind(i, k) \in {f, "disk", "control"}
      BY <2>2, <2>3 DEF Kind
    <3> QED BY <2>2, <3>1 DEF HasKind
  <2>5. Wanting(i, Len(Threads(i))) = IF HasKind(i, {"control"}) THEN {} ELSE MissingForks(i)
    BY <2>2, <2>4 DEF Wanting, MissingForks
  <2>6. InOrder({}) = <<>>
    BY InOrderIs
  <2> QED BY <1>1, <1>3, <2>1, <2>5, <2>6 DEF Rest, Added
<1> QED BY <1>1, <1>2, <1>3

(* Promised(i) is the forks among the threads and then those made up at    *)
(* the end.                                                                *)
LEMMA PromisedIs ==
    ASSUME Located, NEW i \in DOMAIN arc
    PROVE  /\ Promised(i) \in Seq(Nat \X Kinds)
           /\ Len(Promised(i)) = Seen(i, Len(Threads(i))) + Len(Rest(i))
           /\ \A k \in 1 .. Len(Threads(i)) : Threads(i)[k].id \in Forks =>
                 Promised(i)[Seen(i, k)] = <<i, Threads(i)[k].id>>
           /\ \A j \in 1 .. Len(Rest(i)) :
                 Promised(i)[Seen(i, Len(Threads(i))) + j] = <<i, Rest(i)[j]>>
           /\ \A k, n \in 0 .. Len(Threads(i)) : k <= n => Seen(i, k) <= Seen(i, n)
<1> DEFINE F == FlattenSeq(ForkSeq(i))
           a == Added(i)
           M == [k \in DOMAIN a |-> <<i, a[k]>>]
           c == Count(i)
           S == Nat \X Kinds
<1>1. /\ c \in Nat /\ DOMAIN arc[i].threads = 1 .. c /\ i \in Nat
      /\ Len(Threads(i)) \in Nat /\ Len(Made(i)) \in Nat /\ Len(Threads(i)) = c + Len(Made(i))
      /\ \A k \in 1 .. c : Threads(i)[k] = arc[i].threads[k] /\ Kind(i, k) \in Kinds
      /\ \A n \in 1 .. Len(Made(i)) : Threads(i)[c + n].id = Made(i)[n]
  <2>1. /\ Count(i) \in Nat /\ DOMAIN arc[i].threads = 1 .. Count(i)
        /\ arc[i].threads \in Seq(Thread) /\ i \in Nat
    BY ArcTypes
  <2>2. \A k \in 1 .. Count(i) : arc[i].threads[k] \in Thread
    BY <2>1, ElementOfSeq
  <2>3. \A k \in 1 .. Count(i) : Kind(i, k) \in Kinds
    BY <2>2 DEF Kind, Thread
  <2>4. \A n \in 1 .. Len(Made(i)) :
           Threads(i)[Count(i) + n] = [id |-> Made(i)[n], len |-> 0, bad |-> "no"]
    BY ThreadsFacts
  <2>5. \A n \in 1 .. Len(Made(i)) : Threads(i)[Count(i) + n].id = Made(i)[n]
    <3> TAKE n \in 1 .. Len(Made(i))
    <3>1. Threads(i)[Count(i) + n] = [id |-> Made(i)[n], len |-> 0, bad |-> "no"]
      BY <2>4
    <3> QED BY <3>1
  <2> QED BY <2>1, <2>3, <2>5, ThreadsFacts
<1>2. /\ a \in Seq({"data", "rsrc"}) /\ Len(a) \in Nat
      /\ (opt.mask => Made(i) = a /\ Rest(i) = <<>>)
      /\ (~opt.mask => Made(i) = <<>> /\ Rest(i) = a)
  BY AddedIs
<1>3. \A n \in Nat : /\ Seen(i, n) \in Nat
                     /\ Seen(i, n + 1) = Seen(i, n) + (IF Threads(i)[n + 1].id \in Forks
                                                         THEN 1 ELSE 0)
  BY SeenFacts
<1>4. Seen(i, 0) = 0
  BY SeenFacts
<1>5. Promised(i) = F \o M
  BY DEF Promised, ForkSeq, Added
<1> HIDE DEF a
<1>6. /\ M \in Seq(S) /\ Len(M) = Len(a) /\ \A j \in 1 .. Len(a) : M[j] = <<i, a[j]>>
  <2>1. DOMAIN a = 1 .. Len(a) /\ \A j \in 1 .. Len(a) : a[j] \in {"data", "rsrc"}
    BY <1>2, LenProperties, ElementOfSeq
  <2>2. {"data", "rsrc"} \subseteq Kinds
    BY DEF Kinds, Forks
  <2>3. M \in [1 .. Len(a) -> S]
    BY <1>1, <2>1, <2>2
  <2> QED BY <1>2, <2>1, <2>3
<1>7. ForkSeq(i) \in Seq(Seq(S)) /\ Len(ForkSeq(i)) = c
  <2>1. \A k \in 1 .. c : (IF Kind(i, k) \in Forks THEN <<<<i, Kind(i, k)>>>> ELSE <<>>) \in Seq(S)
    <3> TAKE k \in 1 .. c
    <3>1. <<i, Kind(i, k)>> \in S
      BY <1>1
    <3> DEFINE x == <<i, Kind(i, k)>>
    <3> HIDE DEF x, S
    <3>2. x \in S /\ <<x>> \in Seq(S) /\ <<>> \in Seq(S)
      BY <3>1 DEF x
    <3>3. (IF Kind(i, k) \in Forks THEN <<x>> ELSE <<>>) \in Seq(S)
      BY <3>2
    <3> QED BY <3>3 DEF x
  <2> DEFINE R == Seq(S)
  <2> HIDE DEF R
  <2>2. ForkSeq(i) \in [1 .. c -> R]
    <3> HIDE DEF S, c
    <3>1. DOMAIN arc[i].threads = 1 .. c
      BY <1>1
    <3> QED BY <2>1, <3>1 DEF ForkSeq, R
  <2>3. c \in Nat
    BY <1>1
  <2> HIDE DEF c
  <2>4. ForkSeq(i) \in Seq(R) /\ Len(ForkSeq(i)) = c
    BY <2>2, <2>3
  <2> QED BY <2>4 DEF R
<1>8. F \in Seq(S) /\ \E off : Placed(ForkSeq(i), off)
  BY <1>7, FlattenPlaces
<1> HIDE DEF c, S
<1>9. PICK off : Placed(ForkSeq(i), off)
  BY <1>8
<1>10. /\ off[0] = 0 /\ Len(F) = off[c]
       /\ \A k \in 1 .. c : off[k] = off[k-1] + Len(ForkSeq(i)[k])
       /\ \A k \in 1 .. c : \A j \in 1 .. Len(ForkSeq(i)[k]) :
             F[off[k-1] + j] = ForkSeq(i)[k][j]
  BY <1>7, <1>9 DEF Placed, Offsets
<1> HIDE DEF F
<1>11. \A k \in 1 .. c : /\ Threads(i)[k].id \in Forks =>
                               Len(ForkSeq(i)[k]) = 1 /\ ForkSeq(i)[k][1] = <<i, Threads(i)[k].id>>
                         /\ Threads(i)[k].id \notin Forks => Len(ForkSeq(i)[k]) = 0
  BY <1>1 DEF ForkSeq, Kind
<1>12. \A k \in 0 .. c : off[k] = Seen(i, k)
  <2> DEFINE T == {k \in 0 .. c : off[k] = Seen(i, k)}
  <2>1. 0 \in T
    BY <1>1, <1>4, <1>10
  <2>2. ASSUME NEW k \in 0 .. c - 1, k \in T
        PROVE  k + 1 \in T
    <3>1. k + 1 \in 1 .. c /\ (k + 1) - 1 = k /\ k \in Nat /\ k + 1 \in 0 .. c
      BY <1>1
    <3>2. off[k + 1] = off[k] + Len(ForkSeq(i)[k + 1])
      BY <1>10, <3>1
    <3>3. Len(ForkSeq(i)[k + 1]) = IF Threads(i)[k + 1].id \in Forks THEN 1 ELSE 0
      BY <1>11, <3>1
    <3>4. off[k + 1] = Seen(i, k + 1)
      BY <1>3, <2>2, <3>1, <3>2, <3>3
    <3> QED BY <3>1, <3>4
  <2> HIDE DEF T
  <2>3. \A k \in 0 .. c : k \in T
    BY <1>1, <2>1, <2>2, UpTo
  <2> QED BY <2>3 DEF T
<1>13. ASSUME NEW k \in 1 .. c, Threads(i)[k].id \in Forks
       PROVE  F[Seen(i, k)] = <<i, Threads(i)[k].id>> /\ Seen(i, k) \in 1 .. Len(F)
  <2>1. k - 1 \in Nat /\ (k - 1) + 1 = k /\ k - 1 \in 0 .. c /\ c \in 0 .. c
    BY <1>1
  <2>2. Seen(i, k) = Seen(i, k - 1) + 1 /\ Seen(i, k - 1) \in Nat
    BY <1>3, <1>13, <2>1
  <2>3. F[off[k-1] + 1] = <<i, Threads(i)[k].id>>
    BY <1>10, <1>11, <1>13
  <2>4. off[k] <= off[c]
    <3>1. k \in 0 .. c /\ k <= c /\ Offsets(ForkSeq(i), off)
      BY <1>1, <1>9 DEF Placed
    <3> QED BY <1>7, <2>1, <3>1, OffsetsGrow
  <2>5. off[k] = Seen(i, k) /\ off[k-1] = Seen(i, k-1) /\ off[c] \in Nat
    <3>1. k \in 0 .. c /\ Seen(i, c) \in Nat
      BY <1>1, <1>3
    <3>2. off[k] = Seen(i, k) /\ off[k-1] = Seen(i, k-1) /\ off[c] = Seen(i, c)
      BY <1>12, <2>1, <3>1
    <3> QED BY <3>1, <3>2
  <2> QED BY <1>10, <2>2, <2>3, <2>4, <2>5
<1>14. Len(F) = Seen(i, c)
  BY <1>1, <1>10, <1>12
<1>15. /\ Promised(i) \in Seq(S) /\ Len(Promised(i)) = Seen(i, c) + Len(a)
       /\ \A p \in 1 .. Seen(i, c) : Promised(i)[p] = F[p]
       /\ \A j \in 1 .. Len(a) : Promised(i)[Seen(i, c) + j] = <<i, a[j]>>
  <2> HIDE DEF M
  <2>1. /\ F \o M \in Seq(S) /\ Len(F \o M) = Len(F) + Len(M)
        /\ \A p \in 1 .. Len(F) + Len(M) : (F \o M)[p] = IF p <= Len(F) THEN F[p] ELSE M[p - Len(F)]
    BY <1>6, <1>8, ConcatProperties
  <2> DEFINE n == Seen(i, c)
  <2>2. n \in Nat /\ Len(F) = n /\ Len(M) = Len(a)
    BY <1>1, <1>3, <1>6, <1>14
  <2> HIDE DEF n
  <2>3. \A p \in 1 .. n : Promised(i)[p] = F[p]
    <3> TAKE p \in 1 .. n
    <3>1. p \in 1 .. Len(F) + Len(M) /\ p <= Len(F)
      BY <1>2, <2>2
    <3> QED BY <1>5, <2>1, <3>1
  <2>4. \A j \in 1 .. Len(a) : Promised(i)[n + j] = M[j]
    <3> TAKE j \in 1 .. Len(a)
    <3>1. n + j \in 1 .. Len(F) + Len(M) /\ ~(n + j <= Len(F)) /\ (n + j) - Len(F) = j
      BY <1>2, <2>2
    <3> QED BY <1>5, <2>1, <3>1
  <2> QED BY <1>5, <1>6, <2>1, <2>2, <2>3, <2>4 DEF n
<1>16. \A j \in 0 .. Len(Made(i)) : Seen(i, c + j) = Seen(i, c) + j
  <2> DEFINE m == Len(Made(i))
             T == {j \in 0 .. m : Seen(i, c + j) = Seen(i, c) + j}
  <2>1. 0 \in T
    BY <1>1, <1>3
  <2>2. ASSUME NEW j \in 0 .. m - 1, j \in T
        PROVE  j + 1 \in T
    <3>1. j + 1 \in 1 .. m /\ c + j \in Nat /\ (c + j) + 1 = c + (j + 1) /\ j + 1 \in 0 .. m
      BY <1>1
    <3>2. Made(i)[j + 1] \in Forks
      <4>1. opt.mask /\ Made(i) = a
        <5>1. CASE ~opt.mask
          BY <1>2, <3>1, <5>1
        <5> QED BY <1>2, <5>1
      <4>2. a[j + 1] \in {"data", "rsrc"}
        BY <1>2, <3>1, <4>1, ElementOfSeq
      <4> QED BY <4>1, <4>2 DEF Forks
    <3>3. Threads(i)[c + (j + 1)].id \in Forks
      BY <1>1, <3>1, <3>2
    <3>4. Seen(i, (c + j) + 1) = Seen(i, c + j) + 1
      BY <1>3, <3>1, <3>3
    <3>5. Seen(i, c) \in Nat /\ Seen(i, c + j) = Seen(i, c) + j
      BY <1>1, <1>3, <2>2
    <3> QED BY <3>1, <3>4, <3>5
  <2> HIDE DEF T
  <2>3. \A j \in 0 .. m : j \in T
    <3>1. m \in Nat  BY <1>1
    <3> HIDE DEF m
    <3> QED BY <2>1, <2>2, <3>1, UpTo
  <2> QED BY <2>3 DEF T
<1>17. /\ Len(Promised(i)) = Seen(i, Len(Threads(i))) + Len(Rest(i))
       /\ \A j \in 1 .. Len(Rest(i)) :
             Promised(i)[Seen(i, Len(Threads(i))) + j] = <<i, Rest(i)[j]>>
  <2>1. CASE opt.mask
    <3>1. Len(Made(i)) = Len(a) /\ Rest(i) = <<>> /\ Len(Threads(i)) = c + Len(a)
      BY <1>1, <1>2, <2>1
    <3>2. Seen(i, c + Len(a)) = Seen(i, c) + Len(a) /\ Seen(i, c) \in Nat
      BY <1>1, <1>2, <1>3, <1>16, <3>1
    <3> QED BY <1>2, <1>15, <3>1, <3>2
  <2>2. CASE ~opt.mask
    <3>1. Rest(i) = a /\ Len(Threads(i)) = c
      BY <1>1, <1>2, <2>2
    <3> QED BY <1>15, <3>1
  <2> QED BY <2>1, <2>2
<1>18. ASSUME NEW k \in 1 .. Len(Threads(i)), Threads(i)[k].id \in Forks
       PROVE  Promised(i)[Seen(i, k)] = <<i, Threads(i)[k].id>>
  <2>1. CASE k <= c
    <3>1. k \in 1 .. c
      BY <1>1, <2>1
    <3>2. F[Seen(i, k)] = <<i, Threads(i)[k].id>> /\ Seen(i, k) \in 1 .. Seen(i, c)
      BY <1>13, <1>14, <1>18, <3>1
    <3> QED BY <1>15, <3>2
  <2>2. CASE ~(k <= c)
    <3> DEFINE j == k - c
    <3>1. j \in 1 .. Len(Made(i)) /\ k = c + j /\ j \in 0 .. Len(Made(i))
      BY <1>1, <2>2
    <3> HIDE DEF j
    <3>2. Made(i) = a
      <4>1. CASE ~opt.mask
        BY <1>2, <3>1, <4>1
      <4> QED BY <1>2, <4>1
    <3>3. Seen(i, k) = Seen(i, c) + j /\ Threads(i)[k].id = a[j]
      BY <1>1, <1>16, <3>1, <3>2
    <3> QED BY <1>15, <3>1, <3>2, <3>3
  <2> QED BY <2>1, <2>2
<1>19. ASSUME NEW k \in 0 .. Len(Threads(i)), NEW n \in 0 .. Len(Threads(i)), k <= n
       PROVE  Seen(i, k) <= Seen(i, n)
  <2> DEFINE X == {j \in 1 .. k : Threads(i)[j].id \in Forks}
             Y == {j \in 1 .. n : Threads(i)[j].id \in Forks}
  <2>1. X \subseteq Y /\ Y \subseteq 1 .. n /\ IsFiniteSet(1 .. n)
    <3>1. k \in Nat /\ n \in Nat
      BY <1>1
    <3>2. \A e, a1, b1 \in Nat : a1 <= b1 /\ e <= a1 => e <= b1
      OBVIOUS
    <3>3. 1 .. k \subseteq 1 .. n
      BY <1>19, <3>1, <3>2
    <3>4. X \subseteq Y
      BY <3>3
    <3>5. Y \subseteq 1 .. n
      OBVIOUS
    <3>6. IsFiniteSet(1 .. n)
      BY <3>1, FS_Interval
    <3> QED BY <3>4, <3>5, <3>6
  <2> HIDE DEF X, Y
  <2>2. Cardinality(X) <= Cardinality(Y)
    BY <2>1, FS_Subset
  <2> QED BY <2>2 DEF X, Y, Seen
<1> QED BY <1>15, <1>17, <1>18, <1>19 DEF S

-----------------------------------------------------------------------------
(* The job of a call, record by record *)

(* What a bulk call is to hand out of each record                          *)
PromisedFrom == [n \in 1 .. Len(arc) + 1 - op.from |-> Promised(n + op.from - 1)]

(* Where the records' parts end in its job                                 *)
JobEnds == CHOOSE off : Placed(PromisedFrom, off)

(* The job of NuExtract and NuTest is what is promised of each record from *)
(* the first one on.                                                       *)
LEMMA BulkJob ==
    ASSUME Located, op.from \in 1 .. Len(arc) + 1, op.name \in {"extract", "test"}
    PROVE  /\ Job \in Seq(Nat \X Kinds) /\ Len(Job) \in Nat
           /\ JobEnds[0] = 0 /\ JobEnds[Len(arc) + 1 - op.from] = Len(Job)
           /\ \A n \in 1 .. Len(arc) + 1 - op.from :
                 /\ n + op.from - 1 \in DOMAIN arc
                 /\ JobEnds[n-1] \in Nat
                 /\ JobEnds[n] = JobEnds[n-1] + Len(Promised(n + op.from - 1))
                 /\ JobEnds[n] <= Len(Job)
                 /\ \A j \in 1 .. Len(Promised(n + op.from - 1)) :
                       Job[JobEnds[n-1] + j] = Promised(n + op.from - 1)[j]
<1> DEFINE c == Len(arc) + 1 - op.from
           S == Nat \X Kinds
           R == Seq(S)
           P == PromisedFrom
           off == JobEnds
<1>1. c \in Nat /\ \A n \in 1 .. c : n + op.from - 1 \in DOMAIN arc
  <2>1. Len(arc) \in Nat /\ DOMAIN arc = 1 .. Len(arc)
    BY ArcTypes
  <2> QED BY <2>1
<1>2. \A n \in 1 .. c : Promised(n + op.from - 1) \in R
  BY <1>1, PromisedIs
<1>3. P = [n \in 1 .. c |-> Promised(n + op.from - 1)]
  BY DEF PromisedFrom
<1>4. Job = FlattenSeq(P)
  BY DEF Job, PromisedFrom
<1> HIDE DEF c, R, P, off
<1>5. P \in Seq(R) /\ Len(P) = c
  <2>1. P \in [1 .. c -> R]
    BY <1>2, <1>3
  <2> QED BY <1>1, <2>1
<1>6. P \in Seq(Seq(S))
  BY <1>5 DEF R
<1>7. FlattenSeq(P) \in Seq(S) /\ Placed(P, off)
  <2>1. FlattenSeq(P) \in Seq(S) /\ \E o : Placed(P, o)
    <3> HIDE DEF S
    <3> QED BY <1>6, FlattenPlaces
  <2> QED BY <2>1 DEF off, JobEnds, P
<1>8. /\ off \in [0 .. c -> Nat] /\ off[0] = 0 /\ Len(FlattenSeq(P)) = off[c]
      /\ \A n \in 1 .. c : off[n] = off[n-1] + Len(P[n])
      /\ \A n \in 1 .. c : \A j \in 1 .. Len(P[n]) : FlattenSeq(P)[off[n-1] + j] = P[n][j]
  BY <1>5, <1>7 DEF Placed, Offsets
<1>9. \A n \in 1 .. c : off[n] <= off[c]
  <2>1. \A n \in 1 .. c : n \in 0 .. c /\ c \in 0 .. c /\ n <= c
    BY <1>1
  <2>2. Offsets(P, off)
    BY <1>7 DEF Placed
  <2> HIDE DEF S
  <2> QED BY <1>5, <1>6, <2>1, <2>2, OffsetsGrow
<1>10. \A n \in 1 .. c : off[n-1] \in Nat
  <2>1. \A n \in 1 .. c : n - 1 \in 0 .. c
    BY <1>1
  <2> QED BY <1>8, <2>1
<1>11. \A n \in 1 .. c : P[n] = Promised(n + op.from - 1)
  BY <1>3
<1>12. off[c] \in Nat
  <2>1. c \in 0 .. c
    BY <1>1
  <2> QED BY <1>8, <2>1
<1>13. Job \in Seq(S) /\ Len(Job) \in Nat /\ off[0] = 0 /\ off[c] = Len(Job)
  BY <1>4, <1>7, <1>8, <1>12
<1>14. \A n \in 1 .. c :
          /\ n + op.from - 1 \in DOMAIN arc
          /\ off[n-1] \in Nat
          /\ off[n] = off[n-1] + Len(Promised(n + op.from - 1))
          /\ off[n] <= Len(Job)
          /\ \A j \in 1 .. Len(Promised(n + op.from - 1)) :
                Job[off[n-1] + j] = Promised(n + op.from - 1)[j]
  <2> HIDE DEF S
  <2> QED BY <1>1, <1>4, <1>8, <1>9, <1>10, <1>11
<1> QED BY <1>13, <1>14 DEF c, off

(* The jobs of the other calls                                             *)
LEMMA OtherJobs ==
    /\ op.name = "contents" =>
          Job = [n \in 1 .. Len(arc) + 1 - op.from |-> <<n + op.from - 1, "record">>]
    /\ op.name \in {"extractRecord", "testRecord"} /\ op.rec \in DOMAIN arc =>
          Job = Promised(op.rec)
    /\ op.name = "extractThread" /\ op.rec \in DOMAIN arc =>
          Job = <<<<op.rec, Threads(op.rec)[op.thr].id>>>>
    /\ op.name = "getRecord" => Job = <<>>
  BY DEF Job

(* A call has been made.                                                   *)
Asked ==
    /\ op \in Op /\ op.name # "none" /\ op.from \in 1 .. Len(arc) + 1
    /\ op.name = "extractThread" => op.rec \in DOMAIN arc /\ op.thr \in DOMAIN Threads(op.rec)

(* The items of a job can be handed out.                                   *)
LEMMA JobTyped ==
    ASSUME Located, Asked
    PROVE  Job \in Seq(ItemSet)
<1>1. /\ Located /\ op.from \in 1 .. Len(arc) + 1 /\ op \in Op /\ op.name # "none"
      /\ Len(arc) \in Nat /\ DOMAIN arc = 1 .. Len(arc)
      /\ op.name = "extractThread" => op.rec \in DOMAIN arc /\ op.thr \in DOMAIN Threads(op.rec)
  BY ArcTypes DEF Asked
<1>2. Seq(Nat \X Kinds) \subseteq Seq(ItemSet)
  <2>1. Nat \X Kinds \subseteq ItemSet
    BY DEF ItemSet
  <2> DEFINE A == Nat \X Kinds
             B == ItemSet
  <2>2. A \subseteq B
    BY <2>1
  <2> HIDE DEF A, B
  <2>3. \A s \in Seq(A) : s \in Seq(B)
    BY <2>2
  <2> QED BY <2>3 DEF A, B
<1>3. CASE op.name \in {"extract", "test"}
  BY <1>1, <1>2, <1>3, BulkJob
<1>4. CASE op.name = "contents"
  <2> DEFINE c == Len(arc) + 1 - op.from
  <2>1. c \in Nat /\ \A n \in 1 .. c : n + op.from - 1 \in Nat
    BY <1>1
  <2> HIDE DEF c
  <2>2. \A n \in 1 .. c : <<n + op.from - 1, "record">> \in ItemSet
    BY <2>1 DEF ItemSet
  <2>3. Job = [n \in 1 .. c |-> <<n + op.from - 1, "record">>]
    BY <1>4, OtherJobs DEF c
  <2> DEFINE I == ItemSet
  <2> HIDE DEF I
  <2>4. Job \in [1 .. c -> I]
    BY <2>2, <2>3 DEF I
  <2>5. Job \in Seq(I)
    BY <2>1, <2>4
  <2> QED BY <2>5 DEF I
<1>5. CASE op.name \in {"extractRecord", "testRecord"} /\ op.rec \in DOMAIN arc
  BY <1>1, <1>2, <1>5, PromisedIs, OtherJobs
<1>6. CASE op.name = "extractThread"
  <2>1. Threads(op.rec)[op.thr] \in Thread /\ op.rec \in Nat
    BY <1>1, <1>6, ThreadsFacts, ElementOfSeq
  <2>2. <<op.rec, Threads(op.rec)[op.thr].id>> \in ItemSet
    BY <2>1 DEF Thread, ItemSet
  <2> DEFINE x == <<op.rec, Threads(op.rec)[op.thr].id>>
             I == ItemSet
  <2> HIDE DEF x, I
  <2>3. x \in I /\ Job = <<x>>
    BY <1>1, <1>6, <2>2, OtherJobs DEF x, I
  <2>4. <<x>> \in Seq(I)
    BY <2>3
  <2> QED BY <2>3, <2>4 DEF I
<1>7. CASE op.name = "getRecord" \/ (op.name \in {"extractRecord", "testRecord"}
                                       /\ op.rec \notin DOMAIN arc)
  <2>1. Job = <<>>
    BY <1>7 DEF Job
  <2> QED BY <2>1
<1> QED BY <1>1, <1>3, <1>4, <1>5, <1>6, <1>7 DEF Op, BulkCalls, SingleCalls

-----------------------------------------------------------------------------
(* How much of its job a call has done *)

(* Forks of the record in hand that have been dealt with, or are being     *)
Handled == Seen(rec, idx) + Len(InOrder(Wanting(rec, idx))) - Len(InOrder(needs))

(* What the records before it came to                                      *)
Before == IF Bulk THEN JobEnds[Len(arc) - left - 1] ELSE 0

(* While a call is served, done is what has been dealt with of its job, and*)
(* the thread in hand the next item of it.                                 *)
Counting ==
    busy /\ InStep =>
       /\ op.name = "contents" =>
             Len(done) = Len(arc) - left - (IF pc = "show" THEN 1 ELSE 0)
       /\ op.name \in {"extract", "test"} /\ pc = "next" =>
             Len(done) = JobEnds[Len(arc) - left]
       /\ ~Bulk /\ pc \in {"next", "find"} => Len(done) = 0
       /\ op.name = "extractThread" => Len(done) = 0
       /\ pc \in AtThreads /\ op.name # "extractThread" =>
             Len(done) = Before + Handled - (IF pc \in Asking THEN 1 ELSE 0)
       /\ pc \in Asking /\ op.name # "extractThread" =>
             /\ Handled \in 1 .. Len(Promised(rec))
             /\ Promised(rec)[Handled] = <<rec, th.id>>

(* What a step is to the reader: one of its own, or none                   *)
ReaderStep == [Reader!Next]_(Reader!vars)

(* A job is not changed on the way.                                        *)
LEMMA JobKept ==
    ASSUME UNCHANGED <<env, op>>
    PROVE  /\ Job' = Job /\ JobEnds' = JobEnds /\ Bulk' = Bulk
           /\ \A i : (Promised(i))' = Promised(i)
           /\ \A i, n : (Seen(i, n))' = Seen(i, n)
<1>1. /\ arc' = arc /\ disk' = disk /\ opt' = opt /\ op' = op
      /\ \A i : (Threads(i))' = Threads(i)
  BY Fixed DEF env
<1>2. \A i : (Promised(i))' = Promised(i)
  BY <1>1 DEF Promised, HasKind, Kind, MissingForks
<1>3. \A i, n : (Seen(i, n))' = Seen(i, n)
  BY <1>1 DEF Seen
<1>4. PromisedFrom' = PromisedFrom
  BY <1>1, <1>2 DEF PromisedFrom
<1>5. Job' = Job
  BY <1>1, <1>2 DEF Job
<1> QED BY <1>1, <1>2, <1>3, <1>4, <1>5 DEF JobEnds, Bulk

(* A step that hands out nothing                                           *)
LEMMA Stutters ==
    ASSUME busy, busy' = busy, UNCHANGED <<env, op, done>>
    PROVE  ReaderStep
<1>1. Job' = Job /\ done' = done
  BY JobKept
<1>2. Status' = Status
  BY DEF Status
<1> QED BY <1>1, <1>2 DEF ReaderStep, Reader!vars

(* A call that comes back in error                                         *)
LEMMA Fails ==
    ASSUME busy, NEW r, r \notin {"ok", "none"}, Return(r), UNCHANGED <<env, op, done>>
    PROVE  Counting' /\ ReaderStep
<1>1. Job' = Job /\ done' = done
  BY JobKept
<1>2. busy' = FALSE /\ result' = r
  BY DEF Return
<1>3. Status = "busy" /\ Status' = "failed"
  BY <1>2 DEF Status
<1> QED BY <1>1, <1>2, <1>3 DEF ReaderStep, Reader!Next, Reader!Fail, Counting

(* A call that succeeds                                                    *)
LEMMA Succeeds ==
    ASSUME busy, Return("ok"), UNCHANGED <<env, op, done>>, Len(done) = Len(Job)
    PROVE  Counting' /\ ReaderStep
<1>1. Job' = Job /\ done' = done
  BY JobKept
<1>2. busy' = FALSE /\ result' = "ok"
  BY DEF Return
<1>3. Status = "busy" /\ Status' = "ok"
  BY <1>2 DEF Status
<1> QED BY <1>1, <1>2, <1>3 DEF ReaderStep, Reader!Next, Reader!Succeed, Counting

(* A walk that is stopped                                                  *)
LEMMA Stops ==
    ASSUME busy, NEW r, r \notin {"ok", "none"}, Stop(r), UNCHANGED done
    PROVE  Counting' /\ ReaderStep
<1>1. Return(r) /\ UNCHANGED <<env, op, done>>
  BY DEF Stop
<1> QED BY <1>1, Fails

(* The thread in hand is the next item of the job.                         *)
LEMMA NextItem ==
    ASSUME Reading, Counting, InStep, pc \in Asking
    PROVE  /\ busy /\ Item = Job[Len(done) + 1]
           /\ Len(done) \in Nat /\ Len(Job) \in Nat /\ Len(done) < Len(Job)
           /\ op.name = "extractThread" => Len(Job) = Len(done) + 1
           /\ op.name # "extractThread" => Before \in Nat /\ Handled \in Nat
<1>1. /\ Located /\ busy /\ op.from \in 1 .. Len(arc) + 1 /\ op \in Op
      /\ Len(arc) \in Nat /\ DOMAIN arc = 1 .. Len(arc) /\ Len(done) \in Nat
      /\ op.name \notin {"none", "contents", "getRecord"} /\ rec # 0 /\ rec \in DOMAIN arc
      /\ ~Bulk => rec = op.rec
      /\ left \in Nat /\ left <= Len(arc)
  <2>1. done \in Seq(Handed) /\ Located /\ busy /\ pc \in AtThreads
    BY DEF Reading, Types, Turns, Asking, AtThreads
  <2>2. Len(arc) \in Nat /\ DOMAIN arc = 1 .. Len(arc)
    BY <2>1, ArcTypes
  <2>3. Len(done) \in Nat
    BY <2>1, LenProperties
  <2>4. /\ op.from <= Len(arc) + 1 /\ op \in Op /\ left \in 0 .. Len(arc)
        /\ rec \in 0 .. Len(arc)
    BY DEF Reading, Types
  <2>5. op.from \in Nat
    BY <2>4 DEF Op
  <2>6. /\ op.name # "none" /\ op.from >= 1 /\ op.name \notin {"contents", "getRecord"}
        /\ rec # 0 /\ (~Bulk => rec = op.rec)
    BY <2>1 DEF Reading, Turns
  <2> QED BY <2>1, <2>2, <2>3, <2>4, <2>5, <2>6
<1>2. Item = <<rec, th.id>>
  BY DEF Reading, ThreadInHand, Item
<1>3. CASE op.name = "extractThread"
  <2>1. th.thr = op.thr /\ th.id = Threads(rec)[op.thr].id /\ rec = op.rec
    BY <1>1, <1>3 DEF Reading, ThreadInHand, Bulk, BulkCalls
  <2>2. Job = <<<<op.rec, Threads(op.rec)[op.thr].id>>>> /\ Len(done) = 0
    BY <1>1, <1>3, <2>1, OtherJobs DEF Counting
  <2>3. Job = <<Item>>
    BY <1>2, <2>1, <2>2
  <2> DEFINE x == Item
  <2> HIDE DEF x
  <2>4. Len(<<x>>) = 1 /\ <<x>>[1] = x
    OBVIOUS
  <2>5. Len(Job) = 1 /\ Job[1] = Item
    BY <2>3, <2>4 DEF x
  <2> QED BY <1>1, <1>3, <2>2, <2>5
<1>4. CASE op.name # "extractThread"
  <2>1. /\ Len(done) = Before + Handled - 1 /\ Handled \in 1 .. Len(Promised(rec))
        /\ Promised(rec)[Handled] = <<rec, th.id>>
    BY <1>1, <1>4 DEF Counting, AtThreads
  <2>2. CASE Bulk
    <3> DEFINE n == Len(arc) - left
    <3>1. op.name \in {"extract", "test"}
      BY <1>1, <2>2 DEF Bulk, BulkCalls
    <3>2. n \in 1 .. Len(arc) + 1 - op.from /\ n + op.from - 1 = rec
      <4>1. pc # "next"
        BY DEF Asking
      <4>2. left < Len(arc) /\ rec = op.from - 1 + Len(arc) - left
        BY <1>1, <2>2, <4>1 DEF Reading, WalkInOrder, ReadLast
      <4> QED BY <1>1, <4>2
    <3>3. Before = JobEnds[n - 1]
      BY <2>2 DEF Before
    <3> HIDE DEF n
    <3>4. /\ JobEnds[n-1] \in Nat /\ JobEnds[n] = JobEnds[n-1] + Len(Promised(rec))
          /\ JobEnds[n] <= Len(Job) /\ Len(Job) \in Nat
          /\ \A j \in 1 .. Len(Promised(rec)) : Job[JobEnds[n-1] + j] = Promised(rec)[j]
      BY <1>1, <3>1, <3>2, BulkJob
    <3>5. Len(Promised(rec)) \in Nat
      BY <1>1, PromisedIs, LenProperties
    <3> DEFINE h == Handled
               b == JobEnds[n-1]
    <3>6. /\ h \in 1 .. Len(Promised(rec)) /\ Len(done) = b + h - 1
          /\ Job[b + h] = <<rec, th.id>>
      BY <2>1, <3>3, <3>4
    <3> HIDE DEF h
    <3>7. Len(done) + 1 = b + h /\ Len(done) < Len(Job)
      <4> DEFINE p == Len(Promised(rec))
                 e == JobEnds[n]
                 l == Len(Job)
                 d == Len(done)
      <4>1. b \in Nat /\ p \in Nat /\ h \in 1 .. p /\ e = b + p /\ e <= l /\ l \in Nat /\ d = b + h - 1
        BY <3>4, <3>5, <3>6
      <4> HIDE DEF p, e, l, d, b
      <4>2. d + 1 = b + h /\ d < l
        BY <4>1
      <4> QED BY <4>2 DEF d, l
    <3>8. h \in Nat
      BY <3>5, <3>6
    <3> QED BY <1>1, <1>2, <1>4, <3>3, <3>4, <3>6, <3>7, <3>8 DEF h
  <2>3. CASE ~Bulk
    <3>1. op.name \in {"extractRecord", "testRecord"} /\ rec = op.rec
      BY <1>1, <1>4, <2>3 DEF Op, BulkCalls, SingleCalls, Bulk
    <3>2. Job = Promised(rec) /\ Len(Promised(rec)) \in Nat
      BY <1>1, <3>1, OtherJobs, PromisedIs, LenProperties
    <3>3. Before = 0
      BY <2>3 DEF Before
    <3> DEFINE h == Handled
    <3>4. h \in 1 .. Len(Promised(rec)) /\ Len(done) = 0 + h - 1 /\ Job[h] = <<rec, th.id>>
      BY <2>1, <3>2, <3>3
    <3> HIDE DEF h
    <3>5. Len(done) + 1 = h /\ Len(done) < Len(Job)
      BY <1>1, <3>2, <3>4
    <3>6. h \in Nat
      BY <3>2, <3>4
    <3> QED BY <1>1, <1>2, <1>4, <3>2, <3>3, <3>4, <3>5, <3>6 DEF h
  <2> QED BY <2>2, <2>3
<1> QED BY <1>3, <1>4

(* The thread in hand is dealt with.                                       *)
LEMMA Over ==
    ASSUME Reading, Counting, InStep, pc \in Asking, NEW fate, fate \in {"given", "skipped"},
           ThreadOver(fate, "ok"), UNCHANGED <<env, op>>
    PROVE  Counting' /\ ReaderStep
<1>1. /\ busy /\ Len(done) < Len(Job) /\ Len(done) \in Nat
      /\ op.name = "extractThread" => Len(Job) = Len(done) + 1
      /\ op.name # "extractThread" => Before \in Nat /\ Handled \in Nat
      /\ done' = Append(done, <<Job[Len(done) + 1], fate>>)
  BY NextItem DEF ThreadOver
<1>2. Job' = Job
  BY JobKept
<1>3. CASE op.name = "extractThread"
  <2>1. busy' = FALSE /\ result' = "ok"
    BY <1>3 DEF ThreadOver, Return
  <2>2. Status = "busy" /\ Status' = "ok"
    BY <1>1, <2>1 DEF Status
  <2>3. Reader!HandleAndSucceed
    BY <1>1, <1>2, <1>3, <2>2 DEF Reader!HandleAndSucceed
  <2> QED BY <2>1, <2>3 DEF ReaderStep, Reader!Next, Counting
<1>4. CASE op.name # "extractThread"
  <2>1. /\ pc' = "threads" /\ busy' = busy /\ left' = left /\ rec' = rec /\ idx' = idx
        /\ needs' = needs
    BY <1>4 DEF ThreadOver, walk, loop
  <2>2. Status = "busy" /\ Status' = "busy"
    BY <1>1, <2>1 DEF Status
  <2>3. Reader!Handle
    BY <1>1, <1>2, <2>2 DEF Reader!Handle
  <2>4. Len(done') = Len(done) + 1
    <3>1. done \in Seq(Handed)
      BY DEF Reading, Types
    <3> QED BY <1>1, <3>1
  <2>5. arc' = arc /\ op' = op /\ InStep' = InStep /\ Before' = Before /\ Handled' = Handled
    BY <2>1, Fixed, JobKept DEF Before, Handled
  <2>6. Len(done) = Before + Handled - 1
    BY <1>1, <1>4 DEF Counting, AtThreads
  <2>7. Len(done') = Before' + Handled'
    <3> DEFINE b == Before
               h == Handled
    <3>1. b \in Nat /\ h \in Nat /\ Len(done') = Len(done) + 1 /\ Len(done) = b + h - 1
      BY <1>1, <1>4, <2>4, <2>6
    <3> HIDE DEF b, h
    <3>2. Len(done') = b + h
      BY <1>1, <3>1
    <3> QED BY <2>5, <3>2 DEF b, h
  <2>8. op.name # "contents"
    BY DEF Reading, Turns, AtThreads
  <2>9. Counting'
    BY <1>4, <2>1, <2>5, <2>7, <2>8 DEF Counting, Asking, AtThreads
  <2> QED BY <2>3, <2>9 DEF ReaderStep, Reader!Next
<1> QED BY <1>3, <1>4

-----------------------------------------------------------------------------
(* One step per action: the thread in hand *)

(* On to another question about the same thread                            *)
LEMMA AskOn ==
    ASSUME Reading, Counting, pc \in Asking, pc' \in Asking,
           UNCHANGED <<env, op, busy, left, rec, idx, needs, done>>, th'.id = th.id
    PROVE  Counting' /\ ReaderStep
<1>1. busy /\ op.name # "contents"
  BY DEF Reading, Turns, AtThreads
<1>2. /\ arc' = arc /\ op' = op /\ InStep' = InStep /\ Bulk' = Bulk /\ busy' = busy
      /\ Before' = Before /\ Handled' = Handled
      /\ (Promised(rec))' = Promised(rec)
  BY Fixed, JobKept DEF Before, Handled
<1>3. ReaderStep
  BY <1>1, Stutters
<1>4. Counting'
  BY <1>1, <1>2 DEF Counting, Asking, AtThreads
<1> QED BY <1>3, <1>4

(* The same, when GoOn says so                                             *)
LEMMA GoneOn ==
    ASSUME Reading, Counting, pc \in Asking, NEW to, to \in Asking, GoOn(to), th' = th
    PROVE  Counting' /\ ReaderStep
<1>1. /\ pc' = to /\ UNCHANGED <<env, op, busy, left, rec, idx, needs, done>>
  BY DEF GoOn, walk, loop, api
<1> QED BY <1>1, AskOn

(* The thread fails                                                        *)
LEMMA ThreadFailed ==
    ASSUME Reading, pc \in Asking, NEW r, r \notin {"ok", "none"}, ThreadFails(r)
    PROVE  Counting' /\ ReaderStep
<1>1. busy
  BY DEF Reading, Turns, Asking
<1> QED BY <1>1, Stops DEF ThreadFails

(* The thread is passed over, or cannot be                                 *)
LEMMA Passed ==
    ASSUME Reading, Counting, InStep, pc \in Asking, PassedOver
    PROVE  Counting' /\ ReaderStep
<1>1. busy
  BY DEF Reading, Turns, Asking
<1>2. CASE SkipWouldFail(th.len)
  <2>1. Stop("FileSeek") /\ UNCHANGED done
    BY <1>2 DEF PassedOver
  <2> QED BY <1>1, <2>1, Stops
<1>3. CASE ~SkipWouldFail(th.len)
  <2>1. ThreadOver("skipped", "ok") /\ UNCHANGED <<env, op>>
    BY <1>3 DEF PassedOver
  <2> QED BY <2>1, Over
<1> QED BY <1>2, <1>3

(* The thread is skipped                                                   *)
LEMMA Skipped ==
    ASSUME Reading, Counting, InStep, pc \in Asking, SkipThread
    PROVE  Counting' /\ ReaderStep
<1>1. CASE op.name = "extractThread"
  <2>1. ThreadFails("Skipped")
    BY <1>1 DEF SkipThread, ThreadFails
  <2> QED BY <2>1, ThreadFailed
<1>2. CASE op.name # "extractThread"
  BY <1>2, Passed DEF SkipThread
<1> QED BY <1>1, <1>2

(* selectionFilterFunc is asked.                                           *)
LEMMA SelectCounts ==
    ASSUME Reading, Counting, InStep, Select
    PROVE  Counting' /\ ReaderStep
<1>1. pc \in Asking
  BY DEF Select, Asking
<1>2. \/ PassedOver
      \/ ThreadFails("Aborted")
      \/ \E to \in {"opening", "path"} : GoOn(to) /\ th' = th
  BY DEF Select
<1>3. \A to \in {"opening", "path"} : to \in Asking
  BY DEF Asking
<1> QED BY <1>1, <1>2, <1>3, Passed, ThreadFailed, GoneOn

(* outputPathnameFunc is asked.                                            *)
LEMMA ChoosePathCounts ==
    ASSUME Reading, Counting, InStep, ChoosePath
    PROVE  Counting' /\ ReaderStep
<1>1. pc \in Asking /\ "opening" \in Asking
  BY DEF ChoosePath, Asking
<1>2. PassedOver \/ ThreadFails("Aborted") \/ (GoOn("opening") /\ th' = th)
  BY DEF ChoosePath
<1> QED BY <1>1, <1>2, Passed, ThreadFailed, GoneOn

(* The first progress message is sent.                                     *)
LEMMA SendOpeningCounts ==
    ASSUME Reading, Counting, InStep, SendOpening
    PROVE  Counting' /\ ReaderStep
<1>1. pc \in Asking
  BY DEF SendOpening, Asking
<1>2. \/ SkipThread
      \/ ThreadFails("Aborted")
      \/ \E to \in {"expand", "check"} : GoOn(to) /\ th' = th
  BY DEF SendOpening, out
<1>3. \A to \in {"expand", "check"} : to \in Asking
  BY DEF Asking
<1> QED BY <1>1, <1>2, <1>3, Skipped, ThreadFailed, GoneOn

(* Whatever the error handler says                                         *)
LEMMA HandlerCounts ==
    ASSUME Reading, Counting, InStep, pc \in Asking, NEW err, err \notin {"ok", "none"},
           NEW to, to \in Asking, AskHandler(err, to)
    PROVE  Counting' /\ ReaderStep
<1>1. "path" \in Asking
  BY DEF Asking
<1>2. \/ SkipThread
      \/ \E r \in {"Aborted", "Syntax", err} : ThreadFails(r)
      \/ \E w \in {"path", to} : GoOn(w) /\ th' = th
  BY DEF AskHandler, out
<1>3. \A r \in {"Aborted", "Syntax", err} : r \notin {"ok", "none"}
  OBVIOUS
<1> QED BY <1>1, <1>2, <1>3, Skipped, ThreadFailed, GoneOn

(* The age of the output file is looked at.                                *)
LEMMA CheckAgeCounts ==
    ASSUME Reading, Counting, InStep, CheckAge
    PROVE  Counting' /\ ReaderStep
<1>1. pc \in Asking /\ "exists" \in Asking
  BY DEF CheckAge, Asking
<1>2. \/ ThreadFails("FileStat")
      \/ AskHandler("NotNewer", "exists")
      \/ GoOn("exists") /\ th' = th
  BY DEF CheckAge, out
<1> QED BY <1>1, <1>2, ThreadFailed, HandlerCounts, GoneOn

(* A file in the way is looked at.                                         *)
LEMMA CheckExistsCounts ==
    ASSUME Reading, Counting, InStep, CheckExists
    PROVE  Counting' /\ ReaderStep
<1>1. pc \in Asking /\ "open" \in Asking
  BY DEF CheckExists, Asking
<1>2. \/ SkipThread
      \/ AskHandler("FileExists", "open")
      \/ AskHandler("DuplicateNotFound", "open")
      \/ GoOn("open") /\ th' = th
  BY DEF CheckExists, out
<1> QED BY <1>1, <1>2, Skipped, HandlerCounts, GoneOn

(* The output file is opened.                                              *)
LEMMA OpenFileCounts ==
    ASSUME Reading, Counting, InStep, OpenFile
    PROVE  Counting' /\ ReaderStep
<1>1. pc \in Asking /\ "expand" \in Asking
  BY DEF OpenFile, Asking
<1>2. \/ \E r \in {"NotRegularFile", "Open"} : ThreadFails(r)
      \/ /\ pc' = "expand" /\ th' = th
         /\ UNCHANGED <<env, op, busy, left, rec, idx, needs, done>>
  BY DEF OpenFile, walk, loop, out, api
<1>3. \A r \in {"NotRegularFile", "Open"} : r \notin {"ok", "none"}
  OBVIOUS
<1> QED BY <1>1, <1>2, <1>3, ThreadFailed, AskOn

(* There is no data to read.                                               *)
LEMMA ExpandNothingCounts ==
    ASSUME Reading, Counting, InStep, ExpandNothing
    PROVE  Counting' /\ ReaderStep
<1>1. pc \in Asking /\ "final" \in Asking
  BY DEF ExpandNothing, Asking
<1>2. GoOn("final") /\ th' = th
  BY DEF ExpandNothing, out
<1> QED BY <1>1, <1>2, GoneOn

(* The data is read.                                                       *)
LEMMA ExpandCounts ==
    ASSUME Reading, Counting, InStep, Expand
    PROVE  Counting' /\ ReaderStep
<1>1. pc \in Asking /\ pc' \in Asking
  BY DEF Expand, Asking
<1>2. UNCHANGED <<env, op, busy, left, rec, idx, needs, done>>
  BY DEF Expand, walk, loop, api
<1>3. th'.id = th.id
  <2>1. th \in InHand /\ th' = [th EXCEPT !.own = Finds(From, th.len, rec, th.thr)]
    BY DEF Expand, Reading, Types
  <2> QED BY <2>1 DEF InHand
<1> QED BY <1>1, <1>2, <1>3, AskOn

(* The data cannot be read.                                                *)
LEMMA ExpandFailsCounts ==
    ASSUME Reading, Counting, InStep, ExpandFails
    PROVE  Counting' /\ ReaderStep
<1>1. busy /\ Stop("BadData") /\ UNCHANGED done
  BY DEF ExpandFails, Reading, Turns
<1> QED BY <1>1, Stops

(* The progress updater interrupts.                                        *)
LEMMA InterruptCounts ==
    ASSUME Reading, Counting, InStep, Interrupt
    PROVE  Counting' /\ ReaderStep
<1>1. busy /\ pc \in Asking
  BY DEF Interrupt, Reading, Turns, Asking
<1>2. \/ \E r \in {"Aborted", "Skipped", "FileSeek"} : Stop(r) /\ UNCHANGED done
      \/ ThreadOver("skipped", "ok") /\ UNCHANGED <<env, op>>
  BY DEF Interrupt
<1>3. \A r \in {"Aborted", "Skipped", "FileSeek"} : r \notin {"ok", "none"}
  OBVIOUS
<1> QED BY <1>1, <1>2, <1>3, Stops, Over

(* The last progress message is sent.                                      *)
LEMMA FinishCounts ==
    ASSUME Reading, Counting, InStep, Finish
    PROVE  Counting' /\ ReaderStep
<1>1. pc \in Asking
  BY DEF Finish, Asking
<1>2. \/ SkipThread
      \/ ThreadFails("Aborted")
      \/ ThreadOver("given", "ok") /\ UNCHANGED <<env, op>>
  BY DEF Finish
<1> QED BY <1>1, <1>2, Skipped, ThreadFailed, Over

-----------------------------------------------------------------------------
(* One step per action: the threads of a record *)

(* What is known of a record while its threads are gone through            *)
LEMMA ThreadsCount ==
    ASSUME Reading, Counting, InStep, pc = "threads"
    PROVE  /\ Located /\ rec \in DOMAIN arc /\ busy
           /\ op.name \in {"extract", "test", "extractRecord", "testRecord"}
           /\ op.from \in 1 .. Len(arc) + 1
           /\ \A n \in 0 .. Len(Threads(rec)) : Seen(rec, n) \in Nat
           /\ Len(InOrder(needs)) \in Nat /\ Len(InOrder(Wanting(rec, idx))) \in Nat
           /\ Len(InOrder(needs)) <= Len(InOrder(Wanting(rec, idx)))
           /\ Before \in Nat /\ Len(done) = Before + Handled /\ Len(done) \in Nat
           /\ Len(Promised(rec)) \in Nat
           /\ Bulk => /\ Len(arc) - left \in 1 .. Len(arc) + 1 - op.from
                      /\ (Len(arc) - left) + op.from - 1 = rec
                      /\ Before = JobEnds[Len(arc) - left - 1]
           /\ ~Bulk => rec = op.rec /\ Before = 0
<1>1. /\ Located /\ rec \in DOMAIN arc /\ busy /\ op.name # "extractThread"
      /\ needs \subseteq Wanting(rec, idx) /\ Len(Threads(rec)) \in Nat
      /\ idx < Len(Threads(rec)) \/ "data" \in needs => needs = Wanting(rec, idx)
  BY AtRecord
<1>2. /\ op \in Op /\ op.from <= Len(arc) + 1 /\ left \in 0 .. Len(arc) /\ done \in Seq(Handed)
  BY DEF Reading, Types
<1>3. /\ op.name \notin {"none", "contents", "getRecord"} /\ op.from >= 1
      /\ ~Bulk => rec = op.rec
  BY <1>1 DEF Reading, Turns, AtThreads
<1>4. op.name \in {"extract", "test", "extractRecord", "testRecord"} /\ op.from \in Nat
  BY <1>1, <1>2, <1>3 DEF Op, BulkCalls, SingleCalls
<1>5. Len(arc) \in Nat /\ DOMAIN arc = 1 .. Len(arc)
  BY <1>1, ArcTypes
<1>6. \A n \in 0 .. Len(Threads(rec)) : Seen(rec, n) \in Nat
  BY <1>1, SeenFacts
<1>7. /\ Len(InOrder(needs)) \in Nat /\ Len(InOrder(Wanting(rec, idx))) \in Nat
      /\ Len(InOrder(needs)) <= Len(InOrder(Wanting(rec, idx)))
  <2> DEFINE W == Wanting(rec, idx)
  <2>1. W \subseteq {"data", "rsrc"} /\ needs \subseteq W
    BY <1>1 DEF Wanting
  <2> HIDE DEF W
  <2>2. /\ Len(<<"data", "rsrc">>) = 2 /\ Len(<<"data">>) = 1 /\ Len(<<"rsrc">>) = 1
        /\ Len(<<>>) = 0
    OBVIOUS
  <2>3. \A S : Len(InOrder(S)) = IF "data" \in S
                                   THEN IF "rsrc" \in S THEN 2 ELSE 1
                                   ELSE IF "rsrc" \in S THEN 1 ELSE 0
    <3> TAKE S
    <3>1. /\ "data" \in S /\ "rsrc" \in S => InOrder(S) = <<"data", "rsrc">>
          /\ "data" \in S /\ "rsrc" \notin S => InOrder(S) = <<"data">>
          /\ "data" \notin S /\ "rsrc" \in S => InOrder(S) = <<"rsrc">>
          /\ "data" \notin S /\ "rsrc" \notin S => InOrder(S) = <<>>
      BY InOrderIs
    <3> QED BY <2>2, <3>1
  <2>4. Len(InOrder(needs)) \in Nat /\ Len(InOrder(W)) \in Nat
    BY <2>3
  <2>5. Len(InOrder(needs)) <= Len(InOrder(W))
    <3>1. ("data" \in needs => "data" \in W) /\ ("rsrc" \in needs => "rsrc" \in W)
      BY <2>1
    <3>2. /\ Len(InOrder(needs)) = IF "data" \in needs
                                     THEN IF "rsrc" \in needs THEN 2 ELSE 1
                                     ELSE IF "rsrc" \in needs THEN 1 ELSE 0
          /\ Len(InOrder(W)) = IF "data" \in W
                                 THEN IF "rsrc" \in W THEN 2 ELSE 1
                                 ELSE IF "rsrc" \in W THEN 1 ELSE 0
      BY <2>3
    <3> QED BY <3>1, <3>2
  <2> QED BY <2>4, <2>5 DEF W
<1>8. Len(done) = Before + Handled - 0
  BY <1>1, <1>3 DEF Counting, AtThreads, Asking
<1>9. Bulk => /\ Len(arc) - left \in 1 .. Len(arc) + 1 - op.from
              /\ (Len(arc) - left) + op.from - 1 = rec
              /\ Before = JobEnds[Len(arc) - left - 1]
  <2> SUFFICES ASSUME Bulk PROVE /\ Len(arc) - left \in 1 .. Len(arc) + 1 - op.from
                                 /\ (Len(arc) - left) + op.from - 1 = rec
                                 /\ Before = JobEnds[Len(arc) - left - 1]
    OBVIOUS
  <2>1. left < Len(arc) /\ rec = op.from - 1 + Len(arc) - left
    BY <1>1 DEF Reading, WalkInOrder, ReadLast
  <2> QED BY <1>1, <1>2, <1>3, <1>4, <1>5, <2>1 DEF Before
<1>10. Before \in Nat
  <2>1. CASE Bulk
    <3>1. op.name \in {"extract", "test"} /\ op.from \in 1 .. Len(arc) + 1
      BY <1>2, <1>3, <1>4, <2>1 DEF Bulk, BulkCalls
    <3> QED BY <1>1, <1>9, <2>1, <3>1, BulkJob
  <2>2. CASE ~Bulk
    BY <2>2 DEF Before
  <2> QED BY <2>1, <2>2
<1>11. Handled \in Int
  <2>1. idx \in 0 .. Len(Threads(rec))
    BY AtRecord
  <2>2. Seen(rec, idx) \in Nat
    BY <1>6, <2>1
  <2> QED BY <1>7, <2>2 DEF Handled
<1>12. Len(done) = Before + Handled /\ Len(done) \in Nat
  <2>1. Len(done) \in Nat
    BY <1>2, LenProperties
  <2> DEFINE b == Before
             h == Handled
             d == Len(done)
  <2>2. b \in Nat /\ h \in Int /\ d \in Nat /\ d = b + h - 0
    BY <1>8, <1>10, <1>11, <2>1
  <2> HIDE DEF b, h, d
  <2>3. d = b + h
    BY <2>2
  <2> QED BY <2>1, <2>3 DEF b, h, d
<1>13. Len(Promised(rec)) \in Nat
  BY <1>1, PromisedIs, LenProperties
<1>14. op.from \in 1 .. Len(arc) + 1
  BY <1>2, <1>3, <1>4, <1>5
<1>15. ~Bulk => rec = op.rec /\ Before = 0
  BY <1>3 DEF Before
<1> QED BY <1>1, <1>4, <1>6, <1>7, <1>9, <1>10, <1>12, <1>13, <1>14, <1>15

(* Handled is a number.                                                    *)
LEMMA HandledInt ==
    ASSUME Reading, Counting, InStep, pc = "threads"
    PROVE  Handled \in Int
<1>1. \A n \in 0 .. Len(Threads(rec)) : Seen(rec, n) \in Nat
  BY ThreadsCount
<1>2. idx \in 0 .. Len(Threads(rec))
  BY AtRecord
<1>3. Len(InOrder(needs)) \in Nat /\ Len(InOrder(Wanting(rec, idx))) \in Nat
  BY ThreadsCount
<1>4. Seen(rec, idx) \in Nat
  BY <1>1, <1>2
<1> QED BY <1>3, <1>4 DEF Handled

(* A step within a record counts if Handled does.                          *)
LEMMA WithinRecord ==
    ASSUME Reading, Counting, InStep, pc = "threads",
           UNCHANGED <<env, op, busy, left, rec, done>>,
           \/ pc' = "threads" /\ Handled' = Handled
           \/ /\ pc' = "select" /\ Handled' = Handled + 1
              /\ Handled' \in 1 .. Len(Promised(rec))
              /\ Promised(rec)[Handled'] = <<rec, th'.id>>
    PROVE  Counting' /\ ReaderStep
<1>1. /\ busy /\ op.name \in {"extract", "test", "extractRecord", "testRecord"}
      /\ Len(done) = Before + Handled /\ Before \in Nat /\ Len(done) \in Nat
  BY ThreadsCount
<1>2. /\ arc' = arc /\ op' = op /\ InStep' = InStep /\ Bulk' = Bulk /\ busy' = busy
      /\ Before' = Before /\ done' = done /\ rec' = rec /\ left' = left
      /\ \A i : (Promised(i))' = Promised(i)
  BY Fixed, JobKept DEF Before
<1>3. ReaderStep
  BY <1>1, Stutters
<1>4. (Promised(rec))' = Promised(rec)
  BY <1>2
<1>5. CASE pc' = "threads" /\ Handled' = Handled
  <2>1. /\ pc' \in AtThreads /\ pc' \notin Asking /\ pc' \notin {"next", "find", "show"}
        /\ op'.name \notin {"contents", "extractThread"}
    BY <1>1, <1>2, <1>5 DEF Asking, AtThreads
  <2>2. (Len(done))' = Before' + Handled' - 0
    <3> DEFINE d == Len(done)
               b == Before
               h == Handled
    <3>1. d \in Nat /\ b \in Nat /\ d = b + h /\ h \in Int
      BY <1>1, HandledInt
    <3> HIDE DEF d, b, h
    <3>2. d = b + h - 0
      BY <3>1
    <3> QED BY <1>2, <1>5, <3>2 DEF d, b, h
  <2> QED BY <1>3, <2>1, <2>2 DEF Counting
<1>6. CASE /\ pc' = "select" /\ Handled' = Handled + 1
           /\ Handled' \in 1 .. Len(Promised(rec))
           /\ Promised(rec)[Handled'] = <<rec, th'.id>>
  <2>1. Handled \in Int
    BY HandledInt
  <2>2. Len(done') = Before' + Handled' - 1
    <3> DEFINE b == Before
               h == Handled
               d == Len(done)
               h1 == Handled'
    <3>1. b \in Nat /\ h \in Int /\ d = b + h /\ h1 = h + 1 /\ d = Len(done')
      BY <1>1, <1>2, <1>6, <2>1
    <3> HIDE DEF b, h, d, h1
    <3>2. d = b + h1 - 1
      BY <3>1
    <3> QED BY <1>2, <3>1, <3>2 DEF b, h1
  <2>3. /\ pc' \in AtThreads /\ pc' \in Asking /\ pc' \notin {"next", "find", "show"}
        /\ op'.name \notin {"contents", "extractThread"}
    BY <1>1, <1>2, <1>6 DEF Asking, AtThreads
  <2>4. /\ Handled' \in 1 .. Len((Promised(rec))')
        /\ (Promised(rec))'[Handled'] = <<rec', th'.id>>
    BY <1>2, <1>4, <1>6
  <2>5. (Len(done))' = Before' + Handled' - 1
    BY <2>2
  <2> QED BY <1>3, <2>3, <2>4, <2>5 DEF Counting
<1> QED BY <1>3, <1>5, <1>6

(* A thread that is not of class data is passed over.                      *)
LEMMA PassThreadCounts ==
    ASSUME Reading, Counting, InStep, PassThread
    PROVE  Counting' /\ ReaderStep
<1>1. pc = "threads" /\ idx < Len(Threads(rec)) /\ busy /\ Located
  BY ThreadsCount DEF PassThread
<1> DEFINE t == Threads(rec)[idx + 1]
<1>2. CASE SkipWouldFail(t.len)
  <2>1. Stop("FileSeek") /\ UNCHANGED done
    BY <1>2 DEF PassThread
  <2> QED BY <1>1, <2>1, Stops
<1>3. CASE ~SkipWouldFail(t.len)
  <2>1. /\ idx' = idx + 1 /\ needs' = needs \ Supplies(t.id) /\ pc' = "threads"
        /\ UNCHANGED <<env, op, busy, left, rec, done>> /\ t.id \notin Forks
    BY <1>3 DEF PassThread, walk, api
  <2>2. Handled' = Handled
    <3>1. /\ needs \ Supplies(t.id) = Wanting(rec, idx + 1) /\ needs = Wanting(rec, idx)
          /\ idx \in Nat
      BY <1>1, NextThread, AtRecord
    <3>2. Seen(rec, idx + 1) = Seen(rec, idx) /\ Seen(rec, idx) \in Nat
      BY <2>1, <3>1, SeenFacts
    <3>3. /\ (Seen(rec, idx))' = Seen(rec, idx + 1)
          /\ (Wanting(rec, idx))' = Wanting(rec, idx + 1)
      BY <2>1, Fixed, JobKept
    <3>4. needs' = Wanting(rec, idx + 1)
      BY <2>1, <3>1
    <3> DEFINE w == Len(InOrder(Wanting(rec, idx)))
               v == Len(InOrder(Wanting(rec, idx + 1)))
               s == Seen(rec, idx)
    <3>5. w \in Nat /\ v \in Nat /\ s \in Nat
      BY <3>2, InOrderFacts
    <3>6. (Len(InOrder(Wanting(rec, idx))))' = v /\ (Len(InOrder(needs)))' = v
      BY <3>3, <3>4 DEF InOrder
    <3>7. Handled' = s + v - v /\ Handled = s + w - w
      BY <3>1, <3>2, <3>3, <3>6 DEF Handled
    <3> HIDE DEF w, v, s
    <3> QED BY <3>5, <3>7
  <2> QED BY <1>1, <2>1, <2>2, WithinRecord
<1> QED BY <1>2, <1>3

(* A fork of the record is taken in hand.                                  *)
LEMMA TakeThreadCounts ==
    ASSUME Reading, Counting, InStep, TakeThread
    PROVE  Counting' /\ ReaderStep
<1>1. pc = "threads" /\ idx < Len(Threads(rec)) /\ busy /\ Located /\ rec \in DOMAIN arc
  BY ThreadsCount DEF TakeThread
<1> DEFINE t == Threads(rec)[idx + 1]
<1>2. /\ idx' = idx + 1 /\ needs' = needs \ Supplies(t.id) /\ pc' = "select"
      /\ UNCHANGED <<env, op, busy, left, rec, done>> /\ t.id \in Forks
      /\ OpenThread(t, rec, idx + 1)
  BY DEF TakeThread, walk, api
<1>3. th'.id = t.id
  <2> DEFINE r == [id |-> t.id, len |-> t.len, bad |-> t.bad, thr |-> idx + 1,
                   at |-> IF idx + 1 = 0 THEN 0 ELSE Start(rec, idx + 1), own |-> TRUE]
  <2>1. th' = r
    BY <1>2 DEF OpenThread
  <2>2. r.id = t.id
    OBVIOUS
  <2> QED BY <2>1, <2>2
<1>4. /\ needs \ Supplies(t.id) = Wanting(rec, idx + 1) /\ needs = Wanting(rec, idx)
      /\ idx \in Nat /\ idx + 1 \in 1 .. Len(Threads(rec)) /\ Len(Threads(rec)) \in Nat
  BY <1>1, NextThread, AtRecord
<1>5. Seen(rec, idx + 1) = Seen(rec, idx) + 1 /\ Seen(rec, idx) \in Nat
  BY <1>2, <1>4, SeenFacts
<1>6. Handled' = Seen(rec, idx + 1) /\ Handled = Seen(rec, idx)
  <2>3. /\ (Seen(rec, idx))' = Seen(rec, idx + 1)
        /\ (Wanting(rec, idx))' = Wanting(rec, idx + 1)
    BY <1>2, Fixed, JobKept
  <2>4. needs' = Wanting(rec, idx + 1)
    BY <1>2, <1>4
  <2> DEFINE w == Len(InOrder(Wanting(rec, idx)))
             v == Len(InOrder(Wanting(rec, idx + 1)))
             s == Seen(rec, idx)
             u == Seen(rec, idx + 1)
  <2>5. w \in Nat /\ v \in Nat /\ s \in Nat /\ u \in Nat
    BY <1>5, InOrderFacts
  <2>6. (Len(InOrder(Wanting(rec, idx))))' = v /\ (Len(InOrder(needs)))' = v
    BY <2>3, <2>4 DEF InOrder
  <2>7. Handled' = u + v - v /\ Handled = s + w - w
    BY <1>4, <2>3, <2>6 DEF Handled
  <2> HIDE DEF w, v, s, u
  <2>8. Handled' = u /\ Handled = s
    BY <2>5, <2>7
  <2> QED BY <2>8 DEF u, s
<1>7. /\ Len(Promised(rec)) = Seen(rec, Len(Threads(rec))) + Len(Rest(rec))
      /\ Promised(rec)[Seen(rec, idx + 1)] = <<rec, t.id>>
      /\ Seen(rec, idx + 1) <= Seen(rec, Len(Threads(rec)))
  BY <1>1, <1>2, <1>4, PromisedIs
<1>8. Len(Rest(rec)) \in Nat /\ Seen(rec, Len(Threads(rec))) \in Nat
  BY <1>4, SeenFacts, InOrderFacts DEF Rest
<1>9. Seen(rec, idx + 1) \in 1 .. Len(Promised(rec))
  <2> DEFINE s == Seen(rec, idx)
             u == Seen(rec, idx + 1)
             n == Seen(rec, Len(Threads(rec)))
             r == Len(Rest(rec))
  <2>1. s \in Nat /\ u = s + 1 /\ n \in Nat /\ r \in Nat /\ u <= n
    BY <1>5, <1>7, <1>8
  <2> HIDE DEF s, u, n, r
  <2>2. u \in 1 .. n + r
    BY <2>1
  <2> QED BY <1>7, <2>2 DEF u, n, r
<1> QED BY <1>1, <1>2, <1>3, <1>5, <1>6, <1>7, <1>9, WithinRecord

(* A fork is made up.                                                      *)
LEMMA MakeForkCounts ==
    ASSUME Reading, Counting, InStep, MakeFork
    PROVE  Counting' /\ ReaderStep
<1>1. /\ pc = "threads" /\ idx = Len(Threads(rec)) /\ needs # {} /\ busy /\ Located
      /\ rec \in DOMAIN arc /\ needs \subseteq Wanting(rec, idx)
      /\ "data" \in needs => needs = Wanting(rec, idx)
      /\ Len(Threads(rec)) \in Nat
  BY ThreadsCount, AtRecord DEF MakeFork
<1> DEFINE f == Head(InOrder(needs))
           W == Wanting(rec, idx)
           w == Len(InOrder(W))
           m == Len(InOrder(needs))
<1>2. /\ idx' = idx /\ needs' = needs \ {f} /\ pc' = "select"
      /\ UNCHANGED <<env, op, busy, left, rec, done>>
      /\ OpenThread([id |-> f, len |-> 0, bad |-> "no"], rec, 0)
  BY DEF MakeFork, walk, api
<1>3. th'.id = f
  <2> DEFINE r == [id |-> f, len |-> 0, bad |-> "no", thr |-> 0, at |-> 0, own |-> TRUE]
  <2>1. th' = r
    BY <1>2 DEF OpenThread
  <2>2. r.id = f
    OBVIOUS
  <2> QED BY <2>1, <2>2
<1>4. /\ w \in Nat /\ m \in 1 .. w /\ InOrder(W)[w - m + 1] = f
      /\ Len(InOrder(needs \ {f})) = m - 1
  <2>1. W \subseteq {"data", "rsrc"}
    BY DEF Wanting
  <2>2. /\ Len(<<"data", "rsrc">>) = 2 /\ Len(<<"data">>) = 1 /\ Len(<<"rsrc">>) = 1
        /\ Len(<<>>) = 0 /\ Head(<<"data", "rsrc">>) = "data" /\ Head(<<"data">>) = "data"
        /\ Head(<<"rsrc">>) = "rsrc"
        /\ <<"data", "rsrc">>[1] = "data" /\ <<"data", "rsrc">>[2] = "rsrc"
        /\ <<"data">>[1] = "data" /\ <<"rsrc">>[1] = "rsrc"
    OBVIOUS
  <2>3. needs \subseteq W /\ needs # {} /\ ("data" \in needs => needs = W)
    BY <1>1
  <2> HIDE DEF W
  <2>4. CASE "data" \in needs /\ "rsrc" \in needs
    <3>1. InOrder(needs) = <<"data", "rsrc">> /\ InOrder(W) = <<"data", "rsrc">>
      BY <2>3, <2>4, InOrderIs
    <3>2. f = "data" /\ m = 2 /\ w = 2
      BY <2>2, <3>1
    <3>3. InOrder(needs \ {f}) = <<"rsrc">>
      BY <2>4, <3>2, InOrderIs
    <3>4. InOrder(W)[1] = f
      BY <2>2, <3>1, <3>2
    <3>5. Len(InOrder(needs \ {f})) = 1
      BY <2>2, <3>3
    <3> HIDE DEF w, m, f
    <3>6. w \in Nat /\ m \in 1 .. w /\ w - m + 1 = 1 /\ m - 1 = 1
      BY <3>2
    <3> QED BY <3>4, <3>5, <3>6
  <2>5. CASE "data" \in needs /\ "rsrc" \notin needs
    <3>1. InOrder(needs) = <<"data">> /\ InOrder(W) = <<"data">>
      BY <2>3, <2>5, InOrderIs
    <3>2. f = "data" /\ m = 1 /\ w = 1
      BY <2>2, <3>1
    <3>3. InOrder(needs \ {f}) = <<>>
      BY <2>5, <3>2, InOrderIs
    <3> QED BY <2>2, <3>1, <3>2, <3>3
  <2>6. CASE "data" \notin needs
    <3>1. "rsrc" \in needs /\ "rsrc" \in W
      BY <2>1, <2>3, <2>6
    <3>2. InOrder(needs) = <<"rsrc">>
      BY <2>6, <3>1, InOrderIs
    <3>3. f = "rsrc" /\ m = 1
      BY <2>2, <3>2
    <3>4. InOrder(needs \ {f}) = <<>>
      BY <2>6, <3>3, InOrderIs
    <3>5. CASE "data" \in W
      <4>1. InOrder(W) = <<"data", "rsrc">> /\ w = 2
        BY <2>2, <3>1, <3>5, InOrderIs
      <4> QED BY <2>2, <3>3, <3>4, <4>1
    <3>6. CASE "data" \notin W
      <4>1. InOrder(W) = <<"rsrc">> /\ w = 1
        BY <2>2, <3>1, <3>6, InOrderIs
      <4> QED BY <2>2, <3>3, <3>4, <4>1
    <3> QED BY <3>5, <3>6
  <2> QED BY <2>4, <2>5, <2>6
<1> HIDE DEF f
<1>5. Handled = Seen(rec, idx) + w - m /\ Handled' = Seen(rec, idx) + w - (m - 1)
  <2>1. (Seen(rec, idx))' = Seen(rec, idx) /\ (Wanting(rec, idx))' = W
    BY <1>2, Fixed, JobKept
  <2>2. (Len(InOrder(Wanting(rec, idx))))' = w /\ (Len(InOrder(needs)))' = m - 1
    BY <1>2, <1>4, <2>1 DEF InOrder
  <2> QED BY <2>1, <2>2 DEF Handled
<1>6. /\ Seen(rec, idx) \in Nat
      /\ Len(Promised(rec)) = Seen(rec, idx) + w
      /\ \A j \in 1 .. w : Promised(rec)[Seen(rec, idx) + j] = <<rec, InOrder(W)[j]>>
  <2>1. Rest(rec) = InOrder(W)
    BY <1>1 DEF Rest
  <2>2. /\ Len(Promised(rec)) = Seen(rec, Len(Threads(rec))) + Len(Rest(rec))
        /\ \A j \in 1 .. Len(Rest(rec)) :
              Promised(rec)[Seen(rec, Len(Threads(rec))) + j] = <<rec, Rest(rec)[j]>>
    BY <1>1, PromisedIs
  <2>3. Seen(rec, idx) \in Nat
    BY <1>1, SeenFacts
  <2> QED BY <1>1, <2>1, <2>2, <2>3
<1>7. /\ Handled' = Handled + 1 /\ Handled' \in 1 .. Len(Promised(rec))
      /\ Promised(rec)[Handled'] = <<rec, f>>
  <2> DEFINE s == Seen(rec, idx)
  <2> HIDE DEF s, w, m, W
  <2>1. /\ s \in Nat /\ w \in Nat /\ m \in 1 .. w /\ Handled = s + w - m
        /\ Handled' = s + w - (m - 1)
    BY <1>4, <1>5, <1>6 DEF s, w, m, W
  <2>2. /\ w - m + 1 \in 1 .. w /\ Handled' = s + (w - m + 1) /\ Handled' = Handled + 1
        /\ Handled' \in 1 .. s + w
    BY <2>1
  <2>3. Promised(rec)[s + (w - m + 1)] = <<rec, InOrder(W)[w - m + 1]>>
    BY <1>6, <2>2 DEF s, w, W
  <2>4. Len(Promised(rec)) = s + w
    BY <1>6 DEF s, w, W
  <2> QED BY <1>4, <2>2, <2>3, <2>4 DEF w, m, W
<1> QED BY <1>1, <1>2, <1>3, <1>7, WithinRecord

(* The record has been dealt with.                                         *)
LEMMA EndOfRecordCounts ==
    ASSUME Reading, Counting, InStep, EndOfRecord
    PROVE  Counting' /\ ReaderStep
<1>1. /\ pc = "threads" /\ idx = Len(Threads(rec)) /\ needs = {}
      /\ UNCHANGED <<env, op, done>>
  BY DEF EndOfRecord
<1>2. /\ Located /\ rec \in DOMAIN arc /\ busy
      /\ op.name \in {"extract", "test", "extractRecord", "testRecord"}
      /\ op.from \in 1 .. Len(arc) + 1 /\ Before \in Nat
      /\ Len(done) = Before + Handled
  BY <1>1, ThreadsCount
<1>3. Handled = Len(Promised(rec)) /\ Len(Promised(rec)) \in Nat
  <2>1. InOrder(needs) = <<>> /\ Len(<<>>) = 0
    BY <1>1, InOrderIs
  <2>2. Rest(rec) = InOrder(Wanting(rec, idx))
    BY <1>1 DEF Rest
  <2>3. Len(Promised(rec)) = Seen(rec, idx) + Len(Rest(rec)) /\ Len(Promised(rec)) \in Nat
    BY <1>1, <1>2, PromisedIs, ThreadsCount
  <2>4. Handled = Len(Promised(rec)) - 0
    BY <2>1, <2>2, <2>3 DEF Handled
  <2> QED BY <2>3, <2>4
<1>4. CASE Bulk
  <2>1. pc' = "next" /\ UNCHANGED <<busy, left>>
    BY <1>4 DEF EndOfRecord, walk
  <2> DEFINE n == Len(arc) - left
  <2>2. /\ n \in 1 .. Len(arc) + 1 - op.from /\ n + op.from - 1 = rec
        /\ Before = JobEnds[n - 1]
    BY <1>1, <1>4, ThreadsCount
  <2>3. op.name \in {"extract", "test"}
    BY <1>2, <1>4 DEF Bulk, BulkCalls
  <2> HIDE DEF n
  <2>4. JobEnds[n] = JobEnds[n-1] + Len(Promised(rec))
    BY <1>2, <2>2, <2>3, BulkJob
  <2>5. Len(done) = JobEnds[n]
    BY <1>2, <1>3, <2>2, <2>4
  <2>6. (Len(done))' = JobEnds'[(Len(arc) - left)']
    BY <1>1, <2>1, <2>5, Fixed, JobKept DEF n
  <2>7. Counting'
    BY <1>1, <1>4, <2>1, <2>3, <2>6, JobKept DEF Counting, AtThreads, Asking
  <2>8. ReaderStep
    BY <1>1, <1>2, <2>1, Stutters
  <2> QED BY <2>7, <2>8
<1>5. CASE ~Bulk
  <2>1. Return("ok")
    BY <1>5 DEF EndOfRecord
  <2>2. rec = op.rec /\ Before = 0
    BY <1>1, <1>5, ThreadsCount
  <2>3. op.name \in {"extractRecord", "testRecord"}
    BY <1>2, <1>5 DEF Bulk, BulkCalls
  <2>4. Job = Promised(rec)
    BY <1>2, <2>2, <2>3, OtherJobs
  <2>5. Len(done) = Len(Job)
    BY <1>2, <1>3, <2>2, <2>4
  <2> QED BY <1>1, <1>2, <2>1, <2>5, Succeeds
<1> QED BY <1>4, <1>5

-----------------------------------------------------------------------------
(* One step per action: the walk, and the calls *)

(* contentFunc gets the record.                                            *)
LEMMA ShowCounts ==
    ASSUME Reading, Counting, InStep, Show
    PROVE  Counting' /\ ReaderStep
<1>1. /\ pc = "show" /\ busy /\ op.name = "contents" /\ rec # 0
  BY DEF Show, Reading, Turns
<1>2. CASE Stop("Aborted") /\ UNCHANGED <<files, pos, cur, done>>
  BY <1>1, <1>2, Stops
<1>3. CASE /\ done' = Append(done, <<<<rec, "record">>, "given">>)
           /\ pc' = "next"
           /\ UNCHANGED <<env, files, reads, walk, loop, out, api, result>>
  <2>1. UNCHANGED <<env, op, busy, left, rec>>
    BY <1>3 DEF walk, api
  <2>2. /\ Located /\ op.from \in Nat /\ op.from >= 1 /\ op.from <= Len(arc) + 1
        /\ left \in 0 .. Len(arc) /\ left < Len(arc) /\ done \in Seq(Handed)
        /\ rec = op.from - 1 + Len(arc) - left /\ rec <= Len(arc)
    <3>1. Bulk  BY <1>1 DEF Bulk, BulkCalls
    <3>2. Located /\ op \in Op /\ op.from <= Len(arc) + 1 /\ left \in 0 .. Len(arc)
          /\ done \in Seq(Handed) /\ rec \in 0 .. Len(arc)
      BY DEF Reading, Types
    <3>3. op.from >= 1
      BY <1>1 DEF Reading, Turns
    <3>4. left < Len(arc) /\ rec = op.from - 1 + Len(arc) - left
      BY <1>1, <3>1, <3>2 DEF Reading, WalkInOrder, ReadLast
    <3>5. Len(arc) \in Nat
      BY <3>2, ArcTypes
    <3> QED BY <3>2, <3>3, <3>4, <3>5 DEF Op
  <2>3. Len(done) = Len(arc) - left - 1 /\ Len(arc) \in Nat /\ Len(done) \in Nat
    <3>1. Len(arc) \in Nat /\ Len(done) \in Nat
      BY <2>2, ArcTypes, LenProperties
    <3> QED BY <1>1, <3>1 DEF Counting
  <2>4. Job = [n \in 1 .. Len(arc) + 1 - op.from |-> <<n + op.from - 1, "record">>]
    BY <1>1, OtherJobs
  <2> DEFINE d == Len(done)
             c == Len(arc) + 1 - op.from
  <2>5. /\ d \in Nat /\ c \in Nat /\ d < c /\ d + 1 \in 1 .. c
        /\ (d + 1) + op.from - 1 = rec
    <3>1. \A k, l, m, f, r \in Nat :
            /\ f >= 1 /\ f <= l + 1 /\ m < l /\ r = f - 1 + l - m /\ r <= l
            /\ k = l - m - 1
            => /\ k < l + 1 - f /\ l + 1 - f \in Nat /\ k + 1 \in 1 .. l + 1 - f
               /\ (k + 1) + f - 1 = r
      OBVIOUS
    <3>2. rec \in Nat /\ left \in Nat
      BY <2>2, <2>3
    <3> QED BY <2>2, <2>3, <3>1, <3>2
  <2> HIDE DEF d, c
  <2>6. Len(Job) = c /\ Job[d + 1] = <<rec, "record">>
    <3>1. Job = [n \in 1 .. c |-> <<n + op.from - 1, "record">>]
      BY <2>4 DEF c
    <3>2. Len(Job) = c
      BY <2>5, <3>1
    <3>3. Job[d + 1] = <<(d + 1) + op.from - 1, "record">>
      BY <2>5, <3>1
    <3> QED BY <2>5, <3>2, <3>3
  <2>7. Status = "busy" /\ Status' = "busy"
    BY <1>1, <2>1 DEF Status
  <2>8. Reader!Handle
    <3>1. Job' = Job
      BY <2>1, JobKept
    <3>2. Len(done) < Len(Job) /\ done' = Append(done, <<Job[Len(done) + 1], "given">>)
      BY <1>3, <2>5, <2>6 DEF d
    <3> QED BY <2>7, <3>1, <3>2 DEF Reader!Handle
  <2>9. (Len(done))' = Len(arc) - left - 0
    <3>1. Len(done') = Len(done) + 1
      BY <1>3, <2>2
    <3> QED BY <2>2, <2>3, <3>1
  <2>10. Counting'
    <3>1. arc' = arc /\ op' = op /\ left' = left /\ pc' = "next"
      BY <1>3, <2>1 DEF env
    <3>2. /\ pc' \notin AtThreads /\ pc' \notin Asking /\ pc' # "show"
          /\ op'.name = "contents" /\ Bulk'
      BY <1>1, <3>1 DEF AtThreads, Asking, Bulk, BulkCalls
    <3> QED BY <2>9, <3>1, <3>2 DEF Counting
  <2> QED BY <2>8, <2>10 DEF ReaderStep, Reader!Next
<1> QED BY <1>2, <1>3 DEF Show

(* There is no header to read.                                             *)
LEMMA NextFailsCounts ==
    ASSUME Reading, Counting, InStep, NextFails
    PROVE  Counting' /\ ReaderStep
<1>1. busy /\ Stop("BadRecord") /\ UNCHANGED done
  BY DEF NextFails, Reading, Turns
<1> QED BY <1>1, Stops

(* What is known of a walk that goes on to the next record                 *)
LEMMA WalkCounts ==
    ASSUME Reading, Counting, InStep, pc = "next"
    PROVE  /\ Located /\ busy /\ Len(arc) \in Nat /\ left \in 0 .. Len(arc)
           /\ DOMAIN arc = 1 .. Len(arc)
           /\ op \in Op /\ op.name # "none" /\ op.from \in 1 .. Len(arc) + 1
           /\ left < Len(arc) => rec = op.from - 1 + Len(arc) - left
           /\ rec <= Len(arc)
           /\ op.name = "contents" => Len(done) = Len(arc) - left
           /\ op.name \in {"extract", "test"} => Len(done) = JobEnds[Len(arc) - left]
           /\ ~Bulk => Len(done) = 0
<1>1. /\ Located /\ op \in Op /\ op.from <= Len(arc) + 1 /\ left \in 0 .. Len(arc)
      /\ rec \in 0 .. Len(arc) /\ done \in Seq(Handed)
  BY DEF Reading, Types
<1>2. busy /\ op.from >= 1 /\ op.name # "none"
  BY DEF Reading, Turns
<1>3. Len(arc) \in Nat /\ DOMAIN arc = 1 .. Len(arc) /\ op.from \in Nat
  BY <1>1, ArcTypes DEF Op
<1>4. left < Len(arc) => rec = op.from - 1 + Len(arc) - left
  <2>1. rec = IF left = Len(arc) THEN 0 ELSE op.from - 1 + Len(arc) - left
    BY <1>2 DEF Reading, WalkInOrder, ReadLast
  <2>2. left < Len(arc) => left # Len(arc)
    <3>1. left \in 0 .. Len(arc) /\ Len(arc) \in Nat
      BY <1>1, <1>3
    <3>2. left \in Nat /\ Len(arc) \in Nat
      BY <3>1
    <3>3. \A a, b \in Nat : a < b => a # b
      OBVIOUS
    <3> QED BY <3>2, <3>3
  <2> QED BY <2>1, <2>2
<1>5. op.name = "contents" => Len(done) = Len(arc) - left - 0
  BY <1>2 DEF Counting
<1>6. op.name = "contents" => Len(done) = Len(arc) - left
  <2>1. Len(arc) - left - 0 = Len(arc) - left
    BY <1>1, <1>3
  <2> QED BY <1>5, <2>1
<1>7. op.name \in {"extract", "test"} => Len(done) = JobEnds[Len(arc) - left]
  BY <1>2 DEF Counting
<1>8. ~Bulk => Len(done) = 0
  BY <1>2 DEF Counting
<1>9. op.from \in 1 .. Len(arc) + 1 /\ rec <= Len(arc)
  <2>1. rec \in 0 .. Len(arc) /\ Len(arc) \in Nat /\ op.from \in Nat
        /\ op.from >= 1 /\ op.from <= Len(arc) + 1
    BY <1>1, <1>2, <1>3
  <2> QED BY <2>1
<1> QED BY <1>1, <1>2, <1>3, <1>4, <1>6, <1>7, <1>8, <1>9

(* A record has been read.                                                 *)
LEMMA RecordRead ==
    ASSUME Reading, Counting, InStep, pc = "next", left > 0, left' = left - 1,
           NEW i \in DOMAIN arc, rec' = i,
           NEW n \in Nat, BeginThreads(i, n), Seen(i, n) = 0,
           Wanting(i, n) = Wanting(i, 0), pc' = AfterRecord,
           UNCHANGED <<env, op, busy, done>>
    PROVE  Counting' /\ ReaderStep
<1>1. /\ Located /\ busy /\ Len(arc) \in Nat /\ left \in 0 .. Len(arc)
      /\ op \in Op /\ op.name # "none"
      /\ op.name = "contents" => Len(done) = Len(arc) - left
      /\ op.name \in {"extract", "test"} => Len(done) = JobEnds[Len(arc) - left]
      /\ ~Bulk => Len(done) = 0
  BY WalkCounts
<1>2. /\ arc' = arc /\ op' = op /\ Bulk' = Bulk /\ JobEnds' = JobEnds /\ done' = done
      /\ busy' = busy
  BY Fixed, JobKept
<1>3. ReaderStep
  BY <1>1, Stutters
<1>4. CASE op.name = "contents"
  <2>1. pc' = "show"
    BY <1>4, AfterRecordIs
  <2>2. (Len(done))' = Len(arc) - left' - 1
    BY <1>1, <1>2, <1>4
  <2>3. pc' \notin AtThreads /\ pc' \notin Asking /\ op'.name = "contents" /\ Bulk'
    BY <1>2, <1>4, <2>1 DEF AtThreads, Asking, Bulk, BulkCalls
  <2> QED BY <1>2, <1>3, <2>1, <2>2, <2>3 DEF Counting
<1>5. CASE op.name \in {"extract", "test"}
  <2>1. pc' = "threads" /\ Bulk
    BY <1>5, AfterRecordIs DEF Bulk, BulkCalls
  <2>2. Handled' = 0
    <3>1. idx' = n /\ needs' = Wanting(i, n)
      BY <1>1, WantingSteps DEF BeginThreads
    <3>2. (Seen(rec, idx))' = 0 /\ (Wanting(rec, idx))' = Wanting(i, n)
      BY <3>1, Fixed, JobKept
    <3> DEFINE w == Len(InOrder(Wanting(i, n)))
    <3>3. w \in Nat
      BY InOrderFacts
    <3>4. (Len(InOrder(Wanting(rec, idx))))' = w /\ (Len(InOrder(needs)))' = w
      BY <3>1, <3>2 DEF InOrder
    <3>5. Handled' = 0 + w - w
      BY <3>2, <3>4 DEF Handled
    <3> HIDE DEF w
    <3> QED BY <3>3, <3>5
  <2>3. Before' = Len(done) /\ Len(done) \in Nat
    <3>1. Len(arc) - left' - 1 = Len(arc) - left
      BY <1>1
    <3>2. Before' = JobEnds[Len(arc) - left' - 1]
      BY <1>2, <2>1 DEF Before
    <3>3. done \in Seq(Handed)
      BY DEF Reading, Types
    <3> QED BY <1>1, <1>5, <3>1, <3>2, <3>3, LenProperties
  <2>4. (Len(done))' = Before' + Handled' - 0
    BY <1>2, <2>2, <2>3
  <2>5. /\ pc' \notin Asking /\ pc' \notin {"next", "find", "show"}
        /\ op'.name \notin {"contents", "extractThread"}
    BY <1>2, <1>5, <2>1 DEF Asking
  <2> QED BY <1>3, <2>4, <2>5 DEF Counting
<1>6. CASE op.name \notin {"contents", "extract", "test"}
  <2>1. pc' = "next" /\ ~Bulk
    BY <1>6, AfterRecordIs DEF Bulk, BulkCalls
  <2>2. pc' \notin AtThreads /\ pc' \notin Asking
    BY <2>1 DEF AtThreads, Asking
  <2>3. (Len(done))' = 0
    BY <1>1, <1>2, <2>1
  <2> QED BY <1>2, <1>3, <1>6, <2>2, <2>3 DEF Counting
<1> QED BY <1>4, <1>5, <1>6

(* The next record is in the table of contents.                            *)
LEMMA NextFromTocCounts ==
    ASSUME Reading, Counting, InStep, NextFromToc
    PROVE  Counting' /\ ReaderStep
<1>1. /\ pc = "next" /\ left > 0 /\ haveToc /\ left' = left - 1 /\ pc' = AfterRecord
      /\ rec' = toc[Len(arc) - left + 1] /\ BeginThreads(rec', 0)
      /\ UNCHANGED <<env, op, busy, done>>
  BY DEF NextFromToc, api
<1>2. /\ Located /\ Len(arc) \in Nat /\ left \in 0 .. Len(arc) /\ DOMAIN arc = 1 .. Len(arc)
  BY <1>1, WalkCounts
<1>3. toc = [i \in DOMAIN arc |-> i]
  BY <1>1 DEF Reading, TocSoFar
<1>4. rec' \in DOMAIN arc
  BY <1>1, <1>2, <1>3
<1>5. Seen(rec', 0) = 0
  BY SeenFacts
<1>6. 0 \in Nat
  OBVIOUS
<1> QED BY <1>1, <1>4, <1>5, <1>6, RecordRead

(* The forks of a stream's record all come after its filename.             *)
LEMMA NoneBeforeName ==
    ASSUME Located, opt.stream, NEW i \in DOMAIN arc
    PROVE  Seen(i, FilenameIdx(i)) = 0
<1>1. \A k \in 1 .. FilenameIdx(i) : Threads(i)[k].id \in {"filename", "comment"}
  BY FilenameFacts
<1>2. {"filename", "comment"} \cap Forks = {}
  BY DEF Forks
<1>3. {k \in 1 .. FilenameIdx(i) : Threads(i)[k].id \in Forks} = {}
  BY <1>1, <1>2
<1> QED BY <1>3, FS_EmptySet DEF Seen

(* The next record is read from the file.                                  *)
LEMMA NextFromFileCounts ==
    ASSUME Reading, Counting, InStep, NextFromFile
    PROVE  Counting' /\ ReaderStep
<1> DEFINE i == disk[pos + 1].rec
           part == opt.stream /\ op.name \in {"extract", "test"}
           upTo == IF part THEN FilenameIdx(i) ELSE 0
<1>1. /\ pc = "next" /\ left > 0 /\ ~haveToc /\ HeaderHere /\ left' = left - 1 /\ rec' = i
      /\ BeginThreads(i, upTo) /\ pc' = AfterRecord
      /\ UNCHANGED <<env, op, busy, done>>
  BY DEF NextFromFile, HeaderReadable, api
<1>2. Located
  BY DEF Reading, Types
<1>3. i \in DOMAIN arc
  BY <1>1, HeaderRead
<1> HIDE DEF i
<1>4. Seen(i, 0) = 0 /\ (opt.stream => Seen(i, FilenameIdx(i)) = 0)
  BY <1>2, <1>3, SeenFacts, NoneBeforeName
<1>5. opt.stream => Wanting(i, FilenameIdx(i)) = Wanting(i, 0)
  BY <1>2, <1>3, WantingSteps
<1>6. FilenameIdx(i) \in Nat
  <2>1. FilenameIdx(i) \in 0 .. Count(i) /\ Count(i) \in Nat
    BY <1>2, <1>3, FilenameFacts, ArcTypes
  <2> QED BY <2>1
<1>7. upTo \in Nat /\ Seen(i, upTo) = 0 /\ Wanting(i, upTo) = Wanting(i, 0)
  BY <1>4, <1>5, <1>6
<1> HIDE DEF upTo
<1> QED BY <1>1, <1>3, <1>7, RecordRead

(* All records have been read.                                             *)
LEMMA EndOfWalkCounts ==
    ASSUME Reading, Counting, InStep, EndOfWalk
    PROVE  Counting' /\ ReaderStep
<1>1. pc = "next" /\ left = 0 /\ UNCHANGED <<env, op, done>>
  BY DEF EndOfWalk
<1>2. /\ Located /\ busy /\ Len(arc) \in Nat /\ op \in Op
      /\ op.name # "none" /\ op.from \in 1 .. Len(arc) + 1
      /\ 0 < Len(arc) => rec = op.from - 1 + Len(arc) - 0
      /\ rec <= Len(arc)
      /\ op.name = "contents" => Len(done) = Len(arc) - 0
      /\ op.name \in {"extract", "test"} => Len(done) = JobEnds[Len(arc) - 0]
      /\ ~Bulk => Len(done) = 0
  BY <1>1, WalkCounts
<1>3. op.from = 1
  BY <1>2
<1>4. CASE Bulk
  <2>1. Return("ok")
    BY <1>4 DEF EndOfWalk
  <2>2. Len(arc) - 0 = Len(arc) + 1 - op.from
    BY <1>2, <1>3
  <2>3. CASE op.name = "contents"
    <3> DEFINE c == Len(arc) + 1 - op.from
    <3>1. c \in Nat /\ Len(done) = c
      BY <1>2, <2>2, <2>3
    <3>2. Job = [n \in 1 .. c |-> <<n + op.from - 1, "record">>]
      BY <2>3, OtherJobs
    <3> HIDE DEF c
    <3>3. Len(Job) = c
      BY <3>1, <3>2
    <3> QED BY <1>1, <1>2, <2>1, <3>1, <3>3, Succeeds
  <2>4. CASE op.name \in {"extract", "test"}
    <3>1. Len(done) = Len(Job)
      BY <1>2, <2>2, <2>4, BulkJob
    <3> QED BY <1>1, <1>2, <2>1, <3>1, Succeeds
  <2> QED BY <1>4, <2>3, <2>4 DEF Bulk, BulkCalls
<1>5. CASE ~Bulk
  <2>1. pc' = "find" /\ busy' = busy
    BY <1>5 DEF EndOfWalk
  <2>2. ReaderStep
    BY <1>1, <1>2, <2>1, Stutters
  <2>3. /\ op' = op /\ Bulk' = Bulk /\ done' = done
    BY <1>1, JobKept
  <2>4. pc' \notin AtThreads /\ pc' \notin Asking
    BY <2>1 DEF AtThreads, Asking
  <2>5. op'.name \notin {"contents", "extract", "test"} /\ (Len(done))' = 0
    BY <1>2, <1>5, <2>3 DEF Bulk, BulkCalls
  <2> QED BY <2>2, <2>4, <2>5 DEF Counting
<1> QED BY <1>4, <1>5

(* The record asked for is looked up.                                      *)
LEMMA FindRecordCounts ==
    ASSUME Reading, Counting, InStep, FindRecord
    PROVE  Counting' /\ ReaderStep
<1>1. pc = "find" /\ UNCHANGED <<env, op, done>>
  BY DEF FindRecord
<1>2. busy /\ ~Bulk /\ Located /\ toc \in Seq(DOMAIN arc) /\ op \in Op /\ op.name # "none"
  BY <1>1 DEF Reading, Turns, Types
<1>3. Len(done) = 0
  BY <1>1, <1>2 DEF Counting
<1>4. CASE Return("RecordNotFound")
  BY <1>1, <1>2, <1>4, Fails
<1>5. CASE op.name = "getRecord" /\ Return("ok")
  <2>1. Job = <<>>
    BY <1>5, OtherJobs
  <2>2. Len(done) = Len(Job)
    BY <1>3, <2>1
  <2> QED BY <1>1, <1>2, <1>5, <2>2, Succeeds
<1>6. CASE /\ op.rec \in DOMAIN arc /\ rec' = op.rec /\ busy' = busy
           /\ op.name = "extractThread" /\ pc' = "select"
  <2>1. ReaderStep
    BY <1>1, <1>2, <1>6, Stutters
  <2>2. op' = op /\ done' = done
    BY <1>1
  <2> QED BY <1>2, <1>3, <1>6, <2>1, <2>2 DEF Counting, Bulk, BulkCalls
<1>7. CASE /\ op.rec \in DOMAIN arc /\ rec' = op.rec /\ busy' = busy
           /\ op.name # "extractThread" /\ pc' = "threads" /\ BeginThreads(op.rec, 0)
  <2>1. ReaderStep
    BY <1>1, <1>2, <1>7, Stutters
  <2>2. op' = op /\ done' = done /\ Bulk' = Bulk
    BY <1>1, JobKept
  <2>3. Handled' = 0
    <3>1. idx' = 0 /\ needs' = Wanting(op.rec, 0) /\ Seen(op.rec, 0) = 0
      BY <1>2, <1>7, WantingSteps, SeenFacts DEF BeginThreads
    <3>2. (Seen(rec, idx))' = 0 /\ (Wanting(rec, idx))' = Wanting(op.rec, 0)
      BY <1>1, <1>7, <3>1, Fixed, JobKept
    <3> DEFINE w == Len(InOrder(Wanting(op.rec, 0)))
    <3>3. w \in Nat
      BY InOrderFacts
    <3>4. (Len(InOrder(Wanting(rec, idx))))' = w /\ (Len(InOrder(needs)))' = w
      BY <3>1, <3>2 DEF InOrder
    <3>5. Handled' = 0 + w - w
      BY <3>2, <3>4 DEF Handled
    <3> HIDE DEF w
    <3> QED BY <3>3, <3>5
  <2>4. Before' = 0
    BY <1>2, <2>2 DEF Before
  <2>5. (Len(done))' = Before' + Handled' - 0
    BY <1>3, <2>2, <2>3, <2>4
  <2>6. /\ pc' \notin Asking /\ pc' \notin {"next", "find", "show"}
        /\ op'.name \notin {"contents", "extractThread"}
    BY <1>2, <1>7, <2>2 DEF Asking, Bulk, BulkCalls
  <2> QED BY <2>1, <2>5, <2>6 DEF Counting
<1>8. (\E n \in DOMAIN toc : toc[n] = op.rec) => op.rec \in DOMAIN arc
  BY <1>2, ElementOfSeq
<1> QED BY <1>4, <1>5, <1>6, <1>7, <1>8 DEF FindRecord

(* The job a call has been given can be handed out.                        *)
LEMMA JobTypedNext == (Located /\ Asked => Job \in Seq(ItemSet))'
<1>1. Located /\ Asked => Job \in Seq(ItemSet)
  BY JobTyped
<1> QED BY <1>1, PTL

(* No item of the job of a bulk call belongs before the first record.      *)
LEMMA FirstEnd ==
    Located /\ op.from \in 1 .. Len(arc) + 1 /\ op.name \in {"extract", "test"}
       => JobEnds[0] = 0
  BY BulkJob

(* The same, of the next state                                             *)
LEMMA FirstEndNext ==
    (Located /\ op.from \in 1 .. Len(arc) + 1 /\ op.name \in {"extract", "test"}
       => JobEnds[0] = 0)'
  BY FirstEnd, PTL

(* A bulk call begins.                                                     *)
LEMMA CallBulkCounts ==
    ASSUME Reading, NEW name \in BulkCalls, CallBulk(name)
    PROVE  Counting' /\ ReaderStep
<1>1. /\ ~busy /\ busy' = TRUE /\ op' = [NoOp EXCEPT !.name = name, !.from = FirstRecord]
      /\ left' = Len(arc) /\ pc' = "next" /\ done' = <<>> /\ UNCHANGED env
  BY DEF CallBulk, Validate
<1>2. Reading'
  BY CallBulkKeeps
<1>3. op'.name = name /\ op'.from = FirstRecord
  BY <1>1 DEF NoOp
<1>4. Located' /\ arc' = arc /\ Len(arc) \in Nat
  BY <1>1, Between, Fixed
<1>5. FirstRecord \in 1 .. Len(arc) + 1
  BY <1>1, <1>4, FirstIs
<1>6. Len(arc) - Len(arc) = 0 /\ Len(<<>>) = 0
  BY <1>4
<1>7. op'.name \in {"extract", "test"} => JobEnds'[0] = 0
  BY <1>3, <1>4, <1>5, FirstEndNext
<1>8. Counting'
  <2>1. pc' \notin AtThreads /\ pc' \notin Asking /\ pc' # "show"
    BY <1>1 DEF AtThreads, Asking
  <2>2. Bulk' /\ op'.name # "extractThread"
    BY <1>3 DEF Bulk, BulkCalls
  <2>3. Len(arc') - left' = 0 /\ Len(done') = 0
    BY <1>1, <1>4, <1>6
  <2> QED BY <1>7, <2>1, <2>2, <2>3 DEF Counting
<1>9. Reader!Begin
  <2>1. Status # "busy" /\ Status' = "busy"
    BY <1>1 DEF Status
  <2>2. Asked'
    <3>1. op' \in Op /\ op'.name \notin {"none", "extractThread"}
      BY <1>2, <1>3 DEF Reading, Types, BulkCalls
    <3> QED BY <1>3, <1>4, <1>5, <3>1 DEF Asked
  <2>3. Job' \in Seq(ItemSet)
    BY <1>4, <2>2, JobTypedNext
  <2> QED BY <1>1, <2>1, <2>3 DEF Reader!Begin, ItemSet
<1> QED BY <1>8, <1>9 DEF ReaderStep, Reader!Next

(* A call on one record or thread begins, or is refused.                   *)
LEMMA CallSingleCounts ==
    ASSUME Reading, NEW name \in SingleCalls, NEW i \in 1 .. Len(arc) + 1, NEW k \in Nat,
           name = "extractThread" => i \in DOMAIN arc /\ k \in DOMAIN Threads(i),
           CallSingle(name, i, k)
    PROVE  Counting' /\ ReaderStep
<1>1. /\ ~busy /\ op' = [name |-> name, rec |-> i, thr |-> k, from |-> 1]
      /\ done' = <<>> /\ UNCHANGED env
  BY DEF CallSingle, Validate
<1>2. Job' \in Seq(ItemSet)
  <2>1. Reading'
    BY CallSingleKeeps
  <2>2. /\ op'.name = name /\ op'.rec = i /\ op'.thr = k /\ op'.from = 1
    BY <1>1
  <2>3. Located' /\ arc' = arc /\ Len(arc) \in Nat /\ \A j : (Threads(j))' = Threads(j)
    BY <1>1, Between, Fixed
  <2>4. op' \in Op
    BY <2>1 DEF Reading, Types
  <2>5. name # "none"
    BY DEF SingleCalls
  <2>6. 1 \in 1 .. Len(arc) + 1
    BY <2>3
  <2>7. DOMAIN (Threads(op.rec))' = DOMAIN Threads(i)
    BY <2>2, <2>3
  <2>8. Asked'
    BY <2>2, <2>3, <2>4, <2>5, <2>6, <2>7 DEF Asked
  <2> QED BY <2>3, <2>8, JobTypedNext
<1>3. CASE opt.stream
  <2>1. result' = "Usage" /\ busy' = FALSE
    BY <1>1, <1>3 DEF CallSingle, Reading, Types
  <2>2. Status # "busy" /\ Status' = "failed"
    BY <1>1, <2>1 DEF Status
  <2>3. Reader!Refuse
    BY <1>1, <1>2, <2>2 DEF Reader!Refuse, ItemSet
  <2> QED BY <2>1, <2>3 DEF ReaderStep, Reader!Next, Counting
<1>4. CASE ~opt.stream
  <2>1. /\ busy' = TRUE /\ pc' \in {"next", "find"}
    BY <1>4 DEF CallSingle
  <2>2. Status # "busy" /\ Status' = "busy"
    BY <1>1, <2>1 DEF Status
  <2>4. Reader!Begin
    BY <1>1, <1>2, <2>2 DEF Reader!Begin, ItemSet
  <2>5. op'.name \in SingleCalls /\ Len(<<>>) = 0
    BY <1>1
  <2>6. /\ pc' \notin AtThreads /\ pc' \notin Asking /\ pc' # "show"
        /\ op'.name \notin {"contents", "extract", "test"}
    BY <2>1, <2>5 DEF AtThreads, Asking, SingleCalls
  <2>7. Counting'
    BY <1>1, <2>5, <2>6 DEF Counting
  <2> QED BY <2>4, <2>7 DEF ReaderStep, Reader!Next
<1> QED BY <1>3, <1>4

-----------------------------------------------------------------------------
(* The theorem *)

(* A call begins, or is refused.                                           *)
LEMMA CallCounts ==
    ASSUME Reading, Call
    PROVE  Counting' /\ ReaderStep
<1>1. CASE \E name \in BulkCalls : CallBulk(name)
  BY <1>1, CallBulkCounts
<1>2. ASSUME NEW i \in 1 .. Len(arc) + 1, NEW name \in SingleCalls \ {"extractThread"},
             CallSingle(name, i, 0)
      PROVE  Counting' /\ ReaderStep
  <2>1. 0 \in Nat
    OBVIOUS
  <2> QED BY <1>2, <2>1, CallSingleCounts
<1>3. ASSUME NEW i \in 1 .. Len(arc) + 1, NEW k \in ThreadsOf(i),
             CallSingle("extractThread", i, k)
      PROVE  Counting' /\ ReaderStep
  <2>1. i \in DOMAIN arc /\ k \in DOMAIN Threads(i)
    BY DEF ThreadsOf
  <2>2. k \in Nat
    <3>1. Located
      BY DEF Reading, Types
    <3>2. DOMAIN Threads(i) = 1 .. Len(Threads(i))
      BY <2>1, <3>1, ThreadsFacts
    <3> QED BY <2>1, <3>2
  <2>3. "extractThread" \in SingleCalls
    BY DEF SingleCalls
  <2> QED BY <1>3, <2>1, <2>2, <2>3, CallSingleCounts
<1> QED BY <1>1, <1>2, <1>3 DEF Call

(* Every step of the library is a step of the reader, or none.             *)
LEMMA NextCounts ==
    ASSUME Reading, Counting, InStep, [Next]_vars
    PROVE  Counting' /\ ReaderStep
<1>1. CASE UNCHANGED vars
  <2>1. /\ UNCHANGED <<env, op>> /\ left' = left /\ rec' = rec /\ idx' = idx /\ needs' = needs
        /\ th' = th /\ busy' = busy /\ op' = op /\ pc' = pc /\ done' = done /\ result' = result
        /\ arc' = arc
    BY <1>1 DEF vars, env, reads, walk, loop, out, api
  <2>2. /\ Job' = Job /\ JobEnds' = JobEnds /\ Bulk' = Bulk /\ InStep' = InStep
        /\ Before' = Before /\ Handled' = Handled /\ (Promised(rec))' = Promised(rec)
    BY <2>1, Fixed, JobKept DEF Before, Handled
  <2>3. Counting'
    BY <2>1, <2>2 DEF Counting
  <2>4. Status' = Status
    BY <2>1 DEF Status
  <2> QED BY <2>1, <2>2, <2>3, <2>4 DEF ReaderStep, Reader!vars
<1>2. CASE Call
  BY <1>2, CallCounts
<1>3. CASE Step
  BY <1>3, NextFromTocCounts, NextFromFileCounts, NextFailsCounts, ShowCounts, EndOfWalkCounts,
     FindRecordCounts, PassThreadCounts, TakeThreadCounts, MakeForkCounts, EndOfRecordCounts,
     SelectCounts, ChoosePathCounts, SendOpeningCounts, CheckAgeCounts, CheckExistsCounts,
     OpenFileCounts, ExpandNothingCounts, ExpandCounts, ExpandFailsCounts, InterruptCounts,
     FinishCounts DEF Step
<1> QED BY <1>1, <1>2, <1>3 DEF Next

(* Between calls nothing is under way.                                     *)
LEMMA InitCounts ==
    ASSUME Init
    PROVE  Counting /\ Reader!Init
<1>1. busy = FALSE /\ op = NoOp /\ done = <<>> /\ result = "none"
  BY DEF Init
<1>2. Job = <<>>
  <2>1. op.name = "none"
    BY <1>1 DEF NoOp
  <2> QED BY <2>1 DEF Job
<1>3. Status = "idle"
  BY <1>1 DEF Status
<1> QED BY <1>1, <1>2, <1>3 DEF Counting, Reader!Init

(* Every call hands out what it was asked for, each item once and in       *)
(* order, succeeds only after the last one, and comes back before another  *)
(* begins: in every archive read from a file, with every setting and       *)
(* whatever the callbacks answer, and in every stream if the progress      *)
(* updater skips no thread of which part has been read.                    *)
THEOREM EveryCallReads == Spec /\ []InStep => ImplementsReader
<1>1. Init => Counting /\ Reader!Init
  BY InitCounts
<1>2. Reading /\ Counting /\ InStep /\ [Next]_vars => Counting' /\ [Reader!Next]_(Reader!vars)
  BY NextCounts DEF ReaderStep
<1>3. Spec => []Reading
  BY ReadingInvariance
<1> QED BY <1>1, <1>2, <1>3, PTL DEF Spec, ImplementsReader, Reader!Spec

(* As it stands with an updater that does not do so                        *)
COROLLARY EveryCallReadsInStep ==
    ASSUME ~StreamSkipLate
    PROVE  Spec => ImplementsReader
<1>1. InStep
  BY DEF InStep
<1> QED BY <1>1, EveryCallReads, PTL
=============================================================================
