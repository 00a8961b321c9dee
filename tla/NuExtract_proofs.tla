-------------------------- MODULE NuExtract_proofs --------------------------
(***************************************************************************)
(* What TLAPS proves of NuExtract: for every archive, setting and output   *)
(* directory, and any number of calls.                                     *)
(***************************************************************************)
EXTENDS NuExtract, NuLemmas

-----------------------------------------------------------------------------
(* Where things are on disk *)

(* The state's constants: one of the archives, in its file, and settings.  *)
Located == arc \in Archives /\ disk = Cells(arc) /\ opt \in Settings

Cell == [rec : Nat, thr : Nat]
Count(i) == Len(arc[i].threads)
LenOf(i, k) == arc[i].threads[k].len
ThreadCells(i) == [k \in DOMAIN arc[i].threads |->
                      [j \in 1 .. LenOf(i, k) |-> [rec |-> i, thr |-> k]]]
RecordCells(i) == <<[rec |-> i, thr |-> 0]>> \o FlattenSeq(ThreadCells(i))
Rows == [i \in DOMAIN arc |-> RecordCells(i)]

(* Where the records end, and where the threads of one do                  *)
Ends == CHOOSE off : Placed(Rows, off)
ThreadEnds(i) == CHOOSE off : Placed(ThreadCells(i), off)

(* Where thread k of record i begins                                       *)
At(i, k) == Ends[i-1] + (IF k = 0 THEN 0
                         ELSE 1 + ThreadEnds(i)[IF k <= Count(i) THEN k - 1 ELSE Count(i)])

(* The archive is a sequence of records, each with a sequence of threads.  *)
LEMMA ArcTypes ==
    ASSUME Located
    PROVE  /\ arc \in Seq(Record) /\ Len(arc) \in Nat /\ DOMAIN arc = 1 .. Len(arc)
           /\ \A i \in DOMAIN arc :
                 /\ i \in Nat /\ arc[i] \in Record
                 /\ arc[i].threads \in Seq(Thread) /\ Count(i) \in Nat
                 /\ DOMAIN arc[i].threads = 1 .. Count(i)
                 /\ \A k \in DOMAIN arc[i].threads :
                       arc[i].threads[k] \in Thread /\ LenOf(i, k) \in Nat
<1>1. arc \in Seq(Record)
  BY ExtractAssumption DEF Located
<1>2. Len(arc) \in Nat /\ DOMAIN arc = 1 .. Len(arc)
  BY <1>1, LenProperties
<1>3. ASSUME NEW i \in DOMAIN arc
      PROVE  /\ i \in Nat /\ arc[i] \in Record
             /\ arc[i].threads \in Seq(Thread) /\ Count(i) \in Nat
             /\ DOMAIN arc[i].threads = 1 .. Count(i)
             /\ \A k \in DOMAIN arc[i].threads :
                   arc[i].threads[k] \in Thread /\ LenOf(i, k) \in Nat
  <2>1. arc[i] \in Record /\ i \in Nat
    BY <1>1, <1>2, ElementOfSeq
  <2>2. arc[i].threads \in Seq(Thread)
    BY <2>1 DEF Record
  <2>3. Count(i) \in Nat /\ DOMAIN arc[i].threads = 1 .. Count(i)
    BY <2>2, LenProperties DEF Count
  <2>4. \A k \in DOMAIN arc[i].threads : arc[i].threads[k] \in Thread
    BY <2>2, <2>3, ElementOfSeq DEF Count
  <2>5. \A k \in DOMAIN arc[i].threads : LenOf(i, k) \in Nat
    BY <2>4 DEF LenOf, Thread
  <2> QED BY <2>1, <2>2, <2>3, <2>4, <2>5
<1> QED BY <1>1, <1>2, <1>3

(* The cells of a record and of its threads are where their offsets say.   *)
LEMMA ThreadsPlaced ==
    ASSUME Located, NEW i \in DOMAIN arc
    PROVE  /\ ThreadCells(i) \in Seq(Seq(Cell)) /\ Len(ThreadCells(i)) = Count(i)
           /\ \A k \in 1 .. Count(i) : Len(ThreadCells(i)[k]) = LenOf(i, k)
           /\ Placed(ThreadCells(i), ThreadEnds(i))
           /\ RecordCells(i) \in Seq(Cell)
           /\ Len(RecordCells(i)) = 1 + ThreadEnds(i)[Count(i)]
           /\ RecordCells(i)[1] = [rec |-> i, thr |-> 0]
           /\ \A p \in 1 .. ThreadEnds(i)[Count(i)] :
                 RecordCells(i)[1 + p] = FlattenSeq(ThreadCells(i))[p]
<1> DEFINE s == ThreadCells(i)
<1>1. /\ Count(i) \in Nat /\ i \in Nat /\ DOMAIN arc[i].threads = 1 .. Count(i)
      /\ \A k \in 1 .. Count(i) : LenOf(i, k) \in Nat /\ k \in Nat
  BY ArcTypes
<1>2. /\ DOMAIN s = 1 .. Count(i)
      /\ \A k \in 1 .. Count(i) : s[k] = [j \in 1 .. LenOf(i, k) |-> [rec |-> i, thr |-> k]]
  BY <1>1 DEF ThreadCells
<1>3. \A k \in 1 .. Count(i) : s[k] \in Seq(Cell) /\ Len(s[k]) = LenOf(i, k)
  <2> HIDE DEF s
  <2> TAKE k \in 1 .. Count(i)
  <2>1. LenOf(i, k) \in Nat /\ [rec |-> i, thr |-> k] \in Cell
    BY <1>1 DEF Cell
  <2>2. s[k] \in [1 .. LenOf(i, k) -> Cell]
    BY <1>2, <2>1
  <2> QED BY <2>1, <2>2, <1>2
<1>4. s \in [1 .. Count(i) -> Seq(Cell)]
  BY <1>1, <1>3 DEF ThreadCells
<1>5. s \in Seq(Seq(Cell)) /\ Len(s) = Count(i)
  <2> HIDE DEF s
  <2> QED BY <1>1, <1>4
<1>6. Placed(s, ThreadEnds(i)) /\ FlattenSeq(s) \in Seq(Cell)
  <2>1. FlattenSeq(s) \in Seq(Cell) /\ \E off : Placed(s, off)
    <3> HIDE DEF s
    <3> QED BY <1>5, FlattenPlaces
  <2> QED BY <2>1 DEF ThreadEnds
<1> DEFINE h == <<[rec |-> i, thr |-> 0]>>
           e == ThreadEnds(i)[Count(i)]
<1>7. h \in Seq(Cell) /\ Len(h) = 1 /\ h[1] = [rec |-> i, thr |-> 0]
  BY <1>1 DEF Cell
<1>8. Len(FlattenSeq(s)) = e /\ e \in Nat
  <2> HIDE DEF s
  <2> QED BY <1>1, <1>5, <1>6 DEF Placed, Offsets
<1>9. RecordCells(i) = h \o FlattenSeq(s)
  BY DEF RecordCells
<1>10. /\ RecordCells(i) \in Seq(Cell) /\ Len(RecordCells(i)) = 1 + e
       /\ \A p \in 1 .. 1 + e : RecordCells(i)[p] = IF p <= 1 THEN h[p] ELSE FlattenSeq(s)[p - 1]
  <2> DEFINE f == FlattenSeq(s)
  <2> HIDE DEF s, h, e, f
  <2>1. /\ h \o f \in Seq(Cell) /\ Len(h \o f) = Len(h) + Len(f)
        /\ \A p \in 1 .. Len(h) + Len(f) :
              (h \o f)[p] = IF p <= Len(h) THEN h[p] ELSE f[p - Len(h)]
    BY <1>6, <1>7, ConcatProperties DEF f
  <2>2. Len(h) = 1 /\ Len(f) = e /\ RecordCells(i) = h \o f
    BY <1>7, <1>8, <1>9 DEF f
  <2>3. \A p \in 1 .. 1 + e : RecordCells(i)[p] = IF p <= 1 THEN h[p] ELSE f[p - 1]
    BY <2>1, <2>2, Zenon
  <2> QED BY <2>1, <2>2, <2>3 DEF f
<1>11. \A p \in 1 .. e : RecordCells(i)[1 + p] = FlattenSeq(s)[p]
  <2> HIDE DEF s, h, e
  <2> TAKE p \in 1 .. e
  <2>1. 1 + p \in 1 .. 1 + e /\ ~(1 + p <= 1) /\ (1 + p) - 1 = p
    BY <1>8
  <2> QED BY <1>10, <2>1
<1>12. RecordCells(i)[1] = [rec |-> i, thr |-> 0]
  <2> HIDE DEF s, h, e
  <2>1. 1 \in 1 .. 1 + e  BY <1>8
  <2> QED BY <1>7, <1>10, <2>1
<1> QED BY <1>3, <1>5, <1>6, <1>10, <1>11, <1>12

(* So are the records in the file.                                         *)
LEMMA RowsPlaced ==
    ASSUME Located
    PROVE  /\ Rows \in Seq(Seq(Cell)) /\ Len(Rows) = Len(arc)
           /\ \A i \in DOMAIN arc : Rows[i] = RecordCells(i)
           /\ Placed(Rows, Ends)
           /\ disk = FlattenSeq(Rows) /\ disk \in Seq(Cell)
           /\ EOF = Ends[Len(arc)] /\ EOF \in Nat
<1>1. Len(arc) \in Nat /\ DOMAIN arc = 1 .. Len(arc)
  BY ArcTypes
<1>2. Rows \in [1 .. Len(arc) -> Seq(Cell)]
  BY <1>1, ThreadsPlaced DEF Rows
<1>3. Rows \in Seq(Seq(Cell)) /\ Len(Rows) = Len(arc)
  BY <1>1, <1>2
<1>4. Placed(Rows, Ends) /\ FlattenSeq(Rows) \in Seq(Cell)
  BY <1>3, FlattenPlaces DEF Ends
<1>5. disk = FlattenSeq(Rows)
  BY DEF Located, Cells, Rows, RecordCells, ThreadCells, LenOf
<1>6. EOF = Ends[Len(arc)] /\ EOF \in Nat
  BY <1>1, <1>3, <1>4, <1>5 DEF EOF, Placed, Offsets
<1> QED BY <1>3, <1>4, <1>5, <1>6 DEF Rows

(* The places of the threads of a record: in order, one after the other,   *)
(* behind the header and before the next record.                           *)
LEMMA AtFacts ==
    ASSUME Located, NEW i \in DOMAIN arc
    PROVE  /\ Ends[i-1] \in Nat /\ Ends[i] \in Nat
           /\ At(i, 0) = Ends[i-1]
           /\ At(i, 1) = At(i, 0) + 1
           /\ \A k \in 1 .. Count(i) : At(i, k + 1) = At(i, k) + LenOf(i, k)
           /\ \A k \in Nat : k > Count(i) => At(i, k) = Ends[i]
           /\ \A k, m \in Nat : k <= m => At(i, k) <= At(i, m)
           /\ \A k \in Nat : At(i, k) \in Nat /\ Ends[i-1] <= At(i, k) /\ At(i, k) <= Ends[i]
<1> DEFINE c == Count(i)
           t == ThreadEnds(i)
           b == Ends[i-1]
<1>1. /\ c \in Nat /\ i \in Nat /\ i \in 1 .. Len(arc) /\ Len(arc) \in Nat
      /\ \A k \in 1 .. c : LenOf(i, k) \in Nat
  BY ArcTypes
<1>2. /\ t \in [0 .. c -> Nat] /\ t[0] = 0
      /\ \A k \in 1 .. c : t[k] = t[k-1] + LenOf(i, k)
  <2>1. Offsets(ThreadCells(i), t) /\ Len(ThreadCells(i)) = c
        /\ \A k \in 1 .. c : Len(ThreadCells(i)[k]) = LenOf(i, k)
    BY ThreadsPlaced DEF Placed
  <2> QED BY <2>1 DEF Offsets
<1>3. \A k, m \in 0 .. c : k <= m => t[k] <= t[m]
  BY ThreadsPlaced, OffsetsGrow DEF Placed
<1>4. b \in Nat /\ Ends[i] \in Nat /\ Ends[i] = b + 1 + t[c]
  <2>1. /\ Offsets(Rows, Ends) /\ Len(Rows) = Len(arc) /\ Rows[i] = RecordCells(i)
        /\ Len(RecordCells(i)) = 1 + t[c]
    BY RowsPlaced, ThreadsPlaced DEF Placed
  <2>2. Ends \in [0 .. Len(arc) -> Nat] /\ Ends[i] = b + (1 + t[c])
    BY <1>1, <2>1 DEF Offsets
  <2>3. b \in Nat /\ Ends[i] \in Nat /\ t[c] \in Nat
    BY <1>1, <1>2, <2>2
  <2> HIDE DEF b, t, c
  <2> QED BY <2>2, <2>3
<1>5. \A k \in Nat : At(i, k) = b + (IF k = 0 THEN 0 ELSE 1 + t[IF k <= c THEN k - 1 ELSE c])
  BY DEF At
<1> HIDE DEF b, t, c
<1>6. \A k \in 0 .. c : t[k] \in Nat /\ t[k] <= t[c]
  BY <1>1, <1>2, <1>3
<1>7. At(i, 0) = b
  BY <1>4, <1>5
<1>8. At(i, 1) = b + 1
  <2>1. (IF 1 <= c THEN 1 - 1 ELSE c) = 0
    BY <1>1
  <2> QED BY <1>2, <1>4, <1>5, <2>1
<1>9. \A k \in 1 .. c : At(i, k) = b + 1 + t[k-1]
  <2> TAKE k \in 1 .. c
  <2>1. k \in Nat /\ k # 0 /\ k <= c /\ k - 1 \in 0 .. c
    BY <1>1
  <2> QED BY <1>4, <1>5, <1>6, <2>1
<1>10. \A k \in Nat : k > c => At(i, k) = Ends[i]
  <2> TAKE k \in Nat
  <2>1. ASSUME k > c PROVE At(i, k) = Ends[i]
    <3>1. ~(k <= c) /\ k # 0
      BY <1>1, <2>1
    <3> QED BY <1>1, <1>4, <1>5, <1>6, <3>1
  <2> QED BY <2>1
<1>11. ASSUME NEW k \in 1 .. c
       PROVE  At(i, k + 1) = At(i, k) + LenOf(i, k)
  <2>1. /\ At(i, k) = b + 1 + t[k-1] /\ t[k] = t[k-1] + LenOf(i, k)
        /\ t[k] \in Nat /\ t[k-1] \in Nat /\ LenOf(i, k) \in Nat
    BY <1>1, <1>2, <1>6, <1>9
  <2>2. At(i, k + 1) = b + 1 + t[k]
    <3>1. CASE k = c
      <4>1. k + 1 \in Nat /\ k + 1 > c  BY <1>1, <3>1
      <4> QED BY <1>4, <1>10, <3>1, <4>1
    <3>2. CASE k # c
      <4>1. k + 1 \in 1 .. c /\ (k + 1) - 1 = k  BY <1>1, <3>2
      <4> QED BY <1>9, <4>1
    <3> QED BY <3>1, <3>2
  <2> QED BY <1>4, <2>1, <2>2
<1>12. ASSUME NEW k \in Nat
       PROVE  At(i, k) \in Nat /\ b <= At(i, k) /\ At(i, k) <= Ends[i]
  <2>1. CASE k = 0
    BY <1>1, <1>4, <1>6, <1>7, <2>1
  <2>2. CASE k \in 1 .. c
    <3>1. At(i, k) = b + 1 + t[k-1] /\ t[k-1] \in Nat /\ t[k-1] <= t[c] /\ t[c] \in Nat
      BY <1>1, <1>6, <1>9, <2>2
    <3> QED BY <1>4, <3>1
  <2>3. CASE k > c
    BY <1>1, <1>4, <1>6, <1>10, <2>3
  <2> QED BY <1>1, <2>1, <2>2, <2>3
<1>13. ASSUME NEW k \in Nat, NEW m \in Nat, k <= m
       PROVE  At(i, k) <= At(i, m)
  <2>1. CASE k = 0
    BY <1>4, <1>7, <1>12, <2>1
  <2>2. CASE m > c
    BY <1>4, <1>10, <1>12, <2>2
  <2>3. CASE k # 0 /\ ~(m > c)
    <3>1. k \in 1 .. c /\ m \in 1 .. c /\ k - 1 \in 0 .. c /\ m - 1 \in 0 .. c /\ k - 1 <= m - 1
      BY <1>1, <1>13, <2>3
    <3>2. t[k-1] <= t[m-1] /\ t[k-1] \in Nat /\ t[m-1] \in Nat
      BY <1>3, <1>6, <3>1
    <3>3. At(i, k) = b + 1 + t[k-1] /\ At(i, m) = b + 1 + t[m-1]
      BY <1>9, <3>1
    <3> QED BY <1>4, <3>2, <3>3
  <2> QED BY <2>1, <2>2, <2>3
<1>14. At(i, 1) = At(i, 0) + 1
  BY <1>7, <1>8
<1> QED BY <1>4, <1>7, <1>10, <1>11, <1>12, <1>13, <1>14 DEF b, c

(* What is at those places.                                                *)
LEMMA CellsThere ==
    ASSUME Located, NEW i \in DOMAIN arc
    PROVE  /\ disk[At(i, 0) + 1] = [rec |-> i, thr |-> 0]
           /\ \A k \in 1 .. Count(i) : \A j \in 1 .. LenOf(i, k) :
                 disk[At(i, k) + j] = [rec |-> i, thr |-> k]
<1> DEFINE s == ThreadCells(i)
           t == ThreadEnds(i)
           b == Ends[i-1]
<1>1. /\ i \in 1 .. Len(arc) /\ Count(i) \in Nat /\ b \in Nat
      /\ \A k \in 1 .. Count(i) : k \in Nat /\ LenOf(i, k) \in Nat
  <2>1. b \in Nat
    BY AtFacts
  <2> HIDE DEF b
  <2> QED BY <2>1, ArcTypes
<1>2. \A q \in 1 .. Len(RecordCells(i)) : disk[b + q] = RecordCells(i)[q]
  <2>1. /\ Len(Rows) = Len(arc) /\ Rows[i] = RecordCells(i) /\ disk = FlattenSeq(Rows)
        /\ \A k \in 1 .. Len(Rows) : \A j \in 1 .. Len(Rows[k]) :
              FlattenSeq(Rows)[Ends[k-1] + j] = Rows[k][j]
    BY RowsPlaced DEF Placed
  <2> QED BY <1>1, <2>1, Zenon
<1>3. /\ Len(RecordCells(i)) = 1 + t[Count(i)] /\ RecordCells(i)[1] = [rec |-> i, thr |-> 0]
      /\ \A p \in 1 .. t[Count(i)] : RecordCells(i)[1 + p] = FlattenSeq(s)[p]
      /\ Placed(s, t) /\ Len(s) = Count(i)
      /\ \A k \in 1 .. Count(i) : Len(s[k]) = LenOf(i, k)
  BY ThreadsPlaced
<1>4. \A k \in 0 .. Count(i) : t[k] \in Nat /\ t[k] <= t[Count(i)]
  <2>1. s \in Seq(Seq(Cell))  BY ThreadsPlaced
  <2>2. \A k \in 0 .. Count(i) : t[k] <= t[Count(i)]
    <3> HIDE DEF s, t
    <3> QED BY <1>1, <1>3, <2>1, OffsetsGrow DEF Placed
  <2> QED BY <1>3, <2>2 DEF Placed, Offsets
<1>5. disk[At(i, 0) + 1] = [rec |-> i, thr |-> 0]
  <2>1. 1 \in 1 .. Len(RecordCells(i)) /\ At(i, 0) = b
    <3>1. At(i, 0) = b
      BY AtFacts
    <3>2. t[Count(i)] \in Nat
      BY <1>1, <1>4
    <3> HIDE DEF t, b
    <3> QED BY <1>3, <3>1, <3>2
  <2> QED BY <1>2, <1>3, <2>1
<1>6. ASSUME NEW k \in 1 .. Count(i), NEW j \in 1 .. LenOf(i, k)
      PROVE  disk[At(i, k) + j] = [rec |-> i, thr |-> k]
  <2>1. At(i, k) = b + (1 + t[k-1])
    BY <1>1 DEF At
  <2>2. s[k] = [n \in 1 .. LenOf(i, k) |-> [rec |-> i, thr |-> k]]
    BY ArcTypes DEF ThreadCells
  <2> HIDE DEF s, t, b
  <2>3. FlattenSeq(s)[t[k-1] + j] = [rec |-> i, thr |-> k]
    BY <1>3, <2>2 DEF Placed
  <2>4. /\ t[k-1] \in Nat /\ t[k] \in Nat /\ t[k] <= t[Count(i)] /\ t[Count(i)] \in Nat
        /\ t[k] = t[k-1] + LenOf(i, k) /\ LenOf(i, k) \in Nat /\ j \in 1 .. LenOf(i, k)
    <3>1. k - 1 \in 0 .. Count(i) /\ k \in 0 .. Count(i) /\ Count(i) \in 0 .. Count(i)
      BY <1>1
    <3>2. t[k] = t[k-1] + LenOf(i, k)
      BY <1>3 DEF Placed, Offsets
    <3> QED BY <1>1, <1>4, <3>1, <3>2
  <2>5. t[k-1] + j \in 1 .. t[Count(i)]
    BY <2>4
  <2>6. RecordCells(i)[1 + (t[k-1] + j)] = [rec |-> i, thr |-> k]
    BY <1>3, <2>3, <2>5
  <2>7. 1 + (t[k-1] + j) \in 1 .. Len(RecordCells(i))
    <3> DEFINE c == t[Count(i)]   q == t[k-1] + j
    <3>1. c \in Nat /\ q \in 1 .. c /\ Len(RecordCells(i)) = 1 + c
      BY <1>3, <2>4, <2>5
    <3> HIDE DEF c, q
    <3>2. 1 + q \in 1 .. 1 + c
      BY <3>1
    <3> QED BY <3>1, <3>2 DEF q
  <2>8. disk[b + (1 + (t[k-1] + j))] = [rec |-> i, thr |-> k]
    BY <1>2, <2>6, <2>7
  <2>9. b + (1 + t[k-1]) + j = b + (1 + (t[k-1] + j))
    BY <1>1, <2>4
  <2> QED BY <2>1, <2>8, <2>9
<1> QED BY <1>5, <1>6

(* Every position belongs to the header or a thread of some record.        *)
LEMMA EveryCell ==
    ASSUME Located, NEW p \in 1 .. EOF
    PROVE  \E i \in DOMAIN arc : \E k \in 0 .. Count(i) :
              /\ At(i, k) < p /\ p <= At(i, k + 1)
              /\ disk[p] = [rec |-> i, thr |-> k]
<1>1. /\ Rows \in Seq(Seq(Cell)) /\ Len(Rows) = Len(arc) /\ Offsets(Rows, Ends)
      /\ EOF = Ends[Len(arc)] /\ EOF \in Nat
  BY RowsPlaced DEF Placed
<1>2. PICK i \in 1 .. Len(arc) : Ends[i-1] < p /\ p <= Ends[i]
  BY <1>1, OffsetsCover
<1>3. i \in DOMAIN arc /\ i \in Nat /\ Count(i) \in Nat
  BY ArcTypes
<1> DEFINE c == Count(i)
           s == ThreadCells(i)
           t == ThreadEnds(i)
           b == Ends[i-1]
<1>4. /\ b \in Nat /\ At(i, 0) = b /\ At(i, 1) = b + 1
      /\ \A k \in 1 .. c : At(i, k + 1) = At(i, k) + LenOf(i, k)
      /\ \A k \in Nat : k > c => At(i, k) = Ends[i]
  BY <1>3, AtFacts
<1>5. CASE p = b + 1
  <2>1. disk[p] = [rec |-> i, thr |-> 0]
    BY <1>3, <1>4, <1>5, CellsThere
  <2>2. 0 \in 0 .. Count(i) /\ At(i, 0) < p /\ p <= At(i, 0 + 1)
    BY <1>3, <1>4, <1>5
  <2> QED BY <1>3, <2>1, <2>2
<1>6. CASE p # b + 1
  <2>1. s \in Seq(Seq(Cell)) /\ Len(s) = c /\ Offsets(s, t)
    BY <1>3, ThreadsPlaced DEF Placed
  <2>2. /\ \A k \in 0 .. c : t[k] \in Nat
        /\ \A k \in 1 .. c : t[k] = t[k-1] + Len(s[k]) /\ Len(s[k]) = LenOf(i, k)
                             /\ LenOf(i, k) \in Nat
    <3>1. \A k \in 1 .. c : Len(s[k]) = LenOf(i, k) /\ LenOf(i, k) \in Nat
      BY <1>3, ThreadsPlaced, ArcTypes
    <3> HIDE DEF s, t
    <3> QED BY <2>1, <3>1 DEF Offsets
  <2>3. \A k \in 1 .. c : At(i, k) = b + 1 + t[k-1]
    <3> TAKE k \in 1 .. c
    <3>1. At(i, k) = b + (1 + t[k-1])
      BY <1>3 DEF At
    <3>2. k - 1 \in 0 .. c
      BY <1>3
    <3>3. t[k-1] \in Nat /\ b \in Nat
      BY <1>4, <2>2, <3>2
    <3> HIDE DEF b, t, c
    <3> QED BY <3>1, <3>3
  <2>4. Ends[i] = b + 1 + t[c]
    <3>1. CASE c = 0
      <4>1. At(i, 1) = Ends[i]  BY <1>3, <1>4, <3>1
      <4>2. t[0] = 0  BY <2>1 DEF Offsets
      <4> HIDE DEF b, t, c
      <4> QED BY <1>4, <3>1, <4>1, <4>2
    <3>2. CASE c # 0
      <4>1. c \in 1 .. c /\ c + 1 \in Nat /\ c + 1 > c /\ c - 1 \in 0 .. c
        BY <1>3, <3>2
      <4>2. Ends[i] = At(i, c) + LenOf(i, c) /\ t[c] = t[c-1] + LenOf(i, c)
        <5> HIDE DEF b, t, c, s
        <5> QED BY <1>4, <2>2, <4>1
      <4>3. t[c-1] \in Nat /\ LenOf(i, c) \in Nat
        <5> HIDE DEF b, t, c, s
        <5> QED BY <2>2, <4>1
      <4> HIDE DEF b, t, c
      <4> QED BY <1>4, <2>3, <4>1, <4>2, <4>3
    <3> QED BY <3>1, <3>2
  <2> DEFINE q == p - (b + 1)
  <2>5. q \in 1 .. t[c] /\ p = b + 1 + q /\ q \in Nat
    <3>1. c \in 0 .. c /\ p \in Nat
      BY <1>3, <1>1
    <3>2. t[c] \in Nat
      BY <2>2, <3>1
    <3> DEFINE d == t[c]
    <3>3. /\ p > b + 1 + 0 /\ p <= b + 1 + d /\ b \in Nat /\ d \in Nat /\ p \in Nat
      BY <1>2, <1>4, <1>6, <2>4, <3>1, <3>2
    <3> HIDE DEF b, t, c, d
    <3>4. q \in 1 .. d /\ p = b + 1 + q /\ q \in Nat
      BY <3>3
    <3> QED BY <3>4 DEF d
  <2>6. PICK k \in 1 .. c : t[k-1] < q /\ q <= t[k]
    <3>1. q \in 1 .. t[Len(s)]
      BY <2>1, <2>5
    <3>2. \E k \in 1 .. Len(s) : t[k-1] < q /\ q <= t[k]
      <4> HIDE DEF s, t, q
      <4> QED BY <2>1, <3>1, OffsetsCover
    <3> QED BY <2>1, <3>2
  <2> DEFINE j == q - t[k-1]
  <2>7. /\ t[k-1] \in Nat /\ t[k] = t[k-1] + LenOf(i, k) /\ LenOf(i, k) \in Nat
        /\ At(i, k) = b + 1 + t[k-1] /\ At(i, k + 1) = At(i, k) + LenOf(i, k)
    <3>1. k - 1 \in 0 .. c
      BY <1>3
    <3> HIDE DEF b, t, c, s
    <3> QED BY <1>4, <2>2, <2>3, <3>1
  <2>8. j \in 1 .. LenOf(i, k) /\ p = At(i, k) + j /\ At(i, k) < p /\ p <= At(i, k + 1)
    <3> DEFINE x == t[k-1]   y == t[k]   l == LenOf(i, k)   a == At(i, k)
    <3>1. /\ x \in Nat /\ y = x + l /\ l \in Nat /\ a = b + 1 + x /\ b \in Nat
          /\ q \in Nat /\ x < q /\ q <= y /\ p = b + 1 + q /\ At(i, k + 1) = a + l
      BY <1>4, <2>5, <2>6, <2>7
    <3> HIDE DEF b, t, c, q, x, y, l, a
    <3>2. q - x \in 1 .. l /\ p = a + (q - x) /\ a < p /\ p <= At(i, k + 1)
      BY <3>1
    <3> QED BY <3>2 DEF x, l, a
  <2>9. disk[p] = [rec |-> i, thr |-> k]
    <3> HIDE DEF j
    <3> QED BY <1>3, <2>8, CellsThere
  <2>10. k \in 0 .. Count(i)
    BY <1>3
  <2> QED BY <1>3, <2>8, <2>9, <2>10
<1> QED BY <1>5, <1>6

(* Start counts up to the places.                                          *)
LEMMA StartIs ==
    ASSUME Located
    PROVE  /\ \A i \in DOMAIN arc : \A k \in Nat : Start(i, k) = At(i, k)
           /\ Start(Len(arc) + 1, 0) = EOF
           /\ \A i \in DOMAIN arc : i + 1 \in DOMAIN arc => At(i + 1, 0) = Ends[i]
           /\ \A i, j \in DOMAIN arc : i < j => Ends[i] <= Ends[j-1]
           /\ \A i \in DOMAIN arc : Ends[i] <= EOF
<1>1. /\ Len(arc) \in Nat /\ DOMAIN arc = 1 .. Len(arc) /\ EOF \in Nat
      /\ Ends[Len(arc)] = EOF
  BY ArcTypes, RowsPlaced
<1>2. \A i, j \in 0 .. Len(arc) : i <= j => Ends[i] <= Ends[j]
  <2>1. Rows \in Seq(Seq(Cell)) /\ Len(Rows) = Len(arc) /\ Offsets(Rows, Ends)
    BY RowsPlaced DEF Placed
  <2> QED BY <2>1, OffsetsGrow
<1>3. \A i, j \in DOMAIN arc : i < j => Ends[i] <= Ends[j-1]
  <2> TAKE i, j \in DOMAIN arc
  <2>1. ASSUME i < j PROVE i <= j - 1 /\ j - 1 \in 0 .. Len(arc) /\ i \in 0 .. Len(arc)
    BY <1>1, <2>1
  <2> QED BY <1>2, <2>1
<1>4. \A i \in DOMAIN arc : Ends[i] <= EOF
  <2> TAKE i \in DOMAIN arc
  <2>1. i \in 0 .. Len(arc) /\ i <= Len(arc) /\ Len(arc) \in 0 .. Len(arc)
    BY <1>1
  <2> QED BY <1>1, <1>2, <2>1
<1>5. \A i \in DOMAIN arc : i + 1 \in DOMAIN arc => At(i + 1, 0) = Ends[i]
  <2> TAKE i \in DOMAIN arc
  <2>1. ASSUME i + 1 \in DOMAIN arc PROVE At(i + 1, 0) = Ends[i]
    <3>1. At(i + 1, 0) = Ends[(i + 1) - 1]
      BY <2>1, AtFacts
    <3>2. (i + 1) - 1 = i
      BY <1>1
    <3> QED BY <3>1, <3>2
  <2> QED BY <2>1
<1>6. ASSUME NEW i \in DOMAIN arc, NEW k \in Nat
      PROVE  Start(i, k) = At(i, k)
  <2> DEFINE X == {p \in 1 .. EOF : \/ disk[p].rec < i
                                    \/ disk[p].rec = i /\ disk[p].thr < k}
             a == At(i, k)
  <2>1. /\ a \in Nat /\ Ends[i-1] <= a /\ a <= Ends[i]
        /\ Ends[i] \in Nat /\ Ends[i-1] \in Nat
    BY AtFacts
  <2>2. a <= EOF
    <3> HIDE DEF a
    <3> QED BY <1>1, <1>4, <2>1
  <2>3. ASSUME NEW p \in 1 .. EOF
        PROVE  (disk[p].rec < i \/ (disk[p].rec = i /\ disk[p].thr < k)) <=> p <= a
    <3>1. PICK u \in DOMAIN arc : \E m \in 0 .. Count(u) :
              /\ At(u, m) < p /\ p <= At(u, m + 1)
              /\ disk[p] = [rec |-> u, thr |-> m]
      BY EveryCell
    <3>2. PICK m \in 0 .. Count(u) : /\ At(u, m) < p /\ p <= At(u, m + 1)
                                     /\ disk[p] = [rec |-> u, thr |-> m]
      BY <3>1
    <3>3. /\ m \in Nat /\ m + 1 \in Nat /\ p \in Nat /\ u \in Nat /\ i \in Nat
          /\ disk[p].rec = u /\ disk[p].thr = m
      BY <1>1, <3>2, ArcTypes
    <3>4. /\ At(u, m) \in Nat /\ At(u, m + 1) \in Nat /\ Ends[u] \in Nat
          /\ Ends[u-1] \in Nat /\ Ends[u-1] <= At(u, m) /\ At(u, m + 1) <= Ends[u]
      BY <3>3, AtFacts
    <3>5. CASE u < i
      <4>1. Ends[u] <= Ends[i-1]
        BY <1>3, <3>5
      <4>2. p <= a
        <5> DEFINE x == At(u, m + 1)   y == Ends[u]   z == Ends[i-1]
        <5>1. /\ x \in Nat /\ y \in Nat /\ z \in Nat /\ a \in Nat
              /\ p <= x /\ x <= y /\ y <= z /\ z <= a
          BY <2>1, <3>2, <3>4, <4>1
        <5> HIDE DEF a, x, y, z
        <5> QED BY <3>3, <5>1
      <4> QED BY <3>3, <3>5, <4>2
    <3>6. CASE u > i
      <4>1. Ends[i] <= Ends[u-1]
        BY <1>3, <3>3, <3>6
      <4>2. ~(p <= a)
        <5> HIDE DEF a
        <5> QED BY <2>1, <3>2, <3>3, <3>4, <4>1
      <4> QED BY <3>3, <3>6, <4>2
    <3>7. CASE u = i /\ m < k
      <4>1. At(u, m + 1) <= a
        BY <3>3, <3>7, AtFacts
      <4>2. p <= a
        <5> HIDE DEF a
        <5> QED BY <2>1, <3>2, <3>3, <3>4, <4>1
      <4> QED BY <3>3, <3>7, <4>2
    <3>8. CASE u = i /\ ~(m < k)
      <4>1. a <= At(u, m)
        BY <3>3, <3>8, AtFacts
      <4>2. ~(p <= a)
        <5> HIDE DEF a
        <5> QED BY <2>1, <3>2, <3>3, <3>4, <4>1
      <4> QED BY <3>3, <3>8, <4>2
    <3> QED BY <3>3, <3>5, <3>6, <3>7, <3>8
  <2>4. X = 1 .. a
    <3>1. \A p \in X : p \in 1 .. a
      <4>1. \A p \in X : p \in 1 .. EOF /\ p <= a
        BY <2>3
      <4> HIDE DEF a, X
      <4> QED BY <1>1, <2>1, <4>1
    <3>2. \A p \in 1 .. a : p \in X
      <4>1. \A p \in 1 .. a : p \in 1 .. EOF /\ p <= a
        <5> HIDE DEF a
        <5> QED BY <1>1, <2>1, <2>2
      <4> QED BY <2>3, <4>1
    <3> HIDE DEF X
    <3> QED BY <3>1, <3>2
  <2>5. Cardinality(1 .. a) = a
    <3>1. 1 <= a => Cardinality(1 .. a) = a - 1 + 1
      <4> HIDE DEF a
      <4> QED BY <2>1, FS_Interval
    <3>2. a = 0 => Cardinality(1 .. a) = 0
      <4>1. a = 0 => 1 .. a = {}
        OBVIOUS
      <4> QED BY <4>1, FS_EmptySet
    <3> HIDE DEF a
    <3> QED BY <2>1, <3>1, <3>2
  <2>6. Start(i, k) = Cardinality(X)
    BY DEF Start
  <2> HIDE DEF X, a
  <2> QED BY <2>4, <2>5, <2>6 DEF a
<1>7. Start(Len(arc) + 1, 0) = EOF
  <2> DEFINE X == {p \in 1 .. EOF : \/ disk[p].rec < Len(arc) + 1
                                    \/ disk[p].rec = Len(arc) + 1 /\ disk[p].thr < 0}
  <2>1. ASSUME NEW p \in 1 .. EOF PROVE disk[p].rec < Len(arc) + 1
    <3>1. \E i \in DOMAIN arc : disk[p].rec = i
      <4>1. PICK i \in DOMAIN arc : \E k \in 0 .. Count(i) :
                /\ At(i, k) < p /\ p <= At(i, k + 1)
                /\ disk[p] = [rec |-> i, thr |-> k]
        BY EveryCell
      <4> QED BY <4>1
    <3> QED BY <1>1, <3>1
  <2>2. X = 1 .. EOF
    BY <2>1
  <2>3. Cardinality(1 .. EOF) = EOF
    <3> DEFINE e == EOF
    <3>0. e \in Nat  BY <1>1
    <3>1. 1 <= e => Cardinality(1 .. e) = e - 1 + 1
      <4> HIDE DEF e
      <4> QED BY <3>0, FS_Interval
    <3>2. e = 0 => Cardinality(1 .. e) = 0
      <4>1. e = 0 => 1 .. e = {}
        OBVIOUS
      <4> QED BY <4>1, FS_EmptySet
    <3> HIDE DEF e
    <3>3. Cardinality(1 .. e) = e
      BY <3>0, <3>1, <3>2
    <3> QED BY <3>3 DEF e
  <2>4. Start(Len(arc) + 1, 0) = Cardinality(X)
    BY DEF Start
  <2> HIDE DEF X
  <2> QED BY <2>2, <2>3, <2>4
<1> QED BY <1>3, <1>4, <1>5, <1>6, <1>7

(* What the proofs below need of the layout: records follow one another,   *)
(* each a header and its threads, and a header is nowhere else.            *)
LEMMA Layout ==
    ASSUME Located
    PROVE  /\ EOF \in Nat /\ Start(1, 0) = 0 /\ Start(Len(arc) + 1, 0) = EOF
           /\ \A i \in DOMAIN arc : \A k \in Nat :
                 /\ Start(i, k) \in 0 .. EOF /\ Start(i, 0) <= Start(i, k)
                 /\ Start(i, k) <= Start(i + 1, 0)
                 /\ k > Count(i) => Start(i, k) = Start(i + 1, 0)
           /\ \A i \in DOMAIN arc :
                 /\ Start(i + 1, 0) \in 0 .. EOF
                 /\ Start(i, 1) = Start(i, 0) + 1
                 /\ disk[Start(i, 0) + 1] = [rec |-> i, thr |-> 0]
           /\ \A i \in DOMAIN arc : \A k \in 1 .. Count(i) :
                 /\ Start(i, k + 1) = Start(i, k) + LenOf(i, k)
                 /\ \A j \in 1 .. LenOf(i, k) :
                       disk[Start(i, k) + j] = [rec |-> i, thr |-> k]
           /\ \A p \in 1 .. EOF :
                 /\ disk[p].rec \in DOMAIN arc
                 /\ disk[p].thr = 0 => p = Start(disk[p].rec, 0) + 1
<1>1. /\ Len(arc) \in Nat /\ DOMAIN arc = 1 .. Len(arc) /\ EOF \in Nat
      /\ Ends[Len(arc)] = EOF /\ Start(Len(arc) + 1, 0) = EOF
      /\ \A i \in DOMAIN arc : \A k \in Nat : Start(i, k) = At(i, k)
      /\ \A i \in DOMAIN arc : Ends[i] <= EOF
      /\ \A i \in DOMAIN arc : i \in Nat /\ Count(i) \in Nat
  BY ArcTypes, RowsPlaced, StartIs
<1>2. Ends[0] = 0
  BY RowsPlaced DEF Placed, Offsets
<1>3. ASSUME NEW i \in DOMAIN arc
      PROVE  Start(i + 1, 0) = Ends[i]
  <2>1. CASE i = Len(arc)
    BY <1>1, <2>1
  <2>2. CASE i # Len(arc)
    <3>1. i + 1 \in DOMAIN arc
      BY <1>1, <2>2
    <3> QED BY <1>1, <3>1, StartIs
  <2> QED BY <2>1, <2>2
<1>4. Start(1, 0) = 0
  <2>1. CASE Len(arc) = 0
    BY <1>1, <1>2, <2>1
  <2>2. CASE Len(arc) # 0
    <3>1. 1 \in DOMAIN arc /\ 1 - 1 = 0
      BY <1>1, <2>2
    <3>2. Start(1, 0) = At(1, 0) /\ At(1, 0) = Ends[1-1]
      BY <1>1, <3>1, AtFacts
    <3> QED BY <1>2, <3>1, <3>2
  <2> QED BY <2>1, <2>2
<1>5. ASSUME NEW i \in DOMAIN arc, NEW k \in Nat
      PROVE  /\ Start(i, k) \in 0 .. EOF /\ Start(i, 0) <= Start(i, k)
             /\ Start(i, k) <= Start(i + 1, 0)
             /\ k > Count(i) => Start(i, k) = Start(i + 1, 0)
  <2>1. /\ Start(i, k) = At(i, k) /\ Start(i, 0) = At(i, 0) /\ Start(i + 1, 0) = Ends[i]
        /\ At(i, k) \in Nat /\ At(i, k) <= Ends[i] /\ Ends[i] \in Nat /\ Ends[i] <= EOF
        /\ At(i, 0) <= At(i, k) /\ (k > Count(i) => At(i, k) = Ends[i])
    <3>1. 0 \in Nat /\ 0 <= k  OBVIOUS
    <3> QED BY <1>1, <1>3, <3>1, AtFacts
  <2>2. At(i, k) \in 0 .. EOF
    BY <1>1, <2>1
  <2> QED BY <2>1, <2>2
<1>6. ASSUME NEW i \in DOMAIN arc
      PROVE  /\ Start(i + 1, 0) \in 0 .. EOF
             /\ Start(i, 1) = Start(i, 0) + 1
             /\ disk[Start(i, 0) + 1] = [rec |-> i, thr |-> 0]
  <2>1. Ends[i] \in Nat /\ At(i, 1) = At(i, 0) + 1 /\ Ends[i] <= EOF
    BY <1>1, AtFacts
  <2>2. Start(i + 1, 0) \in 0 .. EOF
    BY <1>1, <1>3, <2>1
  <2>3. Start(i, 1) = At(i, 1) /\ Start(i, 0) = At(i, 0)
    BY <1>1
  <2>4. disk[At(i, 0) + 1] = [rec |-> i, thr |-> 0]
    BY CellsThere
  <2> QED BY <2>1, <2>2, <2>3, <2>4
<1>7. ASSUME NEW i \in DOMAIN arc, NEW k \in 1 .. Count(i)
      PROVE  /\ Start(i, k + 1) = Start(i, k) + LenOf(i, k)
             /\ \A j \in 1 .. LenOf(i, k) :
                   disk[Start(i, k) + j] = [rec |-> i, thr |-> k]
  <2>1. k \in Nat /\ k + 1 \in Nat
    BY <1>1
  <2>2. Start(i, k) = At(i, k) /\ Start(i, k + 1) = At(i, k + 1)
    BY <1>1, <2>1
  <2>3. At(i, k + 1) = At(i, k) + LenOf(i, k)
    BY AtFacts
  <2>4. \A j \in 1 .. LenOf(i, k) : disk[At(i, k) + j] = [rec |-> i, thr |-> k]
    BY CellsThere
  <2> QED BY <2>2, <2>3, <2>4
<1>8. ASSUME NEW p \in 1 .. EOF
      PROVE  /\ disk[p].rec \in DOMAIN arc
             /\ disk[p].thr = 0 => p = Start(disk[p].rec, 0) + 1
  <2>1. PICK i \in DOMAIN arc : \E k \in 0 .. Count(i) :
              /\ At(i, k) < p /\ p <= At(i, k + 1)
              /\ disk[p] = [rec |-> i, thr |-> k]
    BY EveryCell
  <2>2. PICK k \in 0 .. Count(i) : /\ At(i, k) < p /\ p <= At(i, k + 1)
                                   /\ disk[p] = [rec |-> i, thr |-> k]
    BY <2>1
  <2>3. CASE k = 0
    <3>1. At(i, 0) < p /\ p <= At(i, 1) /\ At(i, 1) = At(i, 0) + 1 /\ At(i, 0) \in Nat
      BY <2>2, <2>3, AtFacts
    <3>2. p = At(i, 0) + 1 /\ At(i, 0) = Start(i, 0)
      BY <1>1, <3>1
    <3> QED BY <2>2, <3>2
  <2>4. CASE k # 0
    BY <2>2, <2>4
  <2> QED BY <2>3, <2>4
<1> QED BY <1>1, <1>4, <1>5, <1>6, <1>7, <1>8

-----------------------------------------------------------------------------
(* The invariant *)

(* The library has a thread in hand, or is at a record's threads.          *)
Asking == {"select", "path", "opening", "check", "exists", "open", "expand", "final"}
AtThreads == Asking \cup {"threads"}

Pcs == {"idle", "next", "show", "find", "threads"} \cup Asking
Op == [name : {"none"} \cup BulkCalls \cup SingleCalls, rec : Nat, thr : Nat, from : Nat]
InHand == [id : Kinds \cup {"none"}, len : Nat, bad : {"no", "crc", "data"},
           thr : Nat, at : Nat, own : BOOLEAN]
Handed == (Nat \X (Kinds \cup {"none", "record", "garbage"})) \X {"given", "skipped"}

Types ==
    /\ Located
    /\ files \in [Paths -> FileStates]
    /\ toc \in Seq(DOMAIN arc) /\ haveToc \in BOOLEAN /\ busy \in BOOLEAN
    /\ pos \in 0 .. EOF /\ cur \in 0 .. EOF
    /\ op \in Op /\ op.rec <= Len(arc) + 1 /\ op.from <= Len(arc) + 1
    /\ pc \in Pcs
    /\ left \in 0 .. Len(arc) /\ rec \in 0 .. Len(arc) /\ mark \in 0 .. EOF
    /\ idx \in Nat /\ needs \subseteq {"data", "rsrc"}
    /\ IF rec = 0 THEN idx = 0 ELSE idx <= Len(Threads(rec))
    /\ th \in InHand
    /\ dest \in Paths \cup {"sink"} /\ granted \in BOOLEAN
    /\ done \in Seq(Handed)
    /\ calls \in 0 .. MaxCalls

(* Who has the turn, and what a call that has it may be doing              *)
Turns ==
    /\ busy <=> pc # "idle"
    /\ ~busy => /\ left = 0 /\ rec = 0 /\ mark = 0 /\ idx = 0 /\ needs = {}
                /\ th = NoThread /\ dest = "sink" /\ granted = FALSE
    /\ busy => /\ op.name # "none" /\ op.from >= 1
               /\ ~opt.stream => op.from = 1
               /\ ~Bulk => ~opt.stream /\ (pc = "next" <=> ~haveToc)
    /\ pc = "show" => op.name = "contents" /\ rec # 0
    /\ pc = "find" => ~Bulk
    /\ pc = "threads" => op.name # "extractThread"
    /\ pc \in AtThreads =>
          /\ op.name \notin {"contents", "getRecord"} /\ rec # 0
          /\ ~Bulk => rec = op.rec
    /\ op.name = "extractThread" =>
          op.rec \in DOMAIN arc /\ op.thr \in DOMAIN Threads(op.rec)
    /\ ~Bulk /\ pc \in {"next", "find"} => idx = 0

(* The table of contents: what the walk has read so far, all or nothing    *)
TocSoFar ==
    IF haveToc THEN ~opt.stream /\ toc = [i \in DOMAIN arc |-> i]
    ELSE toc = IF busy /\ ~opt.stream THEN [i \in 1 .. Len(arc) - left |-> i] ELSE <<>>

(* A stream may go out of step if a thread is skipped after part of it was *)
(* read.                                                                   *)
InStep == opt.stream => ~StreamSkipLate

(* The record read last                                                    *)
ReadLast == op.from - 1 + Len(arc) - left

WalkInOrder ==
    busy /\ InStep =>
       /\ Bulk \/ pc = "next" =>
             rec = IF left = Len(arc) THEN 0 ELSE ReadLast
       /\ Bulk /\ pc # "next" => left < Len(arc)

(* Where the archive file is: in a stream,                                 *)
StreamPlace ==
    opt.stream /\ busy /\ InStep =>
       /\ pc = "next" /\ rec = 0 /\ HeaderHere => disk[pos + 1].rec = op.from
       /\ pc \in {"next", "show"} /\ rec # 0 => pos = Start(rec + 1, 0)
       /\ pc \in {"threads", "final"} => pos = Start(rec, idx + 1)
       /\ pc \in Asking \ {"final"} => /\ pos + th.len = Start(rec, idx + 1)
                                       /\ th.thr # 0 => pos = Start(rec, idx)
(* while the records of a file are read,                                   *)
FilePlace ==
    ~opt.stream /\ ~haveToc /\ busy =>
       IF rec = 0 THEN pos = 0 /\ cur = 0
       ELSE /\ cur = mark /\ mark = Start(rec + 1, 0)
            /\ pc \in {"next", "show"} => pos = mark

(* and currentOffset is not ahead of the next header of a stream.          *)
OffsetBehind ==
    opt.stream => \A q \in pos + 1 .. EOF : disk[q].thr = 0 => cur < q

(* The thread in hand is one of the record's, or one made up.              *)
ThreadInHand ==
    pc \in Asking =>
       /\ InStep => th.own
       /\ IF th.thr = 0 THEN th.len = 0
          ELSE /\ th.thr \in DOMAIN Threads(rec)
               /\ th.id = Threads(rec)[th.thr].id
               /\ th.len = Threads(rec)[th.thr].len
               /\ th.at = Start(rec, th.thr)
       /\ IF op.name = "extractThread" THEN th.thr = op.thr /\ th.thr # 0
          ELSE th.thr \in {0, idx}

(* The forks record i should have that are not among its first n threads   *)
Wanting(i, n) ==
    {f \in {"data", "rsrc"} : /\ f = "rsrc" => arc[i].ext
                              /\ \A k \in 1 .. n : f \notin Supplies(Threads(i)[k].id)}

(* Forks are made up in order once all threads have been seen.             *)
StillMissing ==
    pc \in AtThreads /\ op.name # "extractThread" =>
       /\ needs \subseteq Wanting(rec, idx)
       /\ idx < Len(Threads(rec)) \/ "data" \in needs => needs = Wanting(rec, idx)

(* Leave to overwrite: how far it has been obtained                        *)
Leave ==
    /\ pc \in {"path", "check", "exists", "open"} => ~Testing
    /\ pc \in Asking /\ Testing => dest = "sink" \/ pc = "select"
    /\ pc \in {"check", "exists", "open"} => dest # "sink"
    /\ pc \in {"exists", "open"} =>
          /\ Parent[dest] # NoDir => files[Parent[dest]] \in {"none", "dir"}
          /\ Exists /\ opt.older => granted \/ files[dest] = "older"
    /\ pc = "open" /\ Exists => granted \/ opt.handle \in {"always", "must"}

Reading == /\ Types /\ Turns /\ TocSoFar /\ WalkInOrder /\ StreamPlace /\ FilePlace
           /\ OffsetBehind /\ ThreadInHand /\ StillMissing /\ Leave

-----------------------------------------------------------------------------
(* The threads of a record *)

(* Forks in order: the data fork before the resource fork.                 *)
LEMMA InOrderIs ==
    ASSUME NEW S
    PROVE  /\ "data" \in S /\ "rsrc" \in S => InOrder(S) = <<"data", "rsrc">>
           /\ "data" \in S /\ "rsrc" \notin S => InOrder(S) = <<"data">>
           /\ "data" \notin S /\ "rsrc" \in S => InOrder(S) = <<"rsrc">>
           /\ "data" \notin S /\ "rsrc" \notin S => InOrder(S) = <<>>
<1>1. <<"data">> \o <<"rsrc">> = <<"data", "rsrc">>
  <2> DEFINE F == {"data", "rsrc"}
             a == <<"data">>
             b == <<"rsrc">>
             c == <<"data", "rsrc">>
  <2>1. /\ a \in Seq(F) /\ Len(a) = 1 /\ a[1] = "data"
        /\ b \in Seq(F) /\ Len(b) = 1 /\ b[1] = "rsrc"
        /\ c \in Seq(F) /\ Len(c) = 2 /\ c[1] = "data" /\ c[2] = "rsrc"
    OBVIOUS
  <2> HIDE DEF a, b, c, F
  <2>2. /\ a \o b \in Seq(F) /\ Len(a \o b) = 1 + 1
        /\ \A i \in 1 .. 1 + 1 : (a \o b)[i] = IF i <= 1 THEN a[i] ELSE b[i - 1]
    <3>1. a \o b \in Seq(F)
      BY <2>1, ConcatProperties
    <3>2. Len(a \o b) = Len(a) + Len(b)
      BY <2>1, ConcatProperties
    <3>3. \A i \in 1 .. Len(a) + Len(b) :
             (a \o b)[i] = IF i <= Len(a) THEN a[i] ELSE b[i - Len(a)]
      BY <2>1, ConcatProperties
    <3> QED BY <2>1, <3>1, <3>2, <3>3
  <2>3. Len(a \o b) = 2 /\ (a \o b)[1] = "data" /\ (a \o b)[2] = "rsrc"
    BY <2>1, <2>2
  <2>4. a \o b = c
    <3>1. \A i \in 1 .. Len(a \o b) : (a \o b)[i] = c[i]
      BY <2>1, <2>3
    <3> QED BY <2>1, <2>2, <2>3, <3>1, SeqEqual
  <2> QED BY <2>4 DEF a, b, c
<1>2. <<"data">> \o <<>> = <<"data">> /\ <<>> \o <<"rsrc">> = <<"rsrc">>
  OBVIOUS
<1>3. <<>> \o <<>> = <<>>
  OBVIOUS
<1> QED BY <1>1, <1>2, <1>3, Zenon DEF InOrder

(* They are the members of S among the two, each once.                     *)
LEMMA InOrderFacts ==
    ASSUME NEW S
    PROVE  /\ InOrder(S) \in Seq({"data", "rsrc"}) /\ Len(InOrder(S)) \in 0 .. 2
           /\ \A f \in {"data", "rsrc"} \cap S : \E n \in 1 .. Len(InOrder(S)) : InOrder(S)[n] = f
           /\ \A n \in 1 .. Len(InOrder(S)) : InOrder(S)[n] \in S
<1>1. CASE "data" \in S /\ "rsrc" \in S
  <2>1. InOrder(S) = <<"data", "rsrc">>  BY <1>1, InOrderIs
  <2>2. /\ Len(<<"data", "rsrc">>) = 2 /\ <<"data", "rsrc">>[1] = "data"
        /\ <<"data", "rsrc">>[2] = "rsrc" /\ 1 \in 1 .. 2 /\ 2 \in 1 .. 2
        /\ <<"data", "rsrc">> \in Seq({"data", "rsrc"})
    OBVIOUS
  <2> QED BY <1>1, <2>1, <2>2
<1>2. CASE "data" \in S /\ "rsrc" \notin S
  <2>1. InOrder(S) = <<"data">>  BY <1>2, InOrderIs
  <2>2. /\ Len(<<"data">>) = 1 /\ <<"data">>[1] = "data" /\ 1 \in 1 .. 1
        /\ <<"data">> \in Seq({"data", "rsrc"})
    OBVIOUS
  <2> QED BY <1>2, <2>1, <2>2
<1>3. CASE "data" \notin S /\ "rsrc" \in S
  <2>1. InOrder(S) = <<"rsrc">>  BY <1>3, InOrderIs
  <2>2. /\ Len(<<"rsrc">>) = 1 /\ <<"rsrc">>[1] = "rsrc" /\ 1 \in 1 .. 1
        /\ <<"rsrc">> \in Seq({"data", "rsrc"})
    OBVIOUS
  <2> QED BY <1>3, <2>1, <2>2
<1>4. CASE "data" \notin S /\ "rsrc" \notin S
  <2>1. InOrder(S) = <<>>  BY <1>4, InOrderIs
  <2> QED BY <1>4, <2>1
<1> QED BY <1>1, <1>2, <1>3, <1>4

(* The threads MaskDataless makes up for record i                          *)
Made(i) == IF opt.mask /\ arc[i].threads # <<>> THEN InOrder(MissingForks(i)) ELSE <<>>

(* Threads(i) is what is on disk and then what is made up, of no length.   *)
LEMMA ThreadsFacts ==
    ASSUME Located, NEW i \in DOMAIN arc
    PROVE  /\ Threads(i) \in Seq(Thread) /\ Len(Threads(i)) \in Nat
           /\ DOMAIN Threads(i) = 1 .. Len(Threads(i))
           /\ Len(Made(i)) \in Nat /\ Len(Threads(i)) = Count(i) + Len(Made(i))
           /\ \A k \in 1 .. Count(i) : Threads(i)[k] = arc[i].threads[k]
           /\ \A n \in 1 .. Len(Made(i)) :
                 Threads(i)[Count(i) + n] = [id |-> Made(i)[n], len |-> 0, bad |-> "no"]
<1> DEFINE m == Made(i)
           t == arc[i].threads
           u == [n \in DOMAIN m |-> [id |-> m[n], len |-> 0, bad |-> "no"]]
<1>1. m \in Seq({"data", "rsrc"}) /\ Len(m) \in Nat /\ DOMAIN m = 1 .. Len(m)
  <2>1. <<>> \in Seq({"data", "rsrc"}) /\ InOrder(MissingForks(i)) \in Seq({"data", "rsrc"})
    BY InOrderFacts
  <2>2. m \in Seq({"data", "rsrc"})
    BY <2>1 DEF Made
  <2> HIDE DEF m
  <2> QED BY <2>2, LenProperties
<1>2. \A n \in 1 .. Len(m) : m[n] \in {"data", "rsrc"}
  <2> HIDE DEF m
  <2> QED BY <1>1, ElementOfSeq
<1>3. u \in [1 .. Len(m) -> Thread]
  <2> HIDE DEF m
  <2> QED BY <1>1, <1>2 DEF Thread, Kinds, Forks
<1>4. u \in Seq(Thread) /\ Len(u) = Len(m)
  <2> HIDE DEF m, u
  <2> QED BY <1>1, <1>3
<1>5. t \in Seq(Thread) /\ Len(t) = Count(i) /\ Count(i) \in Nat
  BY ArcTypes DEF Count
<1>6. Threads(i) = t \o u
  BY DEF Threads, Made
<1>7. /\ Threads(i) \in Seq(Thread) /\ Len(Threads(i)) = Count(i) + Len(m)
      /\ \A k \in 1 .. Count(i) + Len(m) :
            Threads(i)[k] = IF k <= Count(i) THEN t[k] ELSE u[k - Count(i)]
  <2> HIDE DEF t, u, m
  <2>1. /\ t \o u \in Seq(Thread) /\ Len(t \o u) = Len(t) + Len(u)
        /\ \A k \in 1 .. Len(t) + Len(u) :
              (t \o u)[k] = IF k <= Len(t) THEN t[k] ELSE u[k - Len(t)]
    BY <1>4, <1>5, ConcatProperties
  <2> QED BY <1>4, <1>5, <1>6, <2>1
<1>8. \A k \in 1 .. Count(i) : Threads(i)[k] = t[k]
  <2> HIDE DEF t, u, m
  <2> TAKE k \in 1 .. Count(i)
  <2>1. k \in 1 .. Count(i) + Len(m) /\ k <= Count(i)
    BY <1>1, <1>5
  <2> QED BY <1>7, <2>1
<1>9. \A n \in 1 .. Len(m) : Threads(i)[Count(i) + n] = u[n]
  <2> HIDE DEF t, u, m
  <2> TAKE n \in 1 .. Len(m)
  <2>1. /\ Count(i) + n \in 1 .. Count(i) + Len(m) /\ ~(Count(i) + n <= Count(i))
        /\ (Count(i) + n) - Count(i) = n
    BY <1>1, <1>5
  <2> QED BY <1>7, <2>1
<1>10. \A n \in 1 .. Len(m) : u[n] = [id |-> m[n], len |-> 0, bad |-> "no"]
  <2> HIDE DEF m
  <2> QED BY <1>1
<1>11. Len(Threads(i)) \in Nat /\ DOMAIN Threads(i) = 1 .. Len(Threads(i))
  BY <1>7, LenProperties
<1> HIDE DEF u
<1> QED BY <1>1, <1>7, <1>8, <1>9, <1>10, <1>11

(* Where the threads of a record begin and end, those made up included     *)
LEMMA ThreadLayout ==
    ASSUME Located, NEW i \in DOMAIN arc
    PROVE  /\ \A k \in 1 .. Len(Threads(i)) :
                 /\ Threads(i)[k].len \in Nat
                 /\ Start(i, k + 1) = Start(i, k) + Threads(i)[k].len
                 /\ Threads(i)[k].len > 0 => k \in 1 .. Count(i)
           /\ Start(i, Len(Threads(i)) + 1) = Start(i + 1, 0)
           /\ i \in Nat /\ Count(i) \in Nat /\ Len(Threads(i)) \in Nat
           /\ Count(i) <= Len(Threads(i))
<1>1. /\ Len(Threads(i)) \in Nat /\ Len(Made(i)) \in Nat
      /\ Len(Threads(i)) = Count(i) + Len(Made(i))
      /\ \A k \in 1 .. Count(i) : Threads(i)[k] = arc[i].threads[k]
      /\ \A n \in 1 .. Len(Made(i)) :
            Threads(i)[Count(i) + n] = [id |-> Made(i)[n], len |-> 0, bad |-> "no"]
  BY ThreadsFacts
<1>2. /\ i \in Nat /\ Count(i) \in Nat
      /\ \A k \in 1 .. Count(i) : LenOf(i, k) \in Nat
  BY ArcTypes
<1>3. /\ \A k \in Nat : k > Count(i) => Start(i, k) = Start(i + 1, 0)
      /\ \A k \in 1 .. Count(i) : Start(i, k + 1) = Start(i, k) + LenOf(i, k)
      /\ \A k \in Nat : Start(i, k) \in Nat
  <2>1. \A k \in Nat : Start(i, k) \in 0 .. EOF
    BY Layout
  <2>2. \A k \in Nat : Start(i, k) \in Nat
    BY <2>1
  <2> QED BY <2>2, Layout
<1>4. ASSUME NEW k \in 1 .. Len(Threads(i))
      PROVE  /\ Threads(i)[k].len \in Nat
             /\ Start(i, k + 1) = Start(i, k) + Threads(i)[k].len
             /\ Threads(i)[k].len > 0 => k \in 1 .. Count(i)
  <2>1. CASE k \in 1 .. Count(i)
    BY <1>1, <1>2, <1>3, <2>1 DEF LenOf
  <2>2. CASE k \notin 1 .. Count(i)
    <3> DEFINE n == k - Count(i)
    <3>1. n \in 1 .. Len(Made(i)) /\ k = Count(i) + n /\ k \in Nat /\ k + 1 \in Nat
          /\ k > Count(i) /\ k + 1 > Count(i)
      BY <1>1, <1>2, <2>2
    <3> HIDE DEF n
    <3>2. Threads(i)[k].len = 0
      <4>1. Threads(i)[k] = [id |-> Made(i)[n], len |-> 0, bad |-> "no"]
        BY <1>1, <3>1
      <4> QED BY <4>1
    <3>3. Start(i, k + 1) = Start(i + 1, 0) /\ Start(i, k) = Start(i + 1, 0) /\ Start(i, k) \in Nat
      BY <1>3, <3>1
    <3> QED BY <3>2, <3>3
  <2> QED BY <2>1, <2>2
<1>5. Start(i, Len(Threads(i)) + 1) = Start(i + 1, 0)
  <2>1. Len(Threads(i)) + 1 \in Nat /\ Len(Threads(i)) + 1 > Count(i)
    BY <1>1, <1>2
  <2> QED BY <1>3, <2>1
<1> QED BY <1>1, <1>2, <1>4, <1>5

(* Records begin one after the other.                                      *)
LEMMA StartsGrow ==
    ASSUME Located, NEW i \in Nat, NEW j \in Nat, i <= j
    PROVE  Start(i, 0) <= Start(j, 0)
<1> DEFINE X == {p \in 1 .. EOF :
                    disk[p].rec < i \/ (disk[p].rec = i /\ disk[p].thr < 0)}
           Y == {p \in 1 .. EOF :
                    disk[p].rec < j \/ (disk[p].rec = j /\ disk[p].thr < 0)}
<1>1. \A p \in 1 .. EOF : disk[p].rec \in Nat /\ disk[p].thr \in Nat
  <2> TAKE p \in 1 .. EOF
  <2>1. PICK u \in DOMAIN arc : \E k \in 0 .. Count(u) : disk[p] = [rec |-> u, thr |-> k]
    BY EveryCell
  <2>2. PICK k \in 0 .. Count(u) : disk[p] = [rec |-> u, thr |-> k]
    BY <2>1
  <2>3. u \in Nat /\ k \in Nat
    BY ArcTypes
  <2> QED BY <2>2, <2>3
<1>2. X \subseteq Y
  BY <1>1
<1>3. IsFiniteSet(1 .. EOF) /\ Y \subseteq 1 .. EOF
  <2>1. EOF \in Nat  BY ArcTypes, Layout
  <2> QED BY <2>1, FS_Interval
<1>4. IsFiniteSet(Y)
  BY <1>3, FS_Subset
<1>5. Cardinality(X) <= Cardinality(Y)
  BY <1>2, <1>4, FS_Subset
<1>6. Start(i, 0) = Cardinality(X) /\ Start(j, 0) = Cardinality(Y)
  <2>1. Start(i, 0) = Cardinality(X)
    BY DEF Start
  <2>2. Start(j, 0) = Cardinality(Y)
    BY DEF Start
  <2> QED BY <2>1, <2>2
<1> HIDE DEF X, Y
<1> QED BY <1>5, <1>6

(* The filename thread is the first of its kind; in a stream nothing that  *)
(* comes before it has to do with a fork.                                  *)
LEMMA FilenameFacts ==
    ASSUME Located, NEW i \in DOMAIN arc
    PROVE  /\ FilenameIdx(i) \in 0 .. Count(i)
           /\ FilenameIdx(i) = 0 <=> ~HasKind(i, {"filename"})
           /\ opt.stream => \A k \in 1 .. FilenameIdx(i) :
                               Threads(i)[k].id \in {"filename", "comment"}
<1>1. /\ Count(i) \in Nat /\ DOMAIN arc[i].threads = 1 .. Count(i)
      /\ \A k \in 1 .. Count(i) : Threads(i)[k] = arc[i].threads[k]
  BY ArcTypes, ThreadsFacts
<1>2. CASE ~HasKind(i, {"filename"})
  BY <1>1, <1>2 DEF FilenameIdx
<1>3. CASE HasKind(i, {"filename"})
  <2> DEFINE S == {k \in 1 .. Count(i) : Kind(i, k) = "filename"}
  <2>1. S # {} /\ S \subseteq Nat
    BY <1>1, <1>3 DEF HasKind
  <2>2. PICK m \in S : \A k \in S : m <= k
    BY <2>1, LeastNat
  <2>3. /\ m \in DOMAIN arc[i].threads /\ Kind(i, m) = "filename"
        /\ \A j \in 1 .. m - 1 : Kind(i, j) # "filename"
    BY <1>1, <2>2
  <2>4. /\ FilenameIdx(i) \in DOMAIN arc[i].threads
        /\ Kind(i, FilenameIdx(i)) = "filename"
    BY <1>3, <2>3 DEF FilenameIdx
  <2>5. ASSUME opt.stream, NEW k \in 1 .. FilenameIdx(i)
        PROVE  Threads(i)[k].id \in {"filename", "comment"}
    <3> DEFINE n == FilenameIdx(i)
    <3>1. n \in 1 .. Count(i) /\ k \in 1 .. Count(i) /\ (k = n \/ k \in 1 .. n - 1)
      BY <1>1, <2>4, <2>5
    <3>2. \A j \in 1 .. n - 1 : arc[i].threads[j].id \in {"filename", "comment"}
      BY <2>4, <2>5, NiceArchives DEF Located, Kind
    <3>3. arc[i].threads[n].id = "filename"
      BY <2>4 DEF Kind
    <3>4. Threads(i)[k] = arc[i].threads[k]
      BY <1>1, <3>1
    <3> HIDE DEF n
    <3> QED BY <3>1, <3>2, <3>3, <3>4
  <2> HIDE DEF S
  <2> QED BY <1>1, <1>3, <2>4, <2>5
<1> QED BY <1>2, <1>3

(* Wanting, one thread after the other                                     *)
LEMMA WantingSteps ==
    ASSUME Located, NEW i \in DOMAIN arc
    PROVE  /\ Wanting(i, 0) = {"data"} \cup (IF arc[i].ext THEN {"rsrc"} ELSE {})
           /\ \A n \in 0 .. Len(Threads(i)) - 1 :
                 Wanting(i, n + 1) = Wanting(i, n) \ Supplies(Threads(i)[n + 1].id)
           /\ opt.stream => Wanting(i, FilenameIdx(i)) = Wanting(i, 0)
<1>1. Wanting(i, 0) = {"data"} \cup (IF arc[i].ext THEN {"rsrc"} ELSE {})
  BY DEF Wanting
<1>2. ASSUME NEW n \in 0 .. Len(Threads(i)) - 1
      PROVE  Wanting(i, n + 1) = Wanting(i, n) \ Supplies(Threads(i)[n + 1].id)
  <2>1. n + 1 \in 1 .. n + 1 /\ (\A k \in 1 .. n + 1 : k = n + 1 \/ k \in 1 .. n)
        /\ 1 .. n \subseteq 1 .. n + 1
    BY ThreadLayout
  <2> QED BY <2>1 DEF Wanting
<1>3. ASSUME opt.stream
      PROVE  Wanting(i, FilenameIdx(i)) = Wanting(i, 0)
  <2>1. \A k \in 1 .. FilenameIdx(i) : Supplies(Threads(i)[k].id) = {}
    <3> TAKE k \in 1 .. FilenameIdx(i)
    <3>1. Threads(i)[k].id \in {"filename", "comment"}
      BY <1>3, FilenameFacts
    <3>2. Supplies("filename") = {} /\ Supplies("comment") = {}
      BY DEF Supplies
    <3> QED BY <3>1, <3>2
  <2>2. \A f : (\A k \in 1 .. 0 : f \notin Supplies(Threads(i)[k].id)) /\
               (\A k \in 1 .. FilenameIdx(i) : f \notin Supplies(Threads(i)[k].id))
    BY <2>1
  <2> QED BY <2>2, Zenon DEF Wanting
<1> QED BY <1>1, <1>2, <1>3

(* With MaskDataless no fork is wanting once all threads have been seen.   *)
LEMMA AllSeen ==
    ASSUME Located, NEW i \in DOMAIN arc, opt.mask
    PROVE  Wanting(i, Len(Threads(i))) = {}
<1>1. /\ Len(Threads(i)) \in Nat /\ Len(Made(i)) \in Nat /\ Count(i) \in Nat
      /\ Len(Threads(i)) = Count(i) + Len(Made(i))
      /\ \A k \in 1 .. Count(i) : Threads(i)[k] = arc[i].threads[k]
      /\ \A n \in 1 .. Len(Made(i)) :
            Threads(i)[Count(i) + n] = [id |-> Made(i)[n], len |-> 0, bad |-> "no"]
  BY ThreadsFacts, ArcTypes
<1>2. Made(i) = InOrder(MissingForks(i))
  BY NiceArchives DEF Located, Made
<1>3. DOMAIN arc[i].threads = 1 .. Count(i)
  BY ArcTypes
<1>4. SUFFICES ASSUME NEW f \in {"data", "rsrc"}, f = "rsrc" => arc[i].ext
               PROVE  \E k \in 1 .. Len(Threads(i)) : f \in Supplies(Threads(i)[k].id)
  BY DEF Wanting
<1>5. f \in Supplies(f) /\ f \in Supplies("disk")
  BY DEF Supplies
<1>6. CASE f \in MissingForks(i)
  <2>1. PICK n \in 1 .. Len(InOrder(MissingForks(i))) : InOrder(MissingForks(i))[n] = f
    BY <1>6, InOrderFacts
  <2>2. n \in 1 .. Len(Made(i)) /\ Made(i)[n] = f
    BY <1>2, <2>1
  <2>3. Threads(i)[Count(i) + n].id = f
    <3>1. Threads(i)[Count(i) + n] = [id |-> Made(i)[n], len |-> 0, bad |-> "no"]
      BY <1>1, <2>2
    <3> QED BY <2>2, <3>1
  <2>4. Count(i) + n \in 1 .. Len(Threads(i))
    BY <1>1, <2>2
  <2> QED BY <1>5, <2>3, <2>4
<1>7. CASE f \notin MissingForks(i)
  <2>1. HasKind(i, {f, "disk"})
    BY <1>4, <1>7 DEF MissingForks
  <2>2. PICK k \in 1 .. Count(i) : arc[i].threads[k].id \in {f, "disk"}
    BY <1>3, <2>1 DEF HasKind, Kind
  <2>3. Threads(i)[k].id \in {f, "disk"}
    BY <1>1, <2>2
  <2>4. k \in 1 .. Len(Threads(i))
    BY <1>1
  <2> QED BY <1>5, <2>3, <2>4
<1> QED BY <1>6, <1>7

(* What a step that leaves the archive and the settings alone leaves alone *)
LEMMA Fixed ==
    ASSUME UNCHANGED env
    PROVE  /\ arc' = arc /\ disk' = disk /\ opt' = opt
           /\ Located' = Located /\ EOF' = EOF /\ InStep' = InStep
           /\ \A i, k : (Start(i, k))' = Start(i, k)
           /\ \A i : (Threads(i))' = Threads(i)
           /\ \A i, n : (Wanting(i, n))' = Wanting(i, n)
<1>1. /\ arc' = arc /\ disk' = disk /\ opt' = opt
  BY DEF env
<1>2. EOF' = EOF
  BY <1>1 DEF EOF
<1>3. \A i, k : (Start(i, k))' = Start(i, k)
  BY <1>1, <1>2 DEF Start
<1>4. Located' = Located /\ InStep' = InStep
  BY <1>1 DEF Located, InStep
<1>5. \A i : (Threads(i))' = Threads(i)
  BY <1>1 DEF Threads, MissingForks, HasKind, Kind
<1>6. \A i, n : (Wanting(i, n))' = Wanting(i, n)
  BY <1>1, <1>5 DEF Wanting
<1> QED BY <1>1, <1>2, <1>3, <1>4, <1>5, <1>6

(* The invariant holds to begin with.                                      *)
LEMMA InitReading ==
    ASSUME Init
    PROVE  Reading
<1>1. /\ Located /\ EOF \in Nat /\ Len(arc) \in Nat
  <2>1. Located  BY DEF Init, Located
  <2> QED BY <2>1, Layout, ArcTypes
<1>2. Types
  <2>1. NoThread \in InHand /\ NoOp \in Op /\ NoOp.rec = 0 /\ NoOp.from = 0
    BY DEF NoThread, InHand, NoOp, Op
  <2>2. files \in [Paths -> FileStates] /\ 0 \in 0 .. MaxCalls
    BY ExtractAssumption DEF Init
  <2>3. toc \in Seq(DOMAIN arc) /\ done \in Seq(Handed)
    BY DEF Init
  <2>4. /\ 0 \in 0 .. EOF /\ 0 \in 0 .. Len(arc) /\ 0 <= Len(arc) + 1
    BY <1>1
  <2>5. /\ haveToc = FALSE /\ pos = 0 /\ cur = 0 /\ busy = FALSE /\ op = NoOp /\ pc = "idle"
        /\ left = 0 /\ rec = 0 /\ mark = 0 /\ idx = 0 /\ needs = {}
        /\ th = NoThread /\ dest = "sink" /\ granted = FALSE /\ calls = 0
    BY DEF Init
  <2>6. /\ haveToc \in BOOLEAN /\ busy \in BOOLEAN /\ pc \in Pcs /\ granted \in BOOLEAN
        /\ dest \in Paths \cup {"sink"}
    BY <2>5 DEF Pcs
  <2>7. idx \in Nat /\ needs \subseteq {"data", "rsrc"} /\ rec = 0 /\ idx = 0
    BY <2>5
  <2> QED BY <1>1, <2>1, <2>2, <2>3, <2>4, <2>5, <2>6, <2>7, Zenon DEF Types
<1>3. Turns
  BY DEF Init, Turns, NoOp, Bulk, BulkCalls, AtThreads, Asking
<1>4. TocSoFar
  BY DEF Init, TocSoFar
<1>5. WalkInOrder /\ StreamPlace /\ FilePlace
  BY DEF Init, WalkInOrder, StreamPlace, FilePlace
<1>6. OffsetBehind
  BY <1>1 DEF Init, OffsetBehind
<1>7. ThreadInHand /\ StillMissing /\ Leave
  BY DEF Init, ThreadInHand, StillMissing, Leave, AtThreads, Asking
<1> QED BY <1>2, <1>3, <1>4, <1>5, <1>6, <1>7 DEF Reading

(* currentOffset stays behind if the file only goes forward.               *)
LEMMA StillBehind ==
    ASSUME Reading, UNCHANGED <<env, cur>>, pos' \in 0 .. EOF, opt.stream => pos <= pos'
    PROVE  OffsetBehind'
<1>1. pos \in Nat /\ pos' \in Nat /\ EOF \in Nat /\ EOF' = EOF /\ disk' = disk /\ opt' = opt
  BY Fixed, Layout DEF Reading, Types
<1>2. \A e \in Nat : \A a, b \in Nat : a <= b => (b + 1 .. e) \subseteq (a + 1 .. e)
  OBVIOUS
<1>3. opt.stream => (pos' + 1 .. EOF) \subseteq (pos + 1 .. EOF)
  BY <1>1, <1>2
<1>4. cur' = cur
  OBVIOUS
<1> QED BY <1>1, <1>3, <1>4, Zenon DEF Reading, OffsetBehind

(* A call that comes back, with the table of contents whole or gone        *)
LEMMA BackKeeps ==
    ASSUME Reading, NEW r, Return(r), UNCHANGED <<env, cur, op, calls>>,
           haveToc' \in BOOLEAN, pos' \in 0 .. EOF, opt.stream => pos <= pos',
           files' \in [Paths -> FileStates], done' \in Seq(Handed),
           haveToc' => ~opt.stream /\ toc' = [i \in DOMAIN arc |-> i],
           ~haveToc' => toc' = <<>>
    PROVE  Reading'
<1>0. UNCHANGED env
  OBVIOUS
<1>1. /\ Located /\ Located' /\ EOF' = EOF /\ EOF \in Nat /\ Len(arc) \in Nat
      /\ DOMAIN arc = 1 .. Len(arc)
      /\ arc' = arc /\ disk' = disk /\ opt' = opt /\ InStep' = InStep
      /\ pos \in 0 .. EOF /\ cur \in 0 .. EOF
  <2>1. Located /\ pos \in 0 .. EOF /\ cur \in 0 .. EOF
    BY DEF Reading, Types
  <2> QED BY <1>0, <2>1, Fixed, Layout, ArcTypes
<1>2. toc' \in Seq(DOMAIN arc)
  <2>1. CASE haveToc'
    BY <1>1, <2>1
  <2>2. CASE ~haveToc'
    BY <2>2
  <2> QED BY <2>1, <2>2
<1>3. Types'
  <2>1. NoThread \in InHand /\ "idle" \in Pcs
    BY DEF NoThread, InHand, Pcs
  <2>2. op' = op /\ calls' = calls /\ cur' = cur
    OBVIOUS
  <2>3. op \in Op /\ op.rec <= Len(arc) + 1 /\ op.from <= Len(arc) + 1 /\ calls \in 0 .. MaxCalls
    BY DEF Reading, Types
  <2>4. /\ pc' = "idle" /\ busy' = FALSE
        /\ left' = 0 /\ rec' = 0 /\ mark' = 0 /\ idx' = 0 /\ needs' = {}
        /\ th' = NoThread /\ dest' = "sink" /\ granted' = FALSE
    BY DEF Return
  <2>5. /\ haveToc' \in BOOLEAN /\ busy' \in BOOLEAN /\ pc' \in Pcs /\ granted' \in BOOLEAN
        /\ dest' \in Paths \cup {"sink"} /\ th' \in InHand
        /\ idx' \in Nat /\ needs' \subseteq {"data", "rsrc"}
    BY <2>1, <2>4
  <2>6. /\ pos' \in 0 .. EOF' /\ cur' \in 0 .. EOF' /\ mark' \in 0 .. EOF'
        /\ left' \in 0 .. Len(arc') /\ rec' \in 0 .. Len(arc')
    BY <1>1, <2>2, <2>4
  <2>7. op' \in Op /\ op'.rec <= Len(arc') + 1 /\ op'.from <= Len(arc') + 1
    BY <1>1, <2>2, <2>3
  <2>8. toc' \in Seq(DOMAIN arc') /\ calls' \in 0 .. MaxCalls
    BY <1>1, <1>2, <2>2, <2>3
  <2> QED BY <1>1, <2>4, <2>5, <2>6, <2>7, <2>8, Zenon DEF Types
<1>4. Turns'
  <2>1. op' = op /\ Turns
    BY DEF Reading
  <2> QED BY <1>0, <1>1, <2>1, Fixed DEF Turns, Return, Bulk, AtThreads, Asking
<1>5. TocSoFar'
  BY <1>1 DEF TocSoFar, Return
<1>6. WalkInOrder' /\ StreamPlace' /\ FilePlace'
  BY DEF WalkInOrder, StreamPlace, FilePlace, Return
<1>7. OffsetBehind'
  BY StillBehind
<1>8. ThreadInHand' /\ StillMissing' /\ Leave'
  BY DEF Return, ThreadInHand, StillMissing, Leave, AtThreads, Asking
<1> QED BY <1>3, <1>4, <1>5, <1>6, <1>7, <1>8 DEF Reading

(* A call that fails. A walk that was not over leaves nothing behind.      *)
LEMMA StopKeeps ==
    ASSUME Reading, NEW r, Stop(r), UNCHANGED <<files, cur>>,
           pos' \in 0 .. EOF, opt.stream => pos <= pos', done' \in Seq(Handed)
    PROVE  Reading'
<1>1. /\ haveToc \in BOOLEAN /\ files \in [Paths -> FileStates]
      /\ (haveToc => ~opt.stream /\ toc = [i \in DOMAIN arc |-> i])
  BY DEF Reading, Types, TocSoFar
<1>2. /\ Return(r) /\ UNCHANGED <<env, cur, op, calls>> /\ haveToc' = haveToc
      /\ toc' = IF haveToc THEN toc ELSE <<>>
  <2>1. haveToc' = haveToc
    BY <1>1 DEF Stop, WalkFinish
  <2> QED BY <2>1 DEF Stop, WalkFinish
<1> QED BY <1>1, <1>2, BackKeeps

(* A step from one question about a thread to the next leaves everything   *)
(* but the question, the destination and the output files alone.           *)
LEMMA AskKeeps ==
    ASSUME Reading, pc \in Asking, pc' \in Asking,
           pc = "final" \/ (pc' = "final" => th.len = 0),
           UNCHANGED <<env, reads, walk, loop, api, done, th>>,
           files' \in [Paths -> FileStates], dest' \in Paths \cup {"sink"},
           granted' \in BOOLEAN, pc # "final" \/ pc' = "final", Leave'
    PROVE  Reading'
<1>0. /\ UNCHANGED env /\ toc' = toc /\ haveToc' = haveToc /\ pos' = pos /\ cur' = cur
      /\ left' = left /\ rec' = rec /\ mark' = mark /\ idx' = idx /\ needs' = needs
      /\ busy' = busy /\ op' = op /\ calls' = calls /\ done' = done /\ th' = th
  BY DEF reads, walk, loop, api
<1>1. /\ pc \notin {"idle", "next", "show", "find", "threads"}
      /\ pc' \notin {"idle", "next", "show", "find", "threads"}
      /\ pc' \in Pcs /\ pc \in AtThreads /\ pc' \in AtThreads
  BY DEF Asking, Pcs, AtThreads
<1>2. Types'
  BY <1>0, <1>1, Fixed DEF Reading, Types
<1>3. Turns'
  BY <1>0, <1>1, Fixed DEF Reading, Turns, Bulk
<1>4. TocSoFar'
  BY <1>0, Fixed DEF Reading, TocSoFar
<1>5. WalkInOrder'
  BY <1>0, <1>1, Fixed DEF Reading, WalkInOrder, ReadLast, Bulk
<1>6. StreamPlace'
  <2>1. SUFFICES ASSUME opt.stream, busy, InStep
                 PROVE  /\ pc' = "final" => pos = Start(rec, idx + 1)
                        /\ pc' # "final" => /\ pos + th.len = Start(rec, idx + 1)
                                            /\ th.thr # 0 => pos = Start(rec, idx)
    BY <1>0, <1>1, Fixed DEF StreamPlace, HeaderHere
  <2>2. /\ pc = "final" => pos = Start(rec, idx + 1)
        /\ pc # "final" => /\ pos + th.len = Start(rec, idx + 1)
                           /\ th.thr # 0 => pos = Start(rec, idx)
    BY <2>1 DEF Reading, StreamPlace
  <2>3. pos \in Nat /\ (th.len = 0 => pos + th.len = pos)
    <3>1. pos \in 0 .. EOF  BY DEF Reading, Types
    <3> QED BY <3>1
  <2> QED BY <2>2, <2>3
<1>7. FilePlace'
  BY <1>0, <1>1, Fixed DEF Reading, FilePlace
<1>8. OffsetBehind'
  BY <1>0, Fixed DEF Reading, OffsetBehind
<1>9. ThreadInHand'
  BY <1>0, <1>1, Fixed DEF Reading, ThreadInHand
<1>10. StillMissing'
  BY <1>0, <1>1, Fixed DEF Reading, StillMissing
<1> QED BY <1>2, <1>3, <1>4, <1>5, <1>6, <1>7, <1>8, <1>9, <1>10 DEF Reading

(* The thread in hand has been dealt with, and the stream is behind it.    *)
LEMMA OverKeeps ==
    ASSUME Reading, pc \in Asking, NEW fate, fate \in {"given", "skipped"},
           ThreadOver(fate, "ok"),
           UNCHANGED <<env, toc, haveToc, cur, op, calls>>,
           files' \in [Paths -> FileStates],
           pos' \in 0 .. EOF, opt.stream => pos <= pos',
           opt.stream /\ InStep => pos' = Start(rec, idx + 1)
    PROVE  Reading'
<1>0. /\ UNCHANGED env /\ toc' = toc /\ haveToc' = haveToc /\ cur' = cur
      /\ op' = op /\ calls' = calls
  OBVIOUS
<1>1. /\ pc \notin {"idle", "next", "show", "find", "threads"} /\ pc \in AtThreads
  BY DEF Asking, AtThreads
<1>2. done' \in Seq(Handed)
  <2>1. rec \in Nat /\ th.id \in Kinds \cup {"none"} /\ done \in Seq(Handed)
    BY ArcTypes DEF Reading, Types, InHand
  <2>2. <<Item, fate>> \in Handed
    BY <2>1 DEF Item, Handed
  <2>3. done' = Append(done, <<Item, fate>>)
    BY DEF ThreadOver
  <2> QED BY <2>1, <2>2, <2>3, AppendProperties
<1>3. /\ haveToc \in BOOLEAN /\ TocSoFar
  BY DEF Reading, Types
<1>4. CASE op.name = "extractThread"
  <2>1. Return("ok")
    BY <1>4 DEF ThreadOver
  <2>2. haveToc
    BY <1>1, <1>4 DEF Reading, Turns, Bulk, BulkCalls
  <2>3. haveToc' => ~opt.stream /\ toc' = [i \in DOMAIN arc |-> i]
    BY <1>0, <1>3 DEF TocSoFar
  <2> QED BY <1>0, <1>2, <1>3, <2>1, <2>2, <2>3, BackKeeps
<1>5. CASE op.name # "extractThread"
  <2>0. /\ pc' = "threads" /\ busy' = busy /\ left' = left /\ rec' = rec /\ mark' = mark
        /\ idx' = idx /\ needs' = needs /\ th' = th /\ dest' = dest /\ granted' = granted
    BY <1>5 DEF ThreadOver, walk, loop, out
  <2>1. pc' \in Pcs /\ pc' \in AtThreads /\ pc' \notin Asking
    BY <2>0 DEF Pcs, AtThreads, Asking
  <2>2. Types'
    BY <1>0, <1>2, <2>0, <2>1, Fixed DEF Reading, Types
  <2>3. Turns'
    BY <1>0, <1>1, <1>5, <2>0, <2>1, Fixed DEF Reading, Turns, Bulk
  <2>4. TocSoFar'
    BY <1>0, <2>0, Fixed DEF Reading, TocSoFar
  <2>5. WalkInOrder'
    BY <1>0, <1>1, <2>0, Fixed DEF Reading, WalkInOrder, ReadLast, Bulk
  <2>6. StreamPlace'
    BY <1>0, <2>0, <2>1, Fixed DEF StreamPlace
  <2>7. FilePlace'
    <3>1. rec # 0  BY <1>1 DEF Reading, Turns
    <3> QED BY <1>0, <1>1, <2>0, <3>1, Fixed DEF Reading, FilePlace
  <2>8. OffsetBehind'
    BY <1>0, StillBehind
  <2>9. ThreadInHand'
    BY <2>1 DEF ThreadInHand
  <2>10. StillMissing'
    BY <1>0, <1>1, <1>5, <2>0, <2>1, Fixed DEF Reading, StillMissing
  <2>11. Leave'
    BY <2>0, <2>1 DEF Leave
  <2> QED BY <2>2, <2>3, <2>4, <2>5, <2>6, <2>7, <2>8, <2>9, <2>10, <2>11 DEF Reading
<1> QED BY <1>4, <1>5

(* A thread passed over, before anything of it was read                    *)
LEMMA PassedKeeps ==
    ASSUME Reading, pc \in Asking, PassedOver, UNCHANGED files,
           pc = "final" => th.len = 0 \/ ~opt.stream \/ ~InStep
    PROVE  Reading'
<1>1. /\ pos \in 0 .. EOF /\ EOF \in Nat /\ done \in Seq(Handed) /\ th.len \in Nat
      /\ files \in [Paths -> FileStates]
  BY Layout DEF Reading, Types, InHand
<1>2. CASE SkipWouldFail(th.len)
  <2>1. Stop("FileSeek") /\ pos' = EOF /\ UNCHANGED <<files, cur, done>>
    BY <1>2 DEF PassedOver
  <2> QED BY <1>1, <2>1, StopKeeps
<1>3. CASE ~SkipWouldFail(th.len)
  <2>1. /\ SkipTo(th.len) /\ ThreadOver("skipped", "ok")
        /\ UNCHANGED <<env, files, toc, haveToc, cur, op, calls>>
    BY <1>3 DEF PassedOver
  <2>2. pos' \in 0 .. EOF /\ (opt.stream => pos <= pos' /\ pos' = pos + th.len)
    BY <1>1, <1>3, <2>1 DEF SkipTo, SkipWouldFail
  <2>3. opt.stream /\ InStep => pos + th.len = Start(rec, idx + 1)
    <3>1. busy  BY DEF Reading, Turns, Asking
    <3>2. CASE pc = "final"
      BY <1>1, <3>1, <3>2 DEF Reading, StreamPlace
    <3>3. CASE pc # "final"
      BY <3>1, <3>3 DEF Reading, StreamPlace
    <3> QED BY <3>2, <3>3
  <2> QED BY <1>1, <2>1, <2>2, <2>3, OverKeeps
<1> QED BY <1>2, <1>3

(* A failure that leaves the archive file where it was                     *)
LEMMA FailKeeps ==
    ASSUME Reading, NEW r, ThreadFails(r)
    PROVE  Reading'
<1>1. pos \in 0 .. EOF /\ done \in Seq(Handed) /\ EOF \in Nat
  BY Layout DEF Reading, Types
<1>2. Stop(r) /\ UNCHANGED <<files, cur>> /\ pos' = pos /\ done' = done
  BY DEF ThreadFails
<1> QED BY <1>1, <1>2, StopKeeps

(* A thread skipped: passed over, or, by NuExtractThread, given up         *)
LEMMA SkipKeeps ==
    ASSUME Reading, pc \in Asking, SkipThread, UNCHANGED files,
           pc = "final" => th.len = 0 \/ ~opt.stream \/ ~InStep
    PROVE  Reading'
<1>1. CASE op.name = "extractThread"
  BY <1>1, FailKeeps DEF SkipThread, ThreadFails
<1>2. CASE op.name # "extractThread"
  BY <1>2, PassedKeeps DEF SkipThread
<1> QED BY <1>1, <1>2

-----------------------------------------------------------------------------
(* One step per action: the thread in hand *)

(* On to another question, with no change to the files                     *)
LEMMA GoOnKeeps ==
    ASSUME Reading, pc \in Asking \ {"final"}, NEW to, to \in Asking, GoOn(to),
           to = "final" => th.len = 0, th' = th, dest' \in Paths \cup {"sink"},
           granted' \in BOOLEAN, Leave'
    PROVE  Reading'
<1>1. /\ pc' = to /\ UNCHANGED <<env, files, reads, walk, loop, api, done>>
  BY DEF GoOn
<1>2. files' \in [Paths -> FileStates]
  BY <1>1 DEF Reading, Types
<1> QED BY <1>1, <1>2, AskKeeps

(* What Leave says of the step                                             *)
LEMMA LeaveFixed ==
    ASSUME NEW to, GoOn(to)
    PROVE  /\ pc' = to /\ files' = files /\ op' = op /\ opt' = opt /\ Testing' = Testing
           /\ dest' = dest => Exists' = Exists
  BY DEF GoOn, api, env, Testing, Exists

(* The selection filter                                                    *)
LEMMA SelectKeeps ==
    ASSUME Reading, Select
    PROVE  Reading'
<1>1. pc = "select" /\ pc \in Asking /\ pc # "final"
  BY DEF Select, Asking
<1>2. CASE PassedOver /\ UNCHANGED files
  BY <1>1, <1>2, PassedKeeps
<1>3. CASE ThreadFails("Aborted")
  BY <1>3, FailKeeps
<1>4. ASSUME NEW to \in {"opening", "path"}, to = "path" => ~Testing, GoOn(to),
             dest' = "sink", granted' = FALSE, UNCHANGED th
      PROVE  Reading'
  <2>1. to \in Asking /\ to # "final"
    BY DEF Asking
  <2>2. Leave'
    BY <1>4, LeaveFixed DEF Leave
  <2> QED BY <1>1, <1>4, <2>1, <2>2, GoOnKeeps
<1>5. PassedOver => UNCHANGED files
  BY DEF PassedOver
<1> QED BY <1>2, <1>3, <1>4, <1>5 DEF Select

(* A thread skipped leaves the files alone.                                *)
LEMMA SkipLeavesFiles ==
    ASSUME SkipThread \/ PassedOver
    PROVE  UNCHANGED files
  BY DEF SkipThread, PassedOver

(* The output pathname                                                     *)
LEMMA ChoosePathKeeps ==
    ASSUME Reading, ChoosePath
    PROVE  Reading'
<1>1. pc = "path" /\ pc \in Asking /\ pc # "final" /\ "opening" \in Asking /\ ~Testing
  BY DEF ChoosePath, Asking, Reading, Leave
<1>2. CASE PassedOver
  BY <1>1, <1>2, PassedKeeps, SkipLeavesFiles
<1>3. CASE ThreadFails("Aborted")
  BY <1>3, FailKeeps
<1>4. ASSUME GoOn("opening"), dest' \in Paths \cup {"sink"}, granted' = FALSE, UNCHANGED th
      PROVE  Reading'
  <2>1. Leave'
    BY <1>1, <1>4, LeaveFixed DEF Leave
  <2> QED BY <1>1, <1>4, <2>1, GoOnKeeps
<1>5. Default[rec] \in Paths
  <2>1. rec \in DOMAIN arc /\ arc \in Archives
    BY <1>1, ArcTypes DEF Reading, Types, Turns, Located, AtThreads
  <2> QED BY <2>1, ExtractAssumption
<1> QED BY <1>2, <1>3, <1>4, <1>5 DEF ChoosePath

(* The progress message before the file is opened                          *)
LEMMA SendOpeningKeeps ==
    ASSUME Reading, SendOpening
    PROVE  Reading'
<1>1. pc = "opening" /\ pc \in Asking /\ pc # "final"
  BY DEF SendOpening, Asking
<1>2. CASE SkipThread
  BY <1>1, <1>2, SkipKeeps, SkipLeavesFiles
<1>3. CASE ThreadFails("Aborted")
  BY <1>3, FailKeeps
<1>4. CASE GoOn(IF dest = "sink" THEN "expand" ELSE "check") /\ UNCHANGED out
  <2>1. dest' = dest /\ granted' = granted /\ th' = th
    BY <1>4 DEF out
  <2>2. dest \in Paths \cup {"sink"} /\ granted \in BOOLEAN /\ Leave
    BY DEF Reading, Types
  <2>3. CASE dest = "sink"
    <3>1. GoOn("expand") /\ "expand" \in Asking
      BY <1>4, <2>3 DEF Asking
    <3>2. Leave'
      BY <2>1, <2>3, <3>1, LeaveFixed DEF Leave
    <3> QED BY <1>1, <2>1, <2>2, <3>1, <3>2, GoOnKeeps
  <2>4. CASE dest # "sink"
    <3>1. GoOn("check") /\ "check" \in Asking
      BY <1>4, <2>4 DEF Asking
    <3>2. ~Testing
      BY <1>1, <2>2, <2>4 DEF Leave
    <3>3. Leave'
      BY <2>1, <2>4, <3>1, <3>2, LeaveFixed DEF Leave
    <3> QED BY <1>1, <2>1, <2>2, <3>1, <3>3, GoOnKeeps
  <2> QED BY <2>3, <2>4
<1> QED BY <1>2, <1>3, <1>4 DEF SendOpening

(* The error handler                                                       *)
LEMMA AskHandlerKeeps ==
    ASSUME Reading, pc \in {"check", "exists"}, NEW err, NEW to, to \in {"exists", "open"},
           AskHandler(err, to),
           Parent[dest] # NoDir => files[Parent[dest]] \in {"none", "dir"}
    PROVE  Reading'
<1>1. /\ pc \in Asking \ {"final"} /\ to \in Asking /\ "path" \in Asking /\ to # "final"
      /\ ~Testing /\ dest # "sink"
  BY DEF Asking, Reading, Leave
<1>2. \A r : ThreadFails(r) => Reading'
  BY FailKeeps
<1>3. CASE SkipThread
  BY <1>1, <1>3, SkipKeeps, SkipLeavesFiles
<1>4. dest \in Paths \cup {"sink"} /\ granted \in BOOLEAN
  BY DEF Reading, Types
<1>5. CASE GoOn("path") /\ UNCHANGED out
  <2>1. dest' = dest /\ granted' = granted /\ th' = th
    BY <1>5 DEF out
  <2>2. Leave'
    BY <1>1, <1>5, <2>1, LeaveFixed DEF Leave
  <2> QED BY <1>1, <1>4, <1>5, <2>1, <2>2, GoOnKeeps
<1>6. CASE GoOn(to) /\ granted' = TRUE /\ UNCHANGED <<th, dest>>
  <2>1. Leave'
    BY <1>1, <1>6, LeaveFixed DEF Leave
  <2> QED BY <1>1, <1>4, <1>6, <2>1, GoOnKeeps
<1> QED BY <1>2, <1>3, <1>5, <1>6 DEF AskHandler

(* OnlyUpdateOlder                                                         *)
LEMMA CheckAgeKeeps ==
    ASSUME Reading, CheckAge
    PROVE  Reading'
<1>1. /\ pc = "check" /\ pc \in Asking \ {"final"} /\ "exists" \in Asking
      /\ ~Testing /\ dest # "sink"
  BY DEF CheckAge, Asking, Reading, Leave
<1>2. dest \in Paths /\ granted \in BOOLEAN /\ files \in [Paths -> FileStates]
  BY <1>1 DEF Reading, Types
<1>3. CASE ThreadFails("FileStat")
  BY <1>3, FailKeeps
<1>4. CASE Parent[dest] # NoDir => files[Parent[dest]] \in {"none", "dir"}
  <2>1. CASE AskHandler("NotNewer", "exists")
    BY <1>1, <1>4, <2>1, AskHandlerKeeps
  <2>2. CASE GoOn("exists") /\ UNCHANGED out /\ ~(opt.older /\ Exists /\ files[dest] # "older")
    <3>1. dest' = dest /\ granted' = granted /\ th' = th
      BY <2>2 DEF out
    <3>2. Leave'
      BY <1>1, <1>4, <2>2, <3>1, LeaveFixed DEF Leave
    <3> QED BY <1>1, <1>2, <2>2, <3>1, <3>2, GoOnKeeps
  <2> QED BY <1>3, <1>4, <2>1, <2>2 DEF CheckAge
<1> QED BY <1>3, <1>4 DEF CheckAge

(* HandleExisting                                                          *)
LEMMA CheckExistsKeeps ==
    ASSUME Reading, CheckExists
    PROVE  Reading'
<1>1. /\ pc = "exists" /\ pc \in Asking \ {"final"} /\ "open" \in Asking
      /\ ~Testing /\ dest # "sink"
      /\ Parent[dest] # NoDir => files[Parent[dest]] \in {"none", "dir"}
      /\ Exists /\ opt.older => granted \/ files[dest] = "older"
  BY DEF CheckExists, Asking, Reading, Leave
<1>2. dest \in Paths \cup {"sink"} /\ granted \in BOOLEAN
  BY DEF Reading, Types
<1>3. CASE \E err : AskHandler(err, "open")
  BY <1>1, <1>3, AskHandlerKeeps
<1>4. CASE SkipThread
  BY <1>1, <1>4, SkipKeeps, SkipLeavesFiles
<1>5. CASE GoOn("open") /\ UNCHANGED out /\ (Exists => opt.handle \notin {"maybe", "never"})
  <2>1. dest' = dest /\ granted' = granted /\ th' = th
    BY <1>5 DEF out
  <2>2. Exists => opt.handle \in {"always", "must"}
    <3>1. opt \in Setting
      BY ExtractAssumption DEF Reading, Types, Located
    <3> QED BY <1>5, <3>1 DEF Setting
  <2>3. Leave'
    BY <1>1, <1>5, <2>1, <2>2, LeaveFixed DEF Leave
  <2> QED BY <1>1, <1>2, <1>5, <2>1, <2>3, GoOnKeeps
<1> QED BY <1>3, <1>4, <1>5 DEF CheckExists

(* The output file is opened.                                              *)
LEMMA OpenFileKeeps ==
    ASSUME Reading, OpenFile
    PROVE  Reading'
<1>1. /\ pc = "open" /\ pc \in Asking \ {"final"} /\ "expand" \in Asking /\ dest # "sink"
      /\ ~Testing
  BY DEF OpenFile, Asking, Reading, Leave
<1>2. /\ dest \in Paths \cup {"sink"} /\ granted \in BOOLEAN /\ files \in [Paths -> FileStates]
  BY DEF Reading, Types
<1>3. CASE \E r : ThreadFails(r)
  BY <1>3, FailKeeps
<1>4. CASE /\ files' = [p \in Paths |-> IF p = dest THEN "part"
                                        ELSE IF p = Parent[dest] THEN "dir"
                                        ELSE files[p]]
           /\ pc' = "expand"
           /\ UNCHANGED <<env, reads, walk, loop, out, api, done, result>>
  <2>1. files' \in [Paths -> FileStates]
    <3>1. \A p \in Paths : files[p] \in FileStates
      BY <1>2
    <3> QED BY <1>4, <3>1 DEF FileStates
  <2>2. dest' = dest /\ granted' = granted /\ th' = th /\ Testing' = Testing
    BY <1>4 DEF out, api, Testing
  <2>3. Leave'
    BY <1>1, <1>4, <2>2 DEF Leave
  <2> QED BY <1>1, <1>2, <1>4, <2>1, <2>2, <2>3, AskKeeps
<1> QED BY <1>3, <1>4 DEF OpenFile

(* Leave only concerns the questions asked before the file is open.        *)
LEMMA LeaveAfter ==
    ASSUME Reading, pc \in {"expand"}, pc' \in {"final", "threads"}, op' = op, dest' = dest
    PROVE  Leave'
<1>1. pc \in Asking /\ (Testing => dest = "sink") /\ Testing' = Testing
  BY DEF Reading, Leave, Asking, Testing
<1> QED BY <1>1 DEF Leave, Asking

(* Nothing is read of an empty thread.                                     *)
LEMMA ExpandNothingKeeps ==
    ASSUME Reading, ExpandNothing
    PROVE  Reading'
<1>1. pc = "expand" /\ pc \in Asking \ {"final"} /\ "final" \in Asking /\ th.len = 0
  BY DEF ExpandNothing, Asking
<1>2. dest \in Paths \cup {"sink"} /\ granted \in BOOLEAN
  BY DEF Reading, Types
<1>3. GoOn("final") /\ dest' = dest /\ granted' = granted /\ th' = th
  BY DEF ExpandNothing, out
<1>4. Leave'
  BY <1>1, <1>3, LeaveAfter, LeaveFixed
<1> QED BY <1>1, <1>2, <1>3, <1>4, GoOnKeeps

(* Where the data of the thread in hand is read from, and what is there    *)
LEMMA FromIs ==
    ASSUME Reading, pc = "expand", th.len > 0
    PROVE  /\ From \in Nat /\ th.len \in Nat /\ EOF \in Nat /\ pos \in 0 .. EOF
           /\ rec \in DOMAIN arc /\ th.thr \in 1 .. Count(rec)
           /\ th.len = LenOf(rec, th.thr)
           /\ opt.stream => From = pos
           /\ InStep => From = Start(rec, th.thr)
           /\ \A n \in Nat : From + n <= EOF => From + n \in 0 .. EOF
           /\ opt.stream /\ InStep => From + th.len = Start(rec, idx + 1)
<1>1. /\ Located /\ pos \in 0 .. EOF /\ EOF \in Nat /\ th \in InHand /\ th.len \in Nat
      /\ th.at \in Nat /\ rec \in DOMAIN arc /\ pc \in Asking /\ pc # "final"
      /\ pc \in AtThreads /\ busy
  BY Layout, ArcTypes DEF Reading, Types, Turns, InHand, Asking, AtThreads
<1>2. From \in Nat
  BY <1>1 DEF From
<1>3. /\ th.thr # 0 /\ th.thr \in DOMAIN Threads(rec) /\ th.len = Threads(rec)[th.thr].len
      /\ th.at = Start(rec, th.thr)
      /\ IF op.name = "extractThread" THEN th.thr = op.thr ELSE th.thr = idx
  BY <1>1 DEF Reading, ThreadInHand
<1>4. th.thr \in 1 .. Count(rec)
  BY <1>1, <1>3, ThreadLayout, ThreadsFacts
<1>5. th.len = LenOf(rec, th.thr)
  BY <1>1, <1>3, <1>4, ThreadsFacts DEF LenOf
<1>6. ASSUME opt.stream, InStep
      PROVE  pos = Start(rec, th.thr) /\ pos + th.len = Start(rec, idx + 1)
  <2>1. Bulk
    BY <1>1, <1>6 DEF Reading, Turns
  <2>2. op.name # "extractThread"
    BY <2>1 DEF Bulk, BulkCalls
  <2> QED BY <1>1, <1>3, <1>6, <2>2 DEF Reading, StreamPlace
<1>7. InStep => From = Start(rec, th.thr)
  BY <1>3, <1>6 DEF From
<1>8. opt.stream /\ InStep => From + th.len = Start(rec, idx + 1)
  BY <1>6 DEF From
<1>9. opt.stream => From = pos
  BY DEF From
<1>10. \A n \in Nat : From + n <= EOF => From + n \in 0 .. EOF
  BY <1>1, <1>2
<1> QED BY <1>1, <1>2, <1>4, <1>5, <1>7, <1>8, <1>9, <1>10

(* All of the data is read.                                                *)
LEMMA ExpandKeeps ==
    ASSUME Reading, Expand
    PROVE  Reading'
<1>0. /\ pc = "expand" /\ pc \in Asking /\ pc \in AtThreads /\ th.len > 0
      /\ pc \notin {"idle", "next", "show", "find", "threads", "final"}
  BY DEF Expand, Asking, AtThreads
<1>1. /\ pc' = "final" /\ pc' \in Asking /\ pc' \in AtThreads /\ pc' \in Pcs
      /\ pos' = From + th.len /\ th' = [th EXCEPT !.own = Finds(From, th.len, rec, th.thr)]
      /\ From + th.len <= EOF
      /\ UNCHANGED env /\ files' = files /\ toc' = toc /\ haveToc' = haveToc /\ cur' = cur
      /\ left' = left /\ rec' = rec /\ mark' = mark /\ idx' = idx /\ needs' = needs
      /\ dest' = dest /\ granted' = granted /\ busy' = busy /\ op' = op /\ calls' = calls
      /\ done' = done
  BY DEF Expand, Asking, AtThreads, Pcs, walk, loop, api
<1>2. th' \in InHand /\ th'.id = th.id /\ th'.len = th.len /\ th'.thr = th.thr /\ th'.at = th.at
      /\ th'.own = Finds(From, th.len, rec, th.thr)
  <2>1. th \in InHand
    BY DEF Reading, Types
  <2>2. Finds(From, th.len, rec, th.thr) \in BOOLEAN
    BY DEF Finds
  <2> QED BY <1>1, <2>1, <2>2 DEF InHand
<1>3. /\ From \in Nat /\ th.len \in Nat /\ EOF \in Nat /\ pos \in 0 .. EOF
      /\ rec \in DOMAIN arc /\ th.thr \in 1 .. Count(rec)
      /\ th.len = LenOf(rec, th.thr)
      /\ (opt.stream => From = pos)
      /\ (InStep => From = Start(rec, th.thr))
      /\ \A n \in Nat : From + n <= EOF => From + n \in 0 .. EOF
      /\ (opt.stream /\ InStep => From + th.len = Start(rec, idx + 1))
  BY <1>0, FromIs
<1>4. pos' \in 0 .. EOF
  BY <1>1, <1>3
<1>5. Types'
  BY <1>1, <1>2, <1>4, Fixed DEF Reading, Types
<1>6. Turns'
  BY <1>0, <1>1, Fixed DEF Reading, Turns, Bulk
<1>7. TocSoFar'
  BY <1>1, Fixed DEF Reading, TocSoFar
<1>8. WalkInOrder'
  BY <1>0, <1>1, Fixed DEF Reading, WalkInOrder, ReadLast, Bulk
<1>9. StreamPlace'
  BY <1>0, <1>1, <1>3, Fixed DEF StreamPlace
<1>10. FilePlace'
  <2>1. rec # 0
    BY <1>0 DEF Reading, Turns
  <2> QED BY <1>0, <1>1, <2>1, Fixed DEF Reading, FilePlace
<1>11. OffsetBehind'
  <2>1. opt.stream => pos <= pos'
    BY <1>1, <1>3
  <2> QED BY <1>1, <1>4, <2>1, StillBehind
<1>12. ASSUME InStep
       PROVE  Finds(From, th.len, rec, th.thr)
  <2>1. /\ Located /\ From = Start(rec, th.thr)
        /\ \A j \in 1 .. th.len : disk[From + j] = [rec |-> rec, thr |-> th.thr]
    <3>1. Located  BY DEF Reading, Types
    <3>2. \A i \in DOMAIN arc : \A k \in 1 .. Count(i) : \A j \in 1 .. LenOf(i, k) :
             disk[Start(i, k) + j] = [rec |-> i, thr |-> k]
      BY <3>1, Layout
    <3>3. \A j \in 1 .. LenOf(rec, th.thr) :
             disk[Start(rec, th.thr) + j] = [rec |-> rec, thr |-> th.thr]
      BY <1>3, <3>2
    <3> QED BY <1>3, <1>12, <3>1, <3>3
  <2>2. ASSUME NEW q \in From + 1 .. From + th.len
        PROVE  q <= EOF /\ disk[q] = [rec |-> rec, thr |-> th.thr]
    <3> DEFINE j == q - From
    <3>1. j \in 1 .. th.len /\ q = From + j /\ q <= EOF
      BY <1>1, <1>3
    <3> HIDE DEF j
    <3> QED BY <2>1, <3>1
  <2>3. th.len = arc[rec].threads[th.thr].len
    BY <1>3 DEF LenOf
  <2> QED BY <2>2, <2>3 DEF Finds
<1>13. ThreadInHand'
  <2>1. InStep => th'.own
    BY <1>2, <1>12
  <2> QED BY <1>0, <1>1, <1>2, <2>1, Fixed DEF Reading, ThreadInHand
<1>14. StillMissing'
  BY <1>0, <1>1, Fixed DEF Reading, StillMissing
<1>15. Leave'
  BY <1>0, <1>1, LeaveAfter
<1> QED BY <1>5, <1>6, <1>7, <1>8, <1>9, <1>10, <1>11, <1>13, <1>14, <1>15 DEF Reading

(* It ends in an error.                                                    *)
LEMMA ExpandFailsKeeps ==
    ASSUME Reading, ExpandFails
    PROVE  Reading'
<1>1. /\ pc = "expand" /\ th.len > 0 /\ Stop("BadData") /\ UNCHANGED <<files, cur, done>>
      /\ \E n \in 0 .. th.len : From + n <= EOF /\ pos' = From + n
  BY DEF ExpandFails
<1>2. PICK n \in 0 .. th.len : From + n <= EOF /\ pos' = From + n
  BY <1>1
<1>3. /\ From \in Nat /\ th.len \in Nat /\ EOF \in Nat /\ (opt.stream => From = pos)
  BY <1>1, FromIs
<1>4. pos' \in 0 .. EOF /\ (opt.stream => pos <= pos') /\ done' \in Seq(Handed)
  BY <1>1, <1>2, <1>3 DEF Reading, Types
<1> QED BY <1>1, <1>4, StopKeeps

(* The progress updater interrupts it.                                     *)
LEMMA InterruptKeeps ==
    ASSUME Reading, Interrupt
    PROVE  Reading'
<1>1. pc = "expand" /\ pc \in Asking /\ th.len > 0
  BY DEF Interrupt, Asking
<1>2. /\ From \in Nat /\ th.len \in Nat /\ EOF \in Nat /\ (opt.stream => From = pos)
      /\ done \in Seq(Handed) /\ files \in [Paths -> FileStates] /\ pos \in 0 .. EOF
  BY <1>1, FromIs DEF Reading, Types
<1>3. PICK n \in 1 .. th.len :
          /\ From + n <= EOF
          /\ \/ /\ Stop("Aborted")
                /\ pos' = From + n /\ UNCHANGED <<files, cur, done>>
             \/ /\ opt.stream => StreamSkipLate
                /\ IF op.name = "extractThread"
                     THEN /\ Stop("Skipped")
                          /\ pos' = From + n /\ UNCHANGED <<files, cur, done>>
                   ELSE IF opt.stream /\ From + n + th.len > EOF
                     THEN /\ Stop("FileSeek")
                          /\ pos' = EOF /\ UNCHANGED <<files, cur, done>>
                   ELSE /\ pos' = From + n + (IF opt.stream THEN th.len ELSE 0)
                        /\ ThreadOver("skipped", "ok")
                        /\ UNCHANGED <<env, files, toc, haveToc, cur, op, calls>>
  BY DEF Interrupt
<1>4. From + n \in 0 .. EOF /\ (opt.stream => pos <= From + n /\ pos <= EOF)
  BY <1>2, <1>3
<1>5. ASSUME NEW r, Stop(r), UNCHANGED <<files, cur, done>>, pos' = From + n \/ pos' = EOF
      PROVE  Reading'
  <2>1. pos' \in 0 .. EOF /\ (opt.stream => pos <= pos')
    BY <1>2, <1>4, <1>5
  <2> QED BY <1>2, <1>5, <2>1, StopKeeps
<1>6. ASSUME opt.stream => StreamSkipLate, ~(opt.stream /\ From + n + th.len > EOF),
             pos' = From + n + (IF opt.stream THEN th.len ELSE 0),
             ThreadOver("skipped", "ok"),
             UNCHANGED <<env, files, toc, haveToc, cur, op, calls>>
      PROVE  Reading'
  <2>1. pos' \in 0 .. EOF /\ (opt.stream => pos <= pos')
    <3>1. CASE opt.stream
      BY <1>2, <1>4, <1>6, <3>1
    <3>2. CASE ~opt.stream
      BY <1>2, <1>4, <1>6, <3>2
    <3> QED BY <3>1, <3>2
  <2>2. ~(opt.stream /\ InStep)
    BY <1>6 DEF InStep
  <2> QED BY <1>1, <1>2, <1>6, <2>1, <2>2, OverKeeps
<1> QED BY <1>3, <1>5, <1>6

(* The last progress message                                               *)
LEMMA FinishKeeps ==
    ASSUME Reading, Finish
    PROVE  Reading'
<1>1. pc = "final" /\ pc \in Asking
  BY DEF Finish, Asking
<1>2. CASE (opt.stream /\ th.len > 0 => StreamSkipLate) /\ SkipThread
  <2>1. th.len = 0 \/ ~opt.stream \/ ~InStep
    <3>1. th.len \in Nat  BY DEF Reading, Types, InHand
    <3> QED BY <1>2, <3>1 DEF InStep
  <2> QED BY <1>1, <1>2, <2>1, SkipKeeps, SkipLeavesFiles
<1>3. CASE ThreadFails("Aborted")
  BY <1>3, FailKeeps
<1>4. CASE /\ files' = IF dest = "sink" THEN files ELSE [files EXCEPT ![dest] = "out"]
           /\ ThreadOver("given", "ok")
           /\ UNCHANGED <<env, reads, op, calls>>
  <2>1. files' \in [Paths -> FileStates]
    <3>1. files \in [Paths -> FileStates] /\ dest \in Paths \cup {"sink"}
      BY DEF Reading, Types
    <3>2. "out" \in FileStates  BY DEF FileStates
    <3> QED BY <1>4, <3>1, <3>2
  <2>2. /\ UNCHANGED <<env, toc, haveToc, cur, op, calls>> /\ pos' = pos
        /\ pos \in 0 .. EOF /\ EOF \in Nat /\ busy
    BY <1>1, <1>4, Layout DEF reads, Reading, Types, Turns
  <2>3. opt.stream /\ InStep => pos' = Start(rec, idx + 1)
    BY <1>1, <2>2 DEF Reading, StreamPlace
  <2> QED BY <1>1, <1>4, <2>1, <2>2, <2>3, OverKeeps
<1> QED BY <1>2, <1>3, <1>4 DEF Finish

-----------------------------------------------------------------------------
(* One step per action: the threads of a record *)

(* What is known at the threads of a record                                *)
LEMMA AtRecord ==
    ASSUME Reading, pc = "threads"
    PROVE  /\ Located /\ rec \in DOMAIN arc /\ rec # 0 /\ busy
           /\ pos \in 0 .. EOF /\ EOF \in Nat
           /\ idx \in 0 .. Len(Threads(rec)) /\ Len(Threads(rec)) \in Nat
           /\ DOMAIN Threads(rec) = 1 .. Len(Threads(rec))
           /\ op.name # "extractThread"
           /\ opt.stream /\ InStep => pos = Start(rec, idx + 1)
           /\ needs \subseteq Wanting(rec, idx)
           /\ idx < Len(Threads(rec)) \/ "data" \in needs => needs = Wanting(rec, idx)
           /\ done \in Seq(Handed) /\ files \in [Paths -> FileStates]
<1>1. /\ Located /\ rec # 0 /\ busy /\ pos \in 0 .. EOF /\ idx \in Nat
      /\ idx <= Len(Threads(rec)) /\ rec \in 0 .. Len(arc)
      /\ done \in Seq(Handed) /\ files \in [Paths -> FileStates]
      /\ op.name # "extractThread" /\ pc \in AtThreads
  BY DEF Reading, Types, Turns, AtThreads
<1>2. EOF \in Nat /\ rec \in DOMAIN arc
  BY <1>1, Layout, ArcTypes
<1>3. Len(Threads(rec)) \in Nat /\ DOMAIN Threads(rec) = 1 .. Len(Threads(rec))
  BY <1>1, <1>2, ThreadsFacts
<1>4. opt.stream /\ InStep => pos = Start(rec, idx + 1)
  BY <1>1 DEF Reading, StreamPlace
<1>5. /\ needs \subseteq Wanting(rec, idx)
      /\ idx < Len(Threads(rec)) \/ "data" \in needs => needs = Wanting(rec, idx)
  BY <1>1 DEF Reading, StillMissing
<1> QED BY <1>1, <1>2, <1>3, <1>4, <1>5

(* The next thread of the record, and the forks it supplies                *)
LEMMA NextThread ==
    ASSUME Reading, pc = "threads", idx < Len(Threads(rec))
    PROVE  /\ idx + 1 \in 1 .. Len(Threads(rec)) /\ idx + 1 \in Nat
           /\ Threads(rec)[idx + 1] \in Thread /\ Threads(rec)[idx + 1].len \in Nat
           /\ Start(rec, (idx + 1) + 1) = Start(rec, idx + 1) + Threads(rec)[idx + 1].len
           /\ Start(rec, idx + 1) \in Nat
           /\ needs \ Supplies(Threads(rec)[idx + 1].id) = Wanting(rec, idx + 1)
<1>1. /\ Located /\ rec \in DOMAIN arc /\ idx \in 0 .. Len(Threads(rec))
      /\ Len(Threads(rec)) \in Nat /\ needs = Wanting(rec, idx)
  BY AtRecord
<1>2. idx + 1 \in 1 .. Len(Threads(rec)) /\ idx + 1 \in Nat /\ idx \in 0 .. Len(Threads(rec)) - 1
  BY <1>1
<1>3. Threads(rec)[idx + 1] \in Thread
  <2>1. Threads(rec) \in Seq(Thread)
    BY <1>1, ThreadsFacts
  <2> QED BY <1>2, <2>1, ElementOfSeq
<1>4. Wanting(rec, idx + 1) = Wanting(rec, idx) \ Supplies(Threads(rec)[idx + 1].id)
  BY <1>1, <1>2, WantingSteps
<1>5. Start(rec, idx + 1) \in Nat
  <2>1. Start(rec, idx + 1) \in 0 .. EOF
    BY <1>1, <1>2, Layout
  <2> QED BY <2>1
<1> QED BY <1>1, <1>2, <1>3, <1>4, <1>5, ThreadLayout

(* A thread that is not of class data                                      *)
LEMMA PassThreadKeeps ==
    ASSUME Reading, PassThread
    PROVE  Reading'
<1> DEFINE t == Threads(rec)[idx + 1]
<1>0. pc = "threads" /\ idx < Len(Threads(rec))
  BY DEF PassThread
<1>1. /\ Located /\ rec \in DOMAIN arc /\ rec # 0 /\ busy
      /\ pos \in 0 .. EOF /\ EOF \in Nat /\ done \in Seq(Handed)
      /\ (opt.stream /\ InStep => pos = Start(rec, idx + 1))
  BY <1>0, AtRecord
<1>2. /\ idx + 1 \in 1 .. Len(Threads(rec)) /\ idx + 1 \in Nat
      /\ t.len \in Nat
      /\ Start(rec, (idx + 1) + 1) = Start(rec, idx + 1) + t.len
      /\ needs \ Supplies(t.id) = Wanting(rec, idx + 1)
  BY <1>0, NextThread
<1>3. CASE SkipWouldFail(t.len)
  <2>1. Stop("FileSeek") /\ pos' = EOF /\ UNCHANGED <<files, cur, done>>
    BY <1>3 DEF PassThread
  <2> QED BY <1>1, <2>1, StopKeeps
<1>4. CASE ~SkipWouldFail(t.len)
  <2>1. /\ SkipTo(t.len) /\ idx' = idx + 1 /\ needs' = needs \ Supplies(t.id)
        /\ UNCHANGED env /\ toc' = toc /\ haveToc' = haveToc /\ cur' = cur
        /\ left' = left /\ rec' = rec /\ mark' = mark
        /\ th' = th /\ dest' = dest /\ granted' = granted
        /\ busy' = busy /\ op' = op /\ calls' = calls /\ pc' = pc
        /\ files' = files /\ done' = done
    BY <1>4 DEF PassThread, walk, out, api
  <2> HIDE DEF t
  <2>2. /\ pos' \in 0 .. EOF /\ (opt.stream => pos <= pos' /\ pos' = pos + t.len)
    BY <1>1, <1>2, <1>4, <2>1 DEF SkipTo, SkipWouldFail
  <2>3. idx' \in Nat /\ idx' <= Len(Threads(rec)) /\ needs' \subseteq {"data", "rsrc"}
    <3>1. needs \subseteq {"data", "rsrc"}  BY DEF Reading, Types
    <3>2. Len(Threads(rec)) \in Nat  BY <1>0, AtRecord
    <3>3. idx + 1 <= Len(Threads(rec))  BY <1>2, <3>2
    <3> QED BY <1>2, <2>1, <3>1, <3>3
  <2>4. Types'
    BY <1>1, <2>1, <2>2, <2>3, Fixed DEF Reading, Types
  <2>5. Turns'
    BY <1>0, <2>1, Fixed DEF Reading, Turns, Bulk
  <2>6. TocSoFar'
    BY <2>1, Fixed DEF Reading, TocSoFar
  <2>7. WalkInOrder'
    BY <2>1, Fixed DEF Reading, WalkInOrder, ReadLast, Bulk
  <2>8. StreamPlace'
    BY <1>0, <1>1, <1>2, <2>1, <2>2, Fixed DEF StreamPlace, Asking
  <2>9. FilePlace'
    BY <1>0, <1>1, <2>1, Fixed DEF Reading, FilePlace
  <2>10. OffsetBehind'
    BY <2>1, <2>2, StillBehind
  <2>11. ThreadInHand' /\ Leave'
    BY <1>0, <2>1 DEF ThreadInHand, Leave, Asking
  <2>12. StillMissing'
    BY <1>0, <1>2, <2>1, Fixed DEF StillMissing
  <2> QED BY <2>4, <2>5, <2>6, <2>7, <2>8, <2>9, <2>10, <2>11, <2>12 DEF Reading
<1> QED BY <1>3, <1>4

(* A fork taken in hand, to be asked about                                 *)
LEMMA TakeKeeps ==
    ASSUME Reading, pc = "threads", pc' = "select",
           UNCHANGED <<env, files, reads, walk, dest, granted, api, done>>,
           th' \in InHand, th'.own,
           idx' \in Nat, idx' <= Len(Threads(rec)),
           needs' \subseteq Wanting(rec, idx'),
           idx' < Len(Threads(rec)) \/ "data" \in needs' => needs' = Wanting(rec, idx'),
           th'.thr \in {0, idx'}, th'.thr = 0 => th'.len = 0,
           th'.thr # 0 => /\ th'.thr \in DOMAIN Threads(rec) /\ th'.thr = idx'
                          /\ th'.id = Threads(rec)[th'.thr].id
                          /\ th'.len = Threads(rec)[th'.thr].len
                          /\ th'.at = Start(rec, th'.thr)
                          /\ idx' = idx + 1,
           th'.thr = 0 => idx' = idx
    PROVE  Reading'
<1>0. /\ UNCHANGED env /\ files' = files /\ toc' = toc /\ haveToc' = haveToc /\ cur' = cur
      /\ pos' = pos /\ left' = left /\ rec' = rec /\ mark' = mark
      /\ dest' = dest /\ granted' = granted
      /\ busy' = busy /\ op' = op /\ calls' = calls /\ done' = done
  BY DEF reads, walk, api
<1>1. /\ pc' \in Asking /\ pc' \in AtThreads /\ pc' \in Pcs /\ pc \in AtThreads
      /\ pc' \notin {"idle", "next", "show", "find", "threads", "final"}
  BY DEF Asking, AtThreads, Pcs
<1>2. /\ Located /\ rec \in DOMAIN arc /\ rec # 0 /\ busy
      /\ op.name # "extractThread" /\ Len(Threads(rec)) \in Nat
      /\ pos \in 0 .. EOF /\ EOF \in Nat
      /\ (opt.stream /\ InStep => pos = Start(rec, idx + 1))
  BY AtRecord
<1>3. needs' \subseteq {"data", "rsrc"}
  BY DEF Wanting
<1>4. Types'
  BY <1>0, <1>1, <1>2, <1>3, Fixed DEF Reading, Types
<1>5. Turns'
  BY <1>0, <1>1, <1>2, Fixed DEF Reading, Turns, Bulk
<1>6. TocSoFar'
  BY <1>0, Fixed DEF Reading, TocSoFar
<1>7. WalkInOrder'
  BY <1>0, <1>1, Fixed DEF Reading, WalkInOrder, ReadLast, Bulk
<1>8. StreamPlace'
  <2>1. SUFFICES ASSUME opt.stream, InStep
                 PROVE  /\ pos + th'.len = Start(rec, idx' + 1)
                        /\ th'.thr # 0 => pos = Start(rec, idx')
    BY <1>0, <1>1, Fixed DEF StreamPlace
  <2>2. pos = Start(rec, idx + 1)
    BY <1>2, <2>1
  <2>3. CASE th'.thr = 0
    BY <1>2, <2>2, <2>3
  <2>4. CASE th'.thr # 0
    <3>1. idx < Len(Threads(rec))
      BY <2>4, AtRecord
    <3>2. Start(rec, (idx + 1) + 1) = Start(rec, idx + 1) + Threads(rec)[idx + 1].len
      BY <3>1, NextThread
    <3> QED BY <2>2, <2>4, <3>2
  <2> QED BY <2>3, <2>4
<1>9. FilePlace'
  BY <1>0, <1>1, <1>2, Fixed DEF Reading, FilePlace
<1>10. OffsetBehind'
  BY <1>0, Fixed DEF Reading, OffsetBehind
<1>11. ThreadInHand'
  BY <1>0, <1>1, <1>2, Fixed DEF ThreadInHand
<1>12. StillMissing'
  BY <1>0, <1>1, Fixed DEF StillMissing
<1>13. Leave'
  BY <1>1 DEF Leave
<1> QED BY <1>4, <1>5, <1>6, <1>7, <1>8, <1>9, <1>10, <1>11, <1>12, <1>13 DEF Reading

(* The next thread of class data                                           *)
LEMMA TakeThreadKeeps ==
    ASSUME Reading, TakeThread
    PROVE  Reading'
<1> DEFINE t == Threads(rec)[idx + 1]
<1>0. /\ pc = "threads" /\ idx < Len(Threads(rec)) /\ pc' = "select"
      /\ OpenThread(t, rec, idx + 1)
      /\ idx' = idx + 1 /\ needs' = needs \ Supplies(t.id)
      /\ UNCHANGED <<env, files, reads, walk, dest, granted, api, done>>
  BY DEF TakeThread
<1>1. /\ idx + 1 \in 1 .. Len(Threads(rec)) /\ idx + 1 \in Nat /\ t \in Thread
      /\ Start(rec, idx + 1) \in Nat
      /\ needs \ Supplies(t.id) = Wanting(rec, idx + 1)
  BY <1>0, NextThread
<1>2. DOMAIN Threads(rec) = 1 .. Len(Threads(rec)) /\ Len(Threads(rec)) \in Nat
  BY <1>0, AtRecord
<1> HIDE DEF t
<1>3. th' = [id |-> t.id, len |-> t.len, bad |-> t.bad, thr |-> idx + 1,
             at |-> Start(rec, idx + 1), own |-> TRUE]
  <2>1. idx + 1 # 0  BY <1>1
  <2> QED BY <1>0, <2>1, Zenon DEF OpenThread
<1>4. /\ th' \in InHand /\ th'.own /\ th'.thr = idx + 1 /\ th'.id = t.id /\ th'.len = t.len
      /\ th'.at = Start(rec, idx + 1) /\ th'.thr # 0
  BY <1>1, <1>3 DEF InHand, Thread
<1>5. needs' = Wanting(rec, idx')
  BY <1>0, <1>1
<1> QED BY <1>0, <1>1, <1>2, <1>4, <1>5, TakeKeeps DEF t

(* A fork made up                                                          *)
LEMMA MakeForkKeeps ==
    ASSUME Reading, MakeFork
    PROVE  Reading'
<1> DEFINE f == Head(InOrder(needs))
<1>0. /\ pc = "threads" /\ idx = Len(Threads(rec)) /\ needs # {} /\ pc' = "select"
      /\ OpenThread([id |-> f, len |-> 0, bad |-> "no"], rec, 0)
      /\ needs' = needs \ {f} /\ idx' = idx
      /\ UNCHANGED <<env, files, reads, walk, dest, granted, api, done>>
  BY DEF MakeFork
<1>1. /\ needs \subseteq Wanting(rec, idx) /\ idx \in Nat /\ needs \subseteq {"data", "rsrc"}
      /\ Len(Threads(rec)) \in Nat
  BY <1>0, AtRecord DEF Wanting
<1>2. f \in {"data", "rsrc"} /\ ("data" \in needs => f = "data")
  <2>1. Head(<<"data", "rsrc">>) = "data" /\ Head(<<"data">>) = "data" /\ Head(<<"rsrc">>) = "rsrc"
    OBVIOUS
  <2> QED BY <1>0, <1>1, <2>1, InOrderIs
<1> HIDE DEF f
<1>3. th' = [id |-> f, len |-> 0, bad |-> "no", thr |-> 0, at |-> 0, own |-> TRUE]
  BY <1>0 DEF OpenThread
<1>4. th' \in InHand /\ th'.own /\ th'.thr = 0 /\ th'.len = 0
  BY <1>2, <1>3 DEF InHand, Kinds, Forks
<1>5. needs' \subseteq Wanting(rec, idx') /\ "data" \notin needs' /\ ~(idx' < Len(Threads(rec)))
      /\ idx' \in Nat /\ idx' <= Len(Threads(rec))
  BY <1>0, <1>1, <1>2
<1> QED BY <1>0, <1>4, <1>5, TakeKeeps

(* All threads of a record have been seen.                                 *)
LEMMA EndOfRecordKeeps ==
    ASSUME Reading, EndOfRecord
    PROVE  Reading'
<1>0. /\ pc = "threads" /\ idx = Len(Threads(rec)) /\ pc \in AtThreads
      /\ UNCHANGED <<env, files, toc, haveToc, cur, op, calls, done>>
  BY DEF EndOfRecord, AtThreads
<1>1. /\ Located /\ rec \in DOMAIN arc /\ rec # 0 /\ busy
      /\ pos \in 0 .. EOF /\ EOF \in Nat /\ files \in [Paths -> FileStates]
      /\ (opt.stream /\ InStep => pos = Start(rec, idx + 1))
      /\ done \in Seq(Handed) /\ haveToc \in BOOLEAN /\ mark \in 0 .. EOF
      /\ rec \in Nat /\ op.name # "extractThread"
  BY <1>0, AtRecord, ArcTypes DEF Reading, Types
<1>2. CASE ~Bulk
  <2>1. Return("ok") /\ pos' = pos
    BY <1>2 DEF EndOfRecord
  <2>2. haveToc /\ ~opt.stream /\ toc = [i \in DOMAIN arc |-> i]
    BY <1>0, <1>1, <1>2 DEF Reading, Turns, TocSoFar
  <2> QED BY <1>0, <1>1, <2>1, <2>2, BackKeeps
<1>3. CASE Bulk
  <2>1. /\ pos' = (IF opt.stream \/ haveToc THEN pos ELSE mark) /\ pc' = "next"
        /\ UNCHANGED env /\ toc' = toc /\ haveToc' = haveToc /\ cur' = cur
        /\ left' = left /\ rec' = rec /\ mark' = mark /\ idx' = idx /\ needs' = needs
        /\ th' = th /\ dest' = dest /\ granted' = granted
        /\ busy' = busy /\ op' = op /\ calls' = calls
        /\ files' = files /\ done' = done
    BY <1>0, <1>3 DEF EndOfRecord, walk, loop, out
  <2>2. pos' \in 0 .. EOF /\ pc' \in Pcs /\ pc' \notin AtThreads /\ pc' \notin Asking
    BY <1>1, <2>1 DEF Pcs, AtThreads, Asking
  <2>3. Types'
    BY <2>1, <2>2, Fixed DEF Reading, Types
  <2>4. Turns'
    BY <1>0, <1>1, <1>3, <2>1, <2>2, Fixed DEF Reading, Turns, Bulk
  <2>5. TocSoFar'
    BY <2>1, Fixed DEF Reading, TocSoFar
  <2>6. WalkInOrder'
    BY <1>0, <1>3, <2>1, Fixed DEF Reading, WalkInOrder, ReadLast, Bulk
  <2>7. StreamPlace'
    <3>1. opt.stream /\ InStep => pos = Start(rec + 1, 0)
      BY <1>0, <1>1, ThreadLayout
    <3> QED BY <1>1, <2>1, <2>2, <3>1, Fixed DEF StreamPlace
  <2>8. FilePlace'
    BY <1>0, <1>1, <2>1, Fixed DEF Reading, FilePlace
  <2>9. OffsetBehind'
    BY <2>1, Fixed DEF Reading, OffsetBehind
  <2>10. ThreadInHand' /\ Leave' /\ StillMissing'
    BY <2>1, <2>2 DEF ThreadInHand, Leave, StillMissing
  <2> QED BY <2>3, <2>4, <2>5, <2>6, <2>7, <2>8, <2>9, <2>10 DEF Reading
<1> QED BY <1>2, <1>3

-----------------------------------------------------------------------------
(* One step per action: the walk over the records *)

(* contentFunc                                                             *)
LEMMA ShowKeeps ==
    ASSUME Reading, Show
    PROVE  Reading'
<1>0. pc = "show"
  BY DEF Show
<1>1. /\ Located /\ rec \in 0 .. Len(arc) /\ rec # 0 /\ op.name = "contents" /\ Bulk
      /\ pos \in 0 .. EOF /\ EOF \in Nat /\ done \in Seq(Handed)
  BY <1>0, Layout DEF Reading, Types, Turns, Bulk, BulkCalls
<1>2. CASE Stop("Aborted") /\ UNCHANGED <<files, pos, cur, done>>
  BY <1>1, <1>2, StopKeeps
<1>3. CASE /\ done' = Append(done, <<<<rec, "record">>, "given">>)
           /\ pc' = "next"
           /\ UNCHANGED <<env, files, reads, walk, loop, out, api, result>>
  <2>1. /\ UNCHANGED env /\ toc' = toc /\ haveToc' = haveToc /\ cur' = cur /\ pos' = pos
        /\ left' = left /\ rec' = rec /\ mark' = mark /\ idx' = idx /\ needs' = needs
        /\ th' = th /\ dest' = dest /\ granted' = granted
        /\ busy' = busy /\ op' = op /\ calls' = calls /\ files' = files
    BY <1>3 DEF reads, walk, loop, out, api
  <2>2. done' \in Seq(Handed)
    <3>1. rec \in Nat
      BY <1>1, ArcTypes
    <3>2. <<<<rec, "record">>, "given">> \in Handed
      BY <3>1 DEF Handed
    <3> QED BY <1>1, <1>3, <3>2, AppendProperties
  <2>3. pc' \in Pcs /\ pc' \notin AtThreads /\ pc' \notin Asking
    BY <1>3 DEF Pcs, AtThreads, Asking
  <2>4. Types'
    BY <2>1, <2>2, <2>3, Fixed DEF Reading, Types
  <2>5. Turns'
    BY <1>0, <1>1, <1>3, <2>1, <2>3, Fixed DEF Reading, Turns, Bulk
  <2>6. TocSoFar'
    BY <2>1, Fixed DEF Reading, TocSoFar
  <2>7. WalkInOrder'
    BY <1>0, <1>1, <1>3, <2>1, Fixed DEF Reading, WalkInOrder, ReadLast, Bulk
  <2>8. StreamPlace'
    BY <1>0, <1>1, <1>3, <2>1, <2>3, Fixed DEF Reading, StreamPlace
  <2>9. FilePlace'
    BY <1>0, <1>1, <2>1, Fixed DEF Reading, FilePlace
  <2>10. OffsetBehind'
    BY <2>1, Fixed DEF Reading, OffsetBehind
  <2>11. ThreadInHand' /\ Leave' /\ StillMissing'
    BY <1>3, <2>3 DEF ThreadInHand, Leave, StillMissing
  <2> QED BY <2>4, <2>5, <2>6, <2>7, <2>8, <2>9, <2>10, <2>11 DEF Reading
<1> QED BY <1>2, <1>3 DEF Show

(* A record that cannot be read                                            *)
LEMMA NextFailsKeeps ==
    ASSUME Reading, NextFails
    PROVE  Reading'
<1>1. Stop("BadRecord") /\ UNCHANGED <<files, pos, cur, done>>
  BY DEF NextFails
<1>2. pos \in 0 .. EOF /\ EOF \in Nat /\ done \in Seq(Handed)
  BY Layout DEF Reading, Types
<1> QED BY <1>1, <1>2, StopKeeps

(* All records have been read.                                             *)
LEMMA EndOfWalkKeeps ==
    ASSUME Reading, EndOfWalk
    PROVE  Reading'
<1>0. /\ pc = "next" /\ left = 0 /\ WalkFinish(TRUE)
      /\ UNCHANGED <<env, files, pos, cur, op, calls, done>>
  BY DEF EndOfWalk
<1>1. /\ Located /\ EOF \in Nat /\ busy /\ haveToc \in BOOLEAN /\ pos \in 0 .. EOF
      /\ done \in Seq(Handed) /\ files \in [Paths -> FileStates]
      /\ Len(arc) \in Nat /\ DOMAIN arc = 1 .. Len(arc) /\ opt.stream \in BOOLEAN
  <2>1. opt \in Setting
    BY ExtractAssumption DEF Reading, Types, Located
  <2>2. Located
    BY DEF Reading, Types
  <2> QED BY <1>0, <2>1, <2>2, Layout, ArcTypes DEF Reading, Types, Turns, Setting
<1>2. /\ haveToc' = (haveToc \/ ~opt.stream) /\ haveToc' \in BOOLEAN
      /\ (haveToc' => ~opt.stream /\ toc' = [i \in DOMAIN arc |-> i])
      /\ (~haveToc' => toc' = <<>>)
  <2>1. haveToc' = (haveToc \/ ~opt.stream) /\ toc' = IF haveToc' THEN toc ELSE <<>>
    BY <1>0 DEF WalkFinish
  <2>2. ~opt.stream => toc = [i \in DOMAIN arc |-> i]
    <3>1. Len(arc) - left = Len(arc)
      BY <1>0, <1>1
    <3> QED BY <1>1, <3>1 DEF Reading, TocSoFar
  <2>3. haveToc => ~opt.stream
    BY DEF Reading, TocSoFar
  <2> QED BY <1>1, <2>1, <2>2, <2>3
<1>3. CASE Bulk
  <2>1. Return("ok")
    BY <1>3 DEF EndOfWalk
  <2> QED BY <1>0, <1>1, <1>2, <2>1, BackKeeps
<1>4. CASE ~Bulk
  <2>1. /\ pc' = "find" /\ UNCHANGED env /\ cur' = cur /\ pos' = pos
        /\ left' = left /\ rec' = rec /\ mark' = mark /\ idx' = idx /\ needs' = needs
        /\ th' = th /\ dest' = dest /\ granted' = granted
        /\ busy' = busy /\ op' = op /\ calls' = calls /\ files' = files /\ done' = done
    BY <1>0, <1>4 DEF EndOfWalk, walk, loop, out
  <2>2. pc' \in Pcs /\ pc' \notin AtThreads /\ pc' \notin Asking
    BY <2>1 DEF Pcs, AtThreads, Asking
  <2>3. haveToc' /\ ~opt.stream /\ toc' = [i \in DOMAIN arc |-> i]
    BY <1>0, <1>1, <1>2, <1>4 DEF Reading, Turns
  <2>4. toc' \in Seq(DOMAIN arc)
    BY <1>1, <2>3
  <2>5. Types'
    BY <1>2, <2>1, <2>2, <2>4, Fixed DEF Reading, Types
  <2>6. Turns'
    BY <1>0, <1>1, <1>4, <2>1, <2>2, <2>3, Fixed DEF Reading, Turns, Bulk
  <2>7. TocSoFar'
    BY <2>1, <2>3, Fixed DEF TocSoFar
  <2>8. WalkInOrder' /\ StreamPlace' /\ FilePlace' /\ OffsetBehind'
    BY <1>4, <2>1, <2>3, Fixed DEF WalkInOrder, StreamPlace, FilePlace, OffsetBehind, Bulk
  <2>9. ThreadInHand' /\ Leave' /\ StillMissing'
    BY <2>1, <2>2 DEF ThreadInHand, Leave, StillMissing
  <2> QED BY <2>5, <2>6, <2>7, <2>8, <2>9 DEF Reading
<1> QED BY <1>3, <1>4

(* The record asked for                                                    *)
LEMMA FindRecordKeeps ==
    ASSUME Reading, FindRecord
    PROVE  Reading'
<1>0. pc = "find" /\ UNCHANGED <<env, files, reads, op, calls, done>>
  BY DEF FindRecord
<1>1. /\ UNCHANGED env /\ files' = files /\ toc' = toc /\ haveToc' = haveToc
      /\ pos' = pos /\ cur' = cur /\ op' = op /\ calls' = calls /\ done' = done
  BY <1>0 DEF reads
<1>2. /\ Located /\ EOF \in Nat /\ busy /\ ~Bulk /\ ~opt.stream /\ haveToc
      /\ toc = [i \in DOMAIN arc |-> i] /\ idx = 0 /\ pos \in 0 .. EOF
      /\ done \in Seq(Handed) /\ files \in [Paths -> FileStates]
  BY <1>0, Layout DEF Reading, Types, Turns, TocSoFar
<1>3. ASSUME NEW r, Return(r)
      PROVE  Reading'
  BY <1>1, <1>2, <1>3, BackKeeps
<1>4. CASE /\ op.rec \in DOMAIN arc /\ op.name # "getRecord" /\ rec' = op.rec
           /\ IF op.name = "extractThread"
                 THEN /\ pc' = "select"
                      /\ OpenThread(Threads(op.rec)[op.thr], op.rec, op.thr)
                      /\ UNCHANGED loop
                 ELSE /\ pc' = "threads"
                      /\ BeginThreads(op.rec, 0)
                      /\ UNCHANGED th
           /\ UNCHANGED <<left, mark, dest, granted, busy, result>>
  <2>1. /\ rec' \in 0 .. Len(arc) /\ rec' # 0 /\ rec' = op.rec /\ Len(Threads(op.rec)) \in Nat
        /\ DOMAIN Threads(op.rec) = 1 .. Len(Threads(op.rec))
        /\ Threads(op.rec) \in Seq(Thread) /\ op.rec \in DOMAIN arc /\ op.rec \in Nat
    BY <1>2, <1>4, ArcTypes, ThreadsFacts
  <2>2. /\ idx' = 0 /\ needs' \subseteq {"data", "rsrc"}
        /\ op.name # "extractThread" => needs' = Wanting(op.rec, 0)
    <3>1. CASE op.name = "extractThread"
      <4>1. needs \subseteq {"data", "rsrc"}
        BY DEF Reading, Types
      <4> QED BY <1>2, <1>4, <3>1, <4>1 DEF loop
    <3>2. CASE op.name # "extractThread"
      <4>1. idx' = 0 /\ needs' = {"data"} \cup (IF arc[op.rec].ext THEN {"rsrc"} ELSE {})
        BY <1>4, <3>2 DEF BeginThreads
      <4> QED BY <1>2, <2>1, <4>1, WantingSteps
    <3> QED BY <3>1, <3>2
  <2>3. /\ th' \in InHand
        /\ op.name = "extractThread" =>
              /\ th'.own /\ th'.thr = op.thr /\ th'.thr # 0
              /\ th'.thr \in DOMAIN Threads(op.rec)
              /\ th'.id = Threads(op.rec)[op.thr].id
              /\ th'.len = Threads(op.rec)[op.thr].len
              /\ th'.at = Start(op.rec, op.thr)
    <3>1. CASE op.name = "extractThread"
      <4> DEFINE t == Threads(op.rec)[op.thr]
      <4>1. op.thr \in 1 .. Len(Threads(op.rec)) /\ op.thr # 0 /\ op.thr \in Nat
        BY <2>1, <3>1 DEF Reading, Turns
      <4>2. t \in Thread
        BY <2>1, <4>1, ElementOfSeq
      <4>3. Start(op.rec, op.thr) \in Nat
        <5>1. Start(op.rec, op.thr) \in 0 .. EOF
          BY <1>2, <2>1, <4>1, Layout
        <5> QED BY <5>1
      <4>4. OpenThread(t, op.rec, op.thr)
        BY <1>4, <3>1
      <4> HIDE DEF t
      <4>5. th' = [id |-> t.id, len |-> t.len, bad |-> t.bad, thr |-> op.thr,
                   at |-> Start(op.rec, op.thr), own |-> TRUE]
        BY <4>1, <4>4, Zenon DEF OpenThread
      <4>6. /\ th' \in InHand /\ th'.own /\ th'.thr = op.thr /\ th'.id = t.id
            /\ th'.len = t.len /\ th'.at = Start(op.rec, op.thr)
        BY <4>1, <4>2, <4>3, <4>5 DEF InHand, Thread
      <4> QED BY <2>1, <4>1, <4>6 DEF t
    <3>2. CASE op.name # "extractThread"
      BY <1>4, <3>2 DEF Reading, Types
    <3> QED BY <3>1, <3>2
  <2>4. /\ left' = left /\ mark' = mark /\ dest' = dest /\ granted' = granted /\ busy' = busy
        /\ pc' = IF op.name = "extractThread" THEN "select" ELSE "threads"
    BY <1>4
  <2>5. pc' \in Pcs /\ pc' \in AtThreads /\ pc' \notin {"idle", "next", "show", "find", "final"}
    BY <2>4 DEF Pcs, AtThreads, Asking
  <2>6. Types'
    BY <1>1, <2>1, <2>2, <2>3, <2>4, <2>5, Fixed DEF Reading, Types
  <2>7. Turns'
    <3>1. op.name \in {"extractRecord", "testRecord", "extractThread"}
      BY <1>2, <1>4 DEF Reading, Types, Turns, Op, Bulk, BulkCalls, SingleCalls
    <3> QED BY <1>0, <1>1, <1>2, <2>1, <2>4, <2>5, <3>1, Fixed DEF Reading, Turns, Bulk
  <2>8. TocSoFar'
    BY <1>1, <1>2, Fixed DEF TocSoFar
  <2>9. WalkInOrder' /\ StreamPlace' /\ FilePlace' /\ OffsetBehind'
    BY <1>1, <1>2, <2>5, Fixed DEF WalkInOrder, StreamPlace, FilePlace, OffsetBehind, Bulk
  <2>10. ThreadInHand'
    <3>1. CASE op.name = "extractThread"
      BY <1>1, <2>1, <2>3, <3>1, Fixed DEF ThreadInHand
    <3>2. CASE op.name # "extractThread"
      BY <2>4, <3>2 DEF ThreadInHand, Asking
    <3> QED BY <3>1, <3>2
  <2>11. StillMissing'
    BY <1>1, <2>1, <2>2, Fixed DEF StillMissing
  <2>12. Leave'
    BY <2>4 DEF Leave, Asking
  <2> QED BY <2>6, <2>7, <2>8, <2>9, <2>10, <2>11, <2>12 DEF Reading
<1>5. (\E n \in DOMAIN toc : toc[n] = op.rec) => op.rec \in DOMAIN arc
  BY <1>2
<1> QED BY <1>3, <1>4, <1>5 DEF FindRecord

(* What a call does with a record is one of three things.                  *)
LEMMA AfterRecordIs ==
    /\ op.name = "contents" => AfterRecord = "show"
    /\ op.name \in {"extract", "test"} => AfterRecord = "threads"
    /\ op.name \notin {"contents", "extract", "test"} => AfterRecord = "next"
<1>1. op.name = "contents" => AfterRecord = "show"
  BY DEF AfterRecord
<1>2. op.name \in {"extract", "test"} => AfterRecord = "threads"
  BY DEF AfterRecord
<1>3. op.name \notin {"contents", "extract", "test"} => AfterRecord = "next"
  BY DEF AfterRecord
<1> QED BY <1>1, <1>2, <1>3

(* The next record of the table of contents                                *)
LEMMA NextFromTocKeeps ==
    ASSUME Reading, NextFromToc
    PROVE  Reading'
<1>0. /\ pc = "next" /\ left > 0 /\ haveToc /\ left' = left - 1
      /\ rec' = toc[Len(arc) - left + 1] /\ BeginThreads(rec', 0) /\ pc' = AfterRecord
      /\ UNCHANGED env /\ files' = files /\ toc' = toc /\ haveToc' = haveToc
      /\ pos' = pos /\ cur' = cur /\ mark' = mark /\ op' = op /\ calls' = calls /\ busy' = busy
      /\ th' = th /\ dest' = dest /\ granted' = granted /\ done' = done
  BY DEF NextFromToc, reads, out, api
<1>1. /\ Located /\ busy /\ Bulk /\ ~opt.stream /\ toc = [i \in DOMAIN arc |-> i]
      /\ op.from = 1 /\ op.name \in BulkCalls /\ left \in 0 .. Len(arc)
      /\ Len(arc) \in Nat /\ DOMAIN arc = 1 .. Len(arc)
  BY <1>0, ArcTypes DEF Reading, Types, Turns, TocSoFar, Bulk
<1>2. rec' = Len(arc) - left + 1 /\ rec' \in DOMAIN arc /\ rec' # 0 /\ rec' \in 0 .. Len(arc)
  <2>1. Len(arc) - left + 1 \in DOMAIN arc /\ Len(arc) - left + 1 # 0
    BY <1>0, <1>1
  <2> QED BY <1>0, <1>1, <2>1
<1>3. idx' = 0 /\ needs' = Wanting(rec', 0) /\ needs' \subseteq {"data", "rsrc"}
  <2>1. idx' = 0 /\ needs' = {"data"} \cup (IF arc[rec'].ext THEN {"rsrc"} ELSE {})
    BY <1>0 DEF BeginThreads
  <2>2. \A i \in DOMAIN arc :
           Wanting(i, 0) = {"data"} \cup (IF arc[i].ext THEN {"rsrc"} ELSE {})
    BY <1>1, WantingSteps
  <2> QED BY <1>2, <2>1, <2>2
<1>4. /\ pc' \in {"show", "threads"} /\ pc' \in Pcs /\ pc' \notin Asking
      /\ (pc' = "show" => op.name = "contents") /\ (pc' = "threads" => op.name # "contents")
      /\ op.name # "none" /\ op.name # "extractThread" /\ op.name # "getRecord"
  BY <1>0, <1>1, AfterRecordIs DEF BulkCalls, Pcs, Asking
<1>5. Types'
  <2>1. Len(Threads(rec')) \in Nat
    BY <1>1, <1>2, ThreadsFacts
  <2>2. left' \in 0 .. Len(arc)
    BY <1>0, <1>1
  <2> QED BY <1>0, <1>1, <1>2, <1>3, <1>4, <2>1, <2>2, Fixed DEF Reading, Types
<1>6. Turns'
  BY <1>0, <1>1, <1>2, <1>4, Fixed DEF Reading, Turns, Bulk, AtThreads
<1>7. TocSoFar' /\ FilePlace' /\ StreamPlace' /\ OffsetBehind'
  BY <1>0, <1>1, Fixed DEF TocSoFar, FilePlace, StreamPlace, OffsetBehind
<1>8. WalkInOrder'
  <2>1. rec' = ReadLast' /\ left' < Len(arc)
    <3>1. ReadLast' = op.from - 1 + Len(arc) - (left - 1)
      BY <1>0, Fixed DEF ReadLast
    <3> QED BY <1>0, <1>1, <1>2, <3>1
  <2> QED BY <1>0, <1>1, <2>1, Fixed DEF WalkInOrder
<1>9. ThreadInHand' /\ Leave'
  BY <1>4 DEF ThreadInHand, Leave, Asking
<1>10. StillMissing'
  BY <1>0, <1>3, Fixed DEF StillMissing
<1> QED BY <1>5, <1>6, <1>7, <1>8, <1>9, <1>10 DEF Reading

(* The header that is read is that of the next record.                     *)
LEMMA HeaderRead ==
    ASSUME Reading, pc = "next", left > 0, ~haveToc, HeaderHere
    PROVE  /\ disk[pos + 1].rec \in DOMAIN arc /\ pos = Start(disk[pos + 1].rec, 0)
           /\ pos \in Nat /\ EOF \in Nat /\ cur \in Nat /\ cur <= pos
           /\ ~opt.stream => cur = pos
           /\ InStep => disk[pos + 1].rec = op.from - 1 + Len(arc) - (left - 1)
<1> DEFINE i == disk[pos + 1].rec
<1>1. /\ Located /\ pos \in 0 .. EOF /\ EOF \in Nat /\ cur \in 0 .. EOF /\ busy
      /\ left \in 0 .. Len(arc) /\ Len(arc) \in Nat /\ rec \in 0 .. Len(arc)
      /\ DOMAIN arc = 1 .. Len(arc) /\ op.from \in Nat
  BY Layout, ArcTypes DEF Reading, Types, Turns, Op
<1>2. pos + 1 \in 1 .. EOF /\ disk[pos + 1].thr = 0 /\ pos + 1 \in pos + 1 .. EOF
  BY <1>1 DEF HeaderHere
<1>3. i \in DOMAIN arc /\ pos + 1 = Start(i, 0) + 1
  BY <1>1, <1>2, Layout
<1>4. pos = Start(i, 0)
  <2>1. Start(i, 0) \in 0 .. EOF
    BY <1>1, <1>3, Layout
  <2> HIDE DEF i
  <2> QED BY <1>1, <1>3, <2>1
<1>5. ~opt.stream => cur = pos
  BY <1>1 DEF Reading, FilePlace
<1>6. cur <= pos
  <2>1. CASE opt.stream
    <3>1. cur < pos + 1
      BY <1>2, <2>1 DEF Reading, OffsetBehind
    <3> QED BY <1>1, <3>1
  <2>2. CASE ~opt.stream
    BY <1>1, <1>5, <2>2
  <2> QED BY <2>1, <2>2
<1>7. ASSUME InStep
      PROVE  i = op.from - 1 + Len(arc) - (left - 1)
  <2>1. rec = IF left = Len(arc) THEN 0 ELSE op.from - 1 + Len(arc) - left
    BY <1>1, <1>7 DEF Reading, WalkInOrder, ReadLast
  <2>2. CASE rec = 0
    <3>1. i = op.from
      <4>1. CASE opt.stream
        BY <1>1, <1>7, <2>2, <4>1 DEF Reading, StreamPlace
      <4>2. CASE ~opt.stream
        <5>1. pos = 0 /\ op.from = 1
          BY <1>1, <2>2, <4>2 DEF Reading, FilePlace, Turns
        <5>2. 1 \in DOMAIN arc
          BY <1>1, <1>3
        <5>3. disk[Start(1, 0) + 1] = [rec |-> 1, thr |-> 0] /\ Start(1, 0) = 0
          BY <1>1, <5>2, Layout
        <5> QED BY <5>1, <5>3
      <4> QED BY <4>1, <4>2
    <3>2. left = Len(arc)
      <4>1. op.from >= 1
        BY <1>1 DEF Reading, Turns
      <4>2. left # Len(arc) => 0 = op.from - 1 + Len(arc) - left
        BY <2>1, <2>2
      <4>3. left \in Nat /\ left <= Len(arc)
        BY <1>1
      <4> DEFINE n == Len(arc)  o == op.from
      <4> HIDE DEF i, n, o
      <4>4. left = n
        <5>1. n \in Nat /\ o \in Nat /\ o >= 1 /\ left \in Nat /\ left <= n
              /\ (left # n => 0 = o - 1 + n - left)
          BY <1>1, <4>1, <4>2, <4>3 DEF n, o
        <5> QED BY <5>1
      <4> QED BY <4>4 DEF n
    <3> HIDE DEF i
    <3> QED BY <1>1, <3>1, <3>2
  <2>3. CASE rec # 0
    <3>1. pos = Start(rec + 1, 0)
      BY <1>1, <1>7, <2>3 DEF Reading, StreamPlace, FilePlace
    <3>2. rec + 1 \in DOMAIN arc
      <4>1. CASE rec = Len(arc)
        <5>1. pos = EOF
          BY <1>1, <3>1, <4>1, Layout
        <5> QED BY <1>1, <1>2, <5>1
      <4>2. CASE rec # Len(arc)
        <5> DEFINE n == Len(arc)
        <5>1. rec \in 0 .. n /\ n \in Nat /\ rec # n /\ DOMAIN arc = 1 .. n
          BY <1>1, <4>2
        <5> HIDE DEF n, i
        <5>2. rec + 1 \in 1 .. n
          BY <5>1
        <5> QED BY <5>1, <5>2
      <4> QED BY <4>1, <4>2
    <3>3. disk[pos + 1] = [rec |-> rec + 1, thr |-> 0]
      BY <1>1, <3>1, <3>2, Layout
    <3>4. i = rec + 1
      BY <3>3
    <3>5. left # Len(arc)
      BY <2>1, <2>3
    <3>6. rec = op.from - 1 + Len(arc) - left
      BY <2>1, <3>5
    <3> DEFINE n == Len(arc)  o == op.from
    <3>7. n \in Nat /\ o \in Nat /\ left \in Nat /\ rec = o - 1 + n - left
      BY <1>1, <3>6
    <3> HIDE DEF i, n, o
    <3>8. rec + 1 = o - 1 + n - (left - 1)
      BY <3>7
    <3> QED BY <3>4, <3>8 DEF n, o
  <2> QED BY <2>2, <2>3
<1> QED BY <1>1, <1>3, <1>4, <1>5, <1>6, <1>7

(* A record's header and threads, or the first of them, are passed over.   *)
LEMMA NextFromFileKeeps ==
    ASSUME Reading, NextFromFile
    PROVE  Reading'
<1> DEFINE i    == disk[pos + 1].rec
           part == opt.stream /\ op.name \in {"extract", "test"}
           upTo == IF part THEN FilenameIdx(i) ELSE 0
           stop == IF part THEN Start(i, upTo + 1) ELSE Start(i + 1, 0)
<1>0. /\ pc = "next" /\ left > 0 /\ ~haveToc /\ HeaderHere
      /\ left' = left - 1 /\ rec' = i /\ pos' = stop /\ mark' = stop
      /\ cur' = cur + 1 + (IF part /\ upTo = 0 THEN 0 ELSE TotalLen(i))
      /\ toc' = (IF opt.stream THEN toc ELSE Append(toc, i))
      /\ BeginThreads(i, upTo) /\ pc' = AfterRecord
      /\ UNCHANGED env /\ files' = files /\ haveToc' = haveToc
      /\ op' = op /\ calls' = calls /\ busy' = busy
      /\ th' = th /\ dest' = dest /\ granted' = granted /\ done' = done
  BY DEF NextFromFile, HeaderReadable, out, api
<1>1. /\ i \in DOMAIN arc /\ pos = Start(i, 0)
      /\ pos \in Nat /\ EOF \in Nat /\ cur \in Nat /\ cur <= pos
      /\ (~opt.stream => cur = pos)
      /\ (InStep => i = op.from - 1 + Len(arc) - (left - 1))
  BY <1>0, HeaderRead
<1> HIDE DEF i
<1>2. /\ Located /\ busy /\ op \in Op /\ op.name # "none" /\ op.from \in Nat
      /\ left \in 0 .. Len(arc) /\ Len(arc) \in Nat /\ DOMAIN arc = 1 .. Len(arc)
      /\ (~Bulk => ~opt.stream) /\ (~opt.stream => op.from = 1)
  BY <1>0, ArcTypes DEF Reading, Types, Turns, Op
<1>3. /\ upTo \in 0 .. Count(i) /\ Count(i) \in Nat /\ i \in Nat /\ Len(Threads(i)) \in Nat
      /\ Count(i) <= Len(Threads(i))
  <2>1. FilenameIdx(i) \in 0 .. Count(i)
    BY <1>1, <1>2, FilenameFacts
  <2>2. Count(i) \in Nat /\ i \in Nat /\ Len(Threads(i)) \in Nat /\ Count(i) <= Len(Threads(i))
    BY <1>1, <1>2, ThreadLayout
  <2> QED BY <2>1, <2>2
<1>4. /\ Start(i, 1) = pos + 1 /\ Start(i + 1, 0) \in 0 .. EOF /\ Start(i, 1) <= Start(i + 1, 0)
      /\ stop \in 0 .. EOF /\ pos + 1 <= stop /\ stop <= Start(i + 1, 0)
      /\ (~part => stop = Start(i + 1, 0))
  <2>1. /\ Start(i, 1) = pos + 1 /\ Start(i + 1, 0) \in 0 .. EOF
        /\ \A k \in Nat : Start(i, k) \in 0 .. EOF /\ Start(i, k) <= Start(i + 1, 0)
    BY <1>1, <1>2, Layout
  <2>2. \A n \in 0 .. Count(i) : n + 1 \in Nat /\ Start(i, n + 1) >= Start(i, 1)
    <3> DEFINE T == {n \in 0 .. Count(i) : Start(i, n + 1) >= Start(i, 1)}
    <3>1. 0 \in T
      BY <1>1, <1>3, <2>1
    <3>2. ASSUME NEW n \in 0 .. Count(i) - 1, n \in T
          PROVE  n + 1 \in T
      <4>1. n + 1 \in 1 .. Count(i) /\ n + 1 \in Nat /\ (n + 1) + 1 \in Nat
        BY <1>3, <3>2
      <4>2. Start(i, (n + 1) + 1) = Start(i, n + 1) + LenOf(i, n + 1) /\ LenOf(i, n + 1) \in Nat
        BY <1>1, <1>2, <4>1, Layout, ArcTypes
      <4>3. Start(i, n + 1) \in Nat /\ Start(i, 1) \in Nat
        BY <1>1, <2>1, <4>1
      <4>4. Start(i, (n + 1) + 1) >= Start(i, 1)
        BY <3>2, <4>2, <4>3
      <4> QED BY <1>3, <4>1, <4>4
    <3> HIDE DEF T
    <3>3. 0 .. Count(i) \subseteq T
      BY <1>3, <3>1, <3>2, UpTo
    <3> QED BY <1>3, <3>3 DEF T
  <2>3. Start(i, 1) <= Start(i + 1, 0)
    BY <2>1
  <2>4. CASE part
    <3>1. stop = Start(i, upTo + 1)
      BY <2>4
    <3>2. upTo + 1 \in Nat /\ Start(i, upTo + 1) >= Start(i, 1)
      BY <1>3, <2>2
    <3> HIDE DEF stop, upTo, part
    <3> QED BY <1>1, <2>1, <2>3, <2>4, <3>1, <3>2
  <2>5. CASE ~part
    <3>1. stop = Start(i + 1, 0)
      BY <2>5
    <3> HIDE DEF stop, upTo, part
    <3> QED BY <1>1, <2>1, <2>3, <2>5, <3>1
  <2> QED BY <2>1, <2>3, <2>4, <2>5
<1>5. /\ cur' \in 0 .. EOF /\ cur' <= Start(i + 1, 0)
      /\ (~opt.stream => cur' = stop)
  <2>1. TotalLen(i) = Start(i + 1, 0) - (pos + 1)
    BY <1>4 DEF TotalLen
  <2>2. CASE part /\ upTo = 0
    <3>1. cur' = cur + 1 + 0 /\ opt.stream
      BY <1>0, <2>2
    <3> HIDE DEF stop, upTo, part
    <3> QED BY <1>1, <1>4, <3>1
  <2>3. CASE ~(part /\ upTo = 0)
    <3>1. cur' = cur + 1 + TotalLen(i) /\ (part => opt.stream)
      BY <1>0, <2>3
    <3>2. stop = Start(i + 1, 0) \/ opt.stream
      BY <1>4 DEF part
    <3> DEFINE e == Start(i + 1, 0)
    <3>3. /\ e \in Nat /\ e <= EOF /\ pos + 1 <= e /\ cur' = cur + 1 + (e - (pos + 1))
          /\ (~opt.stream => stop = e)
      <4>1. e \in Nat /\ e <= EOF /\ pos + 1 <= e
        BY <1>1, <1>4
      <4>2. TotalLen(i) = e - (pos + 1) /\ cur' = cur + 1 + TotalLen(i)
        BY <2>1, <3>1
      <4>3. ~opt.stream => stop = e
        BY <3>2
      <4> HIDE DEF e, stop, upTo, part
      <4> QED BY <4>1, <4>2, <4>3
    <3> HIDE DEF stop, upTo, part, e
    <3>4. cur' \in 0 .. EOF /\ cur' <= e /\ (cur = pos => cur' = e)
      BY <1>1, <3>3
    <3>5. ~opt.stream => cur' = stop
      BY <1>1, <3>3, <3>4
    <3> QED BY <3>4, <3>5 DEF e
  <2> QED BY <2>2, <2>3
<1>6. /\ idx' = upTo /\ needs' = Wanting(i, upTo) /\ needs' \subseteq {"data", "rsrc"}
  <2>1. idx' = upTo /\ needs' = {"data"} \cup (IF arc[i].ext THEN {"rsrc"} ELSE {})
    BY <1>0 DEF BeginThreads
  <2>2. Wanting(i, upTo) = Wanting(i, 0)
    BY <1>1, <1>2, WantingSteps
  <2>3. Wanting(i, 0) = {"data"} \cup (IF arc[i].ext THEN {"rsrc"} ELSE {})
    BY <1>1, <1>2, WantingSteps
  <2> QED BY <2>1, <2>2, <2>3
<1>7. /\ pc' \in {"show", "threads", "next"} /\ pc' \in Pcs /\ pc' \notin Asking
      /\ (pc' = "show" <=> op.name = "contents")
      /\ (pc' = "threads" <=> op.name \in {"extract", "test"})
      /\ (pc' = "next" <=> ~Bulk)
  BY <1>0, AfterRecordIs DEF BulkCalls, Bulk, Pcs, Asking
<1>8. part <=> opt.stream /\ pc' = "threads"
  BY <1>7
<1>8a. ~Bulk => upTo = 0
  BY <1>2
<1>9. rec' \in 0 .. Len(arc) /\ rec' # 0 /\ rec' = i
  BY <1>0, <1>1, <1>2
<1>10. /\ toc' \in Seq(DOMAIN arc)
       /\ ~opt.stream => toc' = [j \in 1 .. Len(arc) - left' |-> j]
       /\ opt.stream => toc' = <<>>
  <2>1. toc = IF ~opt.stream THEN [j \in 1 .. Len(arc) - left |-> j] ELSE <<>>
    BY <1>0, <1>2 DEF Reading, TocSoFar
  <2>2. CASE opt.stream
    BY <1>0, <2>1, <2>2
  <2>3. CASE ~opt.stream
    <3> DEFINE n == Len(arc) - left
    <3>1. n \in Nat /\ Len(arc) - left' = n + 1
      BY <1>0, <1>2
    <3>2. InStep
      BY <2>3 DEF InStep
    <3>3. i = n + 1
      BY <1>1, <1>2, <2>3, <3>1, <3>2
    <3>4. toc \in Seq(DOMAIN arc)
      BY DEF Reading, Types
    <3>5. toc = [j \in 1 .. n |-> j] /\ toc' = Append(toc, i)
      BY <1>0, <2>1, <2>3
    <3> HIDE DEF n
    <3>6. Len(toc) = n
      BY <3>1, <3>5
    <3>7. toc' \in Seq(DOMAIN arc)
      BY <1>1, <3>4, <3>5, AppendProperties
    <3>8. toc' = [j \in 1 .. n + 1 |-> j]
      BY <3>1, <3>3, <3>5, <3>6
    <3> QED BY <2>3, <3>1, <3>7, <3>8
  <2> QED BY <2>2, <2>3
<1>11. left' \in 0 .. Len(arc) /\ left' < Len(arc) /\ pos' = stop /\ mark' = stop
  BY <1>0, <1>2
<1> HIDE DEF stop, part
<1>12. Types'
  <2>1. idx' \in Nat /\ idx' <= Len(Threads(i))
    <3> HIDE DEF upTo
    <3> QED BY <1>3, <1>6
  <2> HIDE DEF upTo
  <2> QED BY <1>0, <1>2, <1>4, <1>5, <1>6, <1>7, <1>9, <1>10, <1>11, <2>1, Fixed
     DEF Reading, Types
<1>13. Turns'
  <2>1. pc' \in AtThreads => op.name \in {"extract", "test"}
    BY <1>7 DEF AtThreads
  <2>2. pc' \in AtThreads => Bulk
    BY <2>1 DEF Bulk, BulkCalls
  <2>3. ~Bulk => idx' = 0
    BY <1>6, <1>8a
  <2> HIDE DEF upTo
  <2> QED BY <1>0, <1>2, <1>7, <1>9, <2>1, <2>2, <2>3, Fixed DEF Reading, Turns, Bulk
<1>14. TocSoFar'
  BY <1>0, <1>2, <1>10, Fixed DEF TocSoFar
<1>15. WalkInOrder'
  <2>1. InStep => rec' = ReadLast'
    <3>1. ReadLast' = op.from - 1 + Len(arc) - (left - 1)
      BY <1>0, Fixed DEF ReadLast
    <3> QED BY <1>1, <1>9, <3>1
  <2>2. left' # Len(arc) /\ left' < Len(arc)
    BY <1>2, <1>11
  <2>3. arc' = arc /\ InStep' = InStep
    BY <1>0, Fixed
  <2> QED BY <2>1, <2>2, <2>3, Zenon DEF WalkInOrder
<1>16. StreamPlace'
  <2>1. opt.stream => (IF pc' = "threads" THEN pos' = Start(i, upTo + 1)
                       ELSE pos' = Start(i + 1, 0))
    BY <1>0, <1>8 DEF stop
  <2> HIDE DEF upTo
  <2> QED BY <1>0, <1>6, <1>7, <1>9, <2>1, Fixed DEF StreamPlace
<1>17. FilePlace'
  <2>1. ~opt.stream => stop = Start(i + 1, 0)
    BY <1>4, <1>8
  <2> HIDE DEF upTo
  <2> QED BY <1>0, <1>5, <1>9, <1>11, <2>1, Fixed DEF FilePlace
<1>18. OffsetBehind'
  <2>1. ASSUME NEW q \in stop + 1 .. EOF, disk[q].thr = 0
        PROVE  cur' < q
    <3> DEFINE u == disk[q].rec
    <3>1. q \in 1 .. EOF
      BY <1>4, <1>1
    <3>2. u \in DOMAIN arc /\ q = Start(u, 0) + 1
      BY <1>2, <2>1, <3>1, Layout
    <3> HIDE DEF u
    <3>3. Start(u, 0) \in 0 .. EOF /\ u \in Nat
      BY <1>2, <3>2, Layout, ArcTypes
    <3>4. u > i
      <4>1. CASE u <= i
        <5>1. Start(u, 0) <= Start(i, 0)
          BY <1>2, <1>3, <3>3, <4>1, StartsGrow
        <5> QED BY <1>1, <1>4, <3>2, <3>3, <5>1
      <4> QED BY <1>3, <3>3, <4>1
    <3>5. Start(i + 1, 0) <= Start(u, 0)
      <4>1. i + 1 \in Nat /\ i + 1 <= u
        BY <1>3, <3>3, <3>4
      <4> QED BY <1>2, <3>3, <4>1, StartsGrow
    <3> QED BY <1>4, <1>5, <3>2, <3>3, <3>5
  <2> QED BY <1>11, <2>1, Fixed, <1>0 DEF OffsetBehind
<1>19. ThreadInHand' /\ Leave'
  BY <1>7 DEF ThreadInHand, Leave, Asking
<1>20. StillMissing'
  <2> HIDE DEF upTo
  <2> QED BY <1>0, <1>6, <1>9, Fixed DEF StillMissing
<1> QED BY <1>12, <1>13, <1>14, <1>15, <1>16, <1>17, <1>18, <1>19, <1>20 DEF Reading

-----------------------------------------------------------------------------
(* One step per action: the calls *)

(* What is known between calls                                             *)
LEMMA Between ==
    ASSUME Reading, ~busy
    PROVE  /\ Located /\ EOF \in Nat /\ Len(arc) \in Nat /\ DOMAIN arc = 1 .. Len(arc)
           /\ pos \in 0 .. EOF /\ cur \in 0 .. EOF
           /\ left = 0 /\ rec = 0 /\ mark = 0 /\ idx = 0 /\ needs = {}
           /\ th = NoThread /\ dest = "sink" /\ granted = FALSE
           /\ haveToc \in BOOLEAN /\ opt.stream \in BOOLEAN
           /\ haveToc => ~opt.stream /\ toc = [i \in DOMAIN arc |-> i]
           /\ ~haveToc => toc = <<>>
<1>1. opt.stream \in BOOLEAN
  <2>1. opt \in Setting
    BY ExtractAssumption DEF Reading, Types, Located
  <2> QED BY <2>1 DEF Setting
<1> QED BY <1>1, Layout, ArcTypes DEF Reading, Types, Turns, TocSoFar

(* The walk of a file begins at its start, a stream where it stands.       *)
LEMMA WalkBegins ==
    ASSUME Reading, ~busy, WalkPrepare
    PROVE  /\ pos' \in 0 .. EOF /\ cur' \in 0 .. EOF
           /\ opt.stream \/ haveToc => pos' = pos /\ cur' = cur
           /\ ~opt.stream /\ ~haveToc => pos' = 0 /\ cur' = 0
<1>1. EOF \in Nat /\ pos \in 0 .. EOF /\ cur \in 0 .. EOF
  BY Between
<1> QED BY <1>1 DEF WalkPrepare

(* The record a call can begin with                                        *)
LEMMA FirstIs ==
    ASSUME Reading, ~busy
    PROVE  /\ FirstRecord \in Nat /\ FirstRecord >= 1 /\ FirstRecord <= Len(arc) + 1
           /\ ~opt.stream => FirstRecord = 1
           /\ opt.stream /\ HeaderHere => FirstRecord = disk[pos + 1].rec
<1>1. Len(arc) \in Nat /\ DOMAIN arc = 1 .. Len(arc) /\ EOF \in Nat /\ pos \in 0 .. EOF /\ Located
  BY Between
<1>2. CASE ~opt.stream
  BY <1>1, <1>2 DEF FirstRecord
<1>3. CASE opt.stream /\ HeaderHere
  <2>1. pos + 1 \in 1 .. EOF
    BY <1>1, <1>3 DEF HeaderHere
  <2>2. disk[pos + 1].rec \in DOMAIN arc
    BY <1>1, <2>1, Layout
  <2>3. FirstRecord = disk[pos + 1].rec
    BY <1>3 DEF FirstRecord
  <2> HIDE DEF FirstRecord
  <2> QED BY <1>1, <1>3, <2>2, <2>3
<1>4. CASE opt.stream /\ ~HeaderHere
  <2>1. FirstRecord = Len(arc) + 1
    BY <1>4 DEF FirstRecord
  <2> QED BY <1>1, <1>4, <2>1
<1> QED BY <1>2, <1>3, <1>4

(* NuContents, NuExtract, NuTest                                           *)
LEMMA CallBulkKeeps ==
    ASSUME Reading, NEW name \in BulkCalls, CallBulk(name)
    PROVE  Reading'
<1>0. /\ ~busy /\ calls < MaxCalls
      /\ op' = [NoOp EXCEPT !.name = name, !.from = FirstRecord]
      /\ busy' = TRUE /\ calls' = calls + 1 /\ WalkPrepare /\ left' = Len(arc)
      /\ pc' = "next" /\ done' = <<>>
      /\ UNCHANGED env /\ files' = files /\ toc' = toc /\ haveToc' = haveToc
      /\ rec' = rec /\ mark' = mark /\ idx' = idx /\ needs' = needs
      /\ th' = th /\ dest' = dest /\ granted' = granted
  BY DEF CallBulk, Validate, loop, out
<1>1. /\ Located /\ EOF \in Nat /\ Len(arc) \in Nat /\ DOMAIN arc = 1 .. Len(arc)
      /\ pos \in 0 .. EOF
      /\ left = 0 /\ rec = 0 /\ mark = 0 /\ idx = 0 /\ needs = {}
      /\ haveToc \in BOOLEAN /\ opt.stream \in BOOLEAN
      /\ (haveToc => ~opt.stream /\ toc = [i \in DOMAIN arc |-> i])
      /\ (~haveToc => toc = <<>>)
  BY <1>0, Between
<1>2. /\ pos' \in 0 .. EOF /\ cur' \in 0 .. EOF
      /\ (opt.stream \/ haveToc => pos' = pos /\ cur' = cur)
      /\ (~opt.stream /\ ~haveToc => pos' = 0 /\ cur' = 0)
  BY <1>0, WalkBegins
<1>3. /\ FirstRecord \in Nat /\ FirstRecord >= 1 /\ FirstRecord <= Len(arc) + 1
      /\ (~opt.stream => FirstRecord = 1)
      /\ (opt.stream /\ HeaderHere => FirstRecord = disk[pos + 1].rec)
  BY <1>0, FirstIs
<1>4. /\ op'.name = name /\ op'.from = FirstRecord /\ op'.rec = 0 /\ op' \in Op
      /\ op'.name # "none" /\ op'.name # "extractThread" /\ op'.name \in BulkCalls
  BY <1>0, <1>3 DEF NoOp, Op, BulkCalls
<1>5. pc' \in Pcs /\ pc' \notin AtThreads /\ pc' \notin Asking
  BY <1>0 DEF Pcs, AtThreads, Asking
<1>6. Types'
  <2>1. calls' \in 0 .. MaxCalls
    BY <1>0, ExtractAssumption DEF Reading, Types
  <2>2. done' \in Seq(Handed) /\ 0 <= Len(arc) + 1 /\ left' \in 0 .. Len(arc)
    BY <1>0, <1>1
  <2> QED BY <1>0, <1>1, <1>2, <1>3, <1>4, <1>5, <2>1, <2>2, Fixed DEF Reading, Types
<1>7. Turns'
  BY <1>0, <1>1, <1>3, <1>4, <1>5, Fixed DEF Turns, Bulk
<1>8. TocSoFar'
  <2>1. CASE haveToc
    BY <1>0, <1>1, <2>1, Fixed DEF TocSoFar
  <2>2. CASE ~haveToc
    <3>1. [i \in 1 .. Len(arc) - left' |-> i] = <<>>
      BY <1>0, <1>1
    <3> QED BY <1>0, <1>1, <2>2, <3>1, Fixed DEF TocSoFar
  <2> QED BY <2>1, <2>2
<1>9. WalkInOrder'
  BY <1>0, <1>1, Fixed DEF WalkInOrder
<1>10. StreamPlace'
  <2>1. opt.stream => (HeaderHere' = HeaderHere /\ pos' = pos)
    BY <1>0, <1>2, Fixed DEF HeaderHere
  <2> QED BY <1>0, <1>1, <1>3, <1>4, <1>5, <2>1, Fixed DEF StreamPlace
<1>11. FilePlace'
  BY <1>0, <1>1, <1>2, Fixed DEF FilePlace
<1>12. OffsetBehind'
  <2>1. opt.stream => pos' = pos /\ cur' = cur
    BY <1>2
  <2> QED BY <1>0, <2>1, Fixed DEF Reading, OffsetBehind
<1>13. ThreadInHand' /\ Leave' /\ StillMissing'
  BY <1>0, <1>5 DEF ThreadInHand, Leave, StillMissing
<1> QED BY <1>6, <1>7, <1>8, <1>9, <1>10, <1>11, <1>12, <1>13 DEF Reading

(* NuGetRecord, NuExtractRecord, NuTestRecord, NuExtractThread             *)
LEMMA CallSingleKeeps ==
    ASSUME Reading, NEW name \in SingleCalls, NEW i \in 1 .. Len(arc) + 1, NEW k \in Nat,
           name = "extractThread" => i \in DOMAIN arc /\ k \in DOMAIN Threads(i),
           CallSingle(name, i, k)
    PROVE  Reading'
<1>0. /\ ~busy /\ calls < MaxCalls
      /\ op' = [name |-> name, rec |-> i, thr |-> k, from |-> 1]
      /\ calls' = calls + 1 /\ done' = <<>>
      /\ IF opt.stream
           THEN UNCHANGED <<reads, busy, pc, left>>
           ELSE /\ busy' = TRUE /\ WalkPrepare
                /\ left' = IF haveToc THEN 0 ELSE Len(arc)
                /\ pc' = IF haveToc THEN "find" ELSE "next"
                /\ UNCHANGED <<toc, haveToc>>
      /\ UNCHANGED env /\ files' = files
      /\ rec' = rec /\ mark' = mark /\ idx' = idx /\ needs' = needs
      /\ th' = th /\ dest' = dest /\ granted' = granted
  BY DEF CallSingle, Validate, loop, out
<1>1. /\ Located /\ EOF \in Nat /\ Len(arc) \in Nat /\ DOMAIN arc = 1 .. Len(arc)
      /\ pos \in 0 .. EOF /\ cur \in 0 .. EOF
      /\ left = 0 /\ rec = 0 /\ mark = 0 /\ idx = 0 /\ needs = {}
      /\ th = NoThread /\ dest = "sink" /\ granted = FALSE
      /\ haveToc \in BOOLEAN /\ opt.stream \in BOOLEAN
      /\ (haveToc => ~opt.stream /\ toc = [j \in DOMAIN arc |-> j])
      /\ (~haveToc => toc = <<>>)
  BY <1>0, Between
<1>2. /\ op'.name = name /\ op'.from = 1 /\ op'.rec = i /\ op'.thr = k /\ op' \in Op
      /\ op'.name # "none" /\ op'.name \notin BulkCalls
      /\ op'.rec <= Len(arc) + 1 /\ op'.from <= Len(arc) + 1
  BY <1>0, <1>1 DEF Op, BulkCalls, SingleCalls
<1>3. toc' = toc /\ haveToc' = haveToc
  BY <1>0 DEF reads
<1>4. calls' \in 0 .. MaxCalls /\ done' \in Seq(Handed)
  BY <1>0, ExtractAssumption DEF Reading, Types
<1>5. CASE opt.stream
  <2>1. /\ pos' = pos /\ cur' = cur /\ busy' = busy /\ pc' = pc /\ left' = left
    BY <1>0, <1>5 DEF reads
  <2>2. Types'
    BY <1>0, <1>1, <1>2, <1>3, <1>4, <2>1, Fixed DEF Reading, Types
  <2>3. pc = "idle" /\ pc' \notin AtThreads /\ pc' \notin Asking
    BY <1>0, <2>1 DEF Reading, Turns, AtThreads, Asking
  <2>4. Turns'
    BY <1>0, <1>1, <1>2, <2>1, <2>3, Fixed DEF Turns, Bulk
  <2>5. TocSoFar'
    BY <1>0, <1>1, <1>3, <2>1, Fixed DEF TocSoFar
  <2>6. WalkInOrder' /\ StreamPlace' /\ FilePlace'
    BY <1>0, <2>1 DEF WalkInOrder, StreamPlace, FilePlace
  <2>7. OffsetBehind'
    BY <1>0, <2>1, Fixed DEF Reading, OffsetBehind
  <2>8. ThreadInHand' /\ Leave' /\ StillMissing'
    BY <2>1, <2>3 DEF ThreadInHand, Leave, StillMissing, Asking
  <2> QED BY <2>2, <2>4, <2>5, <2>6, <2>7, <2>8 DEF Reading
<1>6. CASE ~opt.stream
  <2>1. /\ busy' = TRUE /\ WalkPrepare /\ left' = (IF haveToc THEN 0 ELSE Len(arc))
        /\ pc' = (IF haveToc THEN "find" ELSE "next")
    BY <1>0, <1>6
  <2>2. /\ pos' \in 0 .. EOF /\ cur' \in 0 .. EOF
        /\ (~haveToc => pos' = 0 /\ cur' = 0)
    BY <1>0, <1>6, <2>1, WalkBegins
  <2>3. pc' \in Pcs /\ pc' \notin AtThreads /\ pc' \notin Asking /\ left' \in 0 .. Len(arc)
    BY <1>1, <2>1 DEF Pcs, AtThreads, Asking
  <2>4. Types'
    BY <1>0, <1>1, <1>2, <1>3, <1>4, <2>1, <2>2, <2>3, Fixed DEF Reading, Types
  <2>5. Turns'
    BY <1>0, <1>1, <1>2, <1>3, <1>6, <2>1, <2>3, Fixed DEF Turns, Bulk
  <2>6. TocSoFar'
    <3>1. CASE haveToc
      BY <1>0, <1>1, <1>3, <3>1, Fixed DEF TocSoFar
    <3>2. CASE ~haveToc
      <4>1. [j \in 1 .. Len(arc) - left' |-> j] = <<>>
        BY <1>1, <2>1, <3>2
      <4> QED BY <1>0, <1>1, <1>3, <3>2, <4>1, Fixed DEF TocSoFar
    <3> QED BY <3>1, <3>2
  <2>7. WalkInOrder'
    BY <1>0, <1>1, <1>2, <1>3, <2>1, Fixed DEF WalkInOrder, Bulk
  <2>8. FilePlace'
    BY <1>0, <1>1, <1>3, <2>2, Fixed DEF FilePlace
  <2>9. StreamPlace' /\ OffsetBehind'
    BY <1>0, <1>6, Fixed DEF StreamPlace, OffsetBehind
  <2>10. ThreadInHand' /\ Leave' /\ StillMissing'
    BY <2>1, <2>3 DEF ThreadInHand, Leave, StillMissing
  <2> QED BY <2>4, <2>5, <2>6, <2>7, <2>8, <2>9, <2>10 DEF Reading
<1> QED BY <1>5, <1>6

(* The calls                                                               *)
LEMMA CallKeeps ==
    ASSUME Reading, Call
    PROVE  Reading'
<1>1. ASSUME NEW i \in 1 .. Len(arc) + 1, NEW k \in ThreadsOf(i),
             CallSingle("extractThread", i, k)
      PROVE  Reading'
  <2>1. i \in DOMAIN arc /\ k \in DOMAIN Threads(i)
    BY <1>1 DEF ThreadsOf
  <2>2. k \in Nat
    <3>1. DOMAIN Threads(i) = 1 .. Len(Threads(i))
      BY <2>1, ThreadsFacts DEF Reading, Types
    <3> QED BY <2>1, <3>1
  <2>3. "extractThread" \in SingleCalls
    BY DEF SingleCalls
  <2> QED BY <1>1, <2>1, <2>2, <2>3, CallSingleKeeps
<1>2. ASSUME NEW i \in 1 .. Len(arc) + 1, NEW name \in SingleCalls \ {"extractThread"},
             CallSingle(name, i, 0)
      PROVE  Reading'
  BY <1>2, CallSingleKeeps
<1> QED BY <1>1, <1>2, CallBulkKeeps DEF Call

-----------------------------------------------------------------------------
(* Every step keeps the invariant.                                         *)
LEMMA NextKeeps ==
    ASSUME Reading, [Next]_vars
    PROVE  Reading'
<1>1. CASE UNCHANGED vars
  <2>1. /\ UNCHANGED env /\ files' = files /\ toc' = toc /\ haveToc' = haveToc /\ pos' = pos
        /\ cur' = cur /\ left' = left /\ rec' = rec /\ mark' = mark /\ idx' = idx
        /\ needs' = needs /\ th' = th /\ dest' = dest /\ granted' = granted /\ busy' = busy
        /\ op' = op /\ calls' = calls /\ pc' = pc /\ done' = done
    BY <1>1 DEF vars, reads, walk, loop, out, api
  <2>2. Types'
    BY <2>1, Fixed DEF Reading, Types
  <2>3. Turns' /\ TocSoFar'
    BY <2>1, Fixed DEF Reading, Turns, TocSoFar, Bulk
  <2>4. WalkInOrder' /\ StreamPlace'
    BY <2>1, Fixed DEF Reading, WalkInOrder, StreamPlace, ReadLast, Bulk, HeaderHere
  <2>5. FilePlace' /\ OffsetBehind'
    BY <2>1, Fixed DEF Reading, FilePlace, OffsetBehind
  <2>6. ThreadInHand' /\ StillMissing'
    BY <2>1, Fixed DEF Reading, ThreadInHand, StillMissing
  <2>7. Leave'
    BY <2>1, Fixed DEF Reading, Leave, Testing, Exists
  <2> QED BY <2>2, <2>3, <2>4, <2>5, <2>6, <2>7 DEF Reading
<1>2. CASE Call
  BY <1>2, CallKeeps
<1>3. CASE Step
  BY <1>3, NextFromTocKeeps, NextFromFileKeeps, NextFailsKeeps, ShowKeeps, EndOfWalkKeeps,
     FindRecordKeeps, PassThreadKeeps, TakeThreadKeeps, MakeForkKeeps, EndOfRecordKeeps,
     SelectKeeps, ChoosePathKeeps, SendOpeningKeeps, CheckAgeKeeps, CheckExistsKeeps,
     OpenFileKeeps, ExpandNothingKeeps, ExpandKeeps, ExpandFailsKeeps, InterruptKeeps,
     FinishKeeps DEF Step
<1> QED BY <1>1, <1>2, <1>3 DEF Next

(* The invariant of the reading side                                       *)
THEOREM ReadingInvariance == Spec => []Reading
<1>1. Init => Reading
  BY InitReading
<1>2. Reading /\ [Next]_vars => Reading'
  BY NextKeeps
<1> QED BY <1>1, <1>2, PTL DEF Spec

(* Every variable has its type, in every archive.                          *)
THEOREM ExtractTypes == Spec => []ExtractTypeOK
<1>1. Reading => ExtractTypeOK
  <2> SUFFICES ASSUME Reading PROVE ExtractTypeOK
    OBVIOUS
  <2>1. /\ Located /\ Len(arc) \in Nat /\ DOMAIN arc = 1 .. Len(arc)
        /\ rec \in 0 .. Len(arc) /\ idx \in Nat
        /\ IF rec = 0 THEN idx = 0 ELSE idx <= Len(Threads(rec))
    BY ArcTypes DEF Reading, Types
  <2>2. idx <= Cardinality(ThreadsOf(rec))
    <3>1. CASE rec = 0
      <4>1. ThreadsOf(rec) = {}
        BY <2>1, <3>1 DEF ThreadsOf
      <4> QED BY <2>1, <3>1, <4>1, FS_EmptySet
    <3>2. CASE rec # 0
      <4>1. rec \in DOMAIN arc
        BY <2>1, <3>2
      <4>2. ThreadsOf(rec) = 1 .. Len(Threads(rec)) /\ Len(Threads(rec)) \in Nat
        BY <2>1, <4>1, ThreadsFacts DEF ThreadsOf
      <4>3. Cardinality(1 .. Len(Threads(rec))) = Len(Threads(rec))
        <5> DEFINE n == Len(Threads(rec))
        <5>1. n \in Nat  BY <4>2
        <5> HIDE DEF n
        <5>2. CASE n = 0
          <6>1. 1 .. n = {}
            BY <5>2
          <6> QED BY <5>2, <6>1, FS_EmptySet DEF n
        <5>3. CASE n # 0
          <6>1. Cardinality(1 .. n) = n - 1 + 1
            BY <5>1, <5>3, FS_Interval
          <6> QED BY <5>1, <6>1 DEF n
        <5> QED BY <5>2, <5>3
      <4> QED BY <2>1, <3>2, <4>2, <4>3
    <3> QED BY <3>1, <3>2
  <2>3. op.rec \in 0 .. Len(arc) + 1 /\ op.from \in 0 .. Len(arc) + 1
    BY <2>1 DEF Reading, Types, Op
  <2> QED BY <2>1, <2>2, <2>3 DEF Reading, Types, ExtractTypeOK, Located
<1> QED BY <1>1, ReadingInvariance, PTL

(* Between calls the table of contents is all of the archive in its order, *)
(* or there is none, whatever the calls before did and how they ended.     *)
THEOREM TocWholeOrNone == Spec => []TocOrNothing
<1>1. Reading => TocOrNothing
  BY DEF Reading, TocSoFar, TocOrNothing
<1> QED BY <1>1, ReadingInvariance, PTL

(* With MaskDataless the loop over the threads ends with nothing to make   *)
(* up.                                                                     *)
THEOREM NothingLeftToMakeUp == Spec => []NothingToMakeUp
<1>1. Reading => NothingToMakeUp
  <2> SUFFICES ASSUME Reading, pc = "threads", idx = Len(Threads(rec)), opt.mask
               PROVE  needs = {}
    BY DEF NothingToMakeUp
  <2>1. Located /\ rec \in DOMAIN arc /\ needs \subseteq Wanting(rec, idx)
    BY AtRecord
  <2> QED BY <2>1, AllSeen
<1> QED BY <1>1, ReadingInvariance, PTL

(* The archive file is where the next read takes it to be, always so in a  *)
(* file, and in a stream as long as the progress updater does not skip a   *)
(* thread when part of it has been read.                                   *)
THEOREM FileAligned == Spec => [](InStep => Aligned)
<1>1. Reading => (InStep => Aligned)
  <2> SUFFICES ASSUME Reading, InStep PROVE Aligned
    OBVIOUS
  <2>1. InStep
    OBVIOUS
  <2>2. ASSUME opt.stream, busy
        PROVE  /\ pc = "next" /\ rec # 0 => pos = Start(rec + 1, 0)
               /\ pc = "threads" => pos = Start(rec, idx + 1)
               /\ pc \in {"select", "path", "opening", "check", "exists", "open",
                          "expand"} /\ th.thr # 0 => pos = th.at
    <3>1. ASSUME pc \in Asking \ {"final"}, th.thr # 0
          PROVE  pos = th.at
      <4>1. pos = Start(rec, idx)
        BY <2>1, <2>2, <3>1 DEF Reading, StreamPlace
      <4>2. Bulk
        BY <2>2 DEF Reading, Turns
      <4>3. th.thr = idx /\ th.at = Start(rec, th.thr)
        BY <3>1, <4>2 DEF Reading, ThreadInHand, Bulk, BulkCalls
      <4> QED BY <4>1, <4>3
    <3> QED BY <2>1, <2>2, <3>1 DEF Reading, StreamPlace, Asking
  <2>3. ~opt.stream /\ ~haveToc /\ busy /\ rec # 0 => cur = mark /\ (pc = "next" => pos = mark)
    BY DEF Reading, FilePlace
  <2> QED BY <2>2, <2>3 DEF Aligned
<1> QED BY <1>1, ReadingInvariance, PTL

(* A file loses its contents only with leave for this very path.           *)
THEOREM OverwrittenOnlyWithLeave == Spec => OverwriteOnlyWithLeave
<1> DEFINE A == \A p \in Paths :
          files[p] \notin {"none", "dir"} /\ files'[p] \notin {files[p], "out"} =>
             /\ p = dest /\ ~Testing
             /\ \/ granted
                \/ /\ opt.handle \in {"always", "must"}
                   /\ opt.older => files[p] = "older"
<1>1. Reading /\ [Next]_vars => A
  <2> SUFFICES ASSUME Reading, [Next]_vars, NEW p \in Paths,
                      files[p] \notin {"none", "dir"}, files'[p] \notin {files[p], "out"}
               PROVE  /\ p = dest /\ ~Testing
                      /\ \/ granted
                         \/ /\ opt.handle \in {"always", "must"}
                            /\ opt.older => files[p] = "older"
    OBVIOUS
  <2>1. files' # files
    OBVIOUS
  <2>2. OpenFile \/ Finish
    BY <2>1 DEF Next, Step, vars, Call, CallBulk, CallSingle, NextFromToc, NextFromFile,
       NextFails, Show, EndOfWalk, FindRecord, PassThread, TakeThread, MakeFork, EndOfRecord,
       Select, PassedOver, ThreadFails, GoOn, ChoosePath, SendOpening, SkipThread, CheckAge,
       CheckExists, AskHandler, ExpandNothing, Expand, ExpandFails, Interrupt
  <2>3. files \in [Paths -> FileStates]
    BY DEF Reading, Types
  <2>4. CASE Finish
    <3>1. files' = (IF dest = "sink" THEN files ELSE [files EXCEPT ![dest] = "out"])
      BY <2>1, <2>4, SkipLeavesFiles DEF Finish, ThreadFails
    <3> QED BY <2>3, <3>1
  <2>5. CASE OpenFile
    <3>1. /\ pc = "open"
          /\ files' = [q \in Paths |-> IF q = dest THEN "part"
                                       ELSE IF q = Parent[dest] THEN "dir"
                                       ELSE files[q]]
      BY <2>1, <2>5 DEF OpenFile, ThreadFails
    <3>2. /\ ~Testing
          /\ Parent[dest] # NoDir => files[Parent[dest]] \in {"none", "dir"}
          /\ Exists /\ opt.older => granted \/ files[dest] = "older"
          /\ Exists => granted \/ opt.handle \in {"always", "must"}
      BY <3>1 DEF Reading, Leave
    <3>3. p = dest \/ p = Parent[dest]
      BY <3>1
    <3>4. NoDir \notin Paths
      BY ExtractAssumption
    <3>5. p = dest
      BY <3>2, <3>3, <3>4
    <3>6. Exists
      BY <3>5 DEF Exists
    <3> QED BY <3>2, <3>5, <3>6
  <2> QED BY <2>2, <2>4, <2>5
<1> QED BY <1>1, ReadingInvariance, PTL DEF Spec, OverwriteOnlyWithLeave
=============================================================================
