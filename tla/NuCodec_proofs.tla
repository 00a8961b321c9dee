--------------------------- MODULE NuCodec_proofs ---------------------------
(***************************************************************************)
(* One thread into the archive and out of it again, for all sources and    *)
(* all widths of characters and codes.                                     *)
(***************************************************************************)
EXTENDS NuCodec, NuLemmas

-----------------------------------------------------------------------------
(* Powers of two, and what a loop over a sequence computes *)

(* g[i] is the state after i turns of a loop of n.                          *)
IsLoop(g, n, S, start, step) ==
    /\ g \in [0 .. n -> S] /\ g[0] = start
    /\ \A i \in 1 .. n : g[i] = step[<<g[i-1], i>>]

(* The compressors and expanders are loops; this is what their recursive   *)
(* functions rest on.                                                      *)
LEMMA LoopExists ==
    ASSUME NEW n \in Nat, NEW S, NEW start \in S, NEW step \in [S \X (1 .. n) -> S]
    PROVE  \E g : IsLoop(g, n, S, start, step)
<1> DEFINE Is(g, m) == /\ g \in [0 .. m -> S] /\ g[0] = start
                       /\ \A i \in 1 .. m : g[i] = step[<<g[i-1], i>>]
           T == {m \in 0 .. n : \E g : Is(g, m)}
<1>1. 0 \in T
  <2>1. Is([i \in 0 .. 0 |-> start], 0)
    OBVIOUS
  <2> HIDE DEF Is
  <2> QED BY <2>1
<1>2. ASSUME NEW m \in 0 .. n - 1, m \in T
      PROVE  m + 1 \in T
  <2>1. PICK g : Is(g, m)
    BY <1>2
  <2> DEFINE h == [i \in 0 .. m + 1 |-> IF i = m + 1 THEN step[<<g[m], m + 1>>] ELSE g[i]]
  <2>2. step[<<g[m], m + 1>>] \in S
    <3>1. g[m] \in S /\ m + 1 \in 1 .. n
      BY <2>1
    <3> QED BY <3>1
  <2>3. h \in [0 .. m + 1 -> S] /\ h[0] = start
    <3>1. \A i \in 0 .. m + 1 : i = m + 1 \/ i \in 0 .. m
      OBVIOUS
    <3>2. 0 # m + 1 /\ 0 \in 0 .. m + 1
      OBVIOUS
    <3> QED BY <2>1, <2>2, <3>1, <3>2
  <2>4. ASSUME NEW i \in 1 .. m + 1
        PROVE  h[i] = step[<<h[i-1], i>>]
    <3>1. i - 1 \in 0 .. m + 1 /\ i - 1 # m + 1 /\ i \in 0 .. m + 1
      OBVIOUS
    <3>2. h[i-1] = g[i-1]
      BY <3>1
    <3>3. CASE i = m + 1
      BY <3>1, <3>2, <3>3
    <3>4. CASE i # m + 1
      <4>1. i \in 1 .. m
        BY <3>4
      <4> QED BY <2>1, <3>1, <3>2, <3>4, <4>1
    <3> QED BY <3>3, <3>4
  <2> HIDE DEF h
  <2>5. Is(h, m + 1)
    BY <2>3, <2>4
  <2> HIDE DEF Is
  <2> QED BY <2>5
<1>3. \A m \in 0 .. n : m \in T
  <2> HIDE DEF T
  <2> QED BY <1>1, <1>2, UpTo
<1>4. n \in T
  <2> HIDE DEF T
  <2> QED BY <1>3
<1>5. PICK g : Is(g, n)
  <2> HIDE DEF Is
  <2> QED BY <1>4
<1> QED BY <1>5 DEF IsLoop

(* A property of the state that holds first and that every turn keeps holds *)
(* after every turn.                                                       *)
LEMMA LoopKeeps ==
    ASSUME NEW n \in Nat, NEW S, NEW g, g[0] \in S,
           \A i \in 1 .. n : g[i-1] \in S => g[i] \in S
    PROVE  \A i \in 0 .. n : g[i] \in S
<1> DEFINE T == {m \in 0 .. n : g[m] \in S}
<1>1. 0 \in T
  OBVIOUS
<1>2. ASSUME NEW m \in 0 .. n - 1, m \in T
      PROVE  m + 1 \in T
  <2>1. m + 1 \in 1 .. n /\ (m + 1) - 1 = m
    OBVIOUS
  <2> QED BY <1>2, <2>1
<1>3. \A m \in 0 .. n : m \in T
  <2> HIDE DEF T
  <2> QED BY <1>1, <1>2, UpTo
<1> QED BY <1>3

(* The powers of two go up.                                                *)
LEMMA PowersGrow ==
    ASSUME NEW a \in 0 .. MaxBits, NEW b \in 0 .. MaxBits, MaxBits \in Nat, a <= b
    PROVE  2^a <= 2^b /\ (a < b => 2 * 2^a <= 2^b)
<1> DEFINE p == [i \in 0 .. MaxBits + 1 |-> 2^i]
           T == {m \in 0 .. MaxBits : \A k \in 0 .. m : p[k] <= p[m] /\ (k < m => 2 * p[k] <= p[m])}
<1>1. \A i \in 0 .. MaxBits : p[i] \in Nat /\ p[i] > 0 /\ p[i + 1] = 2 * p[i]
  <2>1. ASSUME NEW i \in 0 .. MaxBits PROVE p[i] = 2^i /\ p[i + 1] = 2^(i + 1)
    <3>1. i \in 0 .. MaxBits + 1 /\ i + 1 \in 0 .. MaxBits + 1
      OBVIOUS
    <3> QED BY <3>1
  <2> HIDE DEF p
  <2> QED BY <2>1, PowerAssumption
<1>2. p[a] = 2^a /\ p[b] = 2^b
  OBVIOUS
<1> HIDE DEF p
<1>3. 0 \in T
  BY <1>1
<1>4. ASSUME NEW m \in 0 .. MaxBits - 1, m \in T
      PROVE  m + 1 \in T
  <2>1. m \in 0 .. MaxBits /\ m + 1 \in 0 .. MaxBits /\ p[m] \in Nat /\ p[m] > 0
        /\ p[m + 1] = 2 * p[m] /\ p[m + 1] \in Nat
    BY <1>1
  <2>2. ASSUME NEW k \in 0 .. m + 1
        PROVE  p[k] <= p[m + 1] /\ (k < m + 1 => 2 * p[k] <= p[m + 1])
    <3>1. CASE k = m + 1
      BY <2>1, <3>1
    <3>2. CASE k # m + 1
      <4>1. k \in 0 .. m /\ k \in 0 .. MaxBits
        BY <3>2
      <4>2. p[k] <= p[m] /\ p[k] \in Nat
        BY <1>1, <1>4, <4>1
      <4> QED BY <2>1, <4>2
    <3> QED BY <3>1, <3>2
  <2> QED BY <2>1, <2>2
<1>5. \A m \in 0 .. MaxBits : m \in T
  <2> HIDE DEF T
  <2> QED BY <1>3, <1>4, UpTo
<1> QED BY <1>2, <1>5

-----------------------------------------------------------------------------
(* Sums over a sequence: the bits of some codes, the sizes of some pieces   *)

(* f has the sums of the first members of h.                               *)
IsSumsOf(f, h, n) ==
    /\ f[0] = 0
    /\ \A i \in 1 .. n : f[i-1] \in Int /\ f[i] \in Int /\ f[i] = f[i-1] + h[i]

(* A list of numbers has running totals.                                   *)
LEMMA SumsOfExist ==
    ASSUME NEW n \in Nat, NEW h \in [1 .. n -> Int]
    PROVE  \E g : /\ g \in [0 .. n -> Int]
                  /\ g[0] = 0 /\ \A i \in 1 .. n : g[i] = g[i-1] + h[i]
<1> DEFINE S     == Int
           start == 0
           step  == [z \in S \X (1 .. n) |-> z[1] + h[z[2]]]
<1>1. start \in S /\ step \in [S \X (1 .. n) -> S]
  OBVIOUS
<1>2. \A x \in S, i \in 1 .. n : step[<<x, i>>] = x + h[i]
  OBVIOUS
<1> HIDE DEF step, S, start
<1>3. PICK g : IsLoop(g, n, S, start, step)
  BY <1>1, LoopExists
<1>4. ASSUME NEW i \in 1 .. n PROVE g[i] = g[i-1] + h[i]
  <2>1. g[i-1] \in S
    <3>1. i - 1 \in 0 .. n
      OBVIOUS
    <3> QED BY <1>3, <3>1 DEF IsLoop
  <2> QED BY <1>2, <1>3, <2>1 DEF IsLoop
<1> QED BY <1>3, <1>4 DEF S, start, IsLoop

(* There is one such function only, as far as it goes.                      *)
LEMMA SumsOfUnique ==
    ASSUME NEW n \in Nat, NEW h, NEW f, NEW g, NEW k, IsSumsOf(f, h, n), IsSumsOf(g, k, n),
           \A i \in 1 .. n : h[i] = k[i]
    PROVE  f[n] = g[n]
<1> DEFINE T == {m \in 0 .. n : f[m] = g[m]}
<1>1. 0 \in T
  BY DEF IsSumsOf
<1>2. ASSUME NEW m \in 0 .. n - 1, m \in T
      PROVE  m + 1 \in T
  <2>1. m + 1 \in 1 .. n /\ (m + 1) - 1 = m
    OBVIOUS
  <2>2. f[m + 1] = f[m] + h[m + 1] /\ g[m + 1] = g[m] + k[m + 1] /\ h[m + 1] = k[m + 1]
    BY <2>1 DEF IsSumsOf
  <2> QED BY <1>2, <2>1, <2>2
<1>3. \A m \in 0 .. n : m \in T
  <2> HIDE DEF T
  <2> QED BY <1>1, <1>2, UpTo
<1> QED BY <1>3

(* Running totals are those of every shorter list too.                     *)
LEMMA SumsOfShorter ==
    ASSUME NEW n \in Nat, NEW m \in 0 .. n, NEW h, NEW f, IsSumsOf(f, h, n)
    PROVE  IsSumsOf(f, h, m)
<1>1. \A i \in 1 .. m : i \in 1 .. n
  OBVIOUS
<1> QED BY <1>1 DEF IsSumsOf

(* The bits some codes take.                                               *)
Code == Int \X Int
Bits(codes) ==
    LET bits[i \in 0 .. Len(codes)] ==
            IF i = 0 THEN 0 ELSE bits[i - 1] + codes[i][2]
    IN  bits[Len(codes)]

(* What Bits computes: the last of the running totals of the widths.       *)
LEMMA BitsAreSums ==
    ASSUME NEW codes \in Seq(Code)
    PROVE  \E f : IsSumsOf(f, [i \in 1 .. Len(codes) |-> codes[i][2]], Len(codes))
                  /\ Bits(codes) = f[Len(codes)]
<1> DEFINE n == Len(codes)
           h == [i \in 1 .. n |-> codes[i][2]]
           G == CHOOSE g : g = [i \in 0 .. n |-> IF i = 0 THEN 0 ELSE g[i-1] + codes[i][2]]
<1>1. n \in Nat /\ h \in [1 .. n -> Int] /\ \A i \in 1 .. n : h[i] = codes[i][2]
  BY DEF Code
<1>2. PICK f : /\ f \in [0 .. n -> Int]
               /\ f[0] = 0 /\ \A i \in 1 .. n : f[i] = f[i-1] + h[i]
  <2> HIDE DEF n, h
  <2> QED BY <1>1, SumsOfExist
<1>3. f = [i \in 0 .. n |-> IF i = 0 THEN 0 ELSE f[i-1] + codes[i][2]]
  <2>1. \A i \in 0 .. n : i # 0 => i \in 1 .. n
    BY <1>1
  <2> HIDE DEF n, h
  <2>2. \A i \in 0 .. n : f[i] = IF i = 0 THEN 0 ELSE f[i-1] + codes[i][2]
    BY <1>1, <1>2, <2>1
  <2>3. f = [i \in 0 .. n |-> f[i]]
    BY <1>2
  <2> QED BY <2>2, <2>3
<1>4. G = [i \in 0 .. n |-> IF i = 0 THEN 0 ELSE G[i-1] + codes[i][2]]
  BY <1>3
<1>5. Bits(codes) = G[n]
  BY DEF Bits
<1> HIDE DEF G
<1>6. ASSUME NEW i \in 1 .. n, G[i-1] \in Int
      PROVE  G[i] \in Int /\ G[i] = G[i-1] + h[i]
  <2>1. i \in 0 .. n /\ i # 0
    BY <1>1
  <2>2. G[i] = G[i-1] + codes[i][2]
    <3> HIDE DEF n
    <3> QED BY <1>4, <2>1
  <2>3. h[i] \in Int /\ h[i] = codes[i][2]
    BY <1>1
  <2> QED BY <1>6, <2>2, <2>3
<1>7. G[0] = 0
  BY <1>1, <1>4
<1>8. \A i \in 0 .. n : G[i] \in Int
  <2>1. \A i \in 1 .. n : G[i-1] \in Int => G[i] \in Int
    BY <1>6
  <2>2. G[0] \in Int
    BY <1>7
  <2> HIDE DEF n, h
  <2> QED BY <1>1, <2>1, <2>2, LoopKeeps
<1>9. \A i \in 1 .. n : i - 1 \in 0 .. n
  BY <1>1
<1>10. IsSumsOf(G, h, n)
  <2> HIDE DEF n, h
  <2> QED BY <1>1, <1>6, <1>7, <1>8, <1>9 DEF IsSumsOf
<1> QED BY <1>5, <1>10

(* No codes take no bits.                                                  *)
LEMMA BitsOfNone == Bits(<<>>) = 0
<1>1. <<>> \in Seq(Code) /\ Len(<<>>) = 0
  OBVIOUS
<1>2. PICK f : IsSumsOf(f, [i \in 1 .. Len(<<>>) |-> <<>>[i][2]], Len(<<>>))
               /\ Bits(<<>>) = f[Len(<<>>)]
  BY <1>1, BitsAreSums
<1> QED BY <1>1, <1>2 DEF IsSumsOf

(* One code more takes its width more.                                     *)
LEMMA BitsOfMore ==
    ASSUME NEW codes \in Seq(Code), NEW x \in Code
    PROVE  /\ Append(codes, x) \in Seq(Code) /\ Bits(codes) \in Int
           /\ Bits(Append(codes, x)) = Bits(codes) + x[2]
<1> DEFINE n == Len(codes)
           more == Append(codes, x)
           h == [i \in 1 .. n |-> codes[i][2]]
           k == [i \in 1 .. Len(more) |-> more[i][2]]
<1>1. n \in Nat /\ more \in Seq(Code) /\ Len(more) = n + 1 /\ more[n + 1] = x
      /\ \A i \in 1 .. n : more[i] = codes[i]
  OBVIOUS
<1>2. PICK f : IsSumsOf(f, h, n) /\ Bits(codes) = f[n]
  BY BitsAreSums
<1>3. PICK g : IsSumsOf(g, k, Len(more)) /\ Bits(more) = g[Len(more)]
  <2> HIDE DEF more
  <2> QED BY <1>1, BitsAreSums
<1>4. \A i \in 1 .. n : h[i] = k[i]
  <2>1. \A i \in 1 .. n : i \in 1 .. n + 1
    BY <1>1
  <2> HIDE DEF more, n
  <2> QED BY <1>1, <2>1
<1>5. k[n + 1] = x[2]
  <2>1. n + 1 \in 1 .. Len(more)
    BY <1>1
  <2> HIDE DEF more, n
  <2> QED BY <1>1, <2>1
<1> HIDE DEF n, more, h, k
<1>6. IsSumsOf(g, k, n)
  <2>1. n \in 0 .. n + 1 /\ n + 1 \in Nat
    BY <1>1
  <2> QED BY <1>1, <1>3, <2>1, SumsOfShorter
<1>7. f[n] = g[n]
  BY <1>1, <1>2, <1>4, <1>6, SumsOfUnique
<1>8. g[n + 1] = g[n] + k[n + 1] /\ g[n] \in Int
  <2>1. n + 1 \in 1 .. Len(more) /\ (n + 1) - 1 = n
    BY <1>1
  <2> QED BY <1>3, <2>1 DEF IsSumsOf
<1>9. Bits(more) = Bits(codes) + x[2] /\ Bits(codes) \in Int
  BY <1>1, <1>2, <1>3, <1>5, <1>7, <1>8
<1> QED BY <1>1, <1>9 DEF more

-----------------------------------------------------------------------------
(* LZW compression *)

(* What the assumptions say about the numbers of an instance.              *)
LEMMA Numbers ==
    /\ CharBits \in Nat \ {0} /\ MaxBits \in Nat /\ CharBits + 1 \in 0 .. MaxBits
    /\ ClearCode \in Nat /\ ClearCode >= 2 /\ FirstCode = ClearCode + 1
    /\ 2^CharBits = ClearCode /\ 2^(CharBits + 1) = 2 * ClearCode
    /\ StopCode \in Nat /\ FirstCode <= StopCode /\ StopCode <= 2^MaxBits - 2
    /\ BlockSize \in Nat \ {0} /\ MinRun \in Nat /\ FieldSize \in 1 .. 2
    /\ Chars = 0 .. ClearCode - 1 /\ Escape \in Chars
<1>1. LzwAssumption
  BY CodecAssumption
<1>2. CharBits \in Nat \ {0} /\ MaxBits \in Nat /\ MaxBits > CharBits
  BY <1>1 DEF LzwAssumption
<1>3. 2^CharBits \in Nat /\ 2^(CharBits + 1) = 2 * 2^CharBits
  BY <1>2, PowerAssumption
<1>4. 2^CharBits >= 2
  <2>1. PICK z : z = 0
    OBVIOUS
  <2>2. z \in 0 .. MaxBits /\ CharBits \in 0 .. MaxBits /\ z < CharBits /\ z <= CharBits
    BY <1>2, <2>1
  <2>3. 2 * 2^z <= 2^CharBits
    <3> HIDE <2>1
    <3> QED BY <1>2, <2>2, PowersGrow
  <2>4. 2^z = 1
    BY <2>1
  <2> QED BY <1>3, <2>3, <2>4
<1>5. 2^MaxBits \in Nat
  BY <1>2, PowerAssumption
<1>6. StopCode \in 2^CharBits + 1 .. 2^MaxBits - 2
  BY <1>1 DEF LzwAssumption
<1>7. StopCode \in Nat /\ 2^CharBits + 1 <= StopCode /\ StopCode <= 2^MaxBits - 2
  BY <1>3, <1>5, <1>6
<1> QED BY <1>1, <1>2, <1>3, <1>4, <1>7 DEF LzwAssumption, ClearCode, FirstCode, Chars

(* The table of LZW fills up only in a block that has not become smaller.  *)
LEMMA TableOutlastsBlock ==
    (StopCode - ClearCode) * (CharBits + 2) - ClearCode >= BlockSize * CharBits
BY CodecAssumption DEF LzwAssumption, ClearCode

(* The highest code of so many bits, and what one bit more makes of it.     *)
LEMMA Widths ==
    ASSUME NEW b \in CharBits + 1 .. MaxBits
    PROVE  /\ b \in Nat /\ 2^b \in Nat /\ 2^b >= 2 * ClearCode
           /\ 2^b <= 2^MaxBits
           /\ 2^b - 1 <= StopCode => b + 1 \in CharBits + 1 .. MaxBits /\ 2^(b + 1) = 2 * 2^b
           /\ b # CharBits + 1 => b >= CharBits + 2
<1>1. b \in 0 .. MaxBits /\ b \in Nat /\ CharBits \in Nat /\ MaxBits \in Nat
  BY Numbers
<1>2. 2^b \in Nat /\ 2^(b + 1) = 2 * 2^b
  BY <1>1, PowerAssumption
<1>3. 2^(CharBits + 1) <= 2^b
  BY <1>1, Numbers, PowersGrow
<1>4. MaxBits \in 0 .. MaxBits /\ 2^b <= 2^MaxBits
  BY <1>1, PowersGrow
<1>5. 2^b - 1 <= StopCode => b # MaxBits
  <2>1. 2^MaxBits \in Nat
    BY <1>4, PowerAssumption
  <2> QED BY <2>1, Numbers
<1> QED BY <1>1, <1>2, <1>3, <1>4, <1>5, Numbers

(* The table of the compressor.                                            *)
Tables == UNION {[D -> Code] : D \in SUBSET Int}
Work   == [table : Tables, nextFree : Int, codeBits : Int, highCode : Int,
           initialClear : BOOLEAN, prefix : Int, codes : Seq(Code), full : BOOLEAN]
Kept   == [table : Tables, nextFree : Int, codeBits : Int, highCode : Int,
           initialClear : BOOLEAN]

TableOK(t) ==
    /\ t.codeBits \in CharBits + 1 .. MaxBits /\ t.highCode = 2^t.codeBits - 1
    /\ t.nextFree \in FirstCode .. StopCode + 1 /\ t.nextFree <= t.highCode
    /\ DOMAIN t.table \subseteq FirstCode .. t.nextFree - 1

KeptOK(t) == t \in Kept /\ TableOK(t) /\ (t.initialClear \/ t.nextFree <= StopCode)

(* A code and its width *)
FitCode(c) == c[1] \in 0 .. StopCode /\ c[2] \in CharBits + 1 .. MaxBits /\ c[1] < 2^c[2]
AllFit(codes) == \A k \in 1 .. Len(codes) : FitCode(codes[k])

(* A string the table has, or a character *)
Known(t) == Chars \cup FirstCode .. t.nextFree - 1

(* What the loop over the characters of a block keeps *)
WorkOK(w) ==
    /\ w \in Work /\ TableOK(w)
    /\ w.full \/ w.nextFree <= StopCode
    /\ w.prefix \in Known(w) \cup {NoCode}
    /\ AllFit(w.codes)

(* A code is written.                                                      *)
LEMMA PutCodeOK ==
    ASSUME NEW w \in Work, TableOK(w), AllFit(w.codes),
           NEW code \in Known(w) \cup {ClearCode}, code <= StopCode
    PROVE  /\ PutCode(w, code) = [w EXCEPT !.codes = PutCode(w, code).codes]
           /\ PutCode(w, code).codes = Append(w.codes, <<code, w.codeBits>>)
           /\ PutCode(w, code) \in Work
           /\ AllFit(PutCode(w, code).codes)
           /\ <<code, w.codeBits>> \in Code
<1> DEFINE c == <<code, w.codeBits>>
           more == Append(w.codes, c)
<1>1. w.codeBits \in CharBits + 1 .. MaxBits /\ w.highCode = 2^w.codeBits - 1
      /\ w.nextFree \in FirstCode .. StopCode + 1 /\ w.nextFree <= w.highCode
      /\ w.codes \in Seq(Code) /\ w.nextFree \in Int
  BY DEF TableOK, Work
<1>2. code \in Int /\ code >= 0 /\ code < 2^w.codeBits
  <2>1. 2^w.codeBits \in Nat /\ 2^w.codeBits >= 2 * ClearCode
    BY <1>1, Widths
  <2>2. CASE code \in Chars
    BY <2>1, <2>2, Numbers
  <2>3. CASE code = ClearCode
    BY <2>1, <2>3, Numbers
  <2>4. CASE code \in FirstCode .. w.nextFree - 1
    <3> DEFINE q == 2^w.codeBits
               free == w.nextFree
    <3>1. /\ q \in Nat /\ free \in Int /\ free <= q - 1 /\ code \in FirstCode .. free - 1
          /\ FirstCode \in Nat
      BY <1>1, <2>1, <2>4, Numbers
    <3> HIDE DEF q, free
    <3>2. code \in Int /\ code >= 0 /\ code < q
      BY <3>1
    <3> QED BY <3>2 DEF q
  <2> QED BY <2>2, <2>3, <2>4 DEF Known
<1>3. c \in Code /\ FitCode(c)
  BY <1>1, <1>2, Numbers DEF Code, FitCode
<1>4. more \in Seq(Code) /\ Len(more) = Len(w.codes) + 1 /\ more[Len(w.codes) + 1] = c
      /\ \A k \in 1 .. Len(w.codes) : more[k] = w.codes[k]
  <2> HIDE DEF c
  <2> QED BY <1>1, <1>3
<1>5. AllFit(more)
  <2> HIDE DEF c, more
  <2>1. Len(w.codes) \in Nat
    BY <1>1
  <2>2. \A k \in 1 .. Len(more) : k \in 1 .. Len(w.codes) \/ k = Len(w.codes) + 1
    BY <1>4, <2>1
  <2> QED BY <1>3, <1>4, <2>2 DEF AllFit
<1>6. PutCode(w, code) = [w EXCEPT !.codes = more]
  BY DEF PutCode
<1> HIDE DEF more, c
<1>7. [w EXCEPT !.codes = more] \in Work /\ [w EXCEPT !.codes = more].codes = more
  BY <1>4 DEF Work
<1> QED BY <1>3, <1>4, <1>5, <1>6, <1>7 DEF more, c

(* The width goes up in time for the next code.                             *)
LEMMA WidenedOK ==
    ASSUME NEW w \in Work, TableOK(w), w.nextFree <= StopCode
    PROVE  LET v == Widened(w, w.nextFree)
           IN  /\ v = [w EXCEPT !.highCode = v.highCode, !.codeBits = v.codeBits]
               /\ v \in Work
               /\ v.codeBits \in CharBits + 1 .. MaxBits /\ v.highCode = 2^v.codeBits - 1
               /\ w.nextFree + 1 <= v.highCode
<1> DEFINE high == w.highCode   b == w.codeBits   n == w.nextFree
           v == Widened(w, n)
<1>1. /\ b \in CharBits + 1 .. MaxBits /\ high = 2^b - 1 /\ n \in Int /\ n <= high
      /\ 2^b \in Nat /\ 2^b >= 2 * ClearCode /\ b \in Int /\ high \in Int
  BY Widths DEF TableOK, Work
<1>2. CASE n >= high
  <2>1. n = high /\ 2^b - 1 <= StopCode
    BY <1>1, <1>2
  <2>2. b + 1 \in CharBits + 1 .. MaxBits /\ 2^(b + 1) = 2 * 2^b
    BY <1>1, <2>1, Widths
  <2>3. high + n + 1 = 2^(b + 1) - 1 /\ n + 1 <= high + n + 1 /\ high + n + 1 \in Int
    <3> DEFINE q == 2^b   r == 2^(b + 1)
    <3>1. q \in Nat /\ q >= 2 * ClearCode /\ r = 2 * q /\ high = q - 1 /\ n = high
      BY <1>1, <2>1, <2>2
    <3> HIDE DEF q, r, high, n
    <3>2. high + n + 1 = r - 1 /\ n + 1 <= high + n + 1 /\ high + n + 1 \in Int
      BY <3>1, Numbers
    <3> QED BY <3>2 DEF r
  <2>4. v = [w EXCEPT !.highCode = high + n + 1, !.codeBits = b + 1]
    BY <1>2 DEF Widened
  <2>5. v.highCode = high + n + 1 /\ v.codeBits = b + 1 /\ v \in Work
    <3> DEFINE hh == high + n + 1   bb == b + 1
    <3>1. hh \in Int /\ bb \in Int /\ v = [w EXCEPT !.highCode = hh, !.codeBits = bb]
      BY <1>1, <2>3, <2>4
    <3> HIDE DEF hh, bb, v
    <3>2. v.highCode = hh /\ v.codeBits = bb /\ v \in Work
      BY <3>1 DEF Work
    <3> QED BY <3>2 DEF hh, bb
  <2> HIDE DEF v
  <2>6. v = [w EXCEPT !.highCode = v.highCode, !.codeBits = v.codeBits]
    BY <2>4, <2>5
  <2> HIDE DEF high, b, n
  <2> QED BY <2>2, <2>3, <2>5, <2>6 DEF v, n
<1>3. CASE ~(n >= high)
  <2>1. v = w
    BY <1>3 DEF Widened
  <2>2. n + 1 <= high
    BY <1>1, <1>3
  <2>3. v = [w EXCEPT !.highCode = v.highCode, !.codeBits = v.codeBits]
    BY <2>1 DEF Work
  <2> QED BY <1>1, <2>1, <2>2, <2>3
<1> QED BY <1>2, <1>3

(* A table with one string more is a table.                                *)
LEMMA EnteredType ==
    ASSUME NEW t \in Tables, NEW code \in Int, NEW entry \in Code
    PROVE  /\ Entered(t, code, entry) \in Tables
           /\ DOMAIN Entered(t, code, entry) = DOMAIN t \cup {code}
<1>1. PICK D \in SUBSET Int : t \in [D -> Code]
  BY DEF Tables
<1>2. Entered(t, code, entry) \in [D \cup {code} -> Code]
  BY <1>1 DEF Entered
<1>3. D \cup {code} \in SUBSET Int
  OBVIOUS
<1>4. Entered(t, code, entry) \in Tables
  BY <1>2, <1>3 DEF Tables
<1> QED BY <1>4 DEF Entered

(* A new string gets the next code; the table may be full then.             *)
LEMMA NewCodeOK ==
    ASSUME NEW w, WorkOK(w), ~w.full, w.prefix # NoCode, NEW c \in Chars
    PROVE  /\ WorkOK(NewCode(w, c)) /\ NewCode(w, c).prefix = c
           /\ NewCode(w, c).nextFree = w.nextFree + 1
           /\ NewCode(w, c).full <=> w.nextFree = StopCode
           /\ LET put == Append(w.codes, <<w.prefix, w.codeBits>>)
              IN  /\ <<w.prefix, w.codeBits>> \in Code
                  /\ \/ ~NewCode(w, c).full /\ NewCode(w, c).codes = put
                     \/ \E b \in CharBits + 1 .. MaxBits :
                           /\ <<c, b>> \in Code
                           /\ NewCode(w, c).codes = Append(put, <<c, b>>)
<1> DEFINE n == w.nextFree
           p == PutCode(w, w.prefix)
           v == Widened(p, n)
           a == [v EXCEPT !.table = Entered(@, n, <<w.prefix, c>>), !.nextFree = @ + 1,
                          !.prefix = c]
           x == NewCode(w, c)
<1>1. /\ w \in Work /\ TableOK(w) /\ AllFit(w.codes) /\ n <= StopCode
      /\ w.prefix \in Known(w) /\ n \in Int /\ w.prefix \in Int /\ c \in Int
      /\ w.prefix \in Int /\ w.full = FALSE /\ w.table \in Tables
      /\ DOMAIN w.table \subseteq FirstCode .. n - 1 /\ n >= FirstCode
      /\ w.nextFree \in FirstCode .. StopCode + 1
  <2>1. /\ w \in Work /\ TableOK(w) /\ AllFit(w.codes) /\ n <= StopCode
        /\ w.prefix \in Known(w)
    BY DEF WorkOK
  <2>2. n \in Int /\ w.prefix \in Int /\ w.full = FALSE /\ w.table \in Tables
    BY <2>1 DEF Work
  <2>3. n \in FirstCode .. StopCode + 1 /\ DOMAIN w.table \subseteq FirstCode .. n - 1
    BY <2>1 DEF TableOK
  <2>4. c \in Int /\ n >= FirstCode
    BY <2>3, Numbers
  <2> QED BY <2>1, <2>2, <2>3, <2>4
<1>2. w.prefix <= StopCode
  <2>1. w.prefix \in Chars \/ w.prefix \in FirstCode .. n - 1
    BY <1>1 DEF Known
  <2>2. n \in Int /\ n <= StopCode
    BY <1>1
  <2> HIDE DEF n
  <2> QED BY <2>1, <2>2, Numbers
<1>3. /\ p = [w EXCEPT !.codes = p.codes] /\ p \in Work /\ AllFit(p.codes)
      /\ p.codes = Append(w.codes, <<w.prefix, w.codeBits>>)
      /\ <<w.prefix, w.codeBits>> \in Code
  BY <1>1, <1>2, PutCodeOK
<1> HIDE DEF p
<1>4. /\ p.nextFree = n /\ p.codeBits = w.codeBits /\ p.highCode = w.highCode
      /\ p.table = w.table /\ p.full = FALSE
  BY <1>1, <1>3 DEF Work
<1>5. TableOK(p)
  BY <1>1, <1>4 DEF TableOK
<1>6. /\ v = [p EXCEPT !.highCode = v.highCode, !.codeBits = v.codeBits] /\ v \in Work
      /\ v.codeBits \in CharBits + 1 .. MaxBits /\ v.highCode = 2^v.codeBits - 1
      /\ n + 1 <= v.highCode
  BY <1>1, <1>3, <1>4, <1>5, WidenedOK
<1> HIDE DEF v
<1>7. v.nextFree = n /\ v.table = w.table /\ v.full = FALSE /\ v.codes = p.codes
  BY <1>3, <1>4, <1>6 DEF Work
<1>8. /\ Entered(w.table, n, <<w.prefix, c>>) \in Tables
      /\ DOMAIN Entered(w.table, n, <<w.prefix, c>>) = DOMAIN w.table \cup {n}
  <2> DEFINE entry == <<w.prefix, c>>
  <2>1. entry \in Code
    BY <1>1 DEF Code
  <2>2. w.table \in Tables /\ n \in Int
    BY <1>1
  <2> HIDE DEF n, entry
  <2>3. /\ Entered(w.table, n, entry) \in Tables
        /\ DOMAIN Entered(w.table, n, entry) = DOMAIN w.table \cup {n}
    BY <2>1, <2>2, EnteredType
  <2> QED BY <2>3 DEF entry
<1>9. /\ a \in Work /\ a.table = Entered(w.table, n, <<w.prefix, c>>) /\ a.nextFree = n + 1
      /\ a.prefix = c /\ a.full = FALSE /\ a.codes = p.codes /\ a.codeBits = v.codeBits
      /\ a.highCode = v.highCode
  <2>1. a = [v EXCEPT !.table = Entered(w.table, n, <<w.prefix, c>>), !.nextFree = n + 1,
                      !.prefix = c]
    BY <1>7
  <2>2. n + 1 \in Int /\ c \in Int
    BY <1>1
  <2> HIDE DEF a
  <2> QED BY <1>6, <1>7, <1>8, <2>1, <2>2 DEF Work
<1> HIDE DEF a
<1>10. TableOK(a)
  <2>1. DOMAIN a.table \subseteq FirstCode .. (n + 1) - 1
    BY <1>1, <1>8, <1>9
  <2>2. n + 1 \in FirstCode .. StopCode + 1
    BY <1>1, Numbers
  <2> QED BY <1>6, <1>9, <2>1, <2>2 DEF TableOK
<1>11. x = IF n = StopCode THEN [PutCode(a, c) EXCEPT !.full = TRUE] ELSE a
  BY DEF NewCode, a, v, p
<1>12. c \in Known(a) /\ c <= StopCode
  BY Numbers DEF Known
<1> HIDE DEF x
<1>13. CASE n = StopCode
  <2>1. /\ PutCode(a, c) = [a EXCEPT !.codes = PutCode(a, c).codes]
        /\ PutCode(a, c).codes = Append(a.codes, <<c, a.codeBits>>)
        /\ PutCode(a, c) \in Work /\ AllFit(PutCode(a, c).codes)
        /\ <<c, a.codeBits>> \in Code
    BY <1>3, <1>9, <1>10, <1>12, PutCodeOK
  <2> DEFINE q == PutCode(a, c)
  <2>2. x = [q EXCEPT !.full = TRUE]
    BY <1>11, <1>13
  <2> HIDE DEF q
  <2>3. /\ q = [a EXCEPT !.codes = q.codes] /\ q \in Work /\ AllFit(q.codes)
        /\ q.codes = Append(a.codes, <<c, a.codeBits>>)
    BY <2>1 DEF q
  <2>4. /\ x \in Work /\ x.table = a.table /\ x.nextFree = n + 1 /\ x.prefix = c
        /\ x.full = TRUE /\ x.codes = q.codes /\ x.codeBits = a.codeBits
        /\ x.highCode = a.highCode
    BY <1>9, <2>2, <2>3 DEF Work
  <2>5. TableOK(x) /\ c \in Known(x)
    BY <1>9, <1>10, <1>12, <2>4 DEF TableOK, Known
  <2>6. WorkOK(x)
    BY <2>3, <2>4, <2>5 DEF WorkOK
  <2>7. x.codes = Append(Append(w.codes, <<w.prefix, w.codeBits>>), <<c, a.codeBits>>)
    BY <1>3, <1>9, <2>3, <2>4
  <2>8. a.codeBits \in CharBits + 1 .. MaxBits /\ <<c, a.codeBits>> \in Code
    BY <1>6, <1>9, <2>1
  <2> QED BY <1>3, <1>13, <2>4, <2>6, <2>7, <2>8 DEF x, n
<1>14. CASE n # StopCode
  <2>1. x = a
    BY <1>11, <1>14
  <2>2. a.nextFree <= StopCode
    BY <1>1, <1>9, <1>14, Numbers
  <2>3. WorkOK(x)
    BY <1>3, <1>9, <1>10, <1>12, <2>1, <2>2 DEF WorkOK
  <2> QED BY <1>3, <1>9, <1>14, <2>1, <2>3 DEF x, n
<1> QED BY <1>13, <1>14

(* No clear code among them; as many bits as a block has.                  *)
NoClear(codes) == \A k \in 1 .. Len(codes) : codes[k][1] # ClearCode
Heavy(codes)   == Bits(codes) >= BlockSize * CharBits

(* Each entry of the table has cost a code, a long one but for the first.   *)
LowBits(bits, n) ==
    /\ bits >= (CharBits + 1) * (n - FirstCode)
    /\ bits + ClearCode >= (CharBits + 2) * (n - FirstCode)

(* What the loop keeps in addition when it starts with an empty table       *)
LightOK(w) ==
    /\ NoClear(w.codes) \/ Heavy(w.codes)
    /\ w.full => Heavy(w.codes)
    /\ NoClear(w.codes) => LowBits(Bits(w.codes), w.nextFree)

(* One code more, and the facts about the codes written so far.            *)
LEMMA CodesMore ==
    ASSUME NEW codes \in Seq(Code), NEW x, x \in Code, x[2] >= 0
    PROVE  LET more == Append(codes, x)
           IN  /\ more \in Seq(Code) /\ Bits(codes) \in Int
               /\ Bits(more) = Bits(codes) + x[2]
               /\ NoClear(more) <=> NoClear(codes) /\ x[1] # ClearCode
               /\ Heavy(codes) => Heavy(more)
<1> DEFINE more == Append(codes, x)
<1>1. more \in Seq(Code) /\ Bits(codes) \in Int /\ Bits(more) = Bits(codes) + x[2]
  BY BitsOfMore
<1>2. Len(codes) \in Nat /\ Len(more) = Len(codes) + 1 /\ more[Len(codes) + 1] = x
      /\ \A k \in 1 .. Len(codes) : more[k] = codes[k]
  OBVIOUS
<1>3. x[2] \in Int /\ BlockSize * CharBits \in Int
  BY Numbers DEF Code
<1> HIDE DEF more
<1>4. \A k : k \in 1 .. Len(more) <=> k \in 1 .. Len(codes) \/ k = Len(codes) + 1
  BY <1>2
<1>5. NoClear(more) <=> NoClear(codes) /\ x[1] # ClearCode
  BY <1>2, <1>4 DEF NoClear
<1>6. Heavy(codes) => Heavy(more)
  <2> DEFINE e == BlockSize * CharBits
  <2>1. e \in Int
    BY <1>3
  <2> HIDE DEF e
  <2>2. Bits(codes) >= e => Bits(more) >= e
    BY <1>1, <1>3, <2>1
  <2> QED BY <2>2 DEF Heavy, e
<1> QED BY <1>1, <1>5, <1>6 DEF more

(* One entry more, and its code.                                           *)
LEMMA LowBitsMore ==
    ASSUME NEW bits \in Int, NEW n \in FirstCode .. StopCode + 1, LowBits(bits, n),
           NEW b \in CharBits + 1 .. MaxBits, n <= 2^b - 1
    PROVE  LowBits(bits + b, n + 1)
<1> DEFINE e == n - FirstCode
           p == (CharBits + 1) * e
           q == (CharBits + 2) * e
<1>1. e \in Nat /\ (n + 1) - FirstCode = e + 1 /\ CharBits \in Nat /\ b \in Nat
      /\ b >= CharBits + 1
  BY Numbers
<1>2. p \in Int /\ q \in Int /\ q = p + e
  <2>1. \A x, y \in Nat : (x + 1) * y \in Int /\ (x + 2) * y \in Int
                          /\ (x + 2) * y = (x + 1) * y + y
    OBVIOUS
  <2> HIDE DEF e
  <2> QED BY <1>1, <2>1
<1>3. (CharBits + 1) * (e + 1) = p + CharBits + 1 /\ (CharBits + 2) * (e + 1) = q + CharBits + 2
  <2>1. \A x, y \in Nat : (x + 1) * (y + 1) = (x + 1) * y + x + 1
                          /\ (x + 2) * (y + 1) = (x + 2) * y + x + 2
    OBVIOUS
  <2> HIDE DEF e
  <2> QED BY <1>1, <2>1
<1>4. bits >= p /\ bits + ClearCode >= q
  BY DEF LowBits
<1>5. b = CharBits + 1 => e + 1 <= ClearCode
  <2>1. 2^(CharBits + 1) = 2 * ClearCode
    BY Numbers
  <2> QED BY <2>1, Numbers
<1>6. b # CharBits + 1 => b >= CharBits + 2
  BY Widths
<1> HIDE DEF e, p, q
<1>7. bits + b >= p + CharBits + 1 /\ bits + b + ClearCode >= q + CharBits + 2
  BY <1>1, <1>2, <1>4, <1>5, <1>6, Numbers
<1>8. LowBits(bits + b, n + 1)
  BY <1>1, <1>3, <1>7 DEF LowBits
<1> QED BY <1>8

(* A code more does not lower it.                                          *)
LEMMA LowBitsGrow ==
    ASSUME NEW x \in Int, NEW y \in Int, x <= y, NEW n \in Int, LowBits(x, n)
    PROVE  LowBits(y, n)
<1> DEFINE m == (CharBits + 1) * (n - FirstCode)
           k == (CharBits + 2) * (n - FirstCode)
<1>1. m \in Int /\ k \in Int /\ ClearCode \in Int
  <2>1. CharBits + 1 \in Int /\ CharBits + 2 \in Int /\ n - FirstCode \in Int
        /\ ClearCode \in Int
    BY Numbers
  <2>2. \A i, j \in Int : i * j \in Int
    OBVIOUS
  <2> QED BY <2>1, <2>2
<1>2. x >= m /\ x + ClearCode >= k
  BY DEF LowBits
<1> HIDE DEF m, k
<1>3. y >= m /\ y + ClearCode >= k
  BY <1>1, <1>2
<1> QED BY <1>3 DEF LowBits, m, k

(* A full table is a heavy block.                                          *)
LEMMA FullIsHeavy ==
    ASSUME NEW bits \in Int, LowBits(bits, StopCode + 1)
    PROVE  bits >= BlockSize * CharBits
<1> DEFINE p == (StopCode - ClearCode) * (CharBits + 2)
           e == BlockSize * CharBits
<1>1. (StopCode + 1) - FirstCode = StopCode - ClearCode /\ StopCode - ClearCode \in Int
      /\ CharBits + 2 \in Int /\ ClearCode \in Int
  BY Numbers
<1>2. (CharBits + 2) * ((StopCode + 1) - FirstCode) = p
  <2>1. \A x, y \in Int : x * y = y * x
    OBVIOUS
  <2> QED BY <1>1, <2>1
<1>3. bits + ClearCode >= p /\ p - ClearCode >= e
  BY <1>2, TableOutlastsBlock DEF LowBits
<1>4. p \in Int /\ e \in Int
  BY <1>1, Numbers
<1> HIDE DEF p, e
<1>5. bits >= e
  BY <1>1, <1>3, <1>4
<1> QED BY <1>5 DEF e

(* What NewCode makes of the size.                                         *)
LEMMA NewCodeLight ==
    ASSUME NEW w, WorkOK(w), ~w.full, w.prefix # NoCode, NEW c \in Chars, LightOK(w)
    PROVE  LightOK(NewCode(w, c))
<1> DEFINE x   == NewCode(w, c)
           p   == <<w.prefix, w.codeBits>>
           put == Append(w.codes, p)
<1>1. /\ WorkOK(x) /\ x.nextFree = w.nextFree + 1 /\ (x.full <=> w.nextFree = StopCode)
      /\ p \in Code
      /\ \/ ~x.full /\ x.codes = put
         \/ \E b \in CharBits + 1 .. MaxBits :
               <<c, b>> \in Code /\ x.codes = Append(put, <<c, b>>)
  BY NewCodeOK, ZenonT(60)
<1>2. /\ w \in Work /\ w.codeBits \in CharBits + 1 .. MaxBits
      /\ w.nextFree \in FirstCode .. StopCode + 1 /\ w.nextFree <= 2^w.codeBits - 1
  BY DEF WorkOK, TableOK
<1>3. w.codes \in Seq(Code) /\ p[2] = w.codeBits /\ p[2] >= 0
  BY <1>2, Numbers DEF Work
<1> HIDE DEF x, p
<1>4. /\ put \in Seq(Code) /\ Bits(w.codes) \in Int /\ Bits(put) = Bits(w.codes) + p[2]
      /\ NoClear(put) <=> NoClear(w.codes) /\ p[1] # ClearCode
      /\ Heavy(w.codes) => Heavy(put)
  BY <1>1, <1>3, CodesMore
<1>5. p[1] # ClearCode
  <2>1. p[1] \in Chars \cup FirstCode .. w.nextFree - 1
    BY DEF p, WorkOK, Known
  <2> QED BY <1>2, <2>1, Numbers
<1>6. NoClear(put) => LowBits(Bits(put), x.nextFree)
  <2> HAVE NoClear(put)
  <2>1. LowBits(Bits(w.codes), w.nextFree)
    BY <1>4 DEF LightOK
  <2> DEFINE bits == Bits(w.codes)   n == w.nextFree   b == w.codeBits
  <2>2. bits \in Int /\ n \in FirstCode .. StopCode + 1 /\ b \in CharBits + 1 .. MaxBits
        /\ n <= 2^b - 1 /\ LowBits(bits, n)
    BY <1>2, <1>4, <2>1
  <2> HIDE DEF bits, n, b
  <2>3. LowBits(bits + b, n + 1)
    BY <2>2, LowBitsMore
  <2> QED BY <1>1, <1>3, <1>4, <2>3 DEF bits, n, b
<1>7. NoClear(put) \/ Heavy(put)
  BY <1>4, <1>5 DEF LightOK
<1> HIDE DEF put
<1>8. CASE ~x.full /\ x.codes = put
  <2>1. LightOK(x)
    BY <1>6, <1>7, <1>8 DEF LightOK
  <2> QED BY <2>1 DEF x
<1>9. CASE \E b \in CharBits + 1 .. MaxBits :
              <<c, b>> \in Code /\ x.codes = Append(put, <<c, b>>)
  <2>1. PICK b \in CharBits + 1 .. MaxBits :
           <<c, b>> \in Code /\ x.codes = Append(put, <<c, b>>)
    BY <1>9
  <2> DEFINE y == <<c, b>>
  <2>2. y \in Code /\ y[2] >= 0 /\ y[2] = b /\ b \in Nat
    BY <2>1, Numbers
  <2>3. x.codes = Append(put, y)
    BY <2>1
  <2> HIDE DEF y
  <2>4. /\ Bits(put) \in Int /\ Bits(x.codes) = Bits(put) + y[2]
        /\ NoClear(x.codes) <=> NoClear(put) /\ y[1] # ClearCode
        /\ Heavy(put) => Heavy(x.codes)
    BY <1>4, <2>2, <2>3, CodesMore
  <2>7. Bits(put) \in Int /\ Bits(x.codes) \in Int /\ Bits(put) <= Bits(x.codes)
        /\ x.nextFree \in Int
    <3> HIDE DEF x
    <3>1. w.nextFree \in Int
      BY <1>2, Numbers
    <3>2. x.nextFree \in Int
      BY <1>1, <3>1
    <3>3. Bits(put) \in Int /\ Bits(x.codes) \in Int /\ Bits(put) <= Bits(x.codes)
      BY <2>2, <2>4
    <3> QED BY <3>2, <3>3
  <2>5. CASE NoClear(put) /\ ~Heavy(put)
    <3>1. LowBits(Bits(put), x.nextFree)
      BY <1>6, <2>5
    <3>2. x.full => Heavy(put)
      <4> HAVE x.full
      <4>1. x.nextFree = StopCode + 1
        BY <1>1
      <4> QED BY <2>4, <3>1, <4>1, FullIsHeavy DEF Heavy
    <3>3. LowBits(Bits(x.codes), x.nextFree)
      BY <2>7, <3>1, LowBitsGrow
    <3>4. y[1] # ClearCode
      BY Numbers DEF y
    <3> QED BY <2>4, <2>5, <3>2, <3>3, <3>4 DEF LightOK, x
  <2>6. CASE Heavy(put)
    <3>1. Heavy(x.codes)
      BY <2>4, <2>6
    <3>2. NoClear(x.codes) => LowBits(Bits(x.codes), x.nextFree)
      <4> HAVE NoClear(x.codes)
      <4>1. LowBits(Bits(put), x.nextFree)
        BY <1>6, <2>4
      <4> QED BY <2>7, <4>1, LowBitsGrow
    <3> QED BY <3>1, <3>2 DEF LightOK, x
  <2> QED BY <1>7, <2>5, <2>6
<1> QED BY <1>1, <1>8, <1>9

(* The table is cleared.                                                   *)
LEMMA ClearedOK ==
    /\ ClearedTable \in Kept /\ KeptOK(ClearedTable)
    /\ ClearedTable.nextFree = FirstCode /\ ClearedTable.initialClear = FALSE
<1>1. <<>> \in Tables
  <2>1. <<>> \in [{} -> Code]
    OBVIOUS
  <2> QED BY <2>1 DEF Tables
<1>2. CharBits + 1 \in CharBits + 1 .. MaxBits /\ 2^(CharBits + 1) = 2 * ClearCode
  BY Numbers
<1>3. /\ ClearedTable.table = <<>> /\ ClearedTable.nextFree = FirstCode
      /\ ClearedTable.codeBits = CharBits + 1 /\ ClearedTable.highCode = 2^(CharBits + 1) - 1
      /\ ClearedTable.initialClear = FALSE
  BY DEF ClearedTable
<1>4. ClearedTable \in Kept
  <2>1. FirstCode \in Int /\ CharBits + 1 \in Int /\ 2^(CharBits + 1) - 1 \in Int
    BY <1>2, Numbers
  <2> QED BY <1>1, <2>1 DEF ClearedTable, Kept
<1>5. FirstCode \in FirstCode .. StopCode + 1 /\ FirstCode <= 2^(CharBits + 1) - 1
      /\ DOMAIN <<>> \subseteq FirstCode .. FirstCode - 1 /\ FirstCode <= StopCode
  BY <1>2, Numbers
<1> HIDE DEF ClearedTable
<1> QED BY <1>2, <1>3, <1>4, <1>5 DEF KeptOK, TableOK

(* A table taken up from the block before.                                 *)
LEMMA WorkingOK ==
    ASSUME NEW s, KeptOK(s), NEW codes \in Seq(Code), AllFit(codes)
    PROVE  LET w == Working(s, codes)
           IN  /\ w \in Work /\ TableOK(w) /\ AllFit(w.codes)
               /\ s.nextFree <= StopCode => WorkOK(w)
               /\ w.codes = codes /\ w.full = FALSE /\ w.prefix = NoCode
               /\ w.nextFree = s.nextFree
<1> DEFINE w == Working(s, codes)
<1>1. s \in Kept /\ TableOK(s)
  BY DEF KeptOK
<1>2. /\ w.table = s.table /\ w.nextFree = s.nextFree /\ w.codeBits = s.codeBits
      /\ w.highCode = s.highCode /\ w.prefix = NoCode /\ w.codes = codes /\ w.full = FALSE
  BY DEF Working
<1>3. w \in Work
  BY <1>1 DEF Working, Work, Kept, NoCode
<1> HIDE DEF w
<1> QED BY <1>1, <1>2, <1>3 DEF WorkOK, TableOK, w

(* The clear code is written, and the table begins again.                  *)
LEMMA RestartOK ==
    ASSUME NEW w, w \in Work, TableOK(w), AllFit(w.codes)
    PROVE  /\ WorkOK(Restart(w)) /\ Restart(w).full = FALSE
           /\ Restart(w).codes = Append(w.codes, <<ClearCode, w.codeBits>>)
           /\ Restart(w).nextFree = FirstCode
           /\ <<ClearCode, w.codeBits>> \in Code
<1>1. ClearCode \in Known(w) \cup {ClearCode} /\ ClearCode <= StopCode
  BY Numbers
<1>2. /\ PutCode(w, ClearCode).codes = Append(w.codes, <<ClearCode, w.codeBits>>)
      /\ PutCode(w, ClearCode) \in Work /\ AllFit(PutCode(w, ClearCode).codes)
      /\ <<ClearCode, w.codeBits>> \in Code
  BY <1>1, PutCodeOK
<1> DEFINE codes == PutCode(w, ClearCode).codes
<1>3. codes \in Seq(Code) /\ AllFit(codes)
  BY <1>2 DEF Work
<1>4. Restart(w) = Working(ClearedTable, codes)
  BY DEF Restart
<1>5. KeptOK(ClearedTable) /\ ClearedTable.nextFree = FirstCode
      /\ ClearedTable.nextFree <= StopCode
  BY ClearedOK, Numbers
<1> HIDE DEF codes
<1>6. LET v == Working(ClearedTable, codes)
      IN  WorkOK(v) /\ v.codes = codes /\ v.full = FALSE /\ v.nextFree = FirstCode
  BY <1>3, <1>5, WorkingOK
<1> QED BY <1>2, <1>4, <1>6 DEF codes

(* The codes of a full table are too many for the block to be kept packed. *)
LEMMA RestartHeavy ==
    ASSUME NEW w, w \in Work, TableOK(w), AllFit(w.codes), Heavy(w.codes)
    PROVE  Heavy(Restart(w).codes) /\ ~NoClear(Restart(w).codes)
<1> DEFINE x == <<ClearCode, w.codeBits>>
<1>1. Restart(w).codes = Append(w.codes, x) /\ x \in Code
  BY RestartOK
<1>2. w.codes \in Seq(Code) /\ x[2] >= 0 /\ x[1] = ClearCode
  BY Numbers DEF Work, TableOK
<1> HIDE DEF x
<1> QED BY <1>1, <1>2, CodesMore

(* One character.                                                          *)
LEMMA CompressCharOK ==
    ASSUME NEW w, WorkOK(w), NEW c \in Chars
    PROVE  /\ WorkOK(CompressChar(w, c)) /\ CompressChar(w, c).prefix # NoCode
           /\ LightOK(w) => LightOK(CompressChar(w, c))
<1> DEFINE found == {k \in DOMAIN w.table : w.table[k] = <<w.prefix, c>>}
           x     == CompressChar(w, c)
<1>1. w \in Work /\ TableOK(w) /\ AllFit(w.codes)
  BY DEF WorkOK
<1>2. c \in Int /\ c # NoCode
  BY Numbers DEF NoCode
<1>3. ASSUME NEW v, WorkOK(v), NEW p \in Known(v), p \in Int, p # NoCode,
             x = [v EXCEPT !.prefix = p]
      PROVE  /\ WorkOK(x) /\ x.prefix # NoCode /\ x.codes = v.codes /\ x.full = v.full
             /\ x.nextFree = v.nextFree
  <2>1. v \in Work
    BY <1>3 DEF WorkOK
  <2> HIDE DEF x
  <2>2. /\ x \in Work /\ x.table = v.table /\ x.nextFree = v.nextFree
        /\ x.codeBits = v.codeBits /\ x.highCode = v.highCode /\ x.prefix = p
        /\ x.codes = v.codes /\ x.full = v.full
    BY <1>3, <2>1 DEF Work
  <2> QED BY <1>3, <2>2 DEF WorkOK, TableOK, Known
<1>4. CASE w.full
  <2> DEFINE v == Restart(w)
  <2>1. WorkOK(v) /\ v.full = FALSE
    BY <1>1, RestartOK
  <2>2. x = [v EXCEPT !.prefix = c]
    BY <1>4 DEF CompressChar
  <2> HIDE DEF v
  <2>3. c \in Known(v)
    BY DEF Known
  <2>4. WorkOK(x) /\ x.prefix # NoCode /\ x.codes = v.codes /\ x.full = FALSE
    BY <1>2, <1>3, <2>1, <2>2, <2>3
  <2>5. LightOK(w) => LightOK(x)
    <3> HAVE LightOK(w)
    <3>1. Heavy(w.codes)
      BY <1>4 DEF LightOK
    <3>2. Heavy(v.codes) /\ ~NoClear(v.codes)
      BY <1>1, <3>1, RestartHeavy DEF v
    <3> HIDE DEF x
    <3> QED BY <2>4, <3>2 DEF LightOK
  <2> QED BY <2>4, <2>5
<1>5. CASE ~w.full /\ w.prefix = NoCode
  <2>1. x = [w EXCEPT !.prefix = c]
    BY <1>5 DEF CompressChar
  <2>2. c \in Known(w)
    BY DEF Known
  <2>3. WorkOK(x) /\ x.prefix # NoCode /\ x.codes = w.codes /\ x.full = w.full
        /\ x.nextFree = w.nextFree
    BY <1>2, <1>3, <2>1, <2>2
  <2> HIDE DEF x
  <2>4. LightOK(w) => LightOK(x)
    BY <2>3 DEF LightOK
  <2> QED BY <2>3, <2>4 DEF x
<1>6. CASE ~w.full /\ w.prefix # NoCode /\ found # {}
  <2> DEFINE p == CHOOSE k \in found : TRUE
  <2>1. p \in DOMAIN w.table
    BY <1>6
  <2>2. x = [w EXCEPT !.prefix = p]
    BY <1>6 DEF CompressChar
  <2> HIDE DEF p
  <2>3. p \in FirstCode .. w.nextFree - 1 /\ w.nextFree \in Int
    BY <1>1, <2>1 DEF TableOK, Work
  <2>4. p \in Known(w) /\ p \in Int /\ p # NoCode
    BY <2>3, Numbers DEF Known, NoCode
  <2>5. WorkOK(x) /\ x.prefix # NoCode /\ x.codes = w.codes /\ x.full = w.full
        /\ x.nextFree = w.nextFree
    BY <1>3, <2>2, <2>4
  <2> HIDE DEF x
  <2>6. LightOK(w) => LightOK(x)
    BY <2>5 DEF LightOK
  <2> QED BY <2>5, <2>6 DEF x
<1>7. CASE ~w.full /\ w.prefix # NoCode /\ found = {}
  <2>1. x = NewCode(w, c)
    BY <1>7 DEF CompressChar
  <2>2. WorkOK(NewCode(w, c)) /\ NewCode(w, c).prefix = c
    BY <1>7, NewCodeOK
  <2>3. LightOK(w) => LightOK(NewCode(w, c))
    BY <1>7, NewCodeLight
  <2> QED BY <1>2, <2>1, <2>2, <2>3
<1> QED BY <1>4, <1>5, <1>6, <1>7

(* The end of a block.                                                     *)
LEMMA EndBlockOK ==
    ASSUME NEW w, WorkOK(w), w.prefix # NoCode
    PROVE  LET v == EndBlock(w)
           IN  /\ v \in Work /\ TableOK(v) /\ (v.initialClear \/ v.nextFree <= StopCode)
               /\ AllFit(v.codes)
               /\ LightOK(w) => NoClear(v.codes) \/ Heavy(v.codes)
<1> DEFINE n == w.nextFree
           p == PutCode(w, w.prefix)
           u == Widened(p, n)
           v == EndBlock(w)
<1>1. w \in Work /\ TableOK(w) /\ AllFit(w.codes) /\ n \in FirstCode .. StopCode + 1 /\ n \in Int
  BY DEF WorkOK, TableOK, Work
<1>2. CASE w.full
  <2>1. v = [w EXCEPT !.initialClear = TRUE]
    BY <1>2 DEF EndBlock
  <2> HIDE DEF v
  <2>2. /\ v \in Work /\ v.table = w.table /\ v.nextFree = n /\ v.codeBits = w.codeBits
        /\ v.highCode = w.highCode /\ v.codes = w.codes /\ v.initialClear = TRUE
    BY <1>1, <2>1 DEF Work
  <2>3. TableOK(v)
    BY <1>1, <2>2 DEF TableOK
  <2>4. LightOK(w) => NoClear(v.codes) \/ Heavy(v.codes)
    BY <2>2 DEF LightOK
  <2> QED BY <1>1, <2>2, <2>3, <2>4 DEF v
<1>3. CASE ~w.full
  <2>1. n <= StopCode /\ w.prefix \in Known(w)
    BY <1>3 DEF WorkOK
  <2>2. w.prefix <= StopCode /\ w.prefix # ClearCode
    <3>1. w.prefix \in Chars \/ w.prefix \in FirstCode .. n - 1
      BY <2>1 DEF Known
    <3> HIDE DEF n
    <3> QED BY <1>1, <2>1, <3>1, Numbers
  <2>3. /\ p = [w EXCEPT !.codes = p.codes] /\ p \in Work /\ AllFit(p.codes)
        /\ p.codes = Append(w.codes, <<w.prefix, w.codeBits>>)
        /\ <<w.prefix, w.codeBits>> \in Code
    BY <1>1, <2>1, <2>2, PutCodeOK
  <2>4. v = [u EXCEPT !.nextFree = @ + 1, !.initialClear = n + 1 > StopCode]
    BY <1>3 DEF EndBlock
  <2> HIDE DEF p, v
  <2>5. /\ p.nextFree = n /\ p.codeBits = w.codeBits /\ p.highCode = w.highCode
        /\ p.table = w.table
    BY <1>1, <2>3 DEF Work
  <2>6. TableOK(p)
    BY <1>1, <2>5 DEF TableOK
  <2>7. /\ u = [p EXCEPT !.highCode = u.highCode, !.codeBits = u.codeBits] /\ u \in Work
        /\ u.codeBits \in CharBits + 1 .. MaxBits /\ u.highCode = 2^u.codeBits - 1
        /\ n + 1 <= u.highCode
    BY <2>1, <2>3, <2>5, <2>6, WidenedOK
  <2> HIDE DEF u
  <2>8. u.nextFree = n /\ u.table = w.table /\ u.codes = p.codes
    BY <2>3, <2>5, <2>7 DEF Work
  <2>9. /\ v \in Work /\ v.table = w.table /\ v.nextFree = n + 1 /\ v.codeBits = u.codeBits
        /\ v.highCode = u.highCode /\ v.codes = p.codes
        /\ v.initialClear = (n + 1 > StopCode)
    <3> DEFINE m == n + 1   clear == n + 1 > StopCode
    <3>1. m \in Int /\ clear \in BOOLEAN /\ v = [u EXCEPT !.nextFree = m, !.initialClear = clear]
      BY <1>1, <2>4, <2>8
    <3> HIDE DEF m, clear
    <3>2. /\ v \in Work /\ v.table = u.table /\ v.nextFree = m /\ v.codeBits = u.codeBits
          /\ v.highCode = u.highCode /\ v.codes = u.codes /\ v.initialClear = clear
      BY <2>7, <3>1 DEF Work
    <3> QED BY <2>8, <3>2 DEF m, clear
  <2>10. n + 1 \in FirstCode .. StopCode + 1 /\ DOMAIN w.table \subseteq FirstCode .. (n + 1) - 1
    <3>1. DOMAIN w.table \subseteq FirstCode .. n - 1
      BY <1>1 DEF TableOK
    <3> HIDE DEF n
    <3> QED BY <1>1, <2>1, <3>1, Numbers
  <2>11. TableOK(v)
    BY <2>7, <2>9, <2>10 DEF TableOK
  <2>12. v.initialClear \/ v.nextFree <= StopCode
    <3>1. n + 1 > StopCode \/ n + 1 <= StopCode
      BY <1>1, Numbers
    <3> HIDE DEF n
    <3> QED BY <2>9, <3>1
  <2>13. LightOK(w) => NoClear(v.codes) \/ Heavy(v.codes)
    <3> HAVE LightOK(w)
    <3> DEFINE x == <<w.prefix, w.codeBits>>
    <3>1. w.codes \in Seq(Code) /\ x \in Code /\ v.codes = Append(w.codes, x)
      BY <1>1, <2>3, <2>9 DEF Work
    <3>3. x[2] >= 0
      BY <1>1, Numbers DEF TableOK
    <3>4. x[1] # ClearCode
      BY <2>2
    <3> HIDE DEF x
    <3>2. /\ NoClear(v.codes) <=> NoClear(w.codes) /\ x[1] # ClearCode
          /\ Heavy(w.codes) => Heavy(v.codes)
      BY <3>1, <3>3, CodesMore
    <3> QED BY <3>2, <3>4 DEF LightOK
  <2> QED BY <2>3, <2>9, <2>11, <2>12, <2>13 DEF v
<1> QED BY <1>2, <1>3

(* What is kept of the loop's state                                         *)
LEMMA KeptOfWork ==
    ASSUME NEW v \in Work, TableOK(v), v.initialClear \/ v.nextFree <= StopCode
    PROVE  KeptOK([f \in DOMAIN ClearedTable |-> v[f]])
<1> DEFINE k == [f \in DOMAIN ClearedTable |-> v[f]]
<1>1. DOMAIN ClearedTable = {"table", "nextFree", "codeBits", "highCode", "initialClear"}
  BY DEF ClearedTable
<1>2. k = [table |-> v.table, nextFree |-> v.nextFree, codeBits |-> v.codeBits,
           highCode |-> v.highCode, initialClear |-> v.initialClear]
  BY <1>1
<1> HIDE DEF k
<1>3. k \in Kept
  BY <1>2 DEF Work, Kept
<1>4. k.table = v.table /\ k.nextFree = v.nextFree /\ k.codeBits = v.codeBits
      /\ k.highCode = v.highCode /\ k.initialClear = v.initialClear
  BY <1>2
<1>5. KeptOK(k)
  BY <1>3, <1>4 DEF KeptOK, TableOK
<1> QED BY <1>5 DEF k

(* A block through the compressor: its codes fit, the table left is one a   *)
(* block can start with, and when it started with an empty one a clear code *)
(* is only in a block that has not become smaller.                         *)
LEMMA CompressLZWBlockOK ==
    ASSUME NEW s, KeptOK(s), NEW data \in Seq(Chars), Len(data) # 0
    PROVE  LET v == CompressLZWBlock(s, data)
           IN  /\ v \in Work /\ KeptOK([f \in DOMAIN ClearedTable |-> v[f]])
               /\ AllFit(v.codes)
               /\ s = ClearedTable => NoClear(v.codes) \/ Heavy(v.codes)
<1> DEFINE n == Len(data)
           start == IF s.initialClear THEN Restart(Working(s, <<>>)) ELSE Working(s, <<>>)
           G == CHOOSE g : g = [i \in 0 .. n |-> IF i = 0 THEN start
                                                 ELSE CompressChar(g[i-1], data[i])]
           S == {w \in Work : WorkOK(w)}
           step == [z \in S \X (1 .. n) |-> CompressChar(z[1], data[z[2]])]
<1>1. n \in Nat \ {0} /\ \A i \in 1 .. n : data[i] \in Chars
  OBVIOUS
<1>2. start \in S /\ (s = ClearedTable => LightOK(start))
  <2>1. <<>> \in Seq(Code) /\ AllFit(<<>>)
    BY DEF AllFit
  <2> DEFINE w == Working(s, <<>>)
  <2>2. /\ w \in Work /\ TableOK(w) /\ AllFit(w.codes)
        /\ s.nextFree <= StopCode => WorkOK(w)
        /\ w.codes = <<>> /\ w.full = FALSE /\ w.nextFree = s.nextFree
    BY <2>1, WorkingOK
  <2> HIDE DEF w
  <2>3. CASE s.initialClear
    <3>1. start = Restart(w)
      BY <2>3 DEF w
    <3>2. WorkOK(Restart(w))
      BY <2>2, RestartOK
    <3>3. s # ClearedTable
      BY <2>3, ClearedOK
    <3> QED BY <3>1, <3>2, <3>3 DEF WorkOK
  <2>4. CASE ~s.initialClear
    <3>1. start = w
      BY <2>4 DEF w
    <3>2. s.nextFree <= StopCode
      BY <2>4 DEF KeptOK
    <3>3. ASSUME s = ClearedTable PROVE LightOK(w)
      <4>1. Bits(w.codes) = 0 /\ w.nextFree = FirstCode
        BY <2>2, <3>3, BitsOfNone, ClearedOK
      <4>2. NoClear(w.codes)
        BY <2>2 DEF NoClear
      <4>3. LowBits(0, FirstCode)
        <5>1. FirstCode - FirstCode = 0 /\ ClearCode >= 0
          BY Numbers
        <5>2. (CharBits + 1) * 0 = 0 /\ (CharBits + 2) * 0 = 0
          BY Numbers
        <5> QED BY <5>1, <5>2, Numbers DEF LowBits
      <4> QED BY <2>2, <4>1, <4>2, <4>3 DEF LightOK
    <3> QED BY <2>2, <3>1, <3>2, <3>3
  <2> QED BY <2>3, <2>4
<1>3. ASSUME NEW w \in S, NEW i \in 1 .. n
      PROVE  CompressChar(w, data[i]) \in S /\ step[<<w, i>>] = CompressChar(w, data[i])
  <2>1. WorkOK(CompressChar(w, data[i]))
    BY <1>1, <1>3, CompressCharOK
  <2> QED BY <2>1 DEF WorkOK
<1>4. step \in [S \X (1 .. n) -> S]
  BY <1>3
<1> HIDE DEF step, S, start
<1>5. PICK g : IsLoop(g, n, S, start, step)
  <2> HIDE DEF n
  <2> QED BY <1>1, <1>2, <1>4, LoopExists
<1>6. g = [i \in 0 .. n |-> IF i = 0 THEN start ELSE CompressChar(g[i-1], data[i])]
  <2>1. ASSUME NEW i \in 1 .. n PROVE g[i] = CompressChar(g[i-1], data[i])
    <3>1. g[i-1] \in S
      <4>1. i - 1 \in 0 .. n
        BY <1>1
      <4> QED BY <1>5, <4>1 DEF IsLoop
    <3> QED BY <1>3, <1>5, <3>1 DEF IsLoop
  <2>2. \A i \in 0 .. n : i # 0 => i \in 1 .. n
    BY <1>1
  <2>3. g = [i \in 0 .. n |-> g[i]] /\ g[0] = start
    BY <1>5 DEF IsLoop
  <2> HIDE DEF n
  <2>4. \A i \in 0 .. n : g[i] = IF i = 0 THEN start ELSE CompressChar(g[i-1], data[i])
    BY <2>1, <2>2, <2>3
  <2> QED BY <2>3, <2>4
<1>7. G = [i \in 0 .. n |-> IF i = 0 THEN start ELSE CompressChar(G[i-1], data[i])]
  BY <1>6
<1>8. CompressLZWBlock(s, data) = EndBlock(G[n])
  BY DEF CompressLZWBlock, start
<1> HIDE DEF G
<1>9. /\ G[0] = start
      /\ \A i \in 1 .. n : G[i] = CompressChar(G[i-1], data[i])
  <2>1. 0 \in 0 .. n /\ \A i \in 1 .. n : i \in 0 .. n /\ i # 0
    BY <1>1
  <2> HIDE DEF n
  <2>2. \A i \in 0 .. n : G[i] = IF i = 0 THEN start ELSE CompressChar(G[i-1], data[i])
    BY <1>7
  <2> QED BY <2>1, <2>2
<1>10. \A i \in 0 .. n : G[i] \in S
  <2>1. \A i \in 1 .. n : G[i-1] \in S => G[i] \in S
    BY <1>3, <1>9
  <2> HIDE DEF n
  <2> QED BY <1>1, <1>2, <1>9, <2>1, LoopKeeps
<1>11. s = ClearedTable => LightOK(G[n])
  <2> HAVE s = ClearedTable
  <2> DEFINE L == {w \in S : LightOK(w)}
  <2>1. G[0] \in L
    BY <1>2, <1>9
  <2>2. ASSUME NEW i \in 1 .. n, G[i-1] \in L PROVE G[i] \in L
    <3>1. WorkOK(G[i-1]) /\ LightOK(G[i-1]) /\ data[i] \in Chars
      BY <1>1, <2>2 DEF S
    <3>2. LightOK(CompressChar(G[i-1], data[i]))
      BY <3>1, CompressCharOK
    <3> QED BY <1>3, <1>9, <2>2, <3>2
  <2> HIDE DEF L, n
  <2>3. \A i \in 0 .. n : G[i] \in L
    BY <1>1, <2>1, <2>2, LoopKeeps
  <2>4. n \in 0 .. n
    BY <1>1
  <2> QED BY <2>3, <2>4 DEF L
<1>12. WorkOK(G[n]) /\ G[n].prefix # NoCode
  <2>1. n \in 1 .. n /\ n - 1 \in 0 .. n
    BY <1>1
  <2> HIDE DEF n
  <2>2. WorkOK(G[n-1]) /\ data[n] \in Chars /\ G[n] = CompressChar(G[n-1], data[n])
    BY <1>1, <1>9, <1>10, <2>1 DEF S
  <2> QED BY <2>2, CompressCharOK
<1> DEFINE v == EndBlock(G[n])
<1>13. /\ v \in Work /\ TableOK(v) /\ (v.initialClear \/ v.nextFree <= StopCode)
       /\ AllFit(v.codes)
       /\ LightOK(G[n]) => NoClear(v.codes) \/ Heavy(v.codes)
  BY <1>12, EndBlockOK
<1> HIDE DEF v
<1>14. KeptOK([f \in DOMAIN ClearedTable |-> v[f]])
  BY <1>13, KeptOfWork
<1> QED BY <1>8, <1>11, <1>13, <1>14 DEF v

-----------------------------------------------------------------------------
(* Runs, and the chunk a block becomes *)

Run == Chars \X (Nat \ {0})

(* The runs of a block are runs of its characters; a block has one.        *)
LEMMA RunsOK ==
    ASSUME NEW s \in Seq(Chars)
    PROVE  Runs(s) \in Seq(Run) /\ (Len(s) # 0 => Len(Runs(s)) # 0)
<1> DEFINE n == Len(s)
           Longer(r) == [r EXCEPT ![Len(r)][2] = @ + 1]
           Next1(r, i) == IF i > 1 /\ s[i] = s[i-1] THEN Longer(r) ELSE Append(r, <<s[i], 1>>)
           G == CHOOSE g : g = [i \in 0 .. n |-> IF i = 0 THEN <<>> ELSE Next1(g[i-1], i)]
           S == Seq(Run)
           step == [z \in S \X (1 .. n) |-> IF z[1] = <<>> /\ z[2] > 1 THEN <<>>
                                            ELSE Next1(z[1], z[2])]
           start == <<>>
<1>1. n \in Nat /\ \A i \in 1 .. n : s[i] \in Chars
  OBVIOUS
<1>2. ASSUME NEW r \in S, r # <<>>
      PROVE  Longer(r) \in S /\ Longer(r) # <<>>
  <2> DEFINE m == Len(r)
  <2>1. m \in Nat \ {0} /\ m \in DOMAIN r /\ r[m] \in Run
    BY <1>2
  <2> DEFINE x == [r[m] EXCEPT ![2] = @ + 1]
  <2>2. x \in Run
    BY <2>1 DEF Run
  <2>3. Longer(r) = [r EXCEPT ![m] = x]
    BY <2>1
  <2> HIDE DEF x, m
  <2>4. [r EXCEPT ![m] = x] \in Seq(Run)
    BY <2>1, <2>2
  <2>5. Len([r EXCEPT ![m] = x]) = Len(r)
    BY <2>1, <2>2
  <2> QED BY <2>1, <2>3, <2>4, <2>5 DEF m
<1>3. ASSUME NEW r \in S, NEW i \in 1 .. n
      PROVE  Append(r, <<s[i], 1>>) \in S /\ Append(r, <<s[i], 1>>) # <<>>
  <2> DEFINE x == <<s[i], 1>>
  <2>1. x \in Run
    BY <1>1 DEF Run
  <2> HIDE DEF x
  <2>2. Append(r, x) \in S /\ Len(Append(r, x)) = Len(r) + 1 /\ Len(r) \in Nat
    BY <2>1
  <2>3. Len(<<>>) = 0 /\ Len(r) + 1 # 0
    BY <2>2
  <2>4. Append(r, x) # <<>>
    BY <2>2, <2>3
  <2> QED BY <2>2, <2>4 DEF x
<1>4. <<>> \in S
  OBVIOUS
<1>5. step \in [S \X (1 .. n) -> S]
  <2> HIDE DEF S, Longer
  <2> QED BY <1>1, <1>2, <1>3, <1>4
<1>6. ASSUME NEW r \in S, NEW i \in 1 .. n, r # <<>> \/ i = 1
      PROVE  step[<<r, i>>] = Next1(r, i) /\ step[<<r, i>>] # <<>>
  <2>1. step[<<r, i>>] = IF r = <<>> /\ i > 1 THEN <<>> ELSE Next1(r, i)
    <3> HIDE DEF S, Next1
    <3> QED OBVIOUS
  <2>2. step[<<r, i>>] = Next1(r, i)
    <3> HIDE DEF S, Next1, step
    <3> QED BY <1>6, <2>1
  <2>3. CASE i > 1 /\ s[i] = s[i-1]
    <3>1. r # <<>>
      BY <1>6, <2>3
    <3> HIDE DEF S, Longer, step
    <3> QED BY <1>2, <2>2, <2>3, <3>1
  <2>4. CASE ~(i > 1 /\ s[i] = s[i-1])
    <3>1. Next1(r, i) = Append(r, <<s[i], 1>>)
      BY <2>4
    <3> HIDE DEF S, Longer, step, Next1
    <3> QED BY <1>3, <2>2, <3>1
  <2> QED BY <2>3, <2>4
<1>7. start \in S
  BY <1>4
<1> HIDE DEF step, S, Longer, start
<1>8. PICK f : IsLoop(f, n, S, start, step)
  <2> HIDE DEF n
  <2> QED BY <1>1, <1>5, <1>7, LoopExists
<1>9. \A i \in 0 .. n : i # 0 => f[i] # <<>>
  <2> DEFINE T == {m \in 0 .. n : m # 0 => f[m] # <<>>}
  <2>1. ASSUME NEW m \in 0 .. n - 1, m \in T PROVE m + 1 \in T
    <3>1. m + 1 \in 1 .. n /\ (m + 1) - 1 = m /\ m \in 0 .. n
      BY <1>1
    <3>2. f[m + 1] = step[<<f[m], m + 1>>] /\ f[m] \in S
      BY <1>8, <3>1 DEF IsLoop
    <3>3. f[m] # <<>> \/ m + 1 = 1
      BY <2>1
    <3>4. step[<<f[m], m + 1>>] # <<>>
      <4> HIDE DEF n, Next1
      <4> QED BY <1>6, <3>1, <3>2, <3>3
    <3> QED BY <3>1, <3>2, <3>4
  <2>2. 0 \in T
    BY <1>1
  <2>3. \A m \in 0 .. n : m \in T
    <3> HIDE DEF T, n
    <3> QED BY <1>1, <2>1, <2>2, UpTo
  <2> QED BY <2>3
<1>10. \A i \in 1 .. n : f[i] = Next1(f[i-1], i)
  <2> TAKE i \in 1 .. n
  <2>1. i - 1 \in 0 .. n /\ (i - 1 # 0 \/ i = 1)
    BY <1>1
  <2>2. f[i-1] \in S /\ f[i] = step[<<f[i-1], i>>]
    BY <1>8, <2>1 DEF IsLoop
  <2> HIDE DEF n, Next1
  <2> QED BY <1>6, <1>9, <2>1, <2>2
<1>11. f = [i \in 0 .. n |-> IF i = 0 THEN <<>> ELSE Next1(f[i-1], i)]
  <2>1. \A i \in 0 .. n : i # 0 => i \in 1 .. n
    BY <1>1
  <2>2. f = [i \in 0 .. n |-> f[i]] /\ f[0] = <<>>
    BY <1>8 DEF IsLoop, start
  <2> HIDE DEF n, Next1
  <2>3. \A i \in 0 .. n : f[i] = IF i = 0 THEN <<>> ELSE Next1(f[i-1], i)
    BY <1>10, <2>1, <2>2
  <2> QED BY <2>2, <2>3
<1>12. G = [i \in 0 .. n |-> IF i = 0 THEN <<>> ELSE Next1(G[i-1], i)]
  <2> HIDE DEF n, Next1
  <2> QED BY <1>11
<1>13. Runs(s) = G[n]
  BY DEF Runs, Longer
<1> HIDE DEF G
<1>14. \A i \in 0 .. n : G[i] = f[i]
  <2> DEFINE T == {m \in 0 .. n : G[m] = f[m]}
  <2>1. ASSUME NEW m \in 0 .. n - 1, m \in T PROVE m + 1 \in T
    <3>1. m + 1 \in 1 .. n /\ (m + 1) - 1 = m /\ m + 1 \in 0 .. n /\ m + 1 # 0
      BY <1>1
    <3> HIDE DEF n, Next1
    <3>2. G[m + 1] = Next1(G[(m + 1) - 1], m + 1)
      BY <1>12, <3>1
    <3>3. f[m + 1] = Next1(f[(m + 1) - 1], m + 1)
      BY <1>10, <3>1
    <3> QED BY <2>1, <3>1, <3>2, <3>3
  <2>2. 0 \in T
    <3>1. 0 \in 0 .. n
      BY <1>1
    <3> HIDE DEF n
    <3> QED BY <1>8, <1>12, <3>1 DEF IsLoop, start
  <2>3. \A m \in 0 .. n : m \in T
    <3> HIDE DEF T, n
    <3> QED BY <1>1, <2>1, <2>2, UpTo
  <2> QED BY <2>3
<1>15. f[n] \in Seq(Run) /\ (n # 0 => f[n] # <<>>)
  <2>1. n \in 0 .. n
    BY <1>1
  <2> HIDE DEF n
  <2> QED BY <1>8, <1>9, <2>1 DEF IsLoop, S
<1>16. n \in 0 .. n
  BY <1>1
<1> QED BY <1>13, <1>14, <1>15, <1>16

(* What begins with something is not empty.                                *)
LEMMA FlattenNotEmpty ==
    ASSUME NEW S, NEW ss \in Seq(Seq(S)), Len(ss) # 0, Len(ss[1]) # 0
    PROVE  Len(FlattenSeq(ss)) # 0
<1>1. Len(ss) \in Nat \ {0} /\ 1 \in 1 .. Len(ss) /\ ss[1] \in Seq(S) /\ Len(ss[1]) \in Nat \ {0}
  <2>1. Len(ss) \in Nat \ {0}
    OBVIOUS
  <2>2. 1 \in 1 .. Len(ss)
    BY <2>1
  <2>3. ss[1] \in Seq(S)
    BY <2>2
  <2> QED BY <2>1, <2>2, <2>3
<1>2. PICK off : Placed(ss, off)
  BY FlattenPlaces
<1>3. Offsets(ss, off) /\ Len(FlattenSeq(ss)) = off[Len(ss)]
  BY <1>2 DEF Placed
<1>4. off[1] = off[1-1] + Len(ss[1]) /\ off[0] = 0 /\ off[Len(ss)] \in Nat /\ off[1] \in Nat
  <2>1. \A i \in 1 .. Len(ss) : off[i] = off[i-1] + Len(ss[i])
    BY <1>3 DEF Offsets
  <2>2. 1 \in 0 .. Len(ss) /\ Len(ss) \in 0 .. Len(ss)
    BY <1>1
  <2> QED BY <1>1, <1>3, <2>1, <2>2 DEF Offsets
<1>5. off[1] # 0
  BY <1>1, <1>4
<1>6. off[1] <= off[Len(ss)]
  <2> DEFINE n == Len(ss)
  <2>1. 1 \in 0 .. n /\ n \in 0 .. n /\ 1 <= n
    BY <1>1
  <2> HIDE DEF n
  <2>2. \A i, j \in 0 .. n : i <= j => off[i] <= off[j]
    BY <1>3, OffsetsGrow DEF n
  <2> QED BY <2>1, <2>2 DEF n
<1> QED BY <1>3, <1>4, <1>5, <1>6

(* So many times the same value.                                           *)
LEMMA CopiesType ==
    ASSUME NEW S, NEW c \in S, NEW n \in Nat
    PROVE  Copies(c, n) \in Seq(S) /\ Len(Copies(c, n)) = n
BY DEF Copies

(* What a division leaves over.                                            *)
LEMMA DivideUp ==
    ASSUME NEW x \in Nat, NEW m \in Nat \ {0}
    PROVE  x \div m \in Nat /\ (x \div m) * m <= x /\ x < (x \div m) * m + m
OBVIOUS

(* A run of characters as it is written.                                   *)
LEMMA EncodeRunOK ==
    ASSUME NEW c \in Chars, NEW n \in Nat \ {0}
    PROVE  EncodeRun(c, n) \in Seq(Chars) /\ Len(EncodeRun(c, n)) # 0
<1> DEFINE full == IF n > MaxRun THEN (n - 1) \div MaxRun ELSE 0
           rest == n - full * MaxRun
           Triple(k) == <<Escape, c, k - 1>>
           ss == [i \in 1 .. full |-> Triple(MaxRun)]
           tail == IF rest > MinRun \/ (full = 0 /\ c = Escape) THEN Triple(rest)
                   ELSE Copies(c, rest)
<1>1. MaxRun \in Nat \ {0} /\ Chars = 0 .. MaxRun - 1 /\ Escape \in Chars
  BY Numbers DEF MaxRun
<1>2. full \in Nat /\ rest \in 1 .. MaxRun
  <2>1. CASE n > MaxRun
    <3>1. n - 1 \in Nat
      OBVIOUS
    <3> DEFINE q == (n - 1) \div MaxRun   p == q * MaxRun
    <3>2. q \in Nat /\ p <= n - 1 /\ n - 1 < p + MaxRun
      BY <1>1, <3>1, DivideUp
    <3>3. full = q /\ rest = n - p
      BY <2>1
    <3>4. p \in Nat
      BY <1>1, <3>2
    <3> HIDE DEF q, p, full, rest
    <3> QED BY <1>1, <3>2, <3>3, <3>4
  <2>2. CASE ~(n > MaxRun)
    <3>1. full = 0 /\ rest = n
      BY <1>1, <2>2
    <3> HIDE DEF full, rest
    <3> QED BY <1>1, <2>2, <3>1
  <2> QED BY <2>1, <2>2
<1>3. ASSUME NEW k \in 1 .. MaxRun
      PROVE  Triple(k) \in Seq(Chars) /\ Len(Triple(k)) = 3
  <2>1. k - 1 \in Chars
    BY <1>1
  <2> QED BY <1>1, <2>1
<1> HIDE DEF full
<1>4. ss \in Seq(Seq(Chars))
  <2>1. MaxRun \in 1 .. MaxRun
    BY <1>1
  <2>2. Triple(MaxRun) \in Seq(Chars)
    BY <1>3, <2>1
  <2> HIDE DEF Triple
  <2> QED BY <1>2, <2>2
<1>5. FlattenSeq(ss) \in Seq(Chars)
  <2> HIDE DEF ss
  <2> QED BY <1>4, FlattenPlaces
<1> HIDE DEF rest
<1>6. tail \in Seq(Chars) /\ Len(tail) \in Nat \ {0}
  <2>1. Triple(rest) \in Seq(Chars) /\ Len(Triple(rest)) = 3
    BY <1>2, <1>3
  <2>2. rest \in Nat \ {0}
    BY <1>1, <1>2
  <2>3. Copies(c, rest) \in Seq(Chars) /\ Len(Copies(c, rest)) = rest
    BY <2>2, CopiesType
  <2>4. tail = Triple(rest) \/ tail = Copies(c, rest)
    OBVIOUS
  <2> HIDE DEF Triple, tail
  <2> QED BY <2>1, <2>2, <2>3, <2>4
<1>7. EncodeRun(c, n) = FlattenSeq(ss) \o tail
  BY DEF EncodeRun, full, rest
<1> DEFINE front == FlattenSeq(ss)
<1> HIDE DEF front, tail
<1>8. front \o tail \in Seq(Chars) /\ Len(front \o tail) = Len(front) + Len(tail)
      /\ Len(front) \in Nat
  <2>1. front \in Seq(Chars)
    BY <1>5 DEF front
  <2> QED BY <1>6, <2>1
<1> QED BY <1>6, <1>7, <1>8 DEF front

(* A block after the run-length layer.                                     *)
LEMMA CompressBlockRLEOK ==
    ASSUME NEW block \in Seq(Chars), Len(block) # 0
    PROVE  CompressBlockRLE(block) \in Seq(Chars) /\ Len(CompressBlockRLE(block)) # 0
<1> DEFINE runs == Runs(block)
           ss   == [i \in DOMAIN runs |-> EncodeRun(runs[i][1], runs[i][2])]
<1>1. runs \in Seq(Run) /\ Len(runs) # 0
  BY RunsOK
<1> HIDE DEF runs
<1>2. DOMAIN runs = 1 .. Len(runs) /\ Len(runs) \in Nat \ {0}
  BY <1>1
<1>3. ASSUME NEW i \in DOMAIN runs
      PROVE  EncodeRun(runs[i][1], runs[i][2]) \in Seq(Chars)
             /\ Len(EncodeRun(runs[i][1], runs[i][2])) # 0
  <2>1. runs[i] \in Run
    BY <1>1
  <2>2. runs[i][1] \in Chars /\ runs[i][2] \in Nat \ {0}
    BY <2>1 DEF Run
  <2> QED BY <2>2, EncodeRunOK
<1>4. ss \in Seq(Seq(Chars)) /\ Len(ss) = Len(runs)
  BY <1>2, <1>3
<1>5. Len(ss[1]) # 0
  BY <1>2, <1>3
<1>6. CompressBlockRLE(block) = FlattenSeq(ss)
  BY DEF CompressBlockRLE, runs
<1> HIDE DEF ss
<1>7. Len(ss) # 0
  BY <1>2, <1>4
<1>8. FlattenSeq(ss) \in Seq(Chars)
  BY <1>4, FlattenPlaces
<1>9. Len(FlattenSeq(ss)) # 0
  BY <1>4, <1>5, <1>7, FlattenNotEmpty
<1> QED BY <1>6, <1>8, <1>9

(* A block that was filled up is a whole block.                            *)
LEMMA PaddedOK ==
    ASSUME NEW block \in Seq(Chars), Len(block) <= BlockSize
    PROVE  Padded(block) \in Seq(Chars) /\ Len(Padded(block)) = BlockSize
<1> DEFINE pad == Copies(0, BlockSize - Len(block))
<1>1. BlockSize - Len(block) \in Nat /\ 0 \in Chars /\ Len(block) \in Nat /\ BlockSize \in Nat
  BY Numbers
<1>2. pad \in Seq(Chars) /\ Len(pad) = BlockSize - Len(block)
  BY <1>1, CopiesType
<1> HIDE DEF pad
<1>3. block \o pad \in Seq(Chars) /\ Len(block \o pad) = Len(block) + Len(pad)
  BY <1>2
<1>4. Len(block \o pad) = BlockSize
  BY <1>1, <1>2, <1>3
<1> QED BY <1>3, <1>4 DEF Padded, pad

(* The bits of codes that fit are counted from zero.                       *)
LEMMA BitsNat ==
    ASSUME NEW codes \in Seq(Code), AllFit(codes)
    PROVE  Bits(codes) \in Nat
<1> DEFINE n == Len(codes)
           h == [i \in 1 .. Len(codes) |-> codes[i][2]]
<1>1. PICK f : IsSumsOf(f, h, n) /\ Bits(codes) = f[n]
  BY BitsAreSums
<1>2. n \in Nat /\ \A i \in 1 .. n : h[i] \in Nat
  BY Numbers DEF AllFit, FitCode
<1>3. f[0] \in Nat
  BY <1>1 DEF IsSumsOf
<1>4. ASSUME NEW i \in 1 .. n, f[i-1] \in Nat PROVE f[i] \in Nat
  <2>1. f[i] = f[i-1] + h[i]
    BY <1>1 DEF IsSumsOf
  <2> HIDE DEF n, h
  <2> QED BY <1>2, <1>4, <2>1
<1>5. n \in 0 .. n
  BY <1>2
<1> HIDE DEF n, h
<1>6. \A i \in 0 .. n : f[i] \in Nat
  BY <1>2, <1>3, <1>4, LoopKeeps
<1> QED BY <1>1, <1>5, <1>6

(* The bytes of the codes; those of a heavy block are no fewer than the block.*)
LEMMA LzwSizeOK ==
    ASSUME NEW codes \in Seq(Code), AllFit(codes)
    PROVE  LzwSize(codes) \in Nat /\ (Heavy(codes) => LzwSize(codes) >= BlockSize)
<1> DEFINE x == Bits(codes) + CharBits - 1
           q == x \div CharBits
<1>1. CharBits \in Nat \ {0} /\ BlockSize \in Nat /\ Bits(codes) \in Nat
  BY BitsNat, Numbers
<1>2. LzwSize(codes) = q
  BY DEF LzwSize, Bits
<1>3. x \in Nat /\ x = Bits(codes) + CharBits - 1
  BY <1>1
<1> HIDE DEF x
<1>4. q \in Nat /\ x < q * CharBits + CharBits
  BY <1>1, <1>3, DivideUp
<1> HIDE DEF q
<1>5. Heavy(codes) => q >= BlockSize
  <2> HAVE Heavy(codes)
  <2>1. Bits(codes) >= BlockSize * CharBits
    BY DEF Heavy
  <2> SUFFICES ASSUME q < BlockSize PROVE FALSE
    BY <1>1, <1>4
  <2>2. (q + 1) * CharBits <= BlockSize * CharBits
    <3>1. \A i, j \in Nat, k \in Nat : i <= j => i * k <= j * k
      OBVIOUS
    <3>2. q + 1 \in Nat /\ q + 1 <= BlockSize
      BY <1>1, <1>4
    <3> QED BY <1>1, <3>1, <3>2
  <2>3. (q + 1) * CharBits = q * CharBits + CharBits
    BY <1>1, <1>4
  <2> DEFINE p == q * CharBits   e == BlockSize * CharBits
  <2>4. p \in Int /\ e \in Int /\ x < p + CharBits /\ p + CharBits <= e /\ Bits(codes) >= e
    BY <1>1, <1>4, <2>1, <2>2, <2>3
  <2> HIDE DEF p, e
  <2> QED BY <1>1, <1>3, <2>4
<1> QED BY <1>2, <1>4, <1>5

(* A piece of an LZW thread.                                               *)
Chunk == [rleLen : Int, lzw : BOOLEAN, body : Seq(Code) \cup Seq(Chars), size : Int]

ChunkOK(k, lzw2) ==
    /\ k.size \in 1 .. Desired /\ k.rleLen \in 1 .. BlockSize /\ k.lzw \in BOOLEAN
    /\ k.lzw => /\ k.body \in Seq(Code) /\ AllFit(k.body)
                /\ ~lzw2 => NoClear(k.body)
    /\ ~k.lzw => /\ k.body \in Seq(Chars) /\ Len(k.body) = k.rleLen
                 /\ k.size = ChunkHeader(lzw2, FALSE) + k.rleLen

(* A chunk has the size its header says, and the table kept after it is a table.*)
LEMMA CompressChunkOK ==
    ASSUME NEW s, KeptOK(s), NEW block \in Seq(Chars), Len(block) <= BlockSize,
           NEW lzw2 \in BOOLEAN, NEW mimic \in BOOLEAN
    PROVE  LET c == CompressChunk(s, block, lzw2, mimic)
           IN  c.chunk \in Chunk /\ ChunkOK(c.chunk, lzw2) /\ KeptOK(c.table)
<1> DEFINE rle  == CompressBlockRLE(Padded(block))
           in   == IF Len(rle) < BlockSize THEN rle ELSE Padded(block)
           from == IF lzw2 THEN s ELSE ClearedTable
           w    == CompressLZWBlock(from, in)
           size == LzwSize(w.codes)
           keep == size + (IF lzw2 /\ ~mimic THEN FieldSize ELSE 0) < Len(in)
           c    == CompressChunk(s, block, lzw2, mimic)
<1>1. c = [chunk |-> [rleLen |-> Len(in), lzw |-> keep,
                      body |-> IF keep THEN w.codes ELSE in,
                      size |-> ChunkHeader(lzw2, keep) + (IF keep THEN size ELSE Len(in))],
           table |-> IF keep /\ lzw2 THEN [f \in DOMAIN ClearedTable |-> w[f]]
                     ELSE ClearedTable]
  BY DEF CompressChunk
<1>2. /\ BlockSize \in Nat \ {0} /\ FieldSize \in 1 .. 2
      /\ Padded(block) \in Seq(Chars) /\ Len(Padded(block)) = BlockSize
  BY PaddedOK, Numbers
<1>3. rle \in Seq(Chars) /\ Len(rle) \in Nat \ {0}
  <2> DEFINE p == Padded(block)
  <2>1. p \in Seq(Chars) /\ Len(p) # 0
    BY <1>2
  <2> HIDE DEF p
  <2>2. CompressBlockRLE(p) \in Seq(Chars) /\ Len(CompressBlockRLE(p)) # 0
    BY <2>1, CompressBlockRLEOK
  <2>3. Len(CompressBlockRLE(p)) \in Nat
    BY <2>2
  <2> QED BY <2>2, <2>3 DEF p
<1> HIDE DEF rle
<1>4. in \in Seq(Chars) /\ Len(in) \in 1 .. BlockSize
  BY <1>2, <1>3
<1> HIDE DEF in
<1>5. KeptOK(from) /\ (~lzw2 => from = ClearedTable)
  BY ClearedOK
<1> HIDE DEF from
<1>6. /\ w \in Work /\ KeptOK([f \in DOMAIN ClearedTable |-> w[f]]) /\ AllFit(w.codes)
      /\ from = ClearedTable => NoClear(w.codes) \/ Heavy(w.codes)
  <2>1. Len(in) # 0
    BY <1>4
  <2> QED BY <1>4, <1>5, <2>1, CompressLZWBlockOK
<1> HIDE DEF w
<1>7. w.codes \in Seq(Code)
  BY <1>6 DEF Work
<1>8. size \in Nat /\ (Heavy(w.codes) => size >= BlockSize)
  BY <1>6, <1>7, LzwSizeOK
<1> HIDE DEF size
<1>9. keep \in BOOLEAN
  OBVIOUS
<1>10. keep => size < Len(in) /\ (lzw2 /\ ~mimic => size + FieldSize < Len(in))
  BY <1>2, <1>4, <1>8
<1>11. ~lzw2 /\ keep => NoClear(w.codes)
  BY <1>2, <1>4, <1>5, <1>6, <1>8, <1>10
<1> HIDE DEF keep, c
<1>12. /\ c.chunk.rleLen = Len(in) /\ c.chunk.lzw = keep
       /\ c.chunk.body = IF keep THEN w.codes ELSE in
       /\ c.chunk.size = ChunkHeader(lzw2, keep) + (IF keep THEN size ELSE Len(in))
       /\ c.table = IF keep /\ lzw2 THEN [f \in DOMAIN ClearedTable |-> w[f]] ELSE ClearedTable
  BY <1>1
<1>13. c.chunk.size \in 1 .. Desired
  <2>1. CASE keep
    <3>1. c.chunk.size = (IF lzw2 THEN 2 * FieldSize ELSE FieldSize + 1) + size
      BY <1>12, <2>1 DEF ChunkHeader
    <3>2. size + 1 <= BlockSize
      BY <1>2, <1>4, <1>8, <1>10, <2>1
    <3> QED BY <1>2, <1>8, <3>1, <3>2 DEF Desired
  <2>2. CASE ~keep
    <3>1. c.chunk.size = (IF lzw2 THEN FieldSize ELSE FieldSize + 1) + Len(in)
      BY <1>12, <2>2 DEF ChunkHeader
    <3> QED BY <1>2, <1>4, <3>1 DEF Desired
  <2> QED BY <2>1, <2>2
<1>14. ~keep => c.chunk.size = ChunkHeader(lzw2, FALSE) + Len(in)
  BY <1>9, <1>12
<1>15. ChunkOK(c.chunk, lzw2)
  BY <1>4, <1>6, <1>7, <1>9, <1>11, <1>12, <1>13, <1>14 DEF ChunkOK
<1>16. KeptOK(c.table)
  BY <1>6, <1>12, ClearedOK
<1>17. c.chunk \in Chunk
  <2> DEFINE body == IF keep THEN w.codes ELSE in
             total == c.chunk.size
  <2>1. c.chunk = [rleLen |-> Len(in), lzw |-> keep, body |-> body, size |-> total]
    BY <1>1 DEF c
  <2>2. body \in Seq(Code) \cup Seq(Chars) /\ total \in Int /\ Len(in) \in Int
    BY <1>4, <1>7, <1>13
  <2> HIDE DEF body, total
  <2> QED BY <1>9, <2>1, <2>2 DEF Chunk
<1> QED BY <1>15, <1>16, <1>17 DEF c

-----------------------------------------------------------------------------
(* What is in the archive *)

LzcCode == Int \X Int \X Int
Trees   == UNION {[D -> Seq({0, 1})] : D \in SUBSET SQ!Syms}

Piece == Chunk \cup [body : Seq(Chars) \cup Seq(LzcCode), size : Int]
               \cup [body : Seq({0, 1}), tree : Trees, size : Int]

(* What SizeOf computes: the last of the running totals of the sizes.      *)
LEMMA SizesAreSums ==
    ASSUME NEW f \in Seq(Piece)
    PROVE  /\ [i \in 1 .. Len(f) |-> f[i].size] \in [1 .. Len(f) -> Int]
           /\ \E g : /\ IsSumsOf(g, [i \in 1 .. Len(f) |-> f[i].size], Len(f))
                     /\ SizeOf(f) = g[Len(f)]
<1> DEFINE n == Len(f)
           h == [i \in 1 .. n |-> f[i].size]
           G == CHOOSE g : g = [i \in 0 .. n |-> IF i = 0 THEN 0 ELSE g[i-1] + f[i].size]
<1>1. n \in Nat /\ h \in [1 .. n -> Int] /\ \A i \in 1 .. n : h[i] = f[i].size
  <2>1. \A p \in Piece : p.size \in Int
    BY DEF Piece, Chunk
  <2>2. \A i \in 1 .. n : f[i] \in Piece
    OBVIOUS
  <2> QED BY <2>1, <2>2
<1>2. PICK g : /\ g \in [0 .. n -> Int]
               /\ g[0] = 0 /\ \A i \in 1 .. n : g[i] = g[i-1] + h[i]
  <2> HIDE DEF n, h
  <2> QED BY <1>1, SumsOfExist
<1>3. g = [i \in 0 .. n |-> IF i = 0 THEN 0 ELSE g[i-1] + f[i].size]
  <2>1. \A i \in 0 .. n : i # 0 => i \in 1 .. n
    BY <1>1
  <2> HIDE DEF n, h
  <2>2. \A i \in 0 .. n : g[i] = IF i = 0 THEN 0 ELSE g[i-1] + f[i].size
    BY <1>1, <1>2, <2>1
  <2>3. g = [i \in 0 .. n |-> g[i]]
    BY <1>2
  <2> QED BY <2>2, <2>3
<1>4. G = [i \in 0 .. n |-> IF i = 0 THEN 0 ELSE G[i-1] + f[i].size]
  BY <1>3
<1>5. SizeOf(f) = G[n]
  BY DEF SizeOf
<1> HIDE DEF G
<1>6. ASSUME NEW i \in 1 .. n, G[i-1] \in Int
      PROVE  G[i] \in Int /\ G[i] = G[i-1] + h[i]
  <2>1. i \in 0 .. n /\ i # 0
    BY <1>1
  <2>2. G[i] = G[i-1] + f[i].size
    <3> HIDE DEF n
    <3> QED BY <1>4, <2>1
  <2>3. h[i] \in Int /\ h[i] = f[i].size
    BY <1>1
  <2> QED BY <1>6, <2>2, <2>3
<1>7. G[0] = 0
  BY <1>1, <1>4
<1>8. \A i \in 0 .. n : G[i] \in Int
  <2>1. \A i \in 1 .. n : G[i-1] \in Int => G[i] \in Int
    BY <1>6
  <2>2. G[0] \in Int
    BY <1>7
  <2> HIDE DEF n, h
  <2> QED BY <1>1, <2>1, <2>2, LoopKeeps
<1>9. \A i \in 1 .. n : i - 1 \in 0 .. n
  BY <1>1
<1>10. IsSumsOf(G, h, n)
  <2> HIDE DEF n, h
  <2> QED BY <1>1, <1>6, <1>7, <1>8, <1>9 DEF IsSumsOf
<1> QED BY <1>1, <1>5, <1>10

(* No pieces take no room.                                                 *)
LEMMA SizeOfNone == SizeOf(<<>>) = 0
<1>1. <<>> \in Seq(Piece) /\ Len(<<>>) = 0
  OBVIOUS
<1>2. PICK g : IsSumsOf(g, [i \in 1 .. Len(<<>>) |-> <<>>[i].size], Len(<<>>))
               /\ SizeOf(<<>>) = g[Len(<<>>)]
  BY <1>1, SizesAreSums
<1> QED BY <1>1, <1>2 DEF IsSumsOf

(* One piece more takes its size more.                                     *)
LEMMA SizeOfMore ==
    ASSUME NEW f \in Seq(Piece), NEW x \in Piece
    PROVE  /\ Append(f, x) \in Seq(Piece) /\ SizeOf(f) \in Int
           /\ SizeOf(Append(f, x)) = SizeOf(f) + x.size
<1> DEFINE n == Len(f)
           more == Append(f, x)
           h == [i \in 1 .. Len(f) |-> f[i].size]
           k == [i \in 1 .. Len(more) |-> more[i].size]
<1>1. n \in Nat /\ more \in Seq(Piece) /\ Len(more) = n + 1 /\ more[n + 1] = x
      /\ \A i \in 1 .. n : more[i] = f[i]
  OBVIOUS
<1>2. PICK g : IsSumsOf(g, h, n) /\ SizeOf(f) = g[n]
  BY SizesAreSums
<1>3. PICK m : IsSumsOf(m, k, Len(more)) /\ SizeOf(more) = m[Len(more)]
  <2> HIDE DEF more
  <2> QED BY <1>1, SizesAreSums
<1>4. \A i \in 1 .. n : h[i] = k[i]
  <2>1. \A i \in 1 .. n : i \in 1 .. n + 1
    BY <1>1
  <2> HIDE DEF more
  <2> QED BY <1>1, <2>1
<1>5. k[n + 1] = x.size
  <2>1. n + 1 \in 1 .. Len(more)
    BY <1>1
  <2> HIDE DEF more, n
  <2> QED BY <1>1, <2>1
<1>6. g[n] \in Int
  <2>1. n = 0 \/ n \in 1 .. n
    BY <1>1
  <2> HIDE DEF n, h
  <2> QED BY <1>2, <2>1 DEF IsSumsOf
<1> HIDE DEF n, more, h, k
<1>7. IsSumsOf(m, k, n)
  <2>1. n \in 0 .. n + 1 /\ n + 1 \in Nat
    BY <1>1
  <2> QED BY <1>1, <1>3, <2>1, SumsOfShorter
<1>8. g[n] = m[n]
  BY <1>1, <1>2, <1>4, <1>7, SumsOfUnique
<1>9. m[n + 1] = m[n] + k[n + 1]
  <2>1. n + 1 \in 1 .. Len(more) /\ (n + 1) - 1 = n
    BY <1>1
  <2> QED BY <1>3, <2>1 DEF IsSumsOf
<1>10. SizeOf(more) = SizeOf(f) + x.size /\ SizeOf(f) \in Int
  BY <1>1, <1>2, <1>3, <1>5, <1>6, <1>8, <1>9
<1> QED BY <1>1, <1>10 DEF more

(* One piece takes its own size.                                           *)
LEMMA SizeOfOne ==
    ASSUME NEW x \in Piece
    PROVE  <<x>> \in Seq(Piece) /\ SizeOf(<<x>>) = x.size /\ x.size \in Int
<1>1. <<>> \in Seq(Piece) /\ Append(<<>>, x) = <<x>> /\ x.size \in Int
  <2>1. x.size \in Int
    BY DEF Piece, Chunk
  <2> QED BY <2>1
<1>2. SizeOf(Append(<<>>, x)) = SizeOf(<<>>) + x.size
  BY <1>1, SizeOfMore
<1>3. Append(<<>>, x) \in Seq(Piece)
  BY <1>1
<1> QED BY <1>1, <1>2, <1>3, SizeOfNone

(* The first piece is taken.                                               *)
LEMMA SizeOfRest ==
    ASSUME NEW f \in Seq(Piece), f # <<>>
    PROVE  /\ Tail(f) \in Seq(Piece) /\ SizeOf(f) \in Int
           /\ SizeOf(f) = Head(f).size + SizeOf(Tail(f)) /\ Head(f) \in Piece
<1> DEFINE n == Len(f)
           rest == Tail(f)
           h == [i \in 1 .. Len(f) |-> f[i].size]
           k == [i \in 1 .. Len(rest) |-> rest[i].size]
<1>1. /\ n \in Nat \ {0} /\ rest \in Seq(Piece) /\ Len(rest) = n - 1 /\ Head(f) = f[1]
      /\ \A i \in 1 .. n - 1 : rest[i] = f[i + 1]
      /\ Head(f) \in Piece
  OBVIOUS
<1>2. PICK g : IsSumsOf(g, h, n) /\ SizeOf(f) = g[n]
  BY SizesAreSums
<1>3. PICK m : IsSumsOf(m, k, Len(rest)) /\ SizeOf(rest) = m[Len(rest)]
  <2> HIDE DEF rest
  <2> QED BY <1>1, SizesAreSums
<1>4. h \in [1 .. n -> Int]
  BY SizesAreSums
<1>5. \A i \in 1 .. n - 1 : k[i] = h[i + 1]
  <2>1. \A i \in 1 .. n - 1 : i + 1 \in 1 .. n
    BY <1>1
  <2> HIDE DEF rest
  <2> QED BY <1>1, <2>1
<1>6. h[1] = Head(f).size
  BY <1>1
<1> HIDE DEF n, rest, h, k
<1> DEFINE s == [i \in 0 .. n - 1 |-> g[i + 1] - g[1]]
<1>7. IsSumsOf(s, k, n - 1)
  <2>1. s[0] = 0
    <3>1. 0 \in 0 .. n - 1 /\ 1 \in 1 .. n
      BY <1>1
    <3>2. g[1] \in Int /\ s[0] = g[0 + 1] - g[1]
      BY <1>2, <3>1 DEF IsSumsOf
    <3> QED BY <3>2
  <2>2. ASSUME NEW i \in 1 .. n - 1
        PROVE  s[i-1] \in Int /\ s[i] \in Int /\ s[i] = s[i-1] + k[i]
    <3>1. i \in 0 .. n - 1 /\ i - 1 \in 0 .. n - 1 /\ i + 1 \in 1 .. n /\ 1 \in 1 .. n
          /\ (i + 1) - 1 = i /\ (i - 1) + 1 = i
      BY <1>1
    <3>2. s[i] = g[i + 1] - g[1] /\ s[i-1] = g[i] - g[1]
      BY <3>1
    <3>3. g[i + 1] \in Int /\ g[i] \in Int /\ g[i + 1] = g[i] + h[i + 1]
      BY <1>2, <3>1 DEF IsSumsOf
    <3>4. g[1] \in Int
      BY <1>2, <3>1 DEF IsSumsOf
    <3>5. k[i] = h[i + 1] /\ h[i + 1] \in Int
      BY <1>4, <1>5, <3>1
    <3> HIDE DEF s
    <3> QED BY <3>2, <3>3, <3>4, <3>5
  <2> HIDE DEF s
  <2> QED BY <2>1, <2>2 DEF IsSumsOf
<1>8. s[n - 1] = m[n - 1]
  <2>1. n - 1 \in Nat
    BY <1>1
  <2> HIDE DEF s
  <2> QED BY <1>1, <1>3, <1>7, <2>1, SumsOfUnique
<1>9. s[n - 1] = g[n] - g[1]
  <2>1. n - 1 \in 0 .. n - 1 /\ (n - 1) + 1 = n
    BY <1>1
  <2> QED BY <2>1
<1>10. g[1] = Head(f).size /\ g[1] \in Int /\ g[n] \in Int
  <2>1. 1 \in 1 .. n /\ n \in 1 .. n /\ 1 - 1 = 0
    BY <1>1
  <2>2. g[1] = g[1-1] + h[1] /\ g[0] = 0 /\ g[1] \in Int /\ g[n] \in Int /\ h[1] \in Int
    BY <1>2, <1>4, <2>1 DEF IsSumsOf
  <2> QED BY <1>6, <2>1, <2>2
<1> HIDE DEF s
<1>11. SizeOf(f) = Head(f).size + SizeOf(rest) /\ SizeOf(f) \in Int
  BY <1>1, <1>2, <1>3, <1>8, <1>9, <1>10
<1> QED BY <1>1, <1>11 DEF rest

-----------------------------------------------------------------------------
(* Squeeze: the tree *)

(* A subtree as Nu_SQBuildTree makes it.                                   *)
Node == [weight : Nat, depth : Nat, codes : Trees]

(* Some subtrees, no symbol in two of them, every symbol of D in one.       *)
Forest(trees, D) ==
    /\ trees \subseteq Node /\ IsFiniteSet(trees)
    /\ \A a \in trees : DOMAIN a.codes # {}
    /\ \A a, b \in trees : a # b => DOMAIN a.codes \cap DOMAIN b.codes = {}
    /\ \A t \in D : \E a \in trees : t \in DOMAIN a.codes

(* The symbols are the characters and the end of the file.                 *)
LEMMA Symbols ==
    /\ SQ!EOFToken = ClearCode /\ SQ!Syms = 0 .. ClearCode /\ IsFiniteSet(SQ!Syms)
    /\ Chars \subseteq SQ!Syms /\ SQ!EOFToken \in SQ!Syms
    /\ Delim \in Chars /\ MaxCount \in Nat \ {0} /\ MaxCodeLen \in Nat
<1>1. SQ!EOFToken = ClearCode
  BY DEF SQ!EOFToken, ClearCode
<1>2. SQ!Syms = 0 .. ClearCode
  BY <1>1 DEF SQ!Syms
<1>3. IsFiniteSet(0 .. ClearCode)
  BY Numbers, FS_Interval
<1>4. Delim \in SQ!Syms \ {SQ!EOFToken} /\ MaxCount \in Nat \ {0} /\ MaxCodeLen \in Nat
  BY CodecAssumption DEF SQ!SqueezeAssumption
<1> QED BY <1>1, <1>2, <1>3, <1>4, Numbers

(* A set of subtrees has one that is as light as any.                      *)
LEMMA LeastOK ==
    ASSUME NEW trees, trees \subseteq Node, trees # {}
    PROVE  SQ!Least(trees) \in trees
<1> DEFINE W == {a.weight : a \in trees}
<1>1. \A a \in trees : a.weight \in Nat /\ a.depth \in Nat
  BY DEF Node
<1>2. PICK w \in W : \A y \in W : w <= y
  <2>1. W \subseteq Nat /\ W # {}
    BY <1>1
  <2> HIDE DEF W
  <2> QED BY <2>1, LeastNat
<1> DEFINE light == {a \in trees : a.weight = w}
           H == {a.depth : a \in light}
<1>3. PICK h \in H : \A y \in H : h <= y
  <2>1. H \subseteq Nat /\ H # {}
    BY <1>1, <1>2
  <2> HIDE DEF H
  <2> QED BY <2>1, LeastNat
<1>4. PICK a \in light : a.depth = h
  OBVIOUS
<1>5. ASSUME NEW b \in trees PROVE SQ!lighter(a, b)
  <2>1. w <= b.weight /\ w \in Nat /\ a.weight = w /\ b.weight \in Nat
    BY <1>1, <1>2, <1>4
  <2>2. CASE b.weight = w
    <3>1. h <= b.depth
      BY <1>3, <2>2
    <3> QED BY <1>4, <2>1, <2>2, <3>1 DEF SQ!lighter
  <2>3. CASE b.weight # w
    BY <2>1, <2>3 DEF SQ!lighter
  <2> QED BY <2>2, <2>3
<1>6. \E x \in trees : \A b \in trees : SQ!lighter(x, b)
  BY <1>4, <1>5
<1> QED BY <1>6 DEF SQ!Least

(* Two subtrees become one.                                                *)
LEMMA JoinedOK ==
    ASSUME NEW l \in Node, NEW r \in Node
    PROVE  /\ SQ!Joined(l, r) \in Node
           /\ DOMAIN SQ!Joined(l, r).codes = DOMAIN l.codes \cup DOMAIN r.codes
<1> DEFINE D == DOMAIN l.codes \cup DOMAIN r.codes
           c == [t \in D |-> IF t \in DOMAIN l.codes THEN <<0>> \o l.codes[t]
                             ELSE <<1>> \o r.codes[t]]
           d == 1 + SQ!Max({l.depth, r.depth})
           w == l.weight + r.weight
<1>1. l.codes \in Trees /\ r.codes \in Trees /\ l.weight \in Nat /\ r.weight \in Nat
      /\ l.depth \in Nat /\ r.depth \in Nat
  BY DEF Node
<1>2. \A x \in Trees : DOMAIN x \subseteq SQ!Syms /\ \A t \in DOMAIN x : x[t] \in Seq({0, 1})
  BY DEF Trees
<1>3. ASSUME NEW t \in D PROVE c[t] \in Seq({0, 1})
  <2>1. CASE t \in DOMAIN l.codes
    <3>1. l.codes[t] \in Seq({0, 1}) /\ c[t] = <<0>> \o l.codes[t]
      BY <1>1, <1>2, <2>1
    <3>2. <<0>> \in Seq({0, 1})
      OBVIOUS
    <3> HIDE DEF c
    <3> QED BY <3>1, <3>2
  <2>2. CASE t \notin DOMAIN l.codes
    <3>1. r.codes[t] \in Seq({0, 1}) /\ c[t] = <<1>> \o r.codes[t]
      BY <1>1, <1>2, <2>2
    <3>2. <<1>> \in Seq({0, 1})
      OBVIOUS
    <3> HIDE DEF c
    <3> QED BY <3>1, <3>2
  <2> QED BY <2>1, <2>2
<1>4. D \in SUBSET SQ!Syms /\ c = [t \in D |-> c[t]] /\ DOMAIN c = D
  BY <1>1, <1>2
<1>5. c \in Trees
  <2> HIDE DEF c, D
  <2> QED BY <1>3, <1>4 DEF Trees
<1>6. SQ!Max({l.depth, r.depth}) = Max({l.depth, r.depth})
  BY DEF SQ!Max, Max
<1>7. d \in Nat /\ w \in Nat
  <2>1. Max({l.depth, r.depth}) = IF l.depth >= r.depth THEN l.depth ELSE r.depth
    BY <1>1, MaxOfTwo
  <2> QED BY <1>1, <1>6, <2>1
<1>8. SQ!Joined(l, r) = [weight |-> w, depth |-> d, codes |-> c]
  BY DEF SQ!Joined
<1> HIDE DEF c, d, w, D
<1>9. [weight |-> w, depth |-> d, codes |-> c] \in Node
  BY <1>5, <1>7 DEF Node
<1> QED BY <1>4, <1>8, <1>9 DEF D

(* The two lightest subtrees of a forest become one.                       *)
LEMMA ForestStep ==
    ASSUME NEW D, NEW trees, Forest(trees, D), Cardinality(trees) > 1,
           NEW l, l = SQ!Least(trees), NEW r, r = SQ!Least(trees \ {l})
    PROVE  LET more == (trees \ {l, r}) \cup {SQ!Joined(l, r)}
           IN  Forest(more, D) /\ Cardinality(more) = Cardinality(trees) - 1
<1> DEFINE j == SQ!Joined(l, r)
           rest == trees \ {l, r}
           more == rest \cup {j}
<1>1. trees \subseteq Node /\ IsFiniteSet(trees) /\ Cardinality(trees) \in Nat
  BY FS_CardinalityType DEF Forest
<1>2. l \in trees
  <2>1. trees # {}
    BY <1>1, FS_EmptySet
  <2> QED BY <1>1, <2>1, LeastOK
<1>3. IsFiniteSet(trees \ {l}) /\ Cardinality(trees \ {l}) = Cardinality(trees) - 1
  BY <1>1, <1>2, FS_RemoveElement
<1>4. r \in trees \ {l}
  <2>1. trees \ {l} # {}
    BY <1>1, <1>3, FS_EmptySet
  <2> QED BY <1>1, <2>1, LeastOK
<1>5. IsFiniteSet(rest) /\ Cardinality(rest) = Cardinality(trees) - 2
  <2>1. rest = (trees \ {l}) \ {r}
    OBVIOUS
  <2>2. IsFiniteSet((trees \ {l}) \ {r}) /\ Cardinality((trees \ {l}) \ {r}) = Cardinality(trees \ {l}) - 1
    BY <1>3, <1>4, FS_RemoveElement
  <2> HIDE DEF rest
  <2>3. Cardinality(rest) = Cardinality(trees \ {l}) - 1
    BY <2>1, <2>2
  <2> QED BY <1>1, <1>3, <2>1, <2>2, <2>3
<1>6. j \in Node /\ DOMAIN j.codes = DOMAIN l.codes \cup DOMAIN r.codes
  BY <1>1, <1>2, <1>4, JoinedOK
<1> HIDE DEF j
<1>7. ASSUME NEW a \in rest PROVE a # j /\ DOMAIN a.codes \cap DOMAIN j.codes = {}
  <2>1. DOMAIN a.codes \cap DOMAIN l.codes = {} /\ DOMAIN a.codes \cap DOMAIN r.codes = {}
        /\ DOMAIN a.codes # {}
    BY <1>2, <1>4 DEF Forest
  <2> QED BY <1>6, <2>1
<1>8. IsFiniteSet(more) /\ Cardinality(more) = Cardinality(rest) + 1
  <2>1. j \notin rest
    BY <1>7
  <2> HIDE DEF rest
  <2> QED BY <1>5, <2>1, FS_AddElement
<1>9. more \subseteq Node /\ \A a \in more : DOMAIN a.codes # {}
  BY <1>1, <1>2, <1>6 DEF Forest
<1>10. \A a, b \in more : a # b => DOMAIN a.codes \cap DOMAIN b.codes = {}
  <2> TAKE a, b \in more
  <2>1. CASE a \in rest /\ b \in rest
    BY <2>1 DEF Forest
  <2>2. CASE a = j \/ b = j
    BY <1>7, <2>2
  <2> QED BY <2>1, <2>2
<1>11. \A t \in D : \E a \in more : t \in DOMAIN a.codes
  <2> TAKE t \in D
  <2>1. PICK a \in trees : t \in DOMAIN a.codes
    BY DEF Forest
  <2>2. CASE a \in {l, r}
    BY <1>6, <2>1, <2>2
  <2>3. CASE a \notin {l, r}
    BY <2>1, <2>3
  <2> QED BY <2>2, <2>3
<1>12. Forest(more, D)
  <2> HIDE DEF more, rest
  <2> QED BY <1>8, <1>9, <1>10, <1>11 DEF Forest
<1> QED BY <1>1, <1>5, <1>8, <1>12 DEF j

(* Counting in NuSqueeze is counting.                                      *)
LEMMA SqueezeCounts == \A S : SQ!Cardinality(S) = Cardinality(S)
BY DEF SQ!Cardinality, Cardinality

(* The tree of some weights has every symbol that has one.                 *)
LEMMA BuildTreeOK ==
    ASSUME NEW w \in [SQ!Syms -> Nat], \E t \in SQ!Syms : w[t] # 0
    PROVE  /\ SQ!SQBuildTree(w) \in Node
           /\ DOMAIN SQ!SQBuildTree(w).codes # {}
           /\ \A t \in SQ!Syms : w[t] # 0 => t \in DOMAIN SQ!SQBuildTree(w).codes
<1> DEFINE D == {t \in SQ!Syms : w[t] # 0}
           leaves == {SQ!Leaf(s, w[s]) : s \in D}
           N == Cardinality(leaves)
           Shrunk(trees) == LET l == SQ!Least(trees)
                                r == SQ!Least(trees \ {l})
                            IN  (trees \ {l, r}) \cup {SQ!Joined(l, r)}
           F == CHOOSE f : f = [n \in 1 .. N |-> IF n = 1 THEN leaves ELSE Shrunk(f[n - 1])]
<1>1. \A s \in D : /\ SQ!Leaf(s, w[s]) \in Node /\ DOMAIN SQ!Leaf(s, w[s]).codes = {s}
  <2> TAKE s \in D
  <2> DEFINE c == [t \in {s} |-> <<>>]
  <2>1. <<>> \in Seq({0, 1}) /\ {s} \in SUBSET SQ!Syms /\ w[s] \in Nat
    OBVIOUS
  <2>2. c \in [{s} -> Seq({0, 1})]
    BY <2>1
  <2>3. c \in Trees /\ DOMAIN c = {s}
    <3> HIDE DEF c
    <3> QED BY <2>1, <2>2 DEF Trees
  <2>4. SQ!Leaf(s, w[s]) = [weight |-> w[s], depth |-> 0, codes |-> c]
    BY DEF SQ!Leaf
  <2> HIDE DEF c
  <2>5. [weight |-> w[s], depth |-> 0, codes |-> c] \in Node
    BY <2>1, <2>3 DEF Node
  <2> QED BY <2>3, <2>4, <2>5
<1>2. IsFiniteSet(leaves) /\ N \in Nat \ {0}
  <2> DEFINE f == [s \in D |-> SQ!Leaf(s, w[s])]
  <2>1. IsFiniteSet(D)
    BY Symbols, FS_Subset
  <2>2. f \in Surjection(D, leaves)
    BY DEF Surjection
  <2> HIDE DEF f
  <2>3. IsFiniteSet(leaves)
    BY <2>1, <2>2, FS_Surjection DEF ExistsSurjection
  <2>4. leaves # {}
    OBVIOUS
  <2> HIDE DEF leaves
  <2> QED BY <2>3, <2>4, FS_CardinalityType, FS_EmptySet
<1>3. Forest(leaves, D)
  <2>1. ASSUME NEW a \in leaves, NEW b \in leaves, a # b
        PROVE  DOMAIN a.codes \cap DOMAIN b.codes = {}
    <3>1. PICK s \in D : a = SQ!Leaf(s, w[s])
      OBVIOUS
    <3>2. PICK t \in D : b = SQ!Leaf(t, w[t])
      OBVIOUS
    <3> HIDE DEF leaves, D
    <3> QED BY <1>1, <2>1, <3>1, <3>2
  <2>2. \A a \in leaves : a \in Node /\ DOMAIN a.codes # {}
    <3> HIDE DEF D
    <3> QED BY <1>1
  <2>3. \A t \in D : \E a \in leaves : t \in DOMAIN a.codes
    <3> HIDE DEF D
    <3> QED BY <1>1
  <2> HIDE DEF leaves, D
  <2> QED BY <1>2, <2>1, <2>2, <2>3 DEF Forest
<1>4. SQ!SQBuildTree(w) = CHOOSE tree \in F[N] : TRUE
  BY SqueezeCounts, Zenon DEF SQ!SQBuildTree
<1> HIDE DEF leaves, D
<1> DEFINE Good(trees, n) == Forest(trees, D) /\ Cardinality(trees) = N + 1 - n
<1>5. ASSUME NEW n \in 1 .. N - 1, NEW trees, Good(trees, n)
      PROVE  Good(Shrunk(trees), n + 1)
  <2> DEFINE l == SQ!Least(trees)   r == SQ!Least(trees \ {l})
  <2>1. Cardinality(trees) > 1
    BY <1>2, <1>5
  <2>2. Forest(Shrunk(trees), D) /\ Cardinality(Shrunk(trees)) = Cardinality(trees) - 1
    <3>1. PICK l1 : l1 = l
      OBVIOUS
    <3>2. PICK r1 : r1 = SQ!Least(trees \ {l1})
      OBVIOUS
    <3>3. LET more == (trees \ {l1, r1}) \cup {SQ!Joined(l1, r1)}
          IN  Forest(more, D) /\ Cardinality(more) = Cardinality(trees) - 1
      BY <1>5, <2>1, <3>1, <3>2, ForestStep
    <3> QED BY <3>1, <3>2, <3>3
  <2> HIDE DEF Shrunk
  <2> QED BY <1>2, <1>5, <2>2
<1> HIDE DEF Shrunk, N
<1> DEFINE Is(g, m) == /\ g[1] = leaves
                       /\ \A n \in 1 .. m - 1 : g[n + 1] = Shrunk(g[n])
           T == {m \in 0 .. N - 1 : \E g : Is(g, m + 1)}
<1>6. \A m \in 0 .. N - 1 : m \in T
  <2>1. 0 \in T
    <3>1. Is([n \in {1} |-> leaves], 0 + 1)
      OBVIOUS
    <3> HIDE DEF Is
    <3> QED BY <1>2, <3>1
  <2>2. ASSUME NEW m \in 0 .. (N - 1) - 1, m \in T PROVE m + 1 \in T
    <3>1. PICK g : Is(g, m + 1)
      BY <2>2
    <3> DEFINE h == [n \in 1 .. m + 2 |-> IF n = m + 2 THEN Shrunk(g[m + 1]) ELSE g[n]]
    <3>2. h[1] = leaves
      <4>1. 1 \in 1 .. m + 2 /\ 1 # m + 2
        OBVIOUS
      <4> QED BY <3>1, <4>1
    <3>3. ASSUME NEW n \in 1 .. (m + 2) - 1 PROVE h[n + 1] = Shrunk(h[n])
      <4>1. n \in 1 .. m + 2 /\ n + 1 \in 1 .. m + 2 /\ n # m + 2
            /\ (n + 1 = m + 2 => n = m + 1) /\ (n + 1 # m + 2 => n \in 1 .. (m + 1) - 1)
        OBVIOUS
      <4>2. h[n] = g[n] /\ h[n + 1] = IF n + 1 = m + 2 THEN Shrunk(g[m + 1]) ELSE g[n + 1]
        BY <4>1
      <4> HIDE DEF h
      <4> QED BY <3>1, <4>1, <4>2
    <3> HIDE DEF h
    <3>4. Is(h, (m + 1) + 1)
      <4>1. (m + 1) + 1 = m + 2
        OBVIOUS
      <4> QED BY <3>2, <3>3, <4>1
    <3>5. m + 1 \in 0 .. N - 1
      BY <1>2
    <3> HIDE DEF Is
    <3> QED BY <3>4, <3>5
  <2>3. N - 1 \in Nat
    BY <1>2
  <2> HIDE DEF T
  <2> QED BY <2>1, <2>2, <2>3, UpTo
<1>7. PICK g : Is(g, N)
  <2>1. N - 1 \in 0 .. N - 1 /\ (N - 1) + 1 = N
    BY <1>2
  <2>2. \E g : Is(g, (N - 1) + 1)
    BY <1>6, <2>1
  <2> QED BY <2>1, <2>2
<1> DEFINE f == [n \in 1 .. N |-> g[n]]
<1>8. \A n \in 1 .. N : f[n] = IF n = 1 THEN leaves ELSE Shrunk(f[n - 1])
  <2> TAKE n \in 1 .. N
  <2>1. f[n] = g[n]
    OBVIOUS
  <2>2. n # 1 => n - 1 \in 1 .. N - 1 /\ n - 1 \in 1 .. N /\ (n - 1) + 1 = n
    BY <1>2
  <2>3. n # 1 => f[n - 1] = g[n - 1]
    BY <2>2
  <2> HIDE DEF f
  <2> QED BY <1>7, <2>1, <2>2, <2>3
<1>9. f = [n \in 1 .. N |-> IF n = 1 THEN leaves ELSE Shrunk(f[n - 1])]
  <2>1. f = [n \in 1 .. N |-> f[n]]
    OBVIOUS
  <2> HIDE DEF f
  <2> QED BY <1>8, <2>1
<1>10. F = [n \in 1 .. N |-> IF n = 1 THEN leaves ELSE Shrunk(F[n - 1])]
  <2> HIDE DEF f
  <2> QED BY <1>9
<1> HIDE DEF F, f
<1> DEFINE U == {m \in 0 .. N - 1 : Good(F[m + 1], m + 1)}
<1>11. \A m \in 0 .. N - 1 : m \in U
  <2>1. 0 \in U
    <3>1. F[1] = leaves
      BY <1>2, <1>10
    <3>2. Cardinality(leaves) = N + 1 - 1
      BY <1>2 DEF N
    <3> QED BY <1>2, <1>3, <3>1, <3>2
  <2>2. ASSUME NEW m \in 0 .. (N - 1) - 1, m \in U PROVE m + 1 \in U
    <3>1. m + 1 \in 1 .. N - 1 /\ m + 1 \in 0 .. N - 1 /\ (m + 1) + 1 \in 1 .. N
          /\ (m + 1) + 1 # 1 /\ ((m + 1) + 1) - 1 = m + 1
      BY <1>2
    <3>2. F[(m + 1) + 1] = Shrunk(F[m + 1])
      BY <1>10, <3>1
    <3>3. Good(F[m + 1], m + 1)
      BY <2>2
    <3> HIDE DEF Good
    <3>4. Good(F[(m + 1) + 1], (m + 1) + 1)
      BY <1>5, <3>1, <3>2, <3>3
    <3> QED BY <3>1, <3>4
  <2>3. N - 1 \in Nat
    BY <1>2
  <2> HIDE DEF U
  <2> QED BY <2>1, <2>2, <2>3, UpTo
<1>12. Forest(F[N], D) /\ Cardinality(F[N]) = 1
  <2>1. N - 1 \in 0 .. N - 1 /\ (N - 1) + 1 = N /\ N + 1 - N = 1
    BY <1>2
  <2>2. Good(F[(N - 1) + 1], (N - 1) + 1)
    BY <1>11, <2>1
  <2> QED BY <2>1, <2>2
<1>13. PICK a : F[N] = {a}
  BY <1>12, FS_Singleton DEF Forest
<1>14. SQ!SQBuildTree(w) = a
  BY <1>4, <1>13
<1> QED BY <1>12, <1>13, <1>14 DEF Forest, D

(* FlattenSeq and the smaller of two are the same in every module.          *)
LEMMA SqueezeFlattens ==
    /\ \A ss : SQ!FlattenSeq(ss) = FlattenSeq(ss)
    /\ \A S : SQ!Min(S) = Min(S)
BY DEF SQ!FlattenSeq, FlattenSeq, SQ!Min, Min

(* A run as Squeeze writes it.                                             *)
LEMMA SqRunOK ==
    ASSUME NEW c \in Chars, NEW n \in Nat \ {0}
    PROVE  SQ!sqRun(c, n) \in Seq(SQ!Syms)
<1> DEFINE Piece1(k) == IF k < 3 THEN [i \in 1 .. k |-> c] ELSE <<c, Delim, k>>
           full == n \div SQ!MaxLike
           rest == n - full * SQ!MaxLike
           ds == [i \in 1 .. n |-> <<Delim, 0>>]
           ss == [i \in 1 .. full |-> Piece1(SQ!MaxLike)]
<1>1. SQ!MaxLike \in Nat \ {0} /\ SQ!Syms = 0 .. SQ!MaxLike + 1 /\ c \in SQ!Syms
      /\ Delim \in SQ!Syms /\ 0 \in SQ!Syms
  BY Symbols, Numbers DEF SQ!MaxLike
<1>2. ASSUME NEW k \in 0 .. SQ!MaxLike PROVE Piece1(k) \in Seq(SQ!Syms)
  <2>1. CASE k < 3
    BY <1>1, <2>1
  <2>2. CASE ~(k < 3)
    <3>1. k \in SQ!Syms
      BY <1>1
    <3>2. <<c, Delim, k>> \in Seq(SQ!Syms)
      BY <1>1, <3>1
    <3> QED BY <2>2, <3>2
  <2> QED BY <2>1, <2>2
<1>3. full \in Nat /\ rest \in 0 .. SQ!MaxLike
  <2> DEFINE p == full * SQ!MaxLike
  <2>1. full \in Nat /\ p <= n /\ n < p + SQ!MaxLike
    BY <1>1, DivideUp
  <2>2. p \in Nat /\ rest = n - p
    BY <1>1, <2>1
  <2> HIDE DEF p, rest
  <2> QED BY <1>1, <2>1, <2>2
<1> HIDE DEF Piece1, full
<1>4. ds \in Seq(Seq(SQ!Syms))
  <2>1. <<Delim, 0>> \in Seq(SQ!Syms)
    BY <1>1
  <2> QED BY <2>1
<1>5. ss \in Seq(Seq(SQ!Syms))
  <2>1. Piece1(SQ!MaxLike) \in Seq(SQ!Syms)
    BY <1>1, <1>2
  <2> QED BY <1>3, <2>1
<1>6. FlattenSeq(ds) \in Seq(SQ!Syms) /\ FlattenSeq(ss) \in Seq(SQ!Syms)
  <2> HIDE DEF ds, ss
  <2> QED BY <1>4, <1>5, FlattenPlaces
<1>7. SQ!sqRun(c, n) = IF c = Delim THEN SQ!FlattenSeq(ds)
                       ELSE SQ!FlattenSeq(ss) \o Piece1(rest)
  BY DEF SQ!sqRun, Piece1, full
<1>8. Piece1(rest) \in Seq(SQ!Syms)
  BY <1>2, <1>3
<1> HIDE DEF ds, ss, rest
<1>9. SQ!FlattenSeq(ds) \in Seq(SQ!Syms) /\ SQ!FlattenSeq(ss) \o Piece1(rest) \in Seq(SQ!Syms)
  <2>1. SQ!FlattenSeq(ds) \in Seq(SQ!Syms) /\ SQ!FlattenSeq(ss) \in Seq(SQ!Syms)
    BY <1>6, SqueezeFlattens
  <2> QED BY <1>8, <2>1
<1> QED BY <1>7, <1>9

(* All that is handed to the Huffman coder.                                *)
LEMMA TokensOK ==
    ASSUME NEW src \in Seq(Chars)
    PROVE  SQ!Tokens(Runs(src)) \in Seq(SQ!Syms) /\ Len(SQ!Tokens(Runs(src))) # 0
<1> DEFINE runs == Runs(src)
           ss == [i \in DOMAIN runs |-> SQ!sqRun(runs[i][1], runs[i][2])]
<1>1. runs \in Seq(Run)
  BY RunsOK
<1> HIDE DEF runs
<1>2. ASSUME NEW i \in DOMAIN runs
      PROVE  SQ!sqRun(runs[i][1], runs[i][2]) \in Seq(SQ!Syms)
  <2>1. runs[i] \in Run
    BY <1>1
  <2>2. runs[i][1] \in Chars /\ runs[i][2] \in Nat \ {0}
    BY <2>1 DEF Run
  <2> QED BY <2>2, SqRunOK
<1>3. DOMAIN runs = 1 .. Len(runs) /\ Len(runs) \in Nat
  BY <1>1
<1>4. ss \in Seq(Seq(SQ!Syms))
  BY <1>2, <1>3
<1>5. SQ!Tokens(runs) = Append(SQ!FlattenSeq(ss), SQ!EOFToken)
  BY DEF SQ!Tokens
<1> HIDE DEF ss
<1>6. SQ!FlattenSeq(ss) \in Seq(SQ!Syms)
  BY <1>4, FlattenPlaces, SqueezeFlattens
<1> DEFINE t == SQ!FlattenSeq(ss)
<1>7. Append(t, SQ!EOFToken) \in Seq(SQ!Syms) /\ Len(Append(t, SQ!EOFToken)) = Len(t) + 1
      /\ Len(t) \in Nat
  <2>1. t \in Seq(SQ!Syms) /\ SQ!EOFToken \in SQ!Syms
    BY <1>6, Symbols
  <2> HIDE DEF t
  <2> QED BY <2>1
<1> QED BY <1>5, <1>7 DEF runs

(* Weights that give a code to every symbol of the source.                 *)
Weighed(w, tokens) ==
    /\ w \in [SQ!Syms -> Nat]
    /\ \A i \in DOMAIN tokens : w[tokens[i]] # 0

(* The symbols are counted.                                                *)
LEMMA WeightsOK ==
    ASSUME NEW tokens \in Seq(SQ!Syms)
    PROVE  Weighed(SQ!Weights(tokens), tokens)
<1> DEFINE at(s) == {i \in DOMAIN tokens : tokens[i] = s}
<1>1. DOMAIN tokens = 1 .. Len(tokens) /\ Len(tokens) \in Nat
  OBVIOUS
<1>2. ASSUME NEW s \in SQ!Syms
      PROVE  Cardinality(at(s)) \in Nat /\ (at(s) # {} => Cardinality(at(s)) # 0)
  <2>1. IsFiniteSet(1 .. Len(tokens))
    BY <1>1, FS_Interval
  <2>2. IsFiniteSet(at(s))
    BY <1>1, <2>1, FS_Subset
  <2> HIDE DEF at
  <2> QED BY <2>2, FS_CardinalityType, FS_EmptySet
<1>3. ASSUME NEW s \in SQ!Syms
      PROVE  SQ!Weights(tokens)[s] = Min({MaxCount, Cardinality(at(s))})
  BY <1>3, SqueezeFlattens, SqueezeCounts, Zenon DEF SQ!Weights
<1>4. DOMAIN SQ!Weights(tokens) = SQ!Syms
      /\ SQ!Weights(tokens) = [s \in SQ!Syms |-> SQ!Weights(tokens)[s]]
  BY DEF SQ!Weights
<1>5. ASSUME NEW s \in SQ!Syms
      PROVE  SQ!Weights(tokens)[s] \in Nat /\ (at(s) # {} => SQ!Weights(tokens)[s] # 0)
  <2> HIDE DEF at
  <2>1. SQ!Weights(tokens)[s] = IF MaxCount <= Cardinality(at(s)) THEN MaxCount
                                ELSE Cardinality(at(s))
    <3> DEFINE k == Cardinality(at(s))
    <3>1. k \in Int /\ MaxCount \in Int
      BY <1>2, Symbols
    <3> HIDE DEF k
    <3>2. Min({MaxCount, k}) = IF MaxCount <= k THEN MaxCount ELSE k
      BY <3>1, MinOfTwo
    <3> QED BY <1>3, <3>2 DEF k
  <2> QED BY <1>2, <2>1, Symbols
<1>6. \A i \in DOMAIN tokens : tokens[i] \in SQ!Syms /\ at(tokens[i]) # {}
  OBVIOUS
<1> HIDE DEF at
<1>7. SQ!Weights(tokens) \in [SQ!Syms -> Nat]
  BY <1>4, <1>5
<1> QED BY <1>5, <1>6, <1>7 DEF Weighed

(* What the weights are divided by.                                        *)
LEMMA DivisorOK ==
    ASSUME NEW w, NEW ceiling
    PROVE  SQ!divisor(w, ceiling) \in Nat \ {0}
<1> DEFINE sum == CHOOSE f : f = [s \in SQ!Syms |->
                      IF s = 0 THEN 0 ELSE (f[s - 1] + w[s - 1]) % (MaxCount + 1)]
           S == {s \in SQ!Syms : w[s] > ceiling - sum[s]}
<1>1. SQ!divisor(w, ceiling) = 1 + Cardinality(S)
  BY SqueezeCounts, Zenon DEF SQ!divisor
<1>2. S \in SUBSET SQ!Syms
  OBVIOUS
<1> HIDE DEF S
<1>3. IsFiniteSet(S)
  BY <1>2, Symbols, FS_Subset
<1>4. Cardinality(S) \in Nat
  BY <1>3, FS_CardinalityType
<1> QED BY <1>1, <1>4

(* Scaling the weights down takes no symbol its code.                      *)
LEMMA ScaledOK ==
    ASSUME NEW tokens \in Seq(SQ!Syms), NEW w, Weighed(w, tokens), NEW least \in Nat \ {0}
    PROVE  /\ Weighed(SQ!raised(w, least), tokens)
           /\ SQ!raised(w, least) = w => Weighed(SQ!divided(w, least), tokens)
<1>1. \A i \in DOMAIN tokens : tokens[i] \in SQ!Syms
  OBVIOUS
<1>2. \A s \in SQ!Syms : w[s] \in Nat
  BY DEF Weighed
<1>3. \A s \in SQ!Syms : /\ SQ!raised(w, least)[s] = IF w[s] # 0 /\ w[s] < least THEN least ELSE w[s]
                         /\ SQ!divided(w, least)[s] = w[s] \div least
  BY DEF SQ!raised, SQ!divided
<1>4. Weighed(SQ!raised(w, least), tokens)
  <2>1. SQ!raised(w, least) \in [SQ!Syms -> Nat]
    BY <1>2 DEF SQ!raised
  <2> QED BY <1>1, <1>3, <2>1 DEF Weighed
<1>5. ASSUME SQ!raised(w, least) = w PROVE Weighed(SQ!divided(w, least), tokens)
  <2>1. \A s \in SQ!Syms : w[s] # 0 => w[s] >= least
    BY <1>2, <1>3, <1>5
  <2>2. \A x \in Nat, y \in Nat \ {0} : x \div y \in Nat /\ (x >= y => x \div y # 0)
    <3> TAKE x \in Nat, y \in Nat \ {0}
    <3> DEFINE q == x \div y
    <3>1. q \in Nat /\ x < q * y + y
      OBVIOUS
    <3>2. q = 0 => q * y = 0
      OBVIOUS
    <3> HIDE DEF q
    <3>3. x >= y => q # 0
      BY <3>1, <3>2
    <3> QED BY <3>1, <3>3 DEF q
  <2>3. \A s \in SQ!Syms : SQ!divided(w, least)[s] \in Nat
                           /\ (w[s] # 0 => SQ!divided(w, least)[s] # 0)
    BY <1>2, <1>3, <2>1, <2>2
  <2>4. SQ!divided(w, least) \in [SQ!Syms -> Nat]
    BY <2>3 DEF SQ!divided
  <2> QED BY <1>1, <2>3, <2>4 DEF Weighed
<1> QED BY <1>4, <1>5

(* What Squeeze puts into the file.                                        *)
LEMMA SqueezedOK ==
    ASSUME NEW tokens \in Seq(SQ!Syms), NEW codes \in Trees, DOMAIN codes # {},
           \A i \in DOMAIN tokens : tokens[i] \in DOMAIN codes
    PROVE  /\ SQ!sqBits(codes, tokens) \in Seq({0, 1})
           /\ \A bits \in Seq({0, 1}) : SQ!sqSize(codes, bits) \in Nat \ {0}
<1> DEFINE ss == [i \in DOMAIN tokens |-> codes[tokens[i]]]
<1>1. DOMAIN codes \in SUBSET SQ!Syms /\ \A t \in DOMAIN codes : codes[t] \in Seq({0, 1})
  BY DEF Trees
<1>2. DOMAIN tokens = 1 .. Len(tokens) /\ Len(tokens) \in Nat
  OBVIOUS
<1>3. ss \in Seq(Seq({0, 1}))
  BY <1>1, <1>2
<1>4. SQ!sqBits(codes, tokens) = SQ!FlattenSeq(ss)
  BY DEF SQ!sqBits
<1> HIDE DEF ss
<1>5. SQ!sqBits(codes, tokens) \in Seq({0, 1})
  BY <1>3, <1>4, FlattenPlaces, SqueezeFlattens
<1>6. ASSUME NEW bits \in Seq({0, 1}) PROVE SQ!sqSize(codes, bits) \in Nat \ {0}
  <2> DEFINE C == Cardinality(DOMAIN codes)
             q == (Len(bits) + CharBits - 1) \div CharBits
  <2>1. IsFiniteSet(DOMAIN codes)
    BY <1>1, Symbols, FS_Subset
  <2>2. C \in Nat \ {0}
    BY <2>1, FS_CardinalityType, FS_EmptySet
  <2>3. q \in Nat
    <3>1. Len(bits) \in Nat /\ CharBits \in Nat \ {0} /\ Len(bits) + CharBits - 1 \in Nat
      BY Numbers
    <3> QED BY <3>1, DivideUp
  <2>4. SQ!sqSize(codes, bits) = FieldSize + 2 * FieldSize * (C - 1) + q
    BY SqueezeCounts, Zenon DEF SQ!sqSize
  <2> HIDE DEF C, q
  <2>5. FieldSize = 1 \/ FieldSize = 2
    BY Numbers
  <2> QED BY <2>2, <2>3, <2>4, <2>5
<1> QED BY <1>5, <1>6

-----------------------------------------------------------------------------
(* LZC compression *)

(* The state of LZC_compress.                                              *)
LzcWork == [table : Tables, nextfree : Int, bits : Int, highcode : Int, prefix : Int,
            cleared : BOOLEAN, codes : Seq(LzcCode), oldbits : Int, offset : Int,
            bytesOut : Int]

(* A table starts anew after these codes.                                  *)
Anew(codes) == Len(codes) = 0 \/ codes[Len(codes)][1] = ClearCode

(* The first code of every table, as far as the n-th code, is a character.  *)
Starts(codes, n) ==
    \A k \in 1 .. n : k = 1 \/ codes[k - 1][1] = ClearCode => codes[k][1] \in Chars

(* Every code fits its width.                                              *)
LzcFit(codes) ==
    \A k \in 1 .. Len(codes) : /\ codes[k][2] \in CharBits + 1 .. MaxBits
                               /\ codes[k][1] \in 0 .. 2^codes[k][2] - 1

LzcOut(w) ==
    /\ w \in LzcWork
    /\ w.bits \in CharBits + 1 .. MaxBits /\ w.highcode = 2^w.bits - 1
    /\ w.oldbits \in Nat /\ w.offset \in 0 .. CharBits - 1 /\ w.bytesOut \in Nat \ {0}
    /\ LzcFit(w.codes) /\ Starts(w.codes, Len(w.codes))

LzcOK(w) ==
    /\ LzcOut(w)
    /\ w.nextfree \in FirstCode .. LzcMaxCode + 1 /\ w.nextfree <= 2^w.bits
    /\ DOMAIN w.table \subseteq FirstCode .. w.nextfree - 1
    /\ ~w.cleared => w.prefix \in Chars \cup FirstCode .. w.nextfree - 1
    /\ w.cleared \/ Anew(w.codes) => DOMAIN w.table = {}
    /\ ~w.cleared /\ Anew(w.codes) => w.prefix \in Chars

(* The numbers of the format.                                              *)
LEMMA LzcNumbers ==
    /\ Lzc!CLEAR = ClearCode /\ Lzc!FIRSTFREE = FirstCode /\ Lzc!INITBITS = CharBits + 1
    /\ LzcMaxCode \in FirstCode .. 2^MaxBits - 1 /\ LzcMaxCode \in Nat
    /\ CharBits + 1 \in CharBits + 1 .. MaxBits /\ 2^MaxBits \in Nat
<1>1. Lzc!CLEAR = ClearCode /\ Lzc!FIRSTFREE = FirstCode /\ Lzc!INITBITS = CharBits + 1
  BY DEF Lzc!CLEAR, Lzc!FIRSTFREE, Lzc!INITBITS, ClearCode, FirstCode
<1>2. Lzc!LzcAssumption
  BY CodecAssumption
<1>3. LzcMaxCode \in 2^CharBits + 1 .. 2^MaxBits - 1
  BY <1>2 DEF Lzc!LzcAssumption
<1>4. CharBits + 1 \in CharBits + 1 .. MaxBits /\ MaxBits \in CharBits + 1 .. MaxBits
  BY Numbers
<1>5. 2^MaxBits \in Nat
  BY <1>4, Widths
<1> QED BY <1>1, <1>3, <1>4, <1>5, Numbers DEF FirstCode, ClearCode

(* A code is written.                                                      *)
LEMMA PutLzcOK ==
    ASSUME NEW w, LzcOut(w), NEW code \in 0 .. 2^w.bits - 1
    PROVE  LET v == Lzc!putcode(w, code)
           IN  /\ v \in LzcWork /\ Starts(v.codes, Len(v.codes) - 1)
               /\ v.oldbits \in Nat /\ v.offset \in 0 .. CharBits - 1 /\ v.bytesOut \in Nat \ {0}
               /\ LzcFit(v.codes)
               /\ (Anew(w.codes) => code \in Chars) => LzcOut(v)
               /\ Anew(v.codes) <=> code = ClearCode
               /\ v.table = w.table /\ v.nextfree = w.nextfree /\ v.bits = w.bits
               /\ v.highcode = w.highcode /\ v.prefix = w.prefix /\ v.cleared = w.cleared
<1> DEFINE slot == IF w.bits = w.oldbits THEN w.offset ELSE 0
           left == IF w.bits # w.oldbits /\ w.offset > 0 THEN w.oldbits ELSE 0
           x    == <<code % 2^w.bits, w.bits, slot>>
           more == Append(w.codes, x)
           out  == w.bytesOut + left + (IF slot + 1 = CharBits THEN w.bits ELSE 0)
           off  == (slot + 1) % CharBits
           v    == Lzc!putcode(w, code)
<1>1. /\ w \in LzcWork /\ w.bits \in CharBits + 1 .. MaxBits /\ w.bits \in Nat
      /\ w.highcode = 2^w.bits - 1 /\ w.oldbits \in Nat /\ w.offset \in 0 .. CharBits - 1
      /\ w.bytesOut \in Nat \ {0} /\ LzcFit(w.codes) /\ Starts(w.codes, Len(w.codes))
      /\ CharBits \in Nat \ {0} /\ w.codes \in Seq(LzcCode) /\ Len(w.codes) \in Nat
      /\ 2^w.bits \in Nat
  <2>1. w.codes \in Seq(LzcCode)
    BY DEF LzcOut, LzcWork
  <2>2. w.bits \in CharBits + 1 .. MaxBits
    BY DEF LzcOut
  <2> QED BY <2>1, <2>2, Numbers, Widths DEF LzcOut
<1>2. slot \in 0 .. CharBits - 1
  BY <1>1
<1>3. out \in Nat \ {0} /\ off \in 0 .. CharBits - 1
  <2>1. left \in Nat
    BY <1>1
  <2> HIDE DEF slot, left
  <2> DEFINE more1 == IF slot + 1 = CharBits THEN w.bits ELSE 0
  <2>5. more1 \in Nat /\ out = w.bytesOut + left + more1
    BY <1>1
  <2> HIDE DEF more1, out
  <2>6. \A x1 \in Nat \ {0}, y, z \in Nat : x1 + y + z \in Nat \ {0}
    OBVIOUS
  <2>2. out \in Nat \ {0}
    <3>1. w.bytesOut \in Nat \ {0}
      BY <1>1
    <3> QED BY <2>1, <2>5, <2>6, <3>1
  <2>3. slot + 1 \in Nat
    BY <1>1, <1>2
  <2>4. \A x1 \in Nat, y \in Nat \ {0} : x1 % y \in 0 .. y - 1
    OBVIOUS
  <2> QED BY <1>1, <2>2, <2>3, <2>4
<1>4. code % 2^w.bits = code
  <2> DEFINE p == 2^w.bits
  <2>1. p \in Nat /\ code \in 0 .. p - 1
    BY <1>1
  <2> HIDE DEF p
  <2> QED BY <2>1 DEF p
<1>5. x = <<code, w.bits, slot>> /\ code \in Int
  BY <1>1, <1>4
<1> HIDE DEF slot
<1>6. x \in LzcCode /\ x[1] = code /\ x[2] = w.bits
  <2>1. w.bits \in Int /\ slot \in Int
    BY <1>1, <1>2
  <2> HIDE DEF x
  <2> QED BY <1>5, <2>1 DEF LzcCode
<1> HIDE DEF x, out, off
<1>7. more \in Seq(LzcCode) /\ Len(more) = Len(w.codes) + 1 /\ more[Len(w.codes) + 1] = x
      /\ \A k \in 1 .. Len(w.codes) : more[k] = w.codes[k]
  BY <1>1, <1>6
<1>8. v = [w EXCEPT !.codes = more, !.bytesOut = out, !.oldbits = w.bits, !.offset = off]
  BY DEF Lzc!putcode, more, x, out, off, slot
<1> HIDE DEF v, more
<1>9. /\ v.codes = more /\ v.bytesOut = out /\ v.oldbits = w.bits /\ v.offset = off
      /\ v.table = w.table /\ v.nextfree = w.nextfree /\ v.bits = w.bits
      /\ v.highcode = w.highcode /\ v.prefix = w.prefix /\ v.cleared = w.cleared
  BY <1>1, <1>8 DEF LzcWork
<1>10. v \in LzcWork
  <2>1. out \in Int /\ off \in Int /\ w.bits \in Int
    BY <1>1, <1>3
  <2> QED BY <1>1, <1>7, <1>8, <2>1 DEF LzcWork
<1> DEFINE n == Len(w.codes)
<1>11. n \in Nat /\ Len(more) = n + 1
  BY <1>1, <1>7
<1> HIDE DEF n
<1>12. LzcFit(more)
  <2> SUFFICES ASSUME NEW k \in 1 .. Len(more)
               PROVE  /\ more[k][2] \in CharBits + 1 .. MaxBits
                      /\ more[k][1] \in 0 .. 2^more[k][2] - 1
    BY DEF LzcFit
  <2>1. CASE k \in 1 .. n
    BY <1>1, <1>7, <2>1 DEF LzcFit, n
  <2>2. CASE k = n + 1
    BY <1>1, <1>6, <1>7, <2>2 DEF n
  <2> QED BY <1>11, <2>1, <2>2
<1>13. Starts(more, n)
  <2> SUFFICES ASSUME NEW k \in 1 .. n, k = 1 \/ more[k - 1][1] = ClearCode
               PROVE  more[k][1] \in Chars
    BY DEF Starts
  <2>1. k = 1 \/ k - 1 \in 1 .. n
    BY <1>11
  <2>2. k = 1 \/ w.codes[k - 1][1] = ClearCode
    BY <1>7, <2>1 DEF n
  <2> QED BY <1>1, <1>7, <2>2 DEF Starts, n
<1>14. ASSUME Anew(w.codes) => code \in Chars PROVE Starts(more, n + 1)
  <2> SUFFICES ASSUME NEW k \in 1 .. n + 1, k = 1 \/ more[k - 1][1] = ClearCode
               PROVE  more[k][1] \in Chars
    BY DEF Starts
  <2>1. CASE k \in 1 .. n
    BY <1>13, <2>1 DEF Starts
  <2>2. CASE k = n + 1
    <3>1. n = 0 \/ (n \in 1 .. n /\ k - 1 = n /\ k # 1)
      BY <1>11, <2>2
    <3>2. Anew(w.codes)
      BY <1>7, <3>1 DEF Anew, n
    <3> QED BY <1>6, <1>7, <1>14, <2>2, <3>2 DEF n
  <2> QED BY <1>11, <2>1, <2>2
<1>15. Anew(more) <=> code = ClearCode
  <2>1. more[n + 1][1] = code
    BY <1>6, <1>7 DEF n
  <2> QED BY <1>11, <2>1 DEF Anew
<1>16. (Anew(w.codes) => code \in Chars) => LzcOut(v)
  BY <1>1, <1>3, <1>9, <1>10, <1>11, <1>12, <1>14 DEF LzcOut
<1>17. Len(more) - 1 = n
  BY <1>11
<1> QED BY <1>1, <1>3, <1>9, <1>10, <1>12, <1>13, <1>15, <1>16, <1>17 DEF v

(* What the prefix may be fits the width.                                  *)
LEMMA PrefixFits ==
    ASSUME NEW w, LzcOK(w), ~w.cleared
    PROVE  /\ w.prefix \in 0 .. 2^w.bits - 1 /\ w.prefix # ClearCode
           /\ \A c \in Chars \cup {ClearCode} : c \in 0 .. 2^w.bits - 1
<1>1. w.bits \in CharBits + 1 .. MaxBits
  BY DEF LzcOK, LzcOut
<1> DEFINE p == 2^w.bits
<1>2. p \in Nat /\ p >= 2 * ClearCode
  BY <1>1, Widths
<1>3. w.nextfree \in FirstCode .. LzcMaxCode + 1 /\ w.nextfree <= p /\ LzcMaxCode \in Nat
      /\ w.prefix \in Chars \cup FirstCode .. w.nextfree - 1
  BY LzcNumbers DEF LzcOK
<1> HIDE DEF p
<1>4. w.prefix \in 0 .. p - 1 /\ w.prefix # ClearCode
  BY <1>2, <1>3, Numbers
<1>5. \A c \in Chars \cup {ClearCode} : c \in 0 .. p - 1
  BY <1>2, Numbers
<1> QED BY <1>4, <1>5 DEF p

(* A new string.                                                           *)
LEMMA NewLzcOK ==
    ASSUME NEW w, LzcOK(w), ~w.cleared, NEW c \in Chars
    PROVE  LzcOK(Lzc!newcode(w, c))
<1> DEFINE put  == Lzc!putcode(w, w.prefix)
           code == w.nextfree
           wide == code > w.highcode
<1>1. /\ w.prefix \in 0 .. 2^w.bits - 1 /\ w.prefix # ClearCode
      /\ \A x \in Chars \cup {ClearCode} : x \in 0 .. 2^w.bits - 1
  BY PrefixFits
<1>2. LzcOut(w) /\ (Anew(w.codes) => w.prefix \in Chars)
  BY DEF LzcOK
<1>3. /\ LzcOut(put) /\ ~Anew(put.codes)
      /\ put.table = w.table /\ put.nextfree = w.nextfree /\ put.bits = w.bits
      /\ put.highcode = w.highcode /\ put.prefix = w.prefix /\ put.cleared = w.cleared
  BY <1>1, <1>2, PutLzcOK
<1> HIDE DEF put
<1>4. /\ w.table \in Tables /\ code \in FirstCode .. LzcMaxCode + 1 /\ code <= 2^w.bits
      /\ DOMAIN w.table \subseteq FirstCode .. code - 1
      /\ w.prefix \in Int /\ c \in Int /\ w.bits \in CharBits + 1 .. MaxBits
      /\ w.highcode = 2^w.bits - 1
      /\ w.prefix \in Chars \cup FirstCode .. code - 1
  BY <1>2, Numbers DEF LzcOK, LzcOut, LzcWork
<1>5. CASE code <= LzcMaxCode
  <2> DEFINE t == Lzc!entered(put.table, code, <<w.prefix, c>>)
             b == IF wide THEN put.bits + 1 ELSE put.bits
             h == IF wide THEN put.highcode + code ELSE put.highcode
             v == [put EXCEPT !.table = t, !.nextfree = put.nextfree + 1, !.prefix = c,
                              !.bits = b, !.highcode = h]
  <2>1. Lzc!newcode(w, c) = v
    BY <1>5 DEF Lzc!newcode, put
  <2>2. t \in Tables /\ DOMAIN t \subseteq FirstCode .. code
    <3>1. t = Entered(w.table, code, <<w.prefix, c>>)
      BY <1>3 DEF Lzc!entered, Entered
    <3>2. code \in Int /\ <<w.prefix, c>> \in Code
      BY <1>4, LzcNumbers, Numbers DEF Code
    <3> DEFINE entry == <<w.prefix, c>>
    <3>3. entry \in Code
      BY <3>2
    <3> HIDE DEF entry
    <3>4. Entered(w.table, code, entry) \in Tables
          /\ DOMAIN Entered(w.table, code, entry) = DOMAIN w.table \cup {code}
      BY <1>4, <3>2, <3>3, EnteredType
    <3>5. t \in Tables /\ DOMAIN t = DOMAIN w.table \cup {code}
      BY <3>1, <3>4 DEF entry
    <3> HIDE DEF t
    <3> QED BY <1>4, <3>2, <3>5, LzcNumbers, Numbers
  <2>3. b \in CharBits + 1 .. MaxBits /\ h = 2^b - 1 /\ code + 1 <= 2^b /\ b \in Int /\ h \in Int
    <3> DEFINE p == 2^w.bits
    <3>1. p \in Nat /\ p >= 2 * ClearCode /\ w.bits \in Nat /\ p \in Int
      BY <1>4, Widths
    <3>2. code \in Nat /\ code <= p /\ w.highcode = p - 1 /\ code <= LzcMaxCode /\ ClearCode >= 2
          /\ LzcMaxCode \in Nat /\ LzcMaxCode <= 2^MaxBits - 1 /\ 2^MaxBits \in Nat
      BY <1>4, <1>5, LzcNumbers, Numbers
    <3>3. CASE wide
      <4>1. code = p
        BY <3>1, <3>2, <3>3
      <4>2. w.bits # MaxBits
        BY <3>2, <4>1 DEF p
      <4>3. w.bits \in 0 .. MaxBits /\ w.bits + 1 \in CharBits + 1 .. MaxBits
        <5> DEFINE q == w.bits
        <5>1. q \in CharBits + 1 .. MaxBits /\ q # MaxBits /\ CharBits \in Nat /\ MaxBits \in Nat
          BY <1>4, <4>2, Numbers
        <5> HIDE DEF q
        <5>2. q \in 0 .. MaxBits /\ q + 1 \in CharBits + 1 .. MaxBits
          BY <5>1
        <5> QED BY <5>2 DEF q
      <4>4. 2^(w.bits + 1) = 2 * p
        BY <4>3, PowerAssumption
      <4>5. b = w.bits + 1 /\ h = w.highcode + code
        BY <1>3, <3>3
      <4> DEFINE e == 2^b
      <4>6. e = 2 * p
        BY <4>4, <4>5
      <4> HIDE DEF b, h, p, e
      <4>7. code + 1 <= e /\ h = e - 1 /\ h \in Int
        BY <3>1, <3>2, <4>1, <4>5, <4>6, Numbers
      <4> QED BY <3>1, <4>3, <4>5, <4>7 DEF e
    <3>4. CASE ~wide
      <4>1. b = w.bits /\ h = w.highcode
        BY <1>3, <3>4
      <4>2. code + 1 <= p
        BY <3>1, <3>2, <3>4
      <4>3. b \in CharBits + 1 .. MaxBits /\ b \in Int
        BY <1>4, <3>1, <4>1
      <4>4. h = 2^b - 1 /\ h \in Int
        BY <1>4, <3>1, <4>1
      <4> HIDE DEF b, h
      <4> QED BY <4>1, <4>2, <4>3, <4>4 DEF p
    <3> QED BY <3>3, <3>4
  <2> HIDE DEF t, b, h
  <2>4. put \in LzcWork /\ put.nextfree + 1 \in Int /\ put.nextfree = code /\ code \in Nat
    <3>1. code \in Nat
      BY <1>4, LzcNumbers, Numbers
    <3>2. put \in LzcWork /\ put.nextfree = code
      BY <1>3 DEF LzcOut
    <3> HIDE DEF code
    <3> QED BY <3>1, <3>2
  <2>5. v \in LzcWork
    BY <1>4, <2>2, <2>3, <2>4 DEF LzcWork
  <2>6. /\ v.table = t /\ v.nextfree = code + 1 /\ v.prefix = c /\ v.bits = b /\ v.highcode = h
        /\ v.codes = put.codes /\ v.oldbits = put.oldbits /\ v.offset = put.offset
        /\ v.bytesOut = put.bytesOut /\ v.cleared = put.cleared
    BY <2>4 DEF LzcWork
  <2> HIDE DEF v
  <2>7. LzcOut(v)
    BY <1>3, <2>3, <2>5, <2>6 DEF LzcOut
  <2>8. code + 1 \in FirstCode .. LzcMaxCode + 1 /\ FirstCode .. (code + 1) - 1 = FirstCode .. code
    BY <1>4, <1>5, <2>4, LzcNumbers, Numbers
  <2>9. LzcOK(v)
    BY <1>3, <2>2, <2>3, <2>6, <2>7, <2>8 DEF LzcOK
  <2> QED BY <2>1, <2>9
<1>6. CASE ~(code <= LzcMaxCode)
  <2> DEFINE p2 == Lzc!putcode(put, c)
             p3 == Lzc!putcode(p2, Lzc!CLEAR)
             v == [Lzc!init_tables(p3) EXCEPT !.cleared = TRUE]
  <2>1. Lzc!newcode(w, c) = v
    BY <1>6 DEF Lzc!newcode, put
  <2>2. LzcOut(p2) /\ p2.bits = w.bits /\ ~Anew(p2.codes)
    <3>1. c \in 0 .. 2^put.bits - 1 /\ c # ClearCode
      BY <1>1, <1>3, Numbers
    <3> QED BY <1>3, <3>1, PutLzcOK
  <2> HIDE DEF p2
  <2>3. LzcOut(p3)
    <3>1. Lzc!CLEAR \in 0 .. 2^p2.bits - 1
      BY <1>1, <2>2, LzcNumbers
    <3> QED BY <2>2, <3>1, PutLzcOK
  <2> HIDE DEF p3
  <2> DEFINE b == CharBits + 1   h == 2^b - 1   t == <<>>
  <2>4. v = [p3 EXCEPT !.table = t, !.nextfree = FirstCode, !.bits = b, !.highcode = h,
                       !.cleared = TRUE]
    BY LzcNumbers DEF Lzc!init_tables
  <2>5. b \in CharBits + 1 .. MaxBits /\ h = 2^b - 1 /\ FirstCode <= 2^b /\ b \in Int /\ h \in Int
        /\ FirstCode \in Nat
    BY LzcNumbers, Numbers
  <2>6. t \in Tables /\ DOMAIN t = {}
    <3>1. <<>> \in [{} -> Code]
      OBVIOUS
    <3>2. {} \in SUBSET Int
      OBVIOUS
    <3> QED BY <3>1, <3>2 DEF Tables
  <2> HIDE DEF b, h, t, v
  <2>7. p3 \in LzcWork
    BY <2>3 DEF LzcOut
  <2>8. v \in LzcWork
    <3>1. TRUE \in BOOLEAN /\ FirstCode \in Int /\ b \in Int /\ h \in Int /\ t \in Tables
      BY <2>5, <2>6
    <3>2. [p3 EXCEPT !.table = t, !.nextfree = FirstCode, !.bits = b, !.highcode = h] \in LzcWork
      BY <2>7, <3>1 DEF LzcWork
    <3> DEFINE u == [p3 EXCEPT !.table = t, !.nextfree = FirstCode, !.bits = b, !.highcode = h]
    <3>3. v = [u EXCEPT !.cleared = TRUE]
      BY <2>4
    <3> HIDE DEF u
    <3> QED BY <3>1, <3>2, <3>3 DEF LzcWork, u
  <2>9. /\ v.table = t /\ v.nextfree = FirstCode /\ v.bits = b /\ v.highcode = h
        /\ v.codes = p3.codes /\ v.oldbits = p3.oldbits /\ v.offset = p3.offset
        /\ v.bytesOut = p3.bytesOut /\ v.cleared = TRUE
    BY <2>4, <2>7 DEF LzcWork
  <2>10. LzcOut(v)
    BY <2>3, <2>5, <2>8, <2>9 DEF LzcOut
  <2>11. FirstCode \in FirstCode .. LzcMaxCode + 1
    BY LzcNumbers, Numbers
  <2>12. LzcOK(v)
    BY <2>5, <2>6, <2>9, <2>10, <2>11 DEF LzcOK
  <2> QED BY <2>1, <2>12
<1> QED BY <1>5, <1>6

(* Another character.                                                      *)
LEMMA CompressLzcCharOK ==
    ASSUME NEW w, LzcOK(w), NEW c \in Chars
    PROVE  LzcOK(Lzc!compressChar(w, c))
<1> DEFINE found == {k \in DOMAIN w.table : w.table[k] = <<w.prefix, c>>}
           k0 == CHOOSE k \in found : TRUE
           v == Lzc!compressChar(w, c)
<1>1. w \in LzcWork /\ c \in Int
  BY Numbers DEF LzcOK, LzcOut
<1>2. CASE w.cleared
  <2>1. v = [w EXCEPT !.prefix = c, !.cleared = FALSE]
    BY <1>2 DEF Lzc!compressChar
  <2> HIDE DEF v
  <2>2. v \in LzcWork
    BY <1>1, <2>1 DEF LzcWork
  <2>3. /\ v.table = w.table /\ v.nextfree = w.nextfree /\ v.bits = w.bits
        /\ v.highcode = w.highcode /\ v.codes = w.codes /\ v.oldbits = w.oldbits
        /\ v.offset = w.offset /\ v.bytesOut = w.bytesOut /\ v.cleared = FALSE /\ v.prefix = c
    BY <1>1, <2>1 DEF LzcWork
  <2>4. LzcOut(v)
    BY <2>2, <2>3 DEF LzcOK, LzcOut
  <2> QED BY <1>2, <2>3, <2>4 DEF LzcOK, v
<1>3. CASE ~w.cleared /\ found # {}
  <2>1. v = [w EXCEPT !.prefix = k0]
    BY <1>3 DEF Lzc!compressChar
  <2>2. k0 \in found
    BY <1>3
  <2>3. k0 \in DOMAIN w.table
    BY <2>2
  <2> HIDE DEF v, k0, found
  <2>4. k0 \in FirstCode .. w.nextfree - 1 /\ k0 \in Int /\ DOMAIN w.table # {}
    <3>1. w.nextfree \in Int /\ FirstCode \in Int
      BY <1>1, Numbers DEF LzcWork
    <3> QED BY <2>3, <3>1 DEF LzcOK
  <2>5. v \in LzcWork
    BY <1>1, <2>1, <2>4 DEF LzcWork
  <2>6. /\ v.table = w.table /\ v.nextfree = w.nextfree /\ v.bits = w.bits
        /\ v.highcode = w.highcode /\ v.codes = w.codes /\ v.oldbits = w.oldbits
        /\ v.offset = w.offset /\ v.bytesOut = w.bytesOut /\ v.cleared = w.cleared /\ v.prefix = k0
    BY <1>1, <2>1 DEF LzcWork
  <2>7. LzcOut(v)
    BY <2>5, <2>6 DEF LzcOK, LzcOut
  <2> QED BY <1>3, <2>4, <2>6, <2>7 DEF LzcOK, v
<1>4. CASE ~w.cleared /\ found = {}
  <2>1. v = Lzc!newcode(w, c)
    BY <1>4 DEF Lzc!compressChar
  <2> QED BY <1>4, <2>1, NewLzcOK DEF v
<1> QED BY <1>2, <1>3, <1>4

(* The whole source: its codes fit, the first one of every table is a       *)
(* character, save perhaps the very last.                                  *)
LEMMA CompressLzcOK ==
    ASSUME NEW src \in Seq(Chars), Len(src) # 0
    PROVE  LET c == Lzc!LZC_compress(src)
           IN  /\ c.codes \in Seq(LzcCode) /\ LzcFit(c.codes)
               /\ Starts(c.codes, Len(c.codes) - 1)
               /\ c.size \in Nat \ {0}
<1> DEFINE n == Len(src)
           start == [table |-> <<>>, nextfree |-> Lzc!FIRSTFREE, bits |-> Lzc!INITBITS,
                  highcode |-> 2^Lzc!INITBITS - 1, prefix |-> src[1], cleared |-> FALSE,
                  codes |-> <<>>, oldbits |-> 0, offset |-> 0, bytesOut |-> Lzc!MagicSize]
           F == CHOOSE f : f = [i \in 1 .. n |-> IF i = 1 THEN start
                                                 ELSE Lzc!compressChar(f[i - 1], src[i])]
           S == {w \in LzcWork : LzcOK(w)}
           step == [z \in S \X (1 .. n - 1) |-> Lzc!compressChar(z[1], src[z[2] + 1])]
<1>1. n \in Nat \ {0} /\ n - 1 \in Nat /\ \A i \in 1 .. n : src[i] \in Chars
  OBVIOUS
<1>2. start \in S
  <2> DEFINE b == CharBits + 1   h == 2^b - 1   t == <<>>   c == src[1]
  <2>1. start = [table |-> t, nextfree |-> FirstCode, bits |-> b, highcode |-> h, prefix |-> c,
                 cleared |-> FALSE, codes |-> t, oldbits |-> 0, offset |-> 0, bytesOut |-> 3]
    BY LzcNumbers DEF Lzc!MagicSize
  <2>2. b \in CharBits + 1 .. MaxBits /\ h = 2^b - 1 /\ FirstCode <= 2^b /\ b \in Int /\ h \in Int
        /\ FirstCode \in Int /\ c \in Chars /\ c \in Int
        /\ FirstCode \in FirstCode .. LzcMaxCode + 1 /\ 0 \in 0 .. CharBits - 1
    <3>1. 1 \in 1 .. n
      BY <1>1
    <3> QED BY <1>1, <3>1, LzcNumbers, Numbers
  <2>3. t \in Tables /\ DOMAIN t = {}
    <3>1. <<>> \in [{} -> Code]
      OBVIOUS
    <3>2. {} \in SUBSET Int
      OBVIOUS
    <3> QED BY <3>1, <3>2 DEF Tables
  <2>4. t \in Seq(LzcCode) /\ Len(t) = 0 /\ LzcFit(t) /\ Starts(t, Len(t))
    BY DEF LzcFit, Starts
  <2> HIDE DEF b, h, t, c, start
  <2>5. start \in LzcWork
    BY <2>1, <2>2, <2>3, <2>4 DEF LzcWork
  <2>6. /\ start.table = t /\ start.nextfree = FirstCode /\ start.bits = b /\ start.highcode = h
        /\ start.prefix = c /\ start.cleared = FALSE /\ start.codes = t /\ start.oldbits = 0
        /\ start.offset = 0 /\ start.bytesOut = 3
    BY <2>1
  <2>7. LzcOut(start)
    BY <2>2, <2>4, <2>5, <2>6 DEF LzcOut
  <2>8. LzcOK(start)
    BY <2>2, <2>3, <2>6, <2>7 DEF LzcOK
  <2> QED BY <2>5, <2>8
<1>3. ASSUME NEW w \in S, NEW i \in 1 .. n - 1
      PROVE  Lzc!compressChar(w, src[i + 1]) \in S
             /\ step[<<w, i>>] = Lzc!compressChar(w, src[i + 1])
  <2>1. i + 1 \in 1 .. n
    BY <1>1
  <2>2. LzcOK(Lzc!compressChar(w, src[i + 1]))
    BY <1>1, <2>1, CompressLzcCharOK
  <2>3. Lzc!compressChar(w, src[i + 1]) \in LzcWork
    BY <2>2 DEF LzcOK, LzcOut
  <2> QED BY <2>2, <2>3
<1>4. step \in [S \X (1 .. n - 1) -> S]
  BY <1>3
<1> HIDE DEF step, S, start
<1>5. PICK g : IsLoop(g, n - 1, S, start, step)
  <2> HIDE DEF n
  <2> QED BY <1>1, <1>2, <1>4, LoopExists
<1>6. /\ g[0] = start
      /\ \A i \in 1 .. n - 1 : g[i] = Lzc!compressChar(g[i - 1], src[i + 1])
  <2>1. ASSUME NEW i \in 1 .. n - 1 PROVE g[i] = Lzc!compressChar(g[i - 1], src[i + 1])
    <3>1. g[i-1] \in S
      <4>1. i - 1 \in 0 .. n - 1
        BY <1>1
      <4> QED BY <1>5, <4>1 DEF IsLoop
    <3> QED BY <1>3, <1>5, <3>1 DEF IsLoop
  <2> QED BY <1>5, <2>1 DEF IsLoop
<1> HIDE DEF n
<1> DEFINE f == [i \in 1 .. n |-> g[i - 1]]
<1>7. f = [i \in 1 .. n |-> IF i = 1 THEN start ELSE Lzc!compressChar(f[i - 1], src[i])]
  <2>1. ASSUME NEW i \in 1 .. n
        PROVE  f[i] = IF i = 1 THEN start ELSE Lzc!compressChar(f[i - 1], src[i])
    <3>1. f[i] = g[i - 1]
      OBVIOUS
    <3>2. i # 1 => i - 1 \in 1 .. n /\ i - 1 \in 1 .. n - 1 /\ (i - 1) + 1 = i
      BY <1>1
    <3>3. i # 1 => f[i - 1] = g[(i - 1) - 1]
      BY <3>2
    <3>4. i = 1 => i - 1 = 0
      OBVIOUS
    <3> HIDE DEF f
    <3> QED BY <1>6, <3>1, <3>2, <3>3, <3>4
  <2>2. f = [i \in 1 .. n |-> f[i]]
    OBVIOUS
  <2> HIDE DEF f
  <2> QED BY <2>1, <2>2
<1>8. F = [i \in 1 .. n |-> IF i = 1 THEN start ELSE Lzc!compressChar(F[i - 1], src[i])]
  <2> HIDE DEF f
  <2> QED BY <1>7
<1> DEFINE end == Lzc!putcode(F[n], F[n].prefix)
           size == end.bytesOut + (end.offset * end.oldbits + CharBits - 1) \div CharBits
<1>9. Lzc!LZC_compress(src) = [codes |-> end.codes, size |-> size]
  BY DEF Lzc!LZC_compress, n, start
<1> HIDE DEF F, f, end
<1>10. F[n] \in S
  <2> DEFINE h == [i \in 0 .. n - 1 |-> F[i + 1]]
  <2>1. h[0] \in S
    <3>1. 0 \in 0 .. n - 1 /\ 0 + 1 \in 1 .. n
      BY <1>1
    <3>2. h[0] = F[0 + 1]
      BY <3>1
    <3> HIDE DEF h
    <3> QED BY <1>2, <1>8, <3>1, <3>2
  <2>2. ASSUME NEW i \in 1 .. n - 1, h[i - 1] \in S PROVE h[i] \in S
    <3>1. i \in 0 .. n - 1 /\ i - 1 \in 0 .. n - 1 /\ (i - 1) + 1 = i /\ i + 1 \in 1 .. n
          /\ i + 1 # 1 /\ (i + 1) - 1 = i
      BY <1>1
    <3>2. h[i - 1] = F[i] /\ h[i] = F[i + 1]
      BY <3>1
    <3>3. F[i + 1] = Lzc!compressChar(F[i], src[i + 1])
      <4> HIDE DEF h
      <4> QED BY <1>8, <3>1
    <3> HIDE DEF h
    <3> QED BY <1>3, <2>2, <3>2, <3>3
  <2>3. h[n - 1] = F[n]
    <3>1. n - 1 \in 0 .. n - 1 /\ (n - 1) + 1 = n
      BY <1>1
    <3> QED BY <3>1
  <2> HIDE DEF h
  <2>4. \A i \in 0 .. n - 1 : h[i] \in S
    BY <1>1, <2>1, <2>2, LoopKeeps
  <2>5. n - 1 \in 0 .. n - 1
    BY <1>1
  <2> QED BY <2>3, <2>4, <2>5
<1> DEFINE w == F[n]
           code == w.prefix % 2^w.bits
<1>11. LzcOut(w)
  BY <1>10 DEF S, LzcOK
<1> HIDE DEF w
<1>12. code \in 0 .. 2^w.bits - 1 /\ code % 2^w.bits = code
  <2> DEFINE p == 2^w.bits   q == w.prefix
  <2>1. w.bits \in CharBits + 1 .. MaxBits /\ q \in Int
    BY <1>11 DEF LzcOut, LzcWork
  <2>2. p \in Nat \ {0}
    BY <2>1, Widths, Numbers
  <2> HIDE DEF p, q
  <2>3. \A x \in Int, y \in Nat \ {0} : x % y \in 0 .. y - 1 /\ (x % y) % y = x % y
    OBVIOUS
  <2>4. q % p \in 0 .. p - 1 /\ (q % p) % p = q % p
    BY <2>1, <2>2, <2>3
  <2> QED BY <2>4 DEF p, q
<1>13. end = Lzc!putcode(w, code)
  <2> HIDE DEF code
  <2>1. code = w.prefix % 2^w.bits
    BY DEF code
  <2> QED BY <1>12, <2>1 DEF end, w, Lzc!putcode
<1> HIDE DEF code
<1>14. /\ end \in LzcWork /\ Starts(end.codes, Len(end.codes) - 1)
       /\ end.oldbits \in Nat /\ end.offset \in 0 .. CharBits - 1 /\ end.bytesOut \in Nat \ {0}
       /\ LzcFit(end.codes)
  BY <1>11, <1>12, <1>13, PutLzcOK
<1>15. size \in Nat \ {0}
  <2> DEFINE q == end.offset * end.oldbits   x == q + CharBits - 1   d == x \div CharBits
  <2>1. end.offset \in Nat /\ CharBits \in Nat \ {0}
    BY <1>14, Numbers
  <2>2. q \in Nat
    BY <1>14, <2>1
  <2> HIDE DEF q
  <2>3. x \in Nat
    BY <2>1, <2>2
  <2>4. x \div CharBits \in Nat
    <3> HIDE DEF x
    <3> QED BY <2>1, <2>3, DivideUp
  <2>5. size = end.bytesOut + d
    BY DEF q
  <2>6. d \in Nat
    BY <2>4
  <2> HIDE DEF d, size
  <2> QED BY <1>14, <2>5, <2>6
<1>16. end.codes \in Seq(LzcCode)
  BY <1>14 DEF LzcWork
<1> HIDE DEF size
<1> QED BY <1>9, <1>14, <1>15, <1>16

-----------------------------------------------------------------------------
(* Blocks and their padding *)

(* n characters make k blocks.                                             *)
Covers(k, n) == (k - 1) * BlockSize < n /\ n <= k * BlockSize

(* Another block of the source.                                            *)
LEMMA CoverMore ==
    ASSUME NEW k \in Nat, NEW n \in Nat
    PROVE  /\ k * BlockSize \in Nat /\ (k + 1) * BlockSize = k * BlockSize + BlockSize
           /\ k * BlockSize < n /\ n - k * BlockSize <= BlockSize => Covers(k + 1, n)
<1> DEFINE b == BlockSize   p == k * BlockSize
<1>1. b \in Nat
  BY Numbers
<1>2. p \in Nat /\ (k + 1) * b = p + b
  BY <1>1
<1>3. (k + 1) - 1 = k
  OBVIOUS
<1>4. ASSUME p < n, n - p <= b PROVE Covers(k + 1, n)
  <2>1. ((k + 1) - 1) * BlockSize = p /\ (k + 1) * BlockSize = p + b
    BY <1>2, <1>3
  <2> HIDE DEF p, b
  <2> QED BY <1>1, <1>2, <1>4, <2>1 DEF Covers
<1> QED BY <1>2, <1>4

(* Blocks are left as long as characters are; the last one is the only one. *)
LEMMA CoverLeft ==
    ASSUME NEW l \in Nat, NEW j \in Nat, NEW n \in Nat, Covers(l + j, n), j * BlockSize < n
    PROVE  l # 0 /\ (n - j * BlockSize <= BlockSize => l = 1)
<1> DEFINE b == BlockSize   p == j * b   q == (l + j - 1) * b   r == (l + j) * b
<1>1. b \in Nat \ {0}
  BY Numbers
<1>2. p \in Nat /\ q \in Int /\ r \in Nat /\ q < n /\ n <= r
  BY <1>1 DEF Covers
<1>3. l = 0 => r = p
  OBVIOUS
<1>4. ASSUME l >= 2 PROVE q >= p + b
  <2>1. l + j - 1 \in Nat /\ j + 1 \in Nat /\ l + j - 1 >= j + 1
    BY <1>4
  <2>2. \A x, y, z \in Nat : x >= y => x * z >= y * z
    OBVIOUS
  <2>3. q >= (j + 1) * b
    <3> HIDE DEF b
    <3> QED BY <1>1, <2>1, <2>2
  <2>4. (j + 1) * b = p + b
    BY <1>1
  <2> QED BY <2>3, <2>4
<1>5. l # 0
  <2> HIDE DEF p, q, r
  <2> QED BY <1>2, <1>3 DEF p
<1>6. n - p <= b => l = 1
  <2> HIDE DEF p, q, r, b
  <2> QED BY <1>1, <1>2, <1>4, <1>5
<1> QED BY <1>5, <1>6

(* The remainder is what is left of a multiple.                            *)
LEMMA RemainderIs ==
    ASSUME NEW x \in Int, NEW q \in Int, NEW b \in Nat \ {0}, NEW r \in 0 .. b - 1,
           x = q * b + r
    PROVE  x % b = r
<1> DEFINE q2 == x \div b   r2 == x % b   p == q * b   p2 == q2 * b
<1>1. q2 \in Int /\ r2 \in 0 .. b - 1 /\ x = p2 + r2
  OBVIOUS
<1>2. q = q2
  <2>1. p - p2 = r2 - r /\ p \in Int /\ p2 \in Int
    BY <1>1
  <2>2. p - p2 < b /\ p2 - p < b
    <3> HIDE DEF p, p2, r2
    <3> QED BY <1>1, <2>1
  <2>3. \A y, z \in Int : z >= y + 1 => z * b - y * b >= b
    <3> TAKE y, z \in Int
    <3> HAVE z >= y + 1
    <3>1. (z - y - 1) * b >= 0
      <4>1. \A i \in Nat : i * b >= 0
        OBVIOUS
      <4>2. z - y - 1 \in Nat
        OBVIOUS
      <4> QED BY <4>1, <4>2
    <3>2. (z - y - 1) * b = z * b - y * b - b
      OBVIOUS
    <3> DEFINE zb == z * b   yb == y * b
    <3>3. zb \in Int /\ yb \in Int
      OBVIOUS
    <3> HIDE DEF zb, yb
    <3> QED BY <3>1, <3>2, <3>3 DEF zb, yb
  <2> SUFFICES ASSUME q # q2 PROVE FALSE
    OBVIOUS
  <2> HIDE DEF q2
  <2>4. q2 \in Int
    BY <1>1
  <2>5. CASE q >= q2 + 1
    <3>1. p - p2 >= b
      BY <2>3, <2>4, <2>5
    <3> HIDE DEF p, p2
    <3> QED BY <2>1, <2>2, <3>1
  <2>6. CASE q2 >= q + 1
    <3>1. p2 - p >= b
      BY <2>3, <2>4, <2>6
    <3> HIDE DEF p, p2
    <3> QED BY <2>1, <2>2, <3>1
  <2>7. q >= q2 + 1 \/ q2 >= q + 1
    BY <2>4
  <2> QED BY <2>5, <2>6, <2>7
<1>3. p = p2 /\ p \in Int
  BY <1>2
<1> HIDE DEF p, p2, r2
<1>4. r2 = r
  BY <1>1, <1>3 DEF p
<1> QED BY <1>4 DEF r2

(* What the last block lacks.                                              *)
LEMMA PaddingIs ==
    ASSUME NEW j \in Nat, NEW n \in Nat, j * BlockSize < n, n - j * BlockSize <= BlockSize
    PROVE  BlockSize - (n - j * BlockSize) = (-n) % BlockSize
<1> DEFINE b == BlockSize   p == j * b   r == b - (n - p)   q == -(j + 1)
<1>1. b \in Nat \ {0} /\ p \in Nat /\ p < n /\ n - p <= b
  BY Numbers
<1>2. q * b = -p - b
  BY <1>1
<1>3. r \in 0 .. b - 1 /\ -n = -p - b + r /\ -n \in Int /\ q \in Int
  <2> HIDE DEF p, b
  <2> QED BY <1>1
<1> HIDE DEF r, q, b, p
<1>4. -n = q * b + r
  BY <1>2, <1>3
<1>5. (-n) % b = r
  BY <1>1, <1>3, <1>4, RemainderIs
<1> QED BY <1>5 DEF r, b, p

(* The pieces of an LZW thread.                                            *)
Chunks(f, lzw2) == f \in Seq(Chunk) /\ \A i \in 1 .. Len(f) : ChunkOK(f[i], lzw2)

(* They are pieces, and take some room.                                    *)
LEMMA ChunksSize ==
    ASSUME NEW f, NEW lzw2, Chunks(f, lzw2)
    PROVE  f \in Seq(Piece) /\ SizeOf(f) \in Nat
<1> DEFINE n == Len(f)
           h == [i \in 1 .. Len(f) |-> f[i].size]
<1>1. f \in Seq(Piece) /\ n \in Nat
  <2>1. Chunk \subseteq Piece
    BY DEF Piece
  <2> HIDE DEF Piece
  <2> QED BY <2>1 DEF Chunks
<1>2. PICK g : IsSumsOf(g, h, n) /\ SizeOf(f) = g[n]
  BY <1>1, SizesAreSums
<1>3. \A i \in 1 .. n : h[i] \in Nat
  <2> TAKE i \in 1 .. n
  <2>1. f[i].size \in 1 .. Desired
    BY DEF Chunks, ChunkOK
  <2>2. Desired \in Nat
    BY Numbers DEF Desired
  <2> QED BY <2>1, <2>2
<1> HIDE DEF h, n
<1>4. \A i \in 1 .. n : g[i-1] \in Nat => g[i] \in Nat
  BY <1>2, <1>3 DEF IsSumsOf
<1>5. g[0] \in Nat
  BY <1>2 DEF IsSumsOf
<1>6. \A i \in 0 .. n : g[i] \in Nat
  BY <1>1, <1>4, <1>5, LoopKeeps
<1>7. n \in 0 .. n
  BY <1>1
<1> QED BY <1>1, <1>2, <1>6, <1>7

(* Another chunk is put behind the others.                                 *)
LEMMA ChunksMore ==
    ASSUME NEW f, NEW lzw2, Chunks(f, lzw2), NEW x \in Chunk, ChunkOK(x, lzw2)
    PROVE  /\ Chunks(Append(f, x), lzw2) /\ Len(Append(f, x)) = Len(f) + 1
           /\ SizeOf(Append(f, x)) = SizeOf(f) + x.size
<1>1. f \in Seq(Piece) /\ x \in Piece
  BY ChunksSize DEF Piece
<1>2. SizeOf(Append(f, x)) = SizeOf(f) + x.size
  BY <1>1, SizeOfMore
<1> DEFINE more == Append(f, x)   n == Len(f)
<1>3. more \in Seq(Chunk) /\ n \in Nat /\ Len(more) = n + 1 /\ more[n + 1] = x
      /\ \A i \in 1 .. n : more[i] = f[i]
  BY DEF Chunks
<1>4. \A i \in 1 .. Len(more) : ChunkOK(more[i], lzw2)
  <2> TAKE i \in 1 .. Len(more)
  <2>1. i \in 1 .. n \/ i = n + 1
    BY <1>3
  <2> HIDE DEF more
  <2> QED BY <1>3, <2>1 DEF Chunks, n
<1> QED BY <1>2, <1>3, <1>4 DEF Chunks

(* The first chunk is taken.                                               *)
LEMMA ChunksRest ==
    ASSUME NEW f, NEW lzw2, Chunks(f, lzw2), Len(f) # 0
    PROVE  /\ Chunks(Tail(f), lzw2) /\ Len(Tail(f)) = Len(f) - 1
           /\ Head(f) \in Chunk /\ ChunkOK(Head(f), lzw2)
           /\ SizeOf(f) = Head(f).size + SizeOf(Tail(f))
<1>1. f \in Seq(Piece) /\ f # <<>>
  BY ChunksSize
<1>2. SizeOf(f) = Head(f).size + SizeOf(Tail(f))
  BY <1>1, SizeOfRest
<1> DEFINE rest == Tail(f)   n == Len(f)
<1>3. /\ rest \in Seq(Chunk) /\ n \in Nat \ {0} /\ Len(rest) = n - 1 /\ Head(f) = f[1]
      /\ \A i \in 1 .. n - 1 : rest[i] = f[i + 1]
      /\ f[1] \in Chunk /\ 1 \in 1 .. n
  BY DEF Chunks
<1>4. \A i \in 1 .. Len(rest) : ChunkOK(rest[i], lzw2)
  <2> TAKE i \in 1 .. Len(rest)
  <2>1. i \in 1 .. n - 1 /\ i + 1 \in 1 .. n
    BY <1>3
  <2> HIDE DEF rest
  <2> QED BY <1>3, <2>1 DEF Chunks, n
<1> QED BY <1>2, <1>3, <1>4 DEF Chunks

-----------------------------------------------------------------------------
(* The invariant *)

stray == IF job.mimic THEN 1 ELSE 0

(* What Squeeze and LZC put into the file.                                 *)
SqPiece(p)  == /\ p \in [body : Seq({0, 1}), tree : Trees, size : Int]
               /\ p.size \in Nat \ {0}
LzcPiece(p) == /\ p \in [body : Seq(Chars) \cup Seq(LzcCode), size : Int]
               /\ p.size \in Nat \ {0}
               /\ p.body \in Seq(LzcCode) /\ LzcFit(p.body)
               /\ Starts(p.body, Len(p.body) - 1)

(* The file has all of the thread.                                         *)
WholeFile ==
    /\ IsLzw(thread.format) => Covers(Len(file), srcLen)
    /\ thread.format = "sq" => \E p : file = <<p>> /\ SqPiece(p)
    /\ thread.format = "lzc" => \E p : file = <<p>> /\ LzcPiece(p)
    /\ thread.format = "stored" =>
          file = IF srcLen = 0 THEN <<>> ELSE <<[body |-> job.src, size |-> srcLen]>>

(* The length is that of what is in the file.                              *)
LengthTrue ==
    dstLen = SizeOf(file) + (IF IsLzw(thread.format) THEN LzwHeader(thread.format) + stray ELSE 0)

Compressing == {"start", "lzw", "count", "scale", "tree", "squeeze", "lzc", "keep", "store"}
Written     == {"written", "copied"}
Whole       == {"keep", "written", "copied", "copy", "unsq", "unlzc"}

(* Which state the job is in, and of which format the thread is.            *)
JobInv ==
    /\ job \in Jobs
    /\ pc \in Compressing \cup Written
              \cup {"copy", "unsq", "unlzc", "unlzw", "flush", "done", "failed"}
    /\ thread \in [format : Formats \cup {"none"}, eof : Nat, compEof : Nat,
                   crc : {<<>>, job.src}]
    /\ thread.format = "none" <=> pc = "start"
    /\ thread.format \notin {"none", "stored"} => srcLen # 0
    /\ pc \in {"lzw", "unlzw"} => IsLzw(thread.format)
    /\ pc \in {"count", "scale", "tree", "squeeze", "unsq"} => thread.format = "sq"
    /\ pc \in {"lzc", "unlzc"} => thread.format = "lzc"
    /\ pc = "copy" => thread.format = "stored"
    /\ pc = "keep" => thread.format # "stored"

(* Before the expansion begins.                                            *)
IdleInv ==
    pc \in Compressing \cup Written =>
        /\ inBuf = 0 /\ compRemaining = 0 /\ given = <<>> /\ chunkCrc = <<>>
        /\ funnel = <<>> /\ err = "none"

(* The weights and the tree of Squeeze.                                    *)
HuffInv ==
    /\ pc \in {"scale", "tree", "squeeze"} =>
          /\ huff \in [tokens : Seq(SQ!Syms), weights : [SQ!Syms -> Nat], ceiling : Int,
                       tree : Trees]
          /\ Weighed(huff.weights, huff.tokens) /\ Len(huff.tokens) # 0
    /\ pc = "squeeze" =>
          /\ DOMAIN huff.tree # {}
          /\ \A i \in DOMAIN huff.tokens : huff.tokens[i] \in DOMAIN huff.tree

(* The file while it is made, and what the header says of it.               *)
FileInv ==
    /\ pos \in 0 .. srcLen /\ dstLen \in Nat
    /\ pc \in Compressing \ {"lzw", "keep"} => file = <<>> /\ dstLen = 0 /\ pos = 0
    /\ IsLzw(thread.format) => Chunks(file, type2)
    /\ pc = "lzw" =>
          /\ dstLen = LzwHeader(thread.format) + SizeOf(file)
          /\ KeptOK(table)
          /\ \/ pos = Len(file) * BlockSize /\ pos < srcLen
             \/ pos = srcLen /\ Covers(Len(file), srcLen)
    /\ pc \in Whole => WholeFile /\ LengthTrue
    /\ pc \in Written /\ thread.format # "stored" => dstLen < srcLen
    /\ pc \notin Compressing =>
          /\ thread.eof = srcLen /\ thread.compEof = dstLen /\ thread.crc = job.src

(* The buffer of the LZW expander.                                         *)
BufferInv ==
    /\ inBuf \in 0 .. GenBufSize /\ compRemaining \in Nat
    /\ pc = "unlzw" =>
          \/ /\ pos < srcLen /\ inBuf + compRemaining = SizeOf(file) + stray
             /\ \E j \in Nat : pos = j * BlockSize /\ Covers(Len(file) + j, srcLen)
          \/ /\ pos = srcLen /\ file = <<>>
             /\ inBuf + compRemaining - stray \in {0, (-srcLen) % BlockSize}
    /\ IsLzw(thread.format) /\ pc \in {"flush", "done"} =>
          inBuf - stray \in {0, (-srcLen) % BlockSize}

CodecInv == JobInv /\ IdleInv /\ HuffInv /\ FileInv /\ BufferInv

(* What a job is.                                                          *)
LEMMA JobFacts ==
    ASSUME job \in Jobs
    PROVE  /\ job.src \in Seq(Chars) /\ srcLen \in Nat
           /\ job.format \in Formats /\ job.mimic \in BOOLEAN /\ stray \in {0, 1}
           /\ job.conv \in {"on", "off", "auto"} /\ job.to \in {"CR", "LF", "CRLF"}
           /\ \A f \in {"lzw1", "lzw2"} : LzwHeader(f) \in Nat
<1>1. job.src \in Seq(Chars) /\ job.format \in Formats /\ job.mimic \in BOOLEAN
      /\ job.conv \in {"on", "off", "auto"} /\ job.to \in {"CR", "LF", "CRLF"}
  BY CodecAssumption
<1>2. \A f \in {"lzw1", "lzw2"} : LzwHeader(f) \in Nat
  BY Numbers DEF LzwHeader
<1> QED BY <1>1, <1>2 DEF srcLen, stray

(* The invariant holds at first.                                           *)
LEMMA CodecInit ==
    ASSUME Init
    PROVE  CodecInv
<1>1. /\ job \in Jobs /\ pc = "start" /\ pos = 0 /\ file = <<>> /\ dstLen = 0
      /\ thread = NoThread /\ inBuf = 0 /\ compRemaining = 0 /\ given = <<>>
      /\ chunkCrc = <<>> /\ funnel = <<>> /\ err = "none"
  BY DEF Init
<1>2. srcLen \in Nat
  BY <1>1, JobFacts
<1>3. JobInv
  BY <1>1 DEF JobInv, NoThread, IsLzw, Compressing, Written
<1>4. IdleInv
  BY <1>1 DEF IdleInv
<1>5. HuffInv
  BY <1>1 DEF HuffInv
<1>6. FileInv
  <2>1. ~IsLzw(thread.format)
    BY <1>1 DEF NoThread, IsLzw
  <2> QED BY <1>1, <1>2, <2>1 DEF FileInv, Compressing, Whole, Written
<1>7. BufferInv
  <2>1. GenBufSize \in Nat
    BY CodecAssumption
  <2> QED BY <1>1, <2>1 DEF BufferInv
<1> QED BY <1>3, <1>4, <1>5, <1>6, <1>7 DEF CodecInv

(* Nu_CompressToArchive begins.                                            *)
LEMMA BeginKeeps ==
    ASSUME CodecInv, Begin
    PROVE  CodecInv'
<1>1. /\ pc = "start" /\ thread' = [NoThread EXCEPT !.format = Target]
      /\ pc' = CASE IsLzw(Target) -> "lzw" [] Target = "sq" -> "count"
                 [] Target = "lzc" -> "lzc" [] OTHER -> "store"
      /\ table' = IF IsLzw(Target) THEN ClearedTable ELSE NoTable
      /\ dstLen' = IF IsLzw(Target) THEN LzwHeader(Target) ELSE 0
      /\ UNCHANGED <<job, pos, file, huff, err, inBuf, compRemaining, given, chunkCrc, funnel>>
  BY DEF Begin, expandVars
<1>2. JobInv /\ IdleInv /\ HuffInv /\ FileInv /\ BufferInv
  BY DEF CodecInv
<1>3. /\ job \in Jobs /\ job.format \in Formats /\ srcLen \in Nat /\ srcLen' = srcLen
      /\ \A f \in {"lzw1", "lzw2"} : LzwHeader(f) \in Nat
  BY <1>1, <1>2, JobFacts DEF JobInv, srcLen
<1>4. Target \in Formats /\ (Target # "stored" => srcLen # 0)
  BY <1>3 DEF Target, Formats
<1>5. file = <<>> /\ pos = 0 /\ file' = <<>> /\ pos' = 0
  BY <1>1, <1>2 DEF FileInv, Compressing
<1>6. thread' = [format |-> Target, eof |-> 0, compEof |-> 0, crc |-> <<>>]
  BY <1>1 DEF NoThread
<1>7. /\ Target \in {"lzw1", "lzw2"} => pc' = "lzw"
      /\ Target = "sq" => pc' = "count"
      /\ Target = "lzc" => pc' = "lzc"
      /\ Target = "stored" => pc' = "store"
  BY <1>1, <1>4 DEF IsLzw, Formats
<1>8. JobInv'
  <2>1. thread'.format = Target /\ thread' \in [format : Formats \cup {"none"}, eof : Nat,
                                                compEof : Nat, crc : {<<>>, job'.src}]
    BY <1>4, <1>6
  <2> QED BY <1>1, <1>3, <1>4, <1>7, <2>1
          DEF JobInv, IsLzw, Formats, Compressing, Written
<1>9. IdleInv'
  <2>1. pc \in Compressing
    BY <1>1 DEF Compressing
  <2> QED BY <1>1, <1>2, <2>1 DEF IdleInv
<1>10. HuffInv'
  BY <1>4, <1>7 DEF HuffInv, Formats
<1>11. BufferInv'
  BY <1>1, <1>2, <1>4, <1>7 DEF BufferInv, Formats
<1>12. FileInv'
  <2>1. thread'.format = Target
    BY <1>6
  <2>2. SizeOf(file') = 0
    BY <1>5, SizeOfNone
  <2>3. dstLen' = (IF IsLzw(Target) THEN LzwHeader(Target) ELSE 0) /\ dstLen' \in Nat
    BY <1>1, <1>3 DEF IsLzw
  <2>4. Chunks(file', type2')
    BY <1>5 DEF Chunks
  <2>5. pc' = "lzw" => /\ dstLen' = LzwHeader(thread'.format) + SizeOf(file')
                       /\ KeptOK(table')
                       /\ pos' = Len(file') * BlockSize /\ pos' < srcLen'
    <3> HAVE pc' = "lzw"
    <3>1. IsLzw(Target) /\ Target \in {"lzw1", "lzw2"}
      BY <1>4, <1>7 DEF IsLzw, Formats
    <3>2. KeptOK(table')
      BY <1>1, <3>1, ClearedOK
    <3>3. Len(file') * BlockSize = 0
      BY <1>5, Numbers
    <3> QED BY <1>3, <1>4, <1>5, <2>1, <2>2, <2>3, <3>1, <3>2, <3>3
  <2>6. pc' \in Compressing \ {"lzw", "keep"} => dstLen' = 0
    BY <1>4, <1>7, <2>3 DEF IsLzw, Formats
  <2>7. pc' \in {"lzw", "count", "lzc", "store"}
    BY <1>4, <1>7 DEF Formats
  <2> QED BY <1>3, <1>5, <2>3, <2>4, <2>5, <2>6, <2>7
          DEF FileInv, Compressing, Whole, Written
<1> QED BY <1>8, <1>9, <1>10, <1>11, <1>12 DEF CodecInv

(* Nu_CompressUncompressed.                                                *)
LEMMA StoreKeeps ==
    ASSUME CodecInv, Store
    PROVE  CodecInv'
<1>1. /\ pc = "store"
      /\ file' = IF srcLen = 0 THEN <<>> ELSE <<[body |-> job.src, size |-> srcLen]>>
      /\ dstLen' = srcLen
      /\ thread' = [format |-> "stored", eof |-> srcLen, compEof |-> srcLen, crc |-> job.src]
      /\ pc' = "written"
      /\ UNCHANGED <<job, pos, table, huff, err, inBuf, compRemaining, given, chunkCrc, funnel>>
  BY DEF Store, expandVars
<1>2. JobInv /\ IdleInv /\ HuffInv /\ FileInv /\ BufferInv
  BY DEF CodecInv
<1>3. job \in Jobs /\ job.src \in Seq(Chars) /\ srcLen \in Nat /\ srcLen' = srcLen
  BY <1>1, <1>2, JobFacts DEF JobInv, srcLen
<1>4. JobInv'
  <2>1. thread'.format = "stored"
        /\ thread' \in [format : Formats \cup {"none"}, eof : Nat, compEof : Nat,
                        crc : {<<>>, job'.src}]
    BY <1>1, <1>3 DEF Formats
  <2> QED BY <1>1, <1>3, <2>1 DEF JobInv, IsLzw, Written
<1>5. IdleInv'
  <2>1. pc \in Compressing
    BY <1>1 DEF Compressing
  <2> QED BY <1>1, <1>2, <2>1 DEF IdleInv
<1>6. HuffInv'
  BY <1>1 DEF HuffInv
<1>7. BufferInv'
  BY <1>1, <1>2 DEF BufferInv
<1>8. SizeOf(file') = srcLen
  <2>1. CASE srcLen = 0
    BY <1>1, <2>1, SizeOfNone
  <2>2. CASE srcLen # 0
    <3> DEFINE p == [body |-> job.src, size |-> srcLen]
    <3>1. p \in Piece /\ p.size = srcLen
      BY <1>3 DEF Piece
    <3>2. file' = <<p>>
      BY <1>1, <2>2
    <3> HIDE DEF p
    <3> QED BY <3>1, <3>2, SizeOfOne
  <2> QED BY <2>1, <2>2
<1>9. FileInv'
  <2>1. /\ thread'.format = "stored" /\ thread'.eof = srcLen /\ thread'.compEof = srcLen
        /\ thread'.crc = job'.src
    BY <1>1
  <2>2. ~IsLzw(thread'.format)
    BY <2>1 DEF IsLzw
  <2>3. WholeFile'
    BY <1>1, <1>3, <2>1, <2>2 DEF WholeFile
  <2>4. LengthTrue'
    BY <1>1, <1>3, <1>8, <2>2 DEF LengthTrue
  <2>5. pos' \in 0 .. srcLen'
    BY <1>1, <1>2, <1>3 DEF FileInv
  <2> QED BY <1>1, <1>3, <2>1, <2>2, <2>3, <2>4, <2>5 DEF FileInv, Compressing, Whole, Written
<1> QED BY <1>4, <1>5, <1>6, <1>7, <1>9 DEF CodecInv

(* One block of Nu_CompressLZW.                                            *)
LEMMA CompressLZWChunkKeeps ==
    ASSUME CodecInv, CompressLZWChunk
    PROVE  CodecInv'
<1> DEFINE end   == IF srcLen - pos > BlockSize THEN pos + BlockSize ELSE srcLen
           block == SubSeq(job.src, pos + 1, end)
           c     == CompressChunk(table, block, type2, job.mimic)
<1>1. /\ pc = "lzw" /\ pos < srcLen
      /\ pos' = end /\ file' = Append(file, c.chunk) /\ table' = c.table
      /\ dstLen' = dstLen + c.chunk.size
      /\ UNCHANGED <<job, pc, huff, thread, err, inBuf, compRemaining, given, chunkCrc, funnel>>
  BY DEF CompressLZWChunk, expandVars
<1>2. JobInv /\ IdleInv /\ HuffInv /\ FileInv /\ BufferInv
  BY DEF CodecInv
<1>3. /\ job \in Jobs /\ job.src \in Seq(Chars) /\ srcLen \in Nat /\ srcLen' = srcLen
      /\ Len(job.src) = srcLen /\ job.mimic \in BOOLEAN /\ stray' = stray
      /\ \A f \in {"lzw1", "lzw2"} : LzwHeader(f) \in Nat
  BY <1>1, <1>2, JobFacts DEF JobInv, srcLen, stray
<1>4. /\ pos \in 0 .. srcLen /\ IsLzw(thread.format) /\ Chunks(file, type2) /\ KeptOK(table)
      /\ dstLen = LzwHeader(thread.format) + SizeOf(file)
      /\ pos = Len(file) * BlockSize
  BY <1>1, <1>2 DEF JobInv, FileInv
<1>5. BlockSize \in Nat \ {0}
  BY Numbers
<1>6. end \in pos + 1 .. srcLen /\ end - pos <= BlockSize
  <2> DEFINE s == srcLen
  <2>1. s \in Nat /\ pos \in 0 .. s /\ pos < s
        /\ end = IF s - pos > BlockSize THEN pos + BlockSize ELSE s
    BY <1>1, <1>3, <1>4
  <2> HIDE DEF s, end
  <2>2. end \in pos + 1 .. s /\ end - pos <= BlockSize
    BY <1>5, <2>1
  <2> QED BY <2>2 DEF s
<1>7. block \in Seq(Chars) /\ Len(block) <= BlockSize
  <2> HIDE DEF end
  <2>1. block \in Seq(Chars) /\ Len(block) = end - pos
    BY <1>3, <1>4, <1>6
  <2> QED BY <1>6, <2>1
<1> HIDE DEF block
<1>8. c.chunk \in Chunk /\ ChunkOK(c.chunk, type2) /\ KeptOK(c.table)
  <2>1. type2 \in BOOLEAN
    BY DEF type2
  <2> QED BY <1>3, <1>4, <1>7, <2>1, CompressChunkOK
<1> DEFINE chunk == c.chunk
<1> HIDE DEF c, chunk
<1>9. /\ Chunks(file', type2) /\ Len(file') = Len(file) + 1
      /\ SizeOf(file') = SizeOf(file) + chunk.size /\ chunk.size \in Nat
      /\ SizeOf(file) \in Nat /\ Len(file) \in Nat
  <2>1. chunk.size \in 1 .. Desired /\ Desired \in Nat
    BY <1>8, Numbers DEF ChunkOK, Desired, chunk
  <2>2. file' = Append(file, chunk)
    BY <1>1 DEF chunk
  <2>3. chunk \in Chunk /\ ChunkOK(chunk, type2)
    BY <1>8 DEF chunk
  <2>4. /\ Chunks(Append(file, chunk), type2) /\ Len(Append(file, chunk)) = Len(file) + 1
        /\ SizeOf(Append(file, chunk)) = SizeOf(file) + chunk.size
    BY <1>4, <2>3, ChunksMore
  <2>5. SizeOf(file) \in Nat
    BY <1>4, ChunksSize
  <2>6. Len(file) \in Nat
    <3>1. file \in Seq(Chunk)
      BY <1>4 DEF Chunks
    <3> QED BY <3>1
  <2> QED BY <2>1, <2>2, <2>4, <2>5, <2>6
<1>10. JobInv'
  BY <1>1, <1>2, <1>3 DEF JobInv
<1>11. IdleInv'
  BY <1>1, <1>2 DEF IdleInv
<1>12. HuffInv'
  BY <1>1, <1>2 DEF HuffInv
<1>13. BufferInv'
  BY <1>1, <1>2 DEF BufferInv
<1>14. type2' = type2
  BY <1>1 DEF type2
<1>15. \/ pos' = Len(file') * BlockSize /\ pos' < srcLen'
       \/ pos' = srcLen' /\ Covers(Len(file'), srcLen')
  <2> DEFINE n == Len(file)   p == n * BlockSize
  <2>1. n \in Nat /\ p \in Nat /\ (n + 1) * BlockSize = p + BlockSize
        /\ (p < srcLen /\ srcLen - p <= BlockSize => Covers(n + 1, srcLen))
    BY <1>3, <1>9, CoverMore
  <2>2. pos = p /\ Len(file') = n + 1
    BY <1>4, <1>9
  <2> HIDE DEF n, p
  <2>3. CASE srcLen - pos > BlockSize
    <3>1. pos' = p + BlockSize /\ pos' < srcLen
      BY <1>1, <1>3, <1>5, <2>1, <2>2, <2>3
    <3> QED BY <1>3, <2>1, <2>2, <3>1
  <2>4. CASE ~(srcLen - pos > BlockSize)
    <3>1. pos' = srcLen
      BY <1>1, <2>4
    <3>2. Covers(n + 1, srcLen)
      BY <1>1, <1>3, <1>5, <2>1, <2>2, <2>4
    <3> QED BY <1>3, <2>2, <3>1, <3>2
  <2> QED BY <2>3, <2>4
<1>16. dstLen' = LzwHeader(thread'.format) + SizeOf(file') /\ dstLen' \in Nat
  <2> DEFINE h == LzwHeader(thread.format)
  <2>1. h \in Nat
    BY <1>3, <1>4 DEF IsLzw
  <2>2. dstLen' = dstLen + chunk.size /\ dstLen = h + SizeOf(file) /\ LzwHeader(thread'.format) = h
    BY <1>1, <1>4 DEF chunk
  <2> HIDE DEF h
  <2> QED BY <1>9, <2>1, <2>2
<1>17. pos' \in 0 .. srcLen'
  <2> HIDE DEF end
  <2> QED BY <1>1, <1>3, <1>4, <1>6
<1>18. FileInv'
  <2>1. pc' = "lzw" /\ KeptOK(table')
    BY <1>1, <1>8
  <2> QED BY <1>9, <1>14, <1>15, <1>16, <1>17, <2>1 DEF FileInv, Compressing, Whole, Written
<1> QED BY <1>10, <1>11, <1>12, <1>13, <1>18 DEF CodecInv

(* The end of Nu_CompressLZW.                                              *)
LEMMA FinishLZWKeeps ==
    ASSUME CodecInv, FinishLZW
    PROVE  CodecInv'
<1>1. /\ pc = "lzw" /\ pos = srcLen /\ dstLen' = dstLen + stray /\ pc' = "keep"
      /\ UNCHANGED <<job, pos, file, huff, thread, err, inBuf, compRemaining, given, chunkCrc,
                     funnel>>
  BY DEF FinishLZW, expandVars, stray
<1>2. JobInv /\ IdleInv /\ HuffInv /\ FileInv /\ BufferInv
  BY DEF CodecInv
<1>3. /\ job \in Jobs /\ srcLen \in Nat /\ srcLen' = srcLen /\ stray \in {0, 1} /\ stray' = stray
      /\ \A f \in {"lzw1", "lzw2"} : LzwHeader(f) \in Nat
  BY <1>1, <1>2, JobFacts DEF JobInv, srcLen, stray
<1>4. /\ IsLzw(thread.format) /\ Chunks(file, type2) /\ dstLen \in Nat
      /\ dstLen = LzwHeader(thread.format) + SizeOf(file)
      /\ Covers(Len(file), srcLen) /\ thread.format \in {"lzw1", "lzw2"}
      /\ pos \in 0 .. srcLen
  BY <1>1, <1>2, <1>3 DEF JobInv, FileInv, IsLzw
<1>5. JobInv'
  BY <1>1, <1>2, <1>3, <1>4 DEF JobInv, Compressing
<1>6. IdleInv'
  BY <1>1, <1>2 DEF IdleInv, Compressing
<1>7. HuffInv'
  BY <1>1 DEF HuffInv
<1>8. BufferInv'
  BY <1>1, <1>2 DEF BufferInv
<1>9. WholeFile'
  BY <1>1, <1>3, <1>4 DEF WholeFile
<1>10. LengthTrue' /\ dstLen' \in Nat
  <2> DEFINE h == LzwHeader(thread.format)   z == SizeOf(file)
  <2>1. h \in Nat /\ z \in Nat
    BY <1>3, <1>4, ChunksSize
  <2>2. dstLen' = h + z + stray
    <3> HIDE DEF h, z
    <3>1. dstLen = h + z
      BY <1>4 DEF h, z
    <3> QED BY <1>1, <1>3, <2>1, <3>1
  <2>3. SizeOf(file') = z /\ IsLzw(thread'.format) /\ LzwHeader(thread'.format) = h /\ stray' = stray
    BY <1>1, <1>3, <1>4
  <2> HIDE DEF h, z
  <2> QED BY <1>3, <2>1, <2>2, <2>3 DEF LengthTrue
<1>11. FileInv'
  <2>1. type2' = type2
    BY <1>1 DEF type2
  <2> QED BY <1>1, <1>3, <1>4, <1>9, <1>10, <2>1 DEF FileInv, Compressing, Whole, Written
<1> QED BY <1>5, <1>6, <1>7, <1>8, <1>11 DEF CodecInv

(* Squeeze's first pass.                                                   *)
LEMMA CountSQKeeps ==
    ASSUME CodecInv, CountSQ
    PROVE  CodecInv'
<1> DEFINE tokens == SQ!Tokens(Runs(job.src))
           weights == SQ!Weights(tokens)
<1>1. /\ pc = "count" /\ pc' = "scale"
      /\ huff' = [tokens |-> tokens, weights |-> weights, ceiling |-> MaxCount, tree |-> <<>>]
      /\ UNCHANGED <<job, pos, file, dstLen, table, thread, err, inBuf, compRemaining, given,
                     chunkCrc, funnel>>
  BY DEF CountSQ, expandVars, NoHuff
<1>2. JobInv /\ IdleInv /\ HuffInv /\ FileInv /\ BufferInv
  BY DEF CodecInv
<1>3. job \in Jobs /\ job.src \in Seq(Chars) /\ srcLen' = srcLen /\ stray' = stray
  BY <1>1, <1>2, JobFacts DEF JobInv, srcLen, stray
<1>4. tokens \in Seq(SQ!Syms) /\ Len(tokens) # 0
  BY <1>3, TokensOK
<1> HIDE DEF tokens
<1>5. Weighed(weights, tokens)
  BY <1>4, WeightsOK
<1> HIDE DEF weights
<1>6. JobInv'
  BY <1>1, <1>2, <1>3 DEF JobInv, IsLzw, Compressing
<1>7. IdleInv'
  BY <1>1, <1>2 DEF IdleInv, Compressing
<1>8. HuffInv'
  <2> DEFINE t == <<>>
  <2>1. weights \in [SQ!Syms -> Nat] /\ MaxCount \in Int
    BY <1>5, Symbols DEF Weighed
  <2>2. t \in Trees
    <3>1. t \in [{} -> Seq({0, 1})] /\ {} \in SUBSET SQ!Syms
      OBVIOUS
    <3> HIDE DEF t
    <3> QED BY <3>1 DEF Trees
  <2>3. huff' = [tokens |-> tokens, weights |-> weights, ceiling |-> MaxCount, tree |-> t]
    BY <1>1
  <2> HIDE DEF t
  <2>4. huff' \in [tokens : Seq(SQ!Syms), weights : [SQ!Syms -> Nat], ceiling : Int, tree : Trees]
    BY <1>4, <2>1, <2>2, <2>3
  <2>5. huff'.tokens = tokens /\ huff'.weights = weights
    BY <2>3
  <2> QED BY <1>1, <1>4, <1>5, <2>4, <2>5 DEF HuffInv
<1>9. BufferInv'
  BY <1>1, <1>2 DEF BufferInv
<1>10. FileInv'
  BY <1>1, <1>2, <1>3 DEF FileInv, JobInv, Compressing, Whole, Written, IsLzw, type2
<1> QED BY <1>6, <1>7, <1>8, <1>9, <1>10 DEF CodecInv

(* A pass of Nu_SQScale.                                                   *)
LEMMA ScaleSQKeeps ==
    ASSUME CodecInv, ScaleSQ
    PROVE  CodecInv'
<1> DEFINE least == SQ!divisor(huff.weights, huff.ceiling)
           more  == SQ!raised(huff.weights, least)
           less  == SQ!divided(huff.weights, least)
<1>1. /\ pc = "scale"
      /\ \/ more # huff.weights /\ huff' = [huff EXCEPT !.weights = more] /\ pc' = pc
         \/ more = huff.weights /\ huff' = [huff EXCEPT !.weights = less] /\ pc' = "tree"
      /\ UNCHANGED <<job, pos, file, dstLen, table, thread, err, inBuf, compRemaining, given,
                     chunkCrc, funnel>>
  BY DEF ScaleSQ, expandVars
<1>2. JobInv /\ IdleInv /\ HuffInv /\ FileInv /\ BufferInv
  BY DEF CodecInv
<1>3. job \in Jobs /\ srcLen' = srcLen /\ stray' = stray
  BY <1>1, <1>2, JobFacts DEF JobInv, srcLen, stray
<1>4. /\ huff \in [tokens : Seq(SQ!Syms), weights : [SQ!Syms -> Nat], ceiling : Int, tree : Trees]
      /\ Weighed(huff.weights, huff.tokens) /\ Len(huff.tokens) # 0
      /\ huff.tokens \in Seq(SQ!Syms)
  BY <1>1, <1>2 DEF HuffInv
<1>5. least \in Nat \ {0}
  BY DivisorOK
<1> HIDE DEF least
<1>6. Weighed(more, huff.tokens) /\ (more = huff.weights => Weighed(less, huff.tokens))
  BY <1>4, <1>5, ScaledOK
<1> HIDE DEF more, less
<1>7. PICK w : huff' = [huff EXCEPT !.weights = w] /\ Weighed(w, huff.tokens)
  BY <1>1, <1>6
<1>8. pc' \in {"scale", "tree"}
  BY <1>1
<1>9. JobInv'
  BY <1>1, <1>2, <1>3, <1>8 DEF JobInv, IsLzw, Compressing
<1>10. IdleInv'
  BY <1>1, <1>2, <1>8 DEF IdleInv, Compressing
<1>11. HuffInv'
  <2>1. w \in [SQ!Syms -> Nat]
    BY <1>7 DEF Weighed
  <2>2. /\ huff' \in [tokens : Seq(SQ!Syms), weights : [SQ!Syms -> Nat], ceiling : Int,
                      tree : Trees]
        /\ huff'.weights = w /\ huff'.tokens = huff.tokens
    BY <1>4, <1>7, <2>1
  <2> QED BY <1>4, <1>7, <1>8, <2>2 DEF HuffInv
<1>12. BufferInv'
  BY <1>1, <1>2, <1>8 DEF BufferInv
<1>13. FileInv'
  BY <1>1, <1>2, <1>3, <1>8 DEF FileInv, JobInv, Compressing, Whole, Written, IsLzw, type2
<1> QED BY <1>9, <1>10, <1>11, <1>12, <1>13 DEF CodecInv

(* A tree, and the ceiling lowered.                                        *)
LEMMA BuildTreeSQKeeps ==
    ASSUME CodecInv, BuildTreeSQ
    PROVE  CodecInv'
<1> DEFINE tree == SQ!SQBuildTree(huff.weights)
<1>1. /\ pc = "tree"
      /\ huff' = [huff EXCEPT !.ceiling = @ \div 2, !.tree = tree.codes]
      /\ pc' \in {"scale", "squeeze"}
      /\ UNCHANGED <<job, pos, file, dstLen, table, thread, err, inBuf, compRemaining, given,
                     chunkCrc, funnel>>
  BY DEF BuildTreeSQ, expandVars
<1>2. JobInv /\ IdleInv /\ HuffInv /\ FileInv /\ BufferInv
  BY DEF CodecInv
<1>3. job \in Jobs /\ srcLen' = srcLen /\ stray' = stray
  BY <1>1, <1>2, JobFacts DEF JobInv, srcLen, stray
<1>4. /\ huff \in [tokens : Seq(SQ!Syms), weights : [SQ!Syms -> Nat], ceiling : Int, tree : Trees]
      /\ Weighed(huff.weights, huff.tokens) /\ Len(huff.tokens) # 0
      /\ huff.tokens \in Seq(SQ!Syms) /\ huff.weights \in [SQ!Syms -> Nat]
      /\ DOMAIN huff.tokens = 1 .. Len(huff.tokens) /\ Len(huff.tokens) \in Nat
  BY <1>1, <1>2 DEF HuffInv
<1>5. \A i \in DOMAIN huff.tokens : huff.tokens[i] \in SQ!Syms /\ huff.weights[huff.tokens[i]] # 0
  BY <1>4 DEF Weighed
<1>6. \E t \in SQ!Syms : huff.weights[t] # 0
  <2>1. 1 \in DOMAIN huff.tokens
    BY <1>4
  <2> QED BY <1>5, <2>1
<1>7. /\ tree \in Node /\ DOMAIN tree.codes # {}
      /\ \A t \in SQ!Syms : huff.weights[t] # 0 => t \in DOMAIN tree.codes
  BY <1>4, <1>6, BuildTreeOK
<1> HIDE DEF tree
<1>8. JobInv'
  BY <1>1, <1>2, <1>3 DEF JobInv, IsLzw, Compressing
<1>9. IdleInv'
  BY <1>1, <1>2 DEF IdleInv, Compressing
<1>10. HuffInv'
  <2> DEFINE half == huff.ceiling \div 2
  <2>1. half \in Int /\ tree.codes \in Trees
    BY <1>4, <1>7 DEF Node
  <2>2. huff' = [huff EXCEPT !.ceiling = half, !.tree = tree.codes]
    BY <1>1
  <2> HIDE DEF half
  <2>3. /\ huff' \in [tokens : Seq(SQ!Syms), weights : [SQ!Syms -> Nat], ceiling : Int,
                      tree : Trees]
        /\ huff'.weights = huff.weights /\ huff'.tokens = huff.tokens /\ huff'.tree = tree.codes
    BY <1>4, <2>1, <2>2
  <2> QED BY <1>4, <1>5, <1>7, <2>3 DEF HuffInv
<1>11. BufferInv'
  BY <1>1, <1>2 DEF BufferInv
<1>12. FileInv'
  BY <1>1, <1>2, <1>3 DEF FileInv, JobInv, Compressing, Whole, Written, IsLzw, type2
<1> QED BY <1>8, <1>9, <1>10, <1>11, <1>12 DEF CodecInv

(* Squeeze's second pass.                                                  *)
LEMMA CompressSQKeeps ==
    ASSUME CodecInv, CompressSQ
    PROVE  CodecInv'
<1> DEFINE bits == SQ!sqBits(huff.tree, huff.tokens)
           size == SQ!sqSize(huff.tree, bits)
           p    == [body |-> bits, tree |-> huff.tree, size |-> size]
<1>1. /\ pc = "squeeze" /\ dstLen' = size
      /\ file' = <<[body |-> bits, tree |-> huff.tree, size |-> dstLen']>>
      /\ pc' = "keep"
      /\ UNCHANGED <<job, pos, thread, err, inBuf, compRemaining, given, chunkCrc, funnel>>
  BY DEF CompressSQ, expandVars
<1>2. JobInv /\ IdleInv /\ HuffInv /\ FileInv /\ BufferInv
  BY DEF CodecInv
<1>3. job \in Jobs /\ srcLen' = srcLen /\ stray' = stray
  BY <1>1, <1>2, JobFacts DEF JobInv, srcLen, stray
<1>4. /\ huff.tokens \in Seq(SQ!Syms) /\ huff.tree \in Trees /\ DOMAIN huff.tree # {}
      /\ \A i \in DOMAIN huff.tokens : huff.tokens[i] \in DOMAIN huff.tree
  BY <1>1, <1>2 DEF HuffInv
<1>5. bits \in Seq({0, 1}) /\ size \in Nat \ {0}
  BY <1>4, SqueezedOK
<1>6. file' = <<p>> /\ dstLen' = size
  BY <1>1
<1> HIDE DEF bits, size
<1>7. p \in [body : Seq({0, 1}), tree : Trees, size : Int] /\ p.size = size
  BY <1>4, <1>5
<1>8. SqPiece(p) /\ p \in Piece
  BY <1>5, <1>7 DEF SqPiece, Piece
<1> HIDE DEF p
<1>9. SizeOf(file') = size
  BY <1>6, <1>7, <1>8, SizeOfOne
<1>10. thread'.format = "sq" /\ ~IsLzw(thread'.format)
  BY <1>1, <1>2 DEF JobInv, IsLzw
<1>11. JobInv'
  BY <1>1, <1>2, <1>3, <1>10 DEF JobInv, Compressing
<1>12. IdleInv'
  BY <1>1, <1>2 DEF IdleInv, Compressing
<1>13. HuffInv'
  BY <1>1 DEF HuffInv
<1>14. BufferInv'
  BY <1>1, <1>2 DEF BufferInv
<1>15. WholeFile'
  BY <1>6, <1>8, <1>10 DEF WholeFile
<1>16. LengthTrue'
  BY <1>5, <1>6, <1>9, <1>10 DEF LengthTrue
<1>17. FileInv'
  BY <1>1, <1>2, <1>3, <1>5, <1>6, <1>10, <1>15, <1>16 DEF FileInv, Compressing, Whole, Written
<1> QED BY <1>11, <1>12, <1>13, <1>14, <1>17 DEF CodecInv

(* Nu_CompressLZC.                                                         *)
LEMMA CompressLZCKeeps ==
    ASSUME CodecInv, CompressLZC
    PROVE  CodecInv'
<1> DEFINE c == Lzc!LZC_compress(job.src)
           p == [body |-> c.codes, size |-> c.size]
<1>1. /\ pc = "lzc" /\ dstLen' = c.size /\ file' = <<p>> /\ pc' = "keep"
      /\ UNCHANGED <<job, pos, thread, err, inBuf, compRemaining, given, chunkCrc, funnel>>
  BY DEF CompressLZC, expandVars
<1>2. JobInv /\ IdleInv /\ HuffInv /\ FileInv /\ BufferInv
  BY DEF CodecInv
<1>3. job \in Jobs /\ job.src \in Seq(Chars) /\ srcLen' = srcLen /\ stray' = stray
  BY <1>1, <1>2, JobFacts DEF JobInv, srcLen, stray
<1>4. thread.format = "lzc" /\ Len(job.src) # 0
  BY <1>1, <1>2 DEF JobInv, srcLen
<1>5. /\ c.codes \in Seq(LzcCode) /\ LzcFit(c.codes) /\ Starts(c.codes, Len(c.codes) - 1)
      /\ c.size \in Nat \ {0}
  BY <1>3, <1>4, CompressLzcOK
<1> HIDE DEF c
<1>6. p \in [body : Seq(Chars) \cup Seq(LzcCode), size : Int] /\ p.size = c.size
      /\ p.body = c.codes
  BY <1>5
<1>7. LzcPiece(p) /\ p \in Piece
  BY <1>5, <1>6 DEF LzcPiece, Piece
<1>8. SizeOf(file') = c.size
  <2> HIDE DEF p
  <2> QED BY <1>1, <1>6, <1>7, SizeOfOne
<1>9. thread'.format = "lzc" /\ ~IsLzw(thread'.format)
  BY <1>1, <1>4 DEF IsLzw
<1>10. JobInv'
  BY <1>1, <1>2, <1>3, <1>9 DEF JobInv, Compressing
<1>11. IdleInv'
  BY <1>1, <1>2 DEF IdleInv, Compressing
<1>12. HuffInv'
  BY <1>1 DEF HuffInv
<1>13. BufferInv'
  BY <1>1, <1>2 DEF BufferInv
<1>14. WholeFile'
  <2> HIDE DEF p
  <2> QED BY <1>1, <1>7, <1>9 DEF WholeFile
<1>15. LengthTrue'
  BY <1>1, <1>5, <1>8, <1>9 DEF LengthTrue
<1>16. FileInv'
  <2> HIDE DEF p
  <2> QED BY <1>1, <1>2, <1>3, <1>5, <1>9, <1>14, <1>15
          DEF FileInv, Compressing, Whole, Written
<1> QED BY <1>10, <1>11, <1>12, <1>13, <1>16 DEF CodecInv

(* The compressed data is kept.                                            *)
LEMMA KeepKeeps ==
    ASSUME CodecInv, Keep
    PROVE  CodecInv'
<1>1. /\ pc = "keep" /\ dstLen < srcLen /\ pc' = "written"
      /\ thread' = [thread EXCEPT !.eof = srcLen, !.compEof = dstLen, !.crc = job.src]
      /\ UNCHANGED <<job, pos, file, dstLen, table, huff, err, inBuf, compRemaining, given,
                     chunkCrc, funnel>>
  BY DEF Keep, expandVars
<1>2. JobInv /\ IdleInv /\ HuffInv /\ FileInv /\ BufferInv
  BY DEF CodecInv
<1>3. job \in Jobs /\ srcLen' = srcLen /\ stray' = stray /\ srcLen \in Nat /\ dstLen \in Nat
  BY <1>1, <1>2, JobFacts DEF JobInv, FileInv, srcLen, stray
<1>4. /\ thread' \in [format : Formats \cup {"none"}, eof : Nat, compEof : Nat,
                      crc : {<<>>, job.src}]
      /\ thread'.format = thread.format /\ thread'.eof = srcLen /\ thread'.compEof = dstLen
      /\ thread'.crc = job.src
  BY <1>1, <1>2, <1>3 DEF JobInv
<1>5. JobInv'
  BY <1>1, <1>2, <1>3, <1>4 DEF JobInv, Written
<1>6. IdleInv'
  BY <1>1, <1>2 DEF IdleInv, Compressing
<1>7. HuffInv'
  BY <1>1 DEF HuffInv
<1>8. BufferInv'
  BY <1>1, <1>2 DEF BufferInv
<1>9. WholeFile' /\ LengthTrue'
  BY <1>1, <1>2, <1>3, <1>4 DEF FileInv, Whole, WholeFile, LengthTrue
<1>10. FileInv'
  <2>1. type2' = type2
    BY <1>4 DEF type2
  <2> QED BY <1>1, <1>2, <1>3, <1>4, <1>9, <2>1 DEF FileInv, Compressing, Whole, Written
<1> QED BY <1>5, <1>6, <1>7, <1>8, <1>10 DEF CodecInv

(* The compression did not help.                                           *)
LEMMA FallBackKeeps ==
    ASSUME CodecInv, FallBack
    PROVE  CodecInv'
<1>1. /\ pc = "keep" /\ file' = <<>> /\ dstLen' = 0 /\ pos' = 0 /\ pc' = "store"
      /\ UNCHANGED <<job, table, huff, thread, err, inBuf, compRemaining, given, chunkCrc, funnel>>
  BY DEF FallBack, expandVars
<1>2. JobInv /\ IdleInv /\ HuffInv /\ FileInv /\ BufferInv
  BY DEF CodecInv
<1>3. job \in Jobs /\ srcLen' = srcLen /\ stray' = stray /\ srcLen \in Nat
  BY <1>1, <1>2, JobFacts DEF JobInv, srcLen, stray
<1>4. JobInv'
  BY <1>1, <1>2, <1>3 DEF JobInv, Compressing
<1>5. IdleInv'
  BY <1>1, <1>2 DEF IdleInv, Compressing
<1>6. HuffInv'
  BY <1>1 DEF HuffInv
<1>7. BufferInv'
  BY <1>1, <1>2 DEF BufferInv
<1>8. FileInv'
  <2>1. Chunks(file', type2')
    BY <1>1 DEF Chunks
  <2> QED BY <1>1, <1>3, <2>1 DEF FileInv, Compressing, Whole, Written
<1> QED BY <1>4, <1>5, <1>6, <1>7, <1>8 DEF CodecInv

(* The thread as it is goes to another archive.                            *)
LEMMA CopyRawKeeps ==
    ASSUME CodecInv, CopyRaw
    PROVE  CodecInv'
<1>1. /\ pc = "written" /\ thread' = [thread EXCEPT !.compEof = dstLen] /\ pc' = "copied"
      /\ UNCHANGED <<job, pos, file, dstLen, table, huff, err, inBuf, compRemaining, given,
                     chunkCrc, funnel>>
  BY DEF CopyRaw, expandVars
<1>2. JobInv /\ IdleInv /\ HuffInv /\ FileInv /\ BufferInv
  BY DEF CodecInv
<1>3. job \in Jobs /\ srcLen' = srcLen /\ stray' = stray /\ srcLen \in Nat /\ dstLen \in Nat
  BY <1>1, <1>2, JobFacts DEF JobInv, FileInv, srcLen, stray
<1>4. /\ thread' \in [format : Formats \cup {"none"}, eof : Nat, compEof : Nat,
                      crc : {<<>>, job.src}]
      /\ thread'.format = thread.format /\ thread'.eof = thread.eof /\ thread'.compEof = dstLen
      /\ thread'.crc = thread.crc
  BY <1>1, <1>2, <1>3 DEF JobInv
<1>5. JobInv'
  BY <1>1, <1>2, <1>3, <1>4 DEF JobInv, Written
<1>6. IdleInv'
  BY <1>1, <1>2 DEF IdleInv, Written
<1>7. HuffInv'
  BY <1>1 DEF HuffInv
<1>8. BufferInv'
  BY <1>1, <1>2 DEF BufferInv
<1>9. WholeFile' /\ LengthTrue'
  BY <1>1, <1>2, <1>3, <1>4 DEF FileInv, Whole, WholeFile, LengthTrue
<1>10. FileInv'
  <2>1. type2' = type2
    BY <1>4 DEF type2
  <2> QED BY <1>1, <1>2, <1>3, <1>4, <1>9, <2>1 DEF FileInv, Compressing, Whole, Written
<1> QED BY <1>5, <1>6, <1>7, <1>8, <1>10 DEF CodecInv

(* Nu_ExpandStream begins.                                                 *)
LEMMA BeginExpandKeeps ==
    ASSUME CodecInv, BeginExpand
    PROVE  CodecInv'
<1>1. /\ pc \in Written /\ pos' = 0
      /\ compRemaining' = IF IsLzw(thread.format)
                          THEN thread.compEof - LzwHeader(thread.format) ELSE 0
      /\ pc' = CASE IsLzw(thread.format) -> "unlzw" [] thread.format = "sq" -> "unsq"
                 [] thread.format = "lzc" -> "unlzc" [] OTHER -> "copy"
      /\ UNCHANGED <<job, file, dstLen, huff, thread, inBuf, given, chunkCrc, err>>
  BY DEF BeginExpand, Written
<1>2. JobInv /\ IdleInv /\ HuffInv /\ FileInv /\ BufferInv
  BY DEF CodecInv
<1>3. /\ job \in Jobs /\ srcLen' = srcLen /\ stray' = stray /\ srcLen \in Nat
      /\ stray \in {0, 1} /\ \A f \in {"lzw1", "lzw2"} : LzwHeader(f) \in Nat
  BY <1>1, <1>2, JobFacts DEF JobInv, srcLen, stray
<1>4. /\ WholeFile /\ LengthTrue /\ dstLen \in Nat
      /\ thread.eof = srcLen /\ thread.compEof = dstLen /\ thread.crc = job.src
      /\ thread.format \in Formats /\ (IsLzw(thread.format) => Chunks(file, type2))
  <2>1. pc \in Whole /\ pc \notin Compressing /\ pc # "start"
    BY <1>1 DEF Written, Whole, Compressing
  <2> QED BY <1>2, <2>1 DEF FileInv, JobInv
<1>5. /\ IsLzw(thread.format) => pc' = "unlzw" /\ thread.format \in {"lzw1", "lzw2"}
      /\ thread.format = "sq" => pc' = "unsq"
      /\ thread.format = "lzc" => pc' = "unlzc"
      /\ thread.format = "stored" => pc' = "copy"
      /\ thread.format \in {"lzw1", "lzw2", "sq", "lzc", "stored"}
      /\ thread.format \in {"lzw1", "lzw2"} => IsLzw(thread.format)
      /\ thread.format \in {"sq", "lzc", "stored"} => ~IsLzw(thread.format)
      /\ pc' \in {"unlzw", "unsq", "unlzc", "copy"}
  BY <1>1, <1>4 DEF IsLzw, Formats
<1>6. JobInv'
  BY <1>1, <1>2, <1>3, <1>4, <1>5 DEF JobInv, Written, Compressing
<1>7. IdleInv'
  BY <1>5 DEF IdleInv, Compressing, Written
<1>8. HuffInv'
  BY <1>5 DEF HuffInv
<1>9. inBuf = 0 /\ inBuf' = 0 /\ GenBufSize \in Nat
  BY <1>1, <1>2, CodecAssumption DEF IdleInv, Written
<1>10. IsLzw(thread.format) => /\ compRemaining' = SizeOf(file) + stray
                               /\ SizeOf(file) \in Nat /\ srcLen # 0
                               /\ Covers(Len(file), srcLen) /\ Len(file) \in Nat
  <2> HAVE IsLzw(thread.format)
  <2> DEFINE h == LzwHeader(thread.format)   z == SizeOf(file)
  <2>1. h \in Nat /\ z \in Nat
    BY <1>3, <1>4, <1>5, ChunksSize
  <2>2. dstLen = z + (h + stray) /\ compRemaining' = dstLen - h
    BY <1>1, <1>4 DEF LengthTrue
  <2>3. Covers(Len(file), srcLen)
    BY <1>4 DEF WholeFile
  <2>4. srcLen # 0
    BY <1>2, <1>5 DEF JobInv
  <2>5. file \in Seq(Chunk)
    BY <1>4 DEF Chunks
  <2>6. Len(file) \in Nat
    BY <2>5
  <2>7. compRemaining' = z + stray
    <3> HIDE DEF h, z
    <3> QED BY <1>3, <2>1, <2>2
  <2> QED BY <2>1, <2>3, <2>4, <2>6, <2>7
<1>11. BufferInv'
  <2>1. compRemaining' \in Nat
    <3>1. CASE IsLzw(thread.format)
      BY <1>3, <1>10, <3>1
    <3>2. CASE ~IsLzw(thread.format)
      BY <1>1, <3>2
    <3> QED BY <3>1, <3>2
  <2>2. ASSUME pc' = "unlzw"
        PROVE  /\ pos' < srcLen' /\ inBuf' + compRemaining' = SizeOf(file') + stray'
               /\ \E j \in Nat : pos' = j * BlockSize /\ Covers(Len(file') + j, srcLen')
    <3>1. IsLzw(thread.format)
      BY <1>5, <2>2
    <3>2. pos' = 0 * BlockSize /\ Len(file') + 0 = Len(file)
      BY <1>1, <1>10, <3>1, Numbers
    <3>3. pos' < srcLen'
      BY <1>1, <1>3, <1>10, <3>1
    <3>4. file' = file /\ stray' = stray
      BY <1>1, <1>3
    <3>5. SizeOf(file') = SizeOf(file)
      BY <3>4
    <3>6. inBuf' + compRemaining' = SizeOf(file') + stray'
      BY <1>3, <1>9, <1>10, <2>1, <3>1, <3>4, <3>5
    <3>7. Covers(Len(file') + 0, srcLen')
      BY <1>3, <1>10, <3>1, <3>2
    <3> QED BY <3>2, <3>3, <3>6, <3>7
  <2> QED BY <1>5, <1>9, <2>1, <2>2 DEF BufferInv
<1>12. FileInv'
  <2>1. WholeFile' /\ LengthTrue'
    BY <1>1, <1>3, <1>4 DEF WholeFile, LengthTrue
  <2>2. type2' = type2
    BY <1>1 DEF type2
  <2> QED BY <1>1, <1>3, <1>4, <1>5, <2>1, <2>2 DEF FileInv, Compressing, Whole, Written
<1> QED BY <1>6, <1>7, <1>8, <1>11, <1>12 DEF CodecInv

(* The expanders that take the whole thread at once change nothing but what
   the funnel has been given.                                              *)
LEMMA TakenAtOnce ==
    ASSUME CodecInv, pc \in {"copy", "unsq", "unlzc"}, pc' \in {"flush", "failed"},
           UNCHANGED <<job, pos, file, dstLen, table, huff, thread, inBuf, compRemaining>>
    PROVE  CodecInv'
<1>1. JobInv /\ IdleInv /\ HuffInv /\ FileInv /\ BufferInv
  BY DEF CodecInv
<1>2. srcLen' = srcLen /\ stray' = stray /\ type2' = type2
  BY DEF srcLen, stray, type2
<1>3. ~IsLzw(thread'.format) /\ thread.format \in Formats
  BY <1>1 DEF JobInv, IsLzw, Formats
<1>4. JobInv'
  BY <1>1, <1>2, <1>3 DEF JobInv, Formats
<1>5. IdleInv' /\ HuffInv'
  BY DEF IdleInv, HuffInv, Compressing, Written
<1>6. FileInv'
  BY <1>1, <1>2, <1>3 DEF FileInv, Compressing, Whole, Written
<1>7. BufferInv'
  BY <1>1, <1>2, <1>3 DEF BufferInv
<1> QED BY <1>4, <1>5, <1>6, <1>7 DEF CodecInv

(* A turn of the loop of Nu_ExpandLZW.                                     *)
LEMMA ExpandLZWChunkKeeps ==
    ASSUME CodecInv, ExpandLZWChunk
    PROVE  CodecInv'
<1> DEFINE chunk == Head(file)
           left  == srcLen - pos
           get   == IF inBuf >= Desired THEN 0
                    ELSE IF GenBufSize - inBuf < compRemaining THEN GenBufSize - inBuf
                    ELSE compRemaining
           want  == IF left <= BlockSize THEN left ELSE BlockSize
           spare == IF ~chunk.lzw /\ chunk.rleLen = BlockSize THEN BlockSize - want ELSE 0
<1>1. JobInv /\ IdleInv /\ HuffInv /\ FileInv /\ BufferInv
  BY DEF CodecInv
<1>2. pc = "unlzw" /\ thread.eof = srcLen /\ pos < srcLen
  BY <1>1 DEF ExpandLZWChunk, FileInv, Compressing
<1>3. /\ compRemaining' = compRemaining - get
      /\ inBuf' = inBuf + get - (chunk.size - spare)
      /\ \/ pc' = "failed" /\ pos' = pos /\ file' = file
         \/ pc' = pc /\ pos' = pos + want /\ file' = Tail(file)
      /\ UNCHANGED <<job, dstLen, huff, thread>>
  BY <1>2 DEF ExpandLZWChunk, Fail
<1>4. /\ job \in Jobs /\ srcLen' = srcLen /\ stray' = stray /\ type2' = type2
      /\ srcLen \in Nat /\ stray \in {0, 1}
  BY <1>1, <1>3, JobFacts DEF JobInv, srcLen, stray, type2
<1>5. IsLzw(thread.format) /\ Chunks(file, type2) /\ pos \in 0 .. srcLen
  BY <1>1, <1>2 DEF JobInv, FileInv
<1>6. /\ inBuf \in 0 .. GenBufSize /\ compRemaining \in Nat
      /\ inBuf + compRemaining = SizeOf(file) + stray
      /\ \E j \in Nat : pos = j * BlockSize /\ Covers(Len(file) + j, srcLen)
  BY <1>1, <1>2, <1>4 DEF BufferInv
<1>7. /\ BlockSize \in Nat \ {0} /\ GenBufSize \in Nat /\ Desired \in Nat /\ Desired < GenBufSize
      /\ FieldSize \in 1 .. 2
  BY Numbers, CodecAssumption DEF Desired
<1>8. PICK j \in Nat : pos = j * BlockSize /\ Covers(Len(file) + j, srcLen)
  BY <1>6
<1>9. Len(file) \in Nat
  <2>1. file \in Seq(Chunk)
    BY <1>5 DEF Chunks
  <2> QED BY <2>1
<1>10. Len(file) # 0 /\ (left <= BlockSize => Len(file) = 1)
  <2>1. j * BlockSize < srcLen
    BY <1>2, <1>8
  <2>2. Len(file) # 0 /\ (srcLen - j * BlockSize <= BlockSize => Len(file) = 1)
    BY <1>4, <1>8, <1>9, <2>1, CoverLeft
  <2> QED BY <1>8, <2>2
<1> DEFINE rest == Tail(file)
<1>11. /\ Chunks(rest, type2) /\ Len(rest) = Len(file) - 1 /\ chunk \in Chunk
       /\ ChunkOK(chunk, type2) /\ SizeOf(file) = chunk.size + SizeOf(rest)
  BY <1>5, <1>10, ChunksRest
<1>12. SizeOf(rest) \in Nat
  BY <1>11, ChunksSize
<1> DEFINE size == chunk.size   z == SizeOf(rest)   b == BlockSize
<1>13. size \in 1 .. Desired
  BY <1>11 DEF ChunkOK
<1>14. want \in 1 .. b /\ want = (IF left <= b THEN left ELSE b) /\ left \in Nat \ {0}
  BY <1>2, <1>4, <1>5, <1>7
<1>15. spare \in 0 .. size
  <2>1. CASE ~chunk.lzw /\ chunk.rleLen = b
    <3> DEFINE h == ChunkHeader(type2, FALSE)
    <3>1. size = h + b
      BY <1>11, <2>1 DEF ChunkOK
    <3>2. h \in Nat
      BY <1>7 DEF ChunkHeader
    <3>3. spare = b - want
      BY <2>1
    <3>4. want \in 1 .. b /\ b \in Nat
      BY <1>7, <1>14
    <3> HIDE DEF h, spare, want, size, b
    <3> QED BY <3>1, <3>2, <3>3, <3>4
  <2>2. CASE ~(~chunk.lzw /\ chunk.rleLen = b)
    <3>1. spare = 0
      BY <2>2
    <3> HIDE DEF spare, size
    <3> QED BY <1>7, <1>13, <3>1
  <2> QED BY <2>1, <2>2
<1>16. (left > b => spare = 0) /\ spare \in {0, b - want}
  BY <1>7, <1>14
<1>17. get \in Nat /\ get <= compRemaining /\ inBuf + get <= GenBufSize /\ inBuf + get >= size
  <2>1. inBuf + compRemaining >= size
    <3>1. inBuf + compRemaining = size + z + stray
      BY <1>6, <1>11
    <3> HIDE DEF size, z
    <3> QED BY <1>4, <1>6, <1>12, <1>13, <3>1 DEF z
  <2> HIDE DEF size
  <2> QED BY <1>6, <1>7, <1>13, <2>1
<1>18. /\ inBuf' \in 0 .. GenBufSize /\ compRemaining' \in Nat
       /\ inBuf' + compRemaining' = z + stray + spare
  <2>1. /\ compRemaining' = compRemaining - get /\ inBuf' = inBuf + get - (size - spare)
        /\ inBuf + compRemaining = size + z + stray /\ z \in Nat
    BY <1>3, <1>6, <1>11, <1>12
  <2> HIDE DEF size, z, spare, get
  <2> QED BY <1>4, <1>6, <1>7, <1>13, <1>15, <1>17, <2>1
<1>19. CASE pc' = "failed" /\ pos' = pos /\ file' = file
  <2>1. JobInv'
    BY <1>1, <1>2, <1>3, <1>4, <1>19 DEF JobInv
  <2>2. IdleInv' /\ HuffInv'
    BY <1>19 DEF IdleInv, HuffInv, Compressing, Written
  <2>3. FileInv'
    BY <1>1, <1>2, <1>3, <1>4, <1>5, <1>19 DEF FileInv, Compressing, Whole, Written
  <2>4. BufferInv'
    <3> HIDE DEF spare, z
    <3> QED BY <1>18, <1>19 DEF BufferInv
  <2> QED BY <2>1, <2>2, <2>3, <2>4 DEF CodecInv
<1>20. CASE pc' = pc /\ pos' = pos + want /\ file' = Tail(file)
  <2>1. JobInv'
    BY <1>1, <1>2, <1>3, <1>4, <1>20 DEF JobInv
  <2>2. IdleInv' /\ HuffInv'
    BY <1>2, <1>20 DEF IdleInv, HuffInv, Compressing, Written
  <2>3. pos' \in 0 .. srcLen'
    <3> HIDE DEF want
    <3>1. left = srcLen - pos
      OBVIOUS
    <3> HIDE DEF left, b
    <3> QED BY <1>4, <1>5, <1>7, <1>14, <1>20, <3>1
  <2>4. FileInv'
    <3>1. Chunks(file', type2') /\ pc' = "unlzw"
      BY <1>2, <1>4, <1>11, <1>20
    <3> QED BY <1>1, <1>2, <1>3, <1>4, <2>3, <3>1 DEF FileInv, Compressing, Whole, Written
  <2>5. CASE left > b
    <3>1. want = b /\ spare = 0 /\ pos' = pos + b
      BY <1>7, <1>14, <1>16, <1>20, <2>5
    <3>2. pos' = (j + 1) * BlockSize
      BY <1>7, <1>8, <3>1
    <3>3. Covers(Len(file') + (j + 1), srcLen')
      <4>1. Len(file') = Len(file) - 1
        BY <1>11, <1>20
      <4>2. Len(file') + (j + 1) = Len(file) + j
        BY <1>9, <4>1
      <4> QED BY <1>4, <1>8, <4>2
    <3>4. pos' < srcLen'
      BY <1>4, <1>5, <1>7, <2>5, <3>1
    <3>5. inBuf' + compRemaining' = SizeOf(file') + stray'
      <4>1. SizeOf(file') = z
        BY <1>20
      <4> HIDE DEF z, spare
      <4> QED BY <1>4, <1>12, <1>18, <3>1, <4>1 DEF z
    <3>6. BufferInv'
      <4> DEFINE k == j + 1
      <4>1. k \in Nat /\ pos' = k * BlockSize /\ Covers(Len(file') + k, srcLen')
        BY <3>2, <3>3
      <4>2. inBuf' \in 0 .. GenBufSize /\ compRemaining' \in Nat /\ pc' = "unlzw"
        BY <1>2, <1>18, <1>20
      <4> HIDE DEF z, spare, k
      <4>3. \E i \in Nat : pos' = i * BlockSize /\ Covers(Len(file') + i, srcLen')
        BY <4>1
      <4> QED BY <3>4, <3>5, <4>2, <4>3 DEF BufferInv
    <3> QED BY <2>1, <2>2, <2>4, <3>6 DEF CodecInv
  <2>6. CASE ~(left > b)
    <3>1. want = left /\ pos' = srcLen' /\ left <= BlockSize
      BY <1>4, <1>5, <1>7, <1>14, <1>20, <2>6
    <3>2. Len(file') = 0 /\ file' \in Seq(Chunk)
      BY <1>10, <1>11, <1>20, <3>1 DEF Chunks
    <3>3. file' = <<>>
      BY <3>2
    <3>4. z = 0
      BY <1>20, <3>3, SizeOfNone
    <3>5. b - left = (-srcLen) % BlockSize
      <4>1. j * BlockSize < srcLen /\ srcLen - j * BlockSize = left
        BY <1>2, <1>8
      <4>2. BlockSize - (srcLen - j * BlockSize) = (-srcLen) % BlockSize
        BY <1>4, <3>1, <4>1, PaddingIs
      <4> QED BY <4>1, <4>2
    <3>6. inBuf' + compRemaining' - stray' \in {0, (-srcLen') % BlockSize}
      <4> DEFINE pad == (-srcLen) % BlockSize
      <4>1. spare \in {0, pad}
        BY <1>16, <3>1, <3>5
      <4>2. inBuf' + compRemaining' - stray' = spare
        <5>1. /\ inBuf' + compRemaining' = z + stray + spare /\ spare \in Nat
              /\ inBuf' \in Int /\ compRemaining' \in Nat /\ z = 0
          BY <1>7, <1>13, <1>15, <1>18, <3>4
        <5>2. stray' = stray /\ stray \in Int
          BY <1>4
        <5> DEFINE i == inBuf'   r == compRemaining'   t == stray   u == stray'
        <5>3. i + r = z + t + spare /\ spare \in Int /\ i \in Int /\ r \in Int /\ z = 0
              /\ u = t /\ t \in Int
          BY <5>1, <5>2
        <5> HIDE DEF z, spare, i, r, t, u
        <5>4. i + r - u = spare
          BY <5>3
        <5> QED BY <5>4 DEF i, r, u
      <4> HIDE DEF spare
      <4> QED BY <1>4, <4>1, <4>2
    <3>7. BufferInv'
      <4> HIDE DEF z, spare
      <4> QED BY <1>2, <1>18, <1>20, <3>1, <3>3, <3>6 DEF BufferInv
    <3> QED BY <2>1, <2>2, <2>4, <3>7 DEF CodecInv
  <2> QED BY <2>5, <2>6
<1> QED BY <1>3, <1>19, <1>20

(* The end of Nu_ExpandLZW.                                                *)
LEMMA FinishUnLZWKeeps ==
    ASSUME CodecInv, FinishUnLZW
    PROVE  CodecInv'
<1>1. JobInv /\ IdleInv /\ HuffInv /\ FileInv /\ BufferInv
  BY DEF CodecInv
<1>2. /\ pc = "unlzw" /\ pos = thread.eof
      /\ \/ pc' = "failed"
         \/ pc' = "flush" /\ ~(compRemaining > 0)
      /\ UNCHANGED <<job, pos, file, dstLen, huff, thread, inBuf, compRemaining>>
  BY DEF FinishUnLZW, Fail
<1>3. thread.eof = srcLen /\ IsLzw(thread.format)
  BY <1>1, <1>2 DEF FileInv, JobInv, Compressing
<1>4. /\ srcLen' = srcLen /\ stray' = stray /\ type2' = type2 /\ srcLen \in Nat
      /\ stray \in {0, 1}
  BY <1>1, <1>2, JobFacts DEF JobInv, srcLen, stray, type2
<1>5. JobInv'
  BY <1>1, <1>2, <1>4 DEF JobInv
<1>6. IdleInv' /\ HuffInv'
  BY <1>2 DEF IdleInv, HuffInv, Compressing, Written
<1>7. FileInv'
  BY <1>1, <1>2, <1>4 DEF FileInv, Compressing, Whole, Written
<1>8. BufferInv'
  <2>1. inBuf \in 0 .. GenBufSize /\ compRemaining \in Nat
        /\ inBuf + compRemaining - stray \in {0, (-srcLen) % BlockSize}
    BY <1>1, <1>2, <1>3, <1>4 DEF BufferInv
  <2>2. pc' = "flush" => inBuf' - stray' \in {0, (-srcLen') % BlockSize}
    <3> DEFINE pad == (-srcLen) % BlockSize
    <3> HAVE pc' = "flush"
    <3>1. compRemaining = 0 /\ inBuf \in Int
      BY <1>2, <2>1, CodecAssumption
    <3>2. inBuf + compRemaining - stray = inBuf - stray
      BY <1>4, <3>1
    <3>3. inBuf - stray \in {0, pad}
      BY <2>1, <3>2
    <3> QED BY <1>2, <1>4, <3>3
  <2> QED BY <1>2, <2>1, <2>2 DEF BufferInv
<1> QED BY <1>5, <1>6, <1>7, <1>8 DEF CodecInv

(* The end of Nu_ExpandStream.                                             *)
LEMMA FinishExpandKeeps ==
    ASSUME CodecInv, FinishExpand
    PROVE  CodecInv'
<1>1. JobInv /\ IdleInv /\ HuffInv /\ FileInv /\ BufferInv
  BY DEF CodecInv
<1>2. /\ pc = "flush" /\ pc' \in {"failed", "done"}
      /\ UNCHANGED <<job, pos, file, dstLen, huff, thread, inBuf, compRemaining>>
  BY DEF FinishExpand, Fail
<1>3. srcLen' = srcLen /\ stray' = stray /\ type2' = type2
  BY <1>2 DEF srcLen, stray, type2
<1>4. JobInv'
  BY <1>1, <1>2, <1>3 DEF JobInv
<1>5. IdleInv' /\ HuffInv'
  BY <1>2 DEF IdleInv, HuffInv, Compressing, Written
<1>6. FileInv'
  BY <1>1, <1>2, <1>3 DEF FileInv, Compressing, Whole, Written
<1>7. BufferInv'
  BY <1>1, <1>2, <1>3 DEF BufferInv
<1> QED BY <1>4, <1>5, <1>6, <1>7 DEF CodecInv

(* Every step keeps the invariant.                                         *)
LEMMA CodecStep ==
    ASSUME CodecInv, [Next]_vars
    PROVE  CodecInv'
<1>1. CASE Begin
  BY <1>1, BeginKeeps
<1>2. CASE Store
  BY <1>2, StoreKeeps
<1>3. CASE CompressLZWChunk
  BY <1>3, CompressLZWChunkKeeps
<1>4. CASE FinishLZW
  BY <1>4, FinishLZWKeeps
<1>5. CASE CountSQ
  BY <1>5, CountSQKeeps
<1>6. CASE ScaleSQ
  BY <1>6, ScaleSQKeeps
<1>7. CASE BuildTreeSQ
  BY <1>7, BuildTreeSQKeeps
<1>8. CASE CompressSQ
  BY <1>8, CompressSQKeeps
<1>9. CASE CompressLZC
  BY <1>9, CompressLZCKeeps
<1>10. CASE Keep
  BY <1>10, KeepKeeps
<1>11. CASE FallBack
  BY <1>11, FallBackKeeps
<1>12. CASE CopyRaw
  BY <1>12, CopyRawKeeps
<1>13. CASE BeginExpand
  BY <1>13, BeginExpandKeeps
<1>14. CASE ExpandUncompressed
  <2>1. /\ pc = "copy" /\ pc' = "flush"
        /\ UNCHANGED <<job, pos, file, dstLen, table, huff, thread, inBuf, compRemaining>>
    BY <1>14 DEF ExpandUncompressed
  <2> QED BY <2>1, TakenAtOnce
<1>15. CASE ExpandSQ
  <2>1. /\ pc = "unsq" /\ pc' \in {"flush", "failed"}
        /\ UNCHANGED <<job, pos, file, dstLen, table, huff, thread, inBuf, compRemaining>>
    BY <1>15 DEF ExpandSQ, Fail
  <2> QED BY <2>1, TakenAtOnce
<1>16. CASE ExpandLZC
  <2>1. /\ pc = "unlzc" /\ pc' \in {"flush", "failed"}
        /\ UNCHANGED <<job, pos, file, dstLen, table, huff, thread, inBuf, compRemaining>>
    BY <1>16 DEF ExpandLZC, Fail
  <2> QED BY <2>1, TakenAtOnce
<1>17. CASE ExpandLZWChunk
  BY <1>17, ExpandLZWChunkKeeps
<1>18. CASE FinishUnLZW
  BY <1>18, FinishUnLZWKeeps
<1>19. CASE FinishExpand
  BY <1>19, FinishExpandKeeps
<1>20. CASE UNCHANGED vars
  <2>1. UNCHANGED <<job, pc, pos, file, dstLen, table, huff, thread, inBuf, compRemaining,
                    given, chunkCrc, funnel, err>>
    BY <1>20 DEF vars
  <2>2. srcLen' = srcLen /\ stray' = stray /\ type2' = type2
    BY <2>1 DEF srcLen, stray, type2
  <2>3. JobInv /\ IdleInv /\ HuffInv /\ FileInv /\ BufferInv
    BY DEF CodecInv
  <2>4. JobInv'
    BY <2>1, <2>2, <2>3 DEF JobInv
  <2>5. IdleInv'
    BY <2>1, <2>3 DEF IdleInv
  <2>6. HuffInv'
    BY <2>1, <2>3 DEF HuffInv
  <2>7. FileInv'
    BY <2>1, <2>2, <2>3 DEF FileInv, WholeFile, LengthTrue
  <2>8. BufferInv'
    BY <2>1, <2>2, <2>3 DEF BufferInv
  <2> QED BY <2>4, <2>5, <2>6, <2>7, <2>8 DEF CodecInv
<1>21. CASE Compress
  BY <1>1, <1>2, <1>3, <1>4, <1>5, <1>6, <1>7, <1>8, <1>9, <1>10, <1>11, <1>12, <1>21
     DEF Compress
<1>22. CASE Expand
  BY <1>13, <1>14, <1>15, <1>16, <1>17, <1>18, <1>19, <1>22 DEF Expand
<1> QED BY <1>20, <1>21, <1>22 DEF Next, Over

(* The invariant, of every job.                                            *)
THEOREM CodecInvariance == Spec => []CodecInv
<1>1. Init => CodecInv
  BY CodecInit
<1>2. CodecInv /\ [Next]_vars => CodecInv'
  BY CodecStep
<1> QED BY <1>1, <1>2, PTL DEF Spec

(* The thread header has the lengths of the source and of what is in the   *)
(* file, and nothing is kept that did not become smaller: whichever of the *)
(* formats was tried, and after the thread has been copied.                *)
THEOREM HeaderIsTrue == Spec => []HeaderTrue
<1>1. CodecInv => HeaderTrue
  <2> SUFFICES ASSUME CodecInv, pc \in {"written", "copied"}
               PROVE  /\ thread.eof = srcLen
                      /\ thread.compEof = SizeOf(file)
                             + (IF IsLzw(thread.format) THEN LzwHeader(thread.format) ELSE 0)
                             + (IF IsLzw(thread.format) /\ job.mimic THEN 1 ELSE 0)
                      /\ thread.compEof <= thread.eof
                      /\ thread.format # "stored" => thread.compEof < thread.eof
    BY DEF HeaderTrue
  <2>1. JobInv /\ FileInv
    BY DEF CodecInv
  <2>2. pc \in Whole /\ pc \in Written /\ pc \notin Compressing
    BY DEF Whole, Written, Compressing
  <2>3. /\ WholeFile /\ LengthTrue /\ dstLen \in Nat /\ thread.eof = srcLen
        /\ thread.compEof = dstLen /\ (thread.format # "stored" => dstLen < srcLen)
        /\ (IsLzw(thread.format) => Chunks(file, type2))
    BY <2>1, <2>2 DEF FileInv
  <2>4. /\ job.src \in Seq(Chars) /\ srcLen \in Nat /\ stray \in {0, 1}
        /\ \A f \in {"lzw1", "lzw2"} : LzwHeader(f) \in Nat
    BY <2>1, JobFacts DEF JobInv
  <2>5. CASE IsLzw(thread.format)
    <3> DEFINE h == LzwHeader(thread.format)   z == SizeOf(file)
    <3>1. h \in Nat /\ z \in Nat /\ thread.format # "stored"
      BY <2>3, <2>4, <2>5, ChunksSize DEF IsLzw
    <3>2. dstLen = z + (h + stray)
      BY <2>3, <2>5 DEF LengthTrue
    <3>3. dstLen = z + h + stray
      <4> HIDE DEF h, z
      <4> QED BY <2>4, <3>1, <3>2
    <3> QED BY <2>3, <2>4, <2>5, <3>1, <3>3 DEF stray
  <2>6. CASE ~IsLzw(thread.format)
    <3> DEFINE z == SizeOf(file)
    <3>1. dstLen = z + 0
      BY <2>3, <2>6 DEF LengthTrue
    <3>2. z \in Int
      <4>1. CASE thread.format = "stored"
        <5>1. CASE srcLen = 0
          BY <2>3, <4>1, <5>1, SizeOfNone DEF WholeFile
        <5>2. CASE srcLen # 0
          <6> DEFINE p == [body |-> job.src, size |-> srcLen]
          <6>1. p \in Piece /\ file = <<p>>
            BY <2>3, <2>4, <4>1, <5>2 DEF WholeFile, Piece
          <6> HIDE DEF p
          <6> QED BY <6>1, SizeOfOne
        <5> QED BY <5>1, <5>2
      <4>2. CASE thread.format = "sq"
        <5>1. PICK p : file = <<p>> /\ SqPiece(p)
          BY <2>3, <4>2 DEF WholeFile
        <5>2. p \in Piece
          BY <5>1 DEF SqPiece, Piece
        <5> QED BY <5>1, <5>2, SizeOfOne
      <4>3. CASE thread.format = "lzc"
        <5>1. PICK p : file = <<p>> /\ LzcPiece(p)
          BY <2>3, <4>3 DEF WholeFile
        <5>2. p \in Piece
          BY <5>1 DEF LzcPiece, Piece
        <5> QED BY <5>1, <5>2, SizeOfOne
      <4>4. thread.format \in {"stored", "sq", "lzc"}
        <5>1. thread.format \in Formats /\ thread.format \notin {"lzw1", "lzw2"}
          BY <2>1, <2>2, <2>6 DEF JobInv, Compressing, IsLzw
        <5> QED BY <5>1 DEF Formats
      <4> QED BY <4>1, <4>2, <4>3, <4>4
    <3>3. dstLen = z + 0 + 0
      <4> HIDE DEF z
      <4> QED BY <3>1, <3>2
    <3>4. thread.format = "stored" => dstLen = srcLen
      <4> HAVE thread.format = "stored"
      <4>1. CASE srcLen = 0
        BY <2>3, <4>1, <3>1, SizeOfNone DEF WholeFile
      <4>2. CASE srcLen # 0
        <5> DEFINE p == [body |-> job.src, size |-> srcLen]
        <5>1. p \in Piece /\ file = <<p>> /\ p.size = srcLen
          BY <2>3, <2>4, <4>2 DEF WholeFile, Piece
        <5> HIDE DEF p
        <5>2. z = srcLen
          BY <5>1, SizeOfOne
        <5> QED BY <2>4, <3>1, <5>2
      <4> QED BY <4>1, <4>2
    <3> QED BY <2>3, <2>4, <2>6, <3>3, <3>4
  <2> QED BY <2>5, <2>6
<1> QED BY <1>1, CodecInvariance, PTL

(* Every code of an LZW thread fits its width and the table, and no block  *)
(* of LZW/1 that is kept has filled the table, in a table and blocks of    *)
(* any size that meet the assumption.                                      *)
THEOREM CodesAlwaysFit == Spec => []CodesFit
<1>1. CodecInv => CodesFit
  <2> SUFFICES ASSUME CodecInv PROVE CodesFit
    OBVIOUS
  <2>1. JobInv /\ FileInv
    BY DEF CodecInv
  <2>2. ASSUME NEW i \in DOMAIN file, IsLzw(thread.format), file[i].lzw,
               NEW k \in DOMAIN file[i].body
        PROVE  LET code == file[i].body[k]
               IN  /\ code[1] < 2^code[2] /\ code[2] <= MaxBits /\ code[1] <= StopCode
                   /\ thread.format = "lzw1" => code[1] # ClearCode
    <3>1. Chunks(file, type2)
      BY <2>1, <2>2 DEF FileInv
    <3>2. i \in 1 .. Len(file)
      BY <3>1 DEF Chunks
    <3> DEFINE x == file[i]   codes == x.body
    <3>3. ChunkOK(x, type2) /\ x.lzw
      BY <2>2, <3>1, <3>2 DEF Chunks
    <3>4. codes \in Seq(Code) /\ AllFit(codes) /\ (~type2 => NoClear(codes))
      BY <3>3 DEF ChunkOK
    <3>5. k \in DOMAIN codes
      BY <2>2
    <3> HIDE DEF x, codes
    <3>6. k \in 1 .. Len(codes)
      BY <3>4, <3>5
    <3>7. FitCode(codes[k]) /\ (~type2 => codes[k][1] # ClearCode)
      BY <3>4, <3>6 DEF AllFit, NoClear
    <3>8. codes[k][1] <= StopCode /\ codes[k][2] <= MaxBits /\ codes[k][1] < 2^codes[k][2]
      BY <3>7, Numbers DEF FitCode
    <3>9. thread.format = "lzw1" => codes[k][1] # ClearCode
      BY <3>7 DEF type2
    <3> QED BY <3>8, <3>9 DEF codes, x
  <2>3. pc = "lzw" => table.initialClear \/ table.nextFree <= StopCode
    BY <2>1 DEF FileInv, KeptOK
  <2> QED BY <2>2, <2>3 DEF CodesFit
<1> QED BY <1>1, CodecInvariance, PTL

(* The buffer the LZW expander works from holds every chunk it takes, from *)
(* a buffer of any size that holds the largest chunk and one character     *)
(* more; in the end what is left over is the character ShrinkIt adds and   *)
(* the padding of a last block that would not compress.                    *)
THEOREM BufferAlwaysHolds == Spec => []BufferHoldsChunk
<1>1. CodecInv => BufferHoldsChunk
  <2> SUFFICES ASSUME CodecInv PROVE BufferHoldsChunk
    OBVIOUS
  <2>1. JobInv /\ FileInv /\ BufferInv
    BY DEF CodecInv
  <2>2. inBuf \in 0 .. GenBufSize /\ compRemaining >= 0
    BY <2>1 DEF BufferInv
  <2>3. pc = "unlzw" /\ pos < thread.eof => inBuf + compRemaining = SizeOf(file) + stray
    <3> HAVE pc = "unlzw" /\ pos < thread.eof
    <3>1. thread.eof = srcLen /\ pos \in 0 .. srcLen
      BY <2>1 DEF FileInv, Compressing
    <3>2. srcLen \in Nat
      BY <2>1, JobFacts DEF JobInv
    <3>3. pos # srcLen
      BY <3>1, <3>2
    <3> QED BY <2>1, <3>3 DEF BufferInv
  <2>4. IsLzw(thread.format) /\ pc \in {"flush", "done"} =>
            inBuf - stray \in {0, (-srcLen) % BlockSize}
    BY <2>1 DEF BufferInv
  <2> QED BY <2>2, <2>3, <2>4 DEF BufferHoldsChunk, stray
<1> QED BY <1>1, CodecInvariance, PTL

-----------------------------------------------------------------------------
(* Expansion: the strings of codes *)

(* The entries of a trie up to n: a string known before, and a character.   *)
Trie(trie, n) ==
    /\ trie \in Tables /\ n \in Nat /\ n >= FirstCode /\ DOMAIN trie = FirstCode .. n - 1
    /\ \A k \in FirstCode .. n - 1 : /\ trie[k][1] \in Chars \cup FirstCode .. k - 1
                                     /\ trie[k][2] \in Chars

(* The codes that stand for a string then.                                 *)
Codes(n) == Chars \cup FirstCode .. n - 1

(* What StringOf and lzcString are: every string made of a shorter one.     *)
AreStrings(g, trie, n) ==
    \A k \in Codes(n) : g[k] = IF k \in Chars THEN <<k>> ELSE Append(g[trie[k][1]], trie[k][2])

(* Such strings there are.                                                 *)
LEMMA StringsExist ==
    ASSUME NEW n, NEW trie, Trie(trie, n)
    PROVE  \E g : /\ g = [k \in Codes(n) |-> g[k]]
                  /\ AreStrings(g, trie, n)
<1> DEFINE D == Codes(n)   m == n - FirstCode   S == [D -> Seq(Chars)]
           start == [k \in D |-> IF k \in Chars THEN <<k>> ELSE <<>>]
           Next1(h, i) == [k \in D |-> IF k = FirstCode + i - 1
                                       THEN Append(h[trie[k][1]], trie[k][2]) ELSE h[k]]
           step == [z \in S \X (1 .. m) |-> Next1(z[1], z[2])]
           P(h, i) == \A k \in D : k < FirstCode + i =>
                        h[k] = IF k \in Chars THEN <<k>> ELSE Append(h[trie[k][1]], trie[k][2])
<1>1. m \in Nat /\ FirstCode \in Nat /\ n \in Nat /\ Chars = 0 .. FirstCode - 2
      /\ n = FirstCode + m
  BY Numbers DEF Trie
<1>2. \A k \in D \ Chars : /\ k \in FirstCode .. n - 1 /\ trie[k][1] \in D
                           /\ trie[k][1] < k /\ trie[k][2] \in Chars
  <2> TAKE k \in D \ Chars
  <2>1. k \in FirstCode .. n - 1
    BY DEF Codes
  <2>2. trie[k][1] \in Chars \cup FirstCode .. k - 1 /\ trie[k][2] \in Chars
    BY <2>1 DEF Trie
  <2>3. trie[k][1] \in D /\ trie[k][1] < k
    BY <1>1, <2>1, <2>2 DEF Codes
  <2> QED BY <2>1, <2>2, <2>3
<1>3. \A k \in D : k \in Int
  BY <1>1 DEF Codes
<1>4. start \in S
  <2>1. \A k \in D : (IF k \in Chars THEN <<k>> ELSE <<>>) \in Seq(Chars)
    OBVIOUS
  <2> QED BY <2>1
<1>5. \A h \in S, i \in 1 .. m : Next1(h, i) \in S
  <2> TAKE h \in S, i \in 1 .. m
  <2>1. ASSUME NEW k \in D
        PROVE  (IF k = FirstCode + i - 1 THEN Append(h[trie[k][1]], trie[k][2]) ELSE h[k])
                    \in Seq(Chars)
    <3>1. CASE k = FirstCode + i - 1
      <4>1. k \notin Chars
        BY <1>1, <3>1
      <4>2. trie[k][1] \in D /\ trie[k][2] \in Chars
        BY <1>2, <4>1
      <4>3. h[trie[k][1]] \in Seq(Chars)
        BY <4>2
      <4> QED BY <3>1, <4>2, <4>3
    <3>2. CASE k # FirstCode + i - 1
      BY <3>2
    <3> QED BY <3>1, <3>2
  <2> HIDE DEF D
  <2> QED BY <2>1
<1>6. step \in [S \X (1 .. m) -> S]
  <2> HIDE DEF S, Next1
  <2> QED BY <1>5
<1>7. \A h \in S, i \in 1 .. m : step[<<h, i>>] = Next1(h, i)
  <2> HIDE DEF S, Next1
  <2> QED OBVIOUS
<1> HIDE DEF step, S, start, m
<1>8. PICK g : IsLoop(g, m, S, start, step)
  BY <1>1, <1>4, <1>6, LoopExists
<1>9. \A i \in 0 .. m : g[i] \in S
  BY <1>8 DEF IsLoop
<1>10. \A i \in 1 .. m : g[i] = Next1(g[i-1], i)
  <2> TAKE i \in 1 .. m
  <2>1. i - 1 \in 0 .. m
    BY <1>1
  <2> QED BY <1>7, <1>8, <1>9, <2>1 DEF IsLoop
<1> DEFINE T == {i \in 0 .. m : P(g[i], i)}
<1>11. 0 \in T
  <2>1. \A k \in D : k < FirstCode + 0 => k \in Chars
    <3> TAKE k \in D
    <3>1. k \in Chars \/ k \in FirstCode .. n - 1
      BY DEF Codes
    <3> QED BY <1>1, <3>1
  <2>2. \A k \in D : k \in Chars => g[0][k] = <<k>>
    BY <1>8 DEF IsLoop, start
  <2> HIDE DEF D
  <2> QED BY <1>1, <2>1, <2>2
<1>12. ASSUME NEW i \in 0 .. m - 1, i \in T
       PROVE  i + 1 \in T
  <2> DEFINE h == g[i]   h2 == g[i + 1]
  <2>1. i + 1 \in 1 .. m /\ (i + 1) - 1 = i /\ i \in Nat /\ i + 1 \in 0 .. m
    BY <1>1
  <2>2. h2 = Next1(h, i + 1) /\ P(h, i)
    BY <1>10, <1>12, <2>1
  <2>3. \A k \in D : h2[k] = IF k = FirstCode + i THEN Append(h[trie[k][1]], trie[k][2]) ELSE h[k]
    <3>1. FirstCode + (i + 1) - 1 = FirstCode + i
      BY <1>1, <2>1
    <3> HIDE DEF D, h, h2
    <3> QED BY <2>2, <3>1
  <2>4. ASSUME NEW k \in D, k < FirstCode + (i + 1)
        PROVE  h2[k] = IF k \in Chars THEN <<k>> ELSE Append(h2[trie[k][1]], trie[k][2])
    <3>1. k \in Int /\ (k = FirstCode + i \/ k < FirstCode + i)
      BY <1>1, <1>3, <2>1, <2>4
    <3>2. CASE k \in Chars
      <4>1. k < FirstCode + i /\ k # FirstCode + i
        BY <1>1, <2>1, <3>2
      <4>2. h[k] = <<k>>
        BY <2>2, <3>2, <4>1
      <4> HIDE DEF h, h2
      <4> QED BY <2>3, <3>2, <4>1, <4>2
    <3>3. CASE k \notin Chars
      <4> DEFINE p == trie[k][1]
      <4>5. p \in D /\ p < k
        BY <1>2, <3>3
      <4>1. p \in D /\ p \in Int /\ p < k /\ p # FirstCode + i
        <5>1. p \in Int
          BY <1>3, <4>5
        <5> HIDE DEF p, D
        <5> QED BY <1>1, <2>1, <3>1, <4>5, <5>1
      <4> HIDE DEF h, h2, p
      <4>2. h2[p] = h[p]
        BY <2>3, <4>1
      <4>3. CASE k = FirstCode + i
        BY <2>3, <3>3, <4>2, <4>3 DEF p
      <4>4. CASE k # FirstCode + i
        <5>1. h2[k] = h[k] /\ k < FirstCode + i
          BY <2>3, <3>1, <4>4
        <5>2. h[k] = Append(h[p], trie[k][2])
          BY <2>2, <3>3, <5>1 DEF p
        <5> QED BY <3>3, <4>2, <5>1, <5>2 DEF p
      <4> QED BY <4>3, <4>4
    <3> QED BY <3>2, <3>3
  <2> HIDE DEF h2
  <2>5. P(h2, i + 1)
    BY <2>4
  <2> QED BY <2>1, <2>5 DEF h2
<1>13. \A i \in 0 .. m : i \in T
  <2> HIDE DEF T
  <2> QED BY <1>1, <1>11, <1>12, UpTo
<1>14. m \in 0 .. m
  BY <1>1
<1> DEFINE f == g[m]
<1>15. P(f, m) /\ f \in S
  BY <1>9, <1>13, <1>14
<1> HIDE DEF f
<1>16. f = [k \in D |-> f[k]]
  BY <1>15 DEF S
<1>17. \A k \in D : k < FirstCode + m
  BY <1>1 DEF Codes
<1>18. AreStrings(f, trie, n)
  <2> HIDE DEF D
  <2> QED BY <1>15, <1>17 DEF AreStrings, D
<1> QED BY <1>16, <1>18

(* They are strings of characters, and none is empty.                      *)
LEMMA StringsType ==
    ASSUME NEW n, NEW trie, Trie(trie, n), NEW g, AreStrings(g, trie, n), NEW code \in Codes(n)
    PROVE  g[code] \in Seq(Chars) /\ Len(g[code]) # 0 /\ g[code][1] \in Chars
<1> DEFINE Good(s) == s \in Seq(Chars) /\ Len(s) # 0 /\ s[1] \in Chars
           T == {i \in 0 .. n : \A k \in Codes(n) : k <= i => Good(g[k])}
<1>1. n \in Nat /\ FirstCode \in Nat /\ Chars = 0 .. FirstCode - 2
      /\ \A k \in Codes(n) : k \in 0 .. n /\ (k \in Chars \/ k \in FirstCode .. n - 1)
  BY Numbers DEF Trie, Codes
<1>2. \A k \in Chars : Good(<<k>>)
  OBVIOUS
<1>3. \A s, c : Good(s) /\ c \in Chars => Good(Append(s, c))
  OBVIOUS
<1> HIDE DEF Good
<1>4. \A k \in Codes(n) : k \in Chars => Good(g[k])
  BY <1>2 DEF AreStrings
<1>5. 0 \in T
  <2>1. \A k \in Codes(n) : k <= 0 => k \in Chars
    BY <1>1, Numbers
  <2> QED BY <1>1, <1>4, <2>1
<1>6. ASSUME NEW i \in 0 .. n - 1, i \in T
      PROVE  i + 1 \in T
  <2>1. ASSUME NEW k \in Codes(n), k <= i + 1
        PROVE  Good(g[k])
    <3>1. CASE k \in Chars
      BY <1>4, <3>1
    <3>2. CASE k \notin Chars
      <4> DEFINE p == trie[k][1]   c == trie[k][2]
      <4>1. k \in FirstCode .. n - 1
        BY <1>1, <3>2
      <4>2. p \in Chars \cup FirstCode .. k - 1 /\ c \in Chars
        BY <4>1 DEF Trie
      <4>3. p \in Codes(n) /\ p <= i
        <5> HIDE DEF p
        <5> QED BY <1>1, <2>1, <4>1, <4>2 DEF Codes
      <4>4. Good(g[p])
        BY <1>6, <4>3
      <4>5. g[k] = Append(g[p], c)
        BY <3>2 DEF AreStrings
      <4> QED BY <1>3, <4>2, <4>4, <4>5
    <3> QED BY <3>1, <3>2
  <2> QED BY <1>1, <2>1
<1>7. \A i \in 0 .. n : i \in T
  <2> HIDE DEF T
  <2> QED BY <1>1, <1>5, <1>6, UpTo
<1>8. n \in T /\ code <= n
  BY <1>1, <1>7
<1> QED BY <1>8 DEF Good

(* The string of an LZW code that is known.                                *)
LEMMA StringOfOK ==
    ASSUME NEW n, NEW trie, Trie(trie, n), NEW code \in Codes(n)
    PROVE  /\ StringOf(trie, code) \in Seq(Chars) /\ Len(StringOf(trie, code)) # 0
           /\ StringOf(trie, code)[1] \in Chars
<1> DEFINE G == CHOOSE g : g = [k \in Chars \cup DOMAIN trie |->
                        IF k \in Chars THEN <<k>> ELSE Append(g[trie[k][1]], trie[k][2])]
<1>1. Chars \cup DOMAIN trie = Codes(n)
  BY DEF Trie, Codes
<1>2. PICK g : g = [k \in Codes(n) |-> g[k]] /\ AreStrings(g, trie, n)
  BY StringsExist
<1>3. g = [k \in Chars \cup DOMAIN trie |->
                        IF k \in Chars THEN <<k>> ELSE Append(g[trie[k][1]], trie[k][2])]
  BY <1>1, <1>2 DEF AreStrings
<1>4. G = [k \in Chars \cup DOMAIN trie |->
                        IF k \in Chars THEN <<k>> ELSE Append(G[trie[k][1]], trie[k][2])]
  BY <1>3
<1>5. StringOf(trie, code) = G[code]
  BY DEF StringOf
<1> HIDE DEF G
<1>6. AreStrings(G, trie, n)
  BY <1>1, <1>4 DEF AreStrings
<1> QED BY <1>5, <1>6, StringsType
-----------------------------------------------------------------------------
(* LZW expansion                                                           *)

LzwOut == [trie : Tables, entry : Nat, oldcode : Int, finalc : Int, resetFix : BOOLEAN,
           out : Seq(Chars), bad : BOOLEAN, type2 : BOOLEAN, fresh : BOOLEAN]

(* The state of Nu_ExpandLZW in a chunk of want characters.                *)
OutOK(e, want) ==
    /\ e \in LzwOut /\ Trie(e.trie, e.entry)
    /\ e.resetFix => Len(e.out) >= want
    /\ IF e.fresh THEN e.entry = FirstCode /\ ~e.resetFix
       ELSE e.oldcode \in Codes(e.entry) /\ e.finalc \in Chars

(* What is kept from one chunk to the next.                                *)
TrieOK(t) ==
    /\ t \in [trie : Tables, entry : Nat, oldcode : Int, finalc : Int, resetFix : BOOLEAN]
    /\ Trie(t.trie, t.entry)
    /\ t.entry # FirstCode \/ t.resetFix => t.oldcode \in Codes(t.entry) /\ t.finalc \in Chars

(* No entries.                                                             *)
LEMMA NoEntries ==
    Trie(<<>>, FirstCode) /\ <<>> \in Tables
<1> DEFINE t == <<>>
<1>1. t \in [{} -> Code] /\ DOMAIN t = {}
  OBVIOUS
<1> HIDE DEF t
<1>2. t \in Tables
  BY <1>1 DEF Tables
<1>3. FirstCode \in Nat /\ FirstCode .. FirstCode - 1 = {}
  BY Numbers
<1>4. Trie(t, FirstCode)
  BY <1>1, <1>2, <1>3 DEF Trie
<1> QED BY <1>2, <1>4 DEF t

(* One entry more.                                                         *)
LEMMA OneEntry ==
    ASSUME NEW n, NEW trie, Trie(trie, n), NEW p \in Codes(n), NEW c \in Chars
    PROVE  Trie(Entered(trie, n, <<p, c>>), n + 1)
<1> DEFINE x == <<p, c>>   t == Entered(trie, n, x)
<1>1. n \in Nat /\ n >= FirstCode /\ FirstCode \in Nat /\ trie \in Tables
      /\ DOMAIN trie = FirstCode .. n - 1 /\ Chars = 0 .. FirstCode - 2
  BY Numbers DEF Trie
<1>2. x \in Code /\ x[1] = p /\ x[2] = c
  BY <1>1 DEF Code, Codes
<1> HIDE DEF x
<1>3. t \in Tables
  <2>1. n \in Int
    BY <1>1
  <2> QED BY <1>1, <1>2, <2>1, EnteredType
<1>4. DOMAIN t = FirstCode .. (n + 1) - 1
  BY <1>1 DEF Entered
<1>5. \A k \in FirstCode .. (n + 1) - 1 : t[k] = IF k = n THEN x ELSE trie[k]
  BY <1>1 DEF Entered
<1> HIDE DEF t
<1>6. ASSUME NEW k \in FirstCode .. (n + 1) - 1
      PROVE  t[k][1] \in Chars \cup FirstCode .. k - 1 /\ t[k][2] \in Chars
  <2>1. CASE k = n
    BY <1>2, <1>5, <2>1 DEF Codes
  <2>2. CASE k # n
    <3>1. k \in FirstCode .. n - 1
      BY <1>1, <2>2
    <3> QED BY <1>5, <2>2, <3>1 DEF Trie
  <2> QED BY <2>1, <2>2
<1>7. n + 1 \in Nat /\ n + 1 >= FirstCode
  BY <1>1
<1>8. Trie(t, n + 1)
  BY <1>3, <1>4, <1>6, <1>7 DEF Trie
<1> QED BY <1>8 DEF t, x

(* One code more.                                                          *)
LEMMA ExpandCodeOK ==
    ASSUME NEW want \in Nat, NEW e, OutOK(e, want), NEW code \in Nat, NEW width
    PROVE  OutOK(ExpandCode(e, code, width, want), want)
<1> DEFINE x == ExpandCode(e, code, width, want)
           s == IF code = e.entry THEN Append(StringOf(e.trie, e.oldcode), e.finalc)
                ELSE StringOf(e.trie, code)
<1>1. e \in LzwOut /\ Trie(e.trie, e.entry) /\ (e.resetFix => Len(e.out) >= want)
  BY DEF OutOK
<1>2. FirstCode = ClearCode + 1 /\ ClearCode \in Nat /\ Chars = 0 .. ClearCode - 1
      /\ FirstCode \in Nat
  BY Numbers
<1>3. CASE e.bad \/ width # BitWidth(e.entry) \/ Len(e.out) >= want
  <2>1. x = [e EXCEPT !.bad = TRUE]
    BY <1>3 DEF ExpandCode
  <2>2. x \in LzwOut /\ x.trie = e.trie /\ x.entry = e.entry /\ x.resetFix = e.resetFix
        /\ x.out = e.out /\ x.fresh = e.fresh /\ x.oldcode = e.oldcode /\ x.finalc = e.finalc
    BY <1>1, <2>1 DEF LzwOut
  <2> HIDE DEF x
  <2>3. OutOK(x, want)
    BY <2>2 DEF OutOK
  <2> QED BY <2>3 DEF x
<1>4. CASE ~(e.bad \/ width # BitWidth(e.entry) \/ Len(e.out) >= want)
  <2>1. CASE \/ e.fresh /\ code >= ClearCode
             \/ ~e.fresh /\ ~(code = ClearCode /\ e.type2) /\ (code > e.entry \/ code = ClearCode)
    <3>1. x = [e EXCEPT !.bad = TRUE]
      BY <1>4, <2>1 DEF ExpandCode
    <3>2. x \in LzwOut /\ x.trie = e.trie /\ x.entry = e.entry /\ x.resetFix = e.resetFix
          /\ x.out = e.out /\ x.fresh = e.fresh /\ x.oldcode = e.oldcode /\ x.finalc = e.finalc
      BY <1>1, <3>1 DEF LzwOut
    <3> HIDE DEF x
    <3>3. OutOK(x, want)
      BY <3>2 DEF OutOK
    <3> QED BY <3>3 DEF x
  <2>2. CASE e.fresh /\ code < ClearCode
    <3> DEFINE more == Append(e.out, code)   fix == (Len(e.out) + 1 = want)
    <3>1. x = [e EXCEPT !.out = more, !.oldcode = code, !.finalc = code,
                        !.fresh = FALSE, !.resetFix = fix]
      BY <1>2, <1>4, <2>2 DEF ExpandCode
    <3>2. code \in Chars /\ code \in Codes(e.entry)
      BY <1>2, <2>2 DEF Codes
    <3>3. more \in Seq(Chars) /\ (fix => Len(more) >= want) /\ fix \in BOOLEAN
      BY <1>1, <3>2 DEF LzwOut
    <3> HIDE DEF more, fix
    <3> DEFINE y == [e EXCEPT !.out = more, !.oldcode = code, !.finalc = code]
    <3>6. y \in LzwOut /\ y.trie = e.trie /\ y.entry = e.entry
          /\ y.out = more /\ y.oldcode = code /\ y.finalc = code
      <4>1. code \in Int
        OBVIOUS
      <4> QED BY <1>1, <3>3, <4>1 DEF LzwOut
    <3>7. x = [y EXCEPT !.fresh = FALSE, !.resetFix = fix]
      BY <3>1
    <3> HIDE DEF y, x
    <3>4. x \in LzwOut /\ x.trie = e.trie /\ x.entry = e.entry /\ x.resetFix = fix
          /\ x.out = more /\ x.fresh = FALSE /\ x.oldcode = code /\ x.finalc = code
      BY <3>3, <3>6, <3>7 DEF LzwOut
    <3> HIDE DEF x
    <3>5. OutOK(x, want)
      BY <1>1, <3>2, <3>3, <3>4 DEF OutOK
    <3> QED BY <3>5 DEF x
  <2>3. CASE ~e.fresh /\ code = ClearCode /\ e.type2
    <3> DEFINE t == <<>>
    <3>1. x = [e EXCEPT !.trie = t, !.entry = FirstCode, !.fresh = TRUE]
      BY <1>4, <2>3 DEF ExpandCode
    <3>2. t \in Tables /\ Trie(t, FirstCode)
      BY NoEntries
    <3>3. ~e.resetFix
      BY <1>1, <1>4
    <3> HIDE DEF t
    <3>4. x \in LzwOut /\ x.trie = t /\ x.entry = FirstCode /\ x.resetFix = e.resetFix
          /\ x.out = e.out /\ x.fresh = TRUE
      BY <1>1, <1>2, <3>1, <3>2 DEF LzwOut
    <3> HIDE DEF x
    <3>5. OutOK(x, want)
      BY <1>1, <3>2, <3>3, <3>4 DEF OutOK
    <3> QED BY <3>5 DEF x
  <2>4. CASE ~e.fresh /\ code # ClearCode /\ code <= e.entry
    <3>1. e.entry \in Nat /\ e.entry >= FirstCode /\ e.out \in Seq(Chars)
      BY <1>1 DEF Trie, LzwOut
    <3>2. e.oldcode \in Codes(e.entry) /\ e.finalc \in Chars
      BY <2>4 DEF OutOK
    <3>3. s \in Seq(Chars) /\ s[1] \in Chars
      <4>1. CASE code = e.entry
        <5> DEFINE o == StringOf(e.trie, e.oldcode)
        <5>1. o \in Seq(Chars) /\ Len(o) # 0 /\ o[1] \in Chars
          BY <1>1, <3>2, StringOfOK
        <5>2. s = Append(o, e.finalc)
          BY <4>1
        <5> HIDE DEF o, s
        <5> QED BY <3>2, <5>1, <5>2
      <4>2. CASE code # e.entry
        <5>1. code \in Codes(e.entry)
          BY <1>2, <2>4, <3>1, <4>2 DEF Codes
        <5>2. s = StringOf(e.trie, code)
          BY <4>2
        <5> QED BY <1>1, <5>1, <5>2, StringOfOK
      <4> QED BY <4>1, <4>2
    <3> DEFINE more == e.out \o s   y == <<e.oldcode, s[1]>>
               trie == Entered(e.trie, e.entry, y)   n == e.entry + 1   c == s[1]
    <3>4. x = [e EXCEPT !.out = more, !.trie = trie, !.entry = n, !.oldcode = code, !.finalc = c]
      <4>1. ~(code > e.entry \/ code = ClearCode)
        BY <2>4, <3>1
      <4> QED BY <1>4, <2>4, <4>1 DEF ExpandCode
    <3> HIDE DEF s
    <3>5. Trie(trie, n)
      BY <1>1, <3>2, <3>3, OneEntry
    <3>6. more \in Seq(Chars) /\ trie \in Tables /\ n \in Nat /\ c \in Chars /\ code \in Codes(n)
          /\ c \in Int
      <4>1. more \in Seq(Chars) /\ c \in Chars
        BY <3>1, <3>3
      <4>2. trie \in Tables /\ n \in Nat
        BY <3>5 DEF Trie
      <4>3. code \in Codes(n)
        BY <1>2, <2>4, <3>1 DEF Codes
      <4> QED BY <1>2, <4>1, <4>2, <4>3
    <3> HIDE DEF more, trie, n, c
    <3> DEFINE z == [e EXCEPT !.out = more, !.trie = trie, !.entry = n]
    <3>10. z \in LzwOut /\ z.trie = trie /\ z.entry = n /\ z.resetFix = e.resetFix
           /\ z.fresh = e.fresh
      BY <1>1, <3>6 DEF LzwOut
    <3>11. x = [z EXCEPT !.oldcode = code, !.finalc = c]
      BY <3>4
    <3> HIDE DEF z, x
    <3>7. x \in LzwOut /\ x.trie = trie /\ x.entry = n /\ x.resetFix = e.resetFix
          /\ x.fresh = e.fresh /\ x.oldcode = code /\ x.finalc = c
      <4>1. code \in Int /\ c \in Int
        BY <3>6
      <4>2. x \in LzwOut
        BY <3>10, <3>11, <4>1 DEF LzwOut
      <4>3. /\ x.trie = z.trie /\ x.entry = z.entry /\ x.resetFix = z.resetFix
            /\ x.fresh = z.fresh
        BY <3>10, <3>11 DEF LzwOut
      <4>4. x.oldcode = code /\ x.finalc = c
        BY <3>10, <3>11 DEF LzwOut
      <4> QED BY <3>10, <4>2, <4>3, <4>4
    <3>8. ~e.resetFix
      BY <1>1, <1>4
    <3> HIDE DEF x
    <3>9. OutOK(x, want)
      BY <2>4, <3>5, <3>6, <3>7, <3>8 DEF OutOK
    <3> QED BY <3>9 DEF x
  <2>5. e.entry \in Nat
    BY <1>1 DEF LzwOut
  <2>6. (code >= ClearCode \/ code < ClearCode) /\ (code > e.entry \/ code <= e.entry)
    BY <1>2, <2>5
  <2> QED BY <2>1, <2>2, <2>3, <2>4, <2>6, Zenon
<1> QED BY <1>3, <1>4

(* A chunk of codes.                                                       *)
LEMMA ExpandLZWOK ==
    ASSUME NEW t, TrieOK(t), NEW codes \in Seq(Code), \A i \in 1 .. Len(codes) : codes[i][1] \in Nat,
           NEW want \in Nat, NEW lzw2 \in BOOLEAN
    PROVE  LET e == ExpandLZW(t, codes, want, lzw2)
           IN  /\ e.out \in Seq(Chars)
               /\ ~e.bad => TrieOK([f \in DOMAIN EmptyTrie |-> e[f]]) /\ Len(e.out) = want
<1> DEFINE from  == IF lzw2 THEN t ELSE EmptyTrie
           start == [trie |-> from.trie, entry |-> from.entry, oldcode |-> from.oldcode,
                  finalc |-> from.finalc, resetFix |-> FALSE, out |-> <<>>, bad |-> FALSE,
                  type2 |-> lzw2, fresh |-> from.entry = FirstCode /\ ~from.resetFix]
           n == Len(codes)
           Step(e, i) == ExpandCode(e, codes[i][1], codes[i][2], want)
           S == {e \in LzwOut : OutOK(e, want)}
           step == [z \in S \X (1 .. n) |-> Step(z[1], z[2])]
           G == CHOOSE g : g = [i \in 0 .. n |-> IF i = 0 THEN start ELSE Step(g[i-1], i)]
           end == G[n]
<1>1. n \in Nat /\ FirstCode \in Nat
  BY Numbers
<1>2. TrieOK(from)
  <2> DEFINE t0 == <<>>
  <2>1. t0 \in Tables /\ Trie(t0, FirstCode)
    BY NoEntries
  <2>2. EmptyTrie = [trie |-> t0, entry |-> FirstCode, oldcode |-> 0, finalc |-> 0,
                     resetFix |-> FALSE]
    BY DEF EmptyTrie
  <2> HIDE DEF t0
  <2>3. TrieOK(EmptyTrie)
    BY <1>1, <2>1, <2>2 DEF TrieOK
  <2> QED BY <2>3
<1>3. start \in S
  <2> DEFINE fresh == (from.entry = FirstCode /\ ~from.resetFix)   t0 == <<>>
  <2>1. from \in [trie : Tables, entry : Nat, oldcode : Int, finalc : Int, resetFix : BOOLEAN]
        /\ Trie(from.trie, from.entry)
        /\ (~fresh => from.oldcode \in Codes(from.entry) /\ from.finalc \in Chars)
    BY <1>2 DEF TrieOK
  <2>2. start = [trie |-> from.trie, entry |-> from.entry, oldcode |-> from.oldcode,
                  finalc |-> from.finalc, resetFix |-> FALSE, out |-> t0, bad |-> FALSE,
                  type2 |-> lzw2, fresh |-> fresh]
    OBVIOUS
  <2>3. t0 \in Seq(Chars)
    OBVIOUS
  <2>4. (fresh => from.entry = FirstCode) /\ fresh \in BOOLEAN
    OBVIOUS
  <2> HIDE DEF from, start, fresh, t0
  <2>5. start \in LzwOut
    BY <2>1, <2>2, <2>3, <2>4 DEF LzwOut
  <2>6. OutOK(start, want)
    BY <2>1, <2>2, <2>4, <2>5 DEF OutOK
  <2> QED BY <2>5, <2>6
<1>4. \A e \in S, i \in 1 .. n : Step(e, i) \in S
  <2> TAKE e \in S, i \in 1 .. n
  <2>1. OutOK(Step(e, i), want)
    BY ExpandCodeOK
  <2> HIDE DEF Step
  <2> QED BY <2>1 DEF OutOK
<1>5. step \in [S \X (1 .. n) -> S]
  <2> HIDE DEF S, Step
  <2> QED BY <1>4
<1>6. \A e \in S, i \in 1 .. n : step[<<e, i>>] = Step(e, i)
  <2> HIDE DEF S, Step
  <2> QED OBVIOUS
<1> HIDE DEF step, S, n, start
<1>7. PICK g : IsLoop(g, n, S, start, step)
  BY <1>1, <1>3, <1>5, LoopExists
<1>8. g = [i \in 0 .. n |-> IF i = 0 THEN start ELSE Step(g[i-1], i)]
  <2>1. g \in [0 .. n -> S] /\ g[0] = start
    BY <1>7 DEF IsLoop
  <2>2. \A i \in 1 .. n : g[i] = Step(g[i-1], i)
    <3> TAKE i \in 1 .. n
    <3>1. g[i-1] \in S
      BY <1>1, <2>1
    <3> QED BY <1>6, <1>7, <3>1 DEF IsLoop
  <2> HIDE DEF Step
  <2>3. \A i \in 0 .. n : g[i] = IF i = 0 THEN start ELSE Step(g[i-1], i)
    BY <1>1, <2>1, <2>2
  <2> QED BY <2>1, <2>3
<1>9. G = [i \in 0 .. n |-> IF i = 0 THEN start ELSE Step(G[i-1], i)]
  <2> HIDE DEF Step
  <2> QED BY <1>8
<1>10. ExpandLZW(t, codes, want, lzw2) = [end EXCEPT !.bad = @ \/ Len(end.out) # want]
  BY DEF ExpandLZW, n, start
<1> HIDE DEF G
<1>11. \A i \in 0 .. n : G[i] \in S
  <2>1. G[0] = start
    BY <1>1, <1>9
  <2>2. \A i \in 1 .. n : G[i] = Step(G[i-1], i)
    <3> HIDE DEF Step
    <3> QED BY <1>1, <1>9
  <2>3. \A i \in 1 .. n : G[i-1] \in S => G[i] \in S
    <3> HIDE DEF Step
    <3> QED BY <1>4, <2>2
  <2> QED BY <1>1, <1>3, <2>1, <2>3, LoopKeeps
<1>12. OutOK(end, want)
  BY <1>1, <1>11 DEF S
<1> DEFINE e == ExpandLZW(t, codes, want, lzw2)
<1> HIDE DEF end
<1>13. /\ e \in LzwOut /\ e.trie = end.trie /\ e.entry = end.entry /\ e.oldcode = end.oldcode
       /\ e.finalc = end.finalc /\ e.resetFix = end.resetFix /\ e.out = end.out
       /\ (~e.bad => Len(e.out) = want)
  <2> DEFINE b == end.bad \/ Len(end.out) # want
  <2>1. e = [end EXCEPT !.bad = b] /\ b \in BOOLEAN
    BY <1>10, <1>12 DEF OutOK, LzwOut
  <2>2. ~b => Len(end.out) = want
    OBVIOUS
  <2> HIDE DEF b, e
  <2> QED BY <1>12, <2>1, <2>2 DEF OutOK, LzwOut
<1> HIDE DEF e
<1> DEFINE k == [f \in DOMAIN EmptyTrie |-> e[f]]
<1>14. k = [trie |-> e.trie, entry |-> e.entry, oldcode |-> e.oldcode, finalc |-> e.finalc,
            resetFix |-> e.resetFix]
  BY DEF EmptyTrie
<1>15. TrieOK(k)
  <2> HIDE DEF k
  <2>1. k \in [trie : Tables, entry : Nat, oldcode : Int, finalc : Int, resetFix : BOOLEAN]
        /\ k.trie = e.trie /\ k.entry = e.entry /\ k.oldcode = e.oldcode /\ k.finalc = e.finalc
        /\ k.resetFix = e.resetFix
    BY <1>13, <1>14 DEF LzwOut
  <2>2. k.entry # FirstCode \/ k.resetFix => ~end.fresh
    BY <1>12, <1>13, <2>1 DEF OutOK
  <2> QED BY <1>12, <1>13, <2>1, <2>2 DEF OutOK, TrieOK
<1>16. e.out \in Seq(Chars)
  BY <1>13 DEF LzwOut
<1> QED BY <1>13, <1>15, <1>16 DEF e

-----------------------------------------------------------------------------
(* The run-length layer, and a chunk                                       *)

(* What ExpandRLE makes of the characters from the i-th on.                *)
RleFrom(g, in, i) ==
    IF i > Len(in) THEN <<>>
    ELSE IF in[i] # Escape THEN <<in[i]>> \o g[i + 1]
    ELSE IF i + 2 > Len(in) THEN <<NoCode>>
    ELSE Copies(in[i + 1], in[i + 2] + 1) \o g[i + 3]

(* It is made of what comes of the characters further on.                  *)
LEMMA RleFromOK ==
    ASSUME NEW S, Chars \subseteq S, NoCode \in S, NEW in \in Seq(Chars),
           NEW i \in 1 .. Len(in) + 3, NEW g,
           \A k \in i + 1 .. Len(in) + 3 : g[k] \in Seq(S)
    PROVE  RleFrom(g, in, i) \in Seq(S)
<1>1. Len(in) \in Nat
  OBVIOUS
<1>2. CASE i > Len(in)
  <2>1. <<>> \in Seq(S)
    OBVIOUS
  <2> QED BY <1>2, <2>1 DEF RleFrom
<1>3. CASE i <= Len(in) /\ in[i] # Escape
  <2>1. in[i] \in S /\ g[i + 1] \in Seq(S)
    <3>1. in[i] \in Chars
      BY <1>3
    <3>2. i + 1 \in i + 1 .. Len(in) + 3
      BY <1>1, <1>3
    <3> QED BY <3>1, <3>2
  <2>2. <<in[i]>> \o g[i + 1] \in Seq(S)
    BY <2>1
  <2> QED BY <1>1, <1>3, <2>2 DEF RleFrom
<1>4. CASE i <= Len(in) /\ in[i] = Escape /\ i + 2 > Len(in)
  <2>1. <<NoCode>> \in Seq(S)
    OBVIOUS
  <2> QED BY <1>1, <1>4, <2>1 DEF RleFrom
<1>5. CASE i <= Len(in) /\ in[i] = Escape /\ ~(i + 2 > Len(in))
  <2>1. in[i + 1] \in Chars /\ in[i + 2] \in Chars
    BY <1>1, <1>5
  <2>2. in[i + 1] \in S /\ in[i + 2] + 1 \in Nat
    <3>1. in[i + 1] \in S
      BY <2>1
    <3> DEFINE count == in[i + 2]
    <3>2. count \in Chars
      BY <2>1
    <3> HIDE DEF count
    <3>3. count + 1 \in Nat
      BY <3>2, Numbers
    <3> QED BY <3>1, <3>3 DEF count
  <2>3. Copies(in[i + 1], in[i + 2] + 1) \in Seq(S)
    BY <2>2, CopiesType
  <2>4. g[i + 3] \in Seq(S)
    <3>1. i + 3 \in i + 1 .. Len(in) + 3
      BY <1>1, <1>5
    <3> QED BY <3>1
  <2>5. Copies(in[i + 1], in[i + 2] + 1) \o g[i + 3] \in Seq(S)
    BY <2>3, <2>4
  <2> QED BY <1>1, <1>5, <2>5 DEF RleFrom
<1> QED BY <1>1, <1>2, <1>3, <1>4, <1>5

(* The strings of all positions there are.                                 *)
LEMMA RleExists ==
    ASSUME NEW in \in Seq(Chars)
    PROVE  \E g : g = [i \in 1 .. Len(in) + 3 |-> RleFrom(g, in, i)]
<1> DEFINE S0 == Chars \cup {NoCode}   l == Len(in)   n == l + 3   D == 1 .. n
           S == [D -> Seq(S0)]
           start == [k \in D |-> <<>>]
           Put(h, i) == [k \in D |-> IF k = n + 1 - i THEN RleFrom(h, in, k) ELSE h[k]]
           step == [z \in S \X (1 .. n) |-> Put(z[1], z[2])]
           P(h, i) == \A k \in D : k > n - i => h[k] = RleFrom(h, in, k)
<1>1. l \in Nat /\ n \in Nat /\ n = l + 3 /\ D = 1 .. n
  OBVIOUS
<1>2. start \in S
  <2>1. <<>> \in Seq(S0)
    OBVIOUS
  <2> HIDE DEF S0, D
  <2> QED BY <2>1
<1>3. \A h \in S, i \in 1 .. n : Put(h, i) \in S
  <2> TAKE h \in S, i \in 1 .. n
  <2>1. ASSUME NEW k \in D PROVE RleFrom(h, in, k) \in Seq(S0)
    <3>1. \A j \in k + 1 .. n : h[j] \in Seq(S0)
      <4> TAKE j \in k + 1 .. n
      <4>1. j \in D
        BY <1>1
      <4> QED BY <4>1
    <3> HIDE DEF S, D
    <3>2. k \in 1 .. Len(in) + 3
      BY DEF D
    <3> QED BY <3>1, <3>2, RleFromOK
  <2> HIDE DEF D, S0
  <2> QED BY <2>1
<1>4. step \in [S \X (1 .. n) -> S]
  <2> HIDE DEF S, Put
  <2> QED BY <1>3
<1>5. \A h \in S, i \in 1 .. n : step[<<h, i>>] = Put(h, i)
  <2> HIDE DEF S, Put
  <2> QED OBVIOUS
<1> HIDE DEF step, S, start
<1>6. PICK g : IsLoop(g, n, S, start, step)
  BY <1>1, <1>2, <1>4, LoopExists
<1>7. \A i \in 1 .. n : g[i] = Put(g[i-1], i)
  <2> TAKE i \in 1 .. n
  <2>1. i - 1 \in 0 .. n
    BY <1>1
  <2>2. g[i-1] \in S
    BY <1>6, <2>1 DEF IsLoop
  <2> QED BY <1>5, <1>6, <2>2 DEF IsLoop
<1> DEFINE T == {i \in 0 .. n : P(g[i], i)}
<1> HIDE DEF l, n, D
<1>8. 0 \in T
  BY <1>1
<1>9. ASSUME NEW i \in 0 .. n - 1, i \in T
      PROVE  i + 1 \in T
  <2> DEFINE h == g[i]   h2 == g[i + 1]   p == n - i
  <2>1. i + 1 \in 1 .. n /\ (i + 1) - 1 = i /\ i \in Nat /\ i + 1 \in 0 .. n /\ p \in 1 .. n
        /\ n + 1 - (i + 1) = p /\ p = n - i
    BY <1>1
  <2>2. h2 = Put(h, i + 1) /\ P(h, i)
    BY <1>7, <1>9, <2>1
  <2>3. \A k \in D : h2[k] = IF k = p THEN RleFrom(h, in, k) ELSE h[k]
    <3> HIDE DEF h, h2, p
    <3> QED BY <2>1, <2>2
  <2> HIDE DEF h, h2, p
  <2>4. \A k \in D : k > p => h2[k] = h[k]
    BY <1>1, <2>1, <2>3
  <2>5. ASSUME NEW k \in D, k >= p
        PROVE  RleFrom(h2, in, k) = RleFrom(h, in, k)
    <3>1. k \in 1 .. n
      BY <1>1
    <3>2. \A j \in {k + 1, k + 3} : j \in D => h2[j] = h[j]
      BY <1>1, <2>1, <2>4, <2>5, <3>1
    <3>3. k <= l => k + 1 \in D /\ k + 3 \in D
      BY <1>1, <3>1
    <3> QED BY <1>1, <3>1, <3>2, <3>3 DEF RleFrom, l
  <2>6. ASSUME NEW k \in D, k > n - (i + 1)
        PROVE  h2[k] = RleFrom(h2, in, k)
    <3>1. k \in 1 .. n /\ (k = p \/ k > p)
      BY <1>1, <2>1, <2>6
    <3>2. CASE k = p
      BY <2>1, <2>3, <2>5, <3>1, <3>2
    <3>3. CASE k > p
      <4>1. k > n - i /\ k >= p
        BY <1>1, <2>1, <3>1, <3>3
      <4> QED BY <2>2, <2>4, <2>5, <3>3, <4>1
    <3> QED BY <3>1, <3>2, <3>3
  <2>7. P(h2, i + 1)
    BY <2>6
  <2> QED BY <2>1, <2>7 DEF h2
<1>10. \A i \in 0 .. n : i \in T
  <2> HIDE DEF T
  <2> QED BY <1>1, <1>8, <1>9, UpTo
<1> DEFINE f == g[n]
<1>11. P(f, n) /\ f \in S
  <2>1. n \in 0 .. n
    BY <1>1
  <2> QED BY <1>6, <1>10, <2>1 DEF IsLoop
<1> HIDE DEF f
<1>12. \A k \in D : f[k] = RleFrom(f, in, k)
  BY <1>1, <1>11
<1>13. f = [i \in D |-> RleFrom(f, in, i)]
  BY <1>11, <1>12 DEF S
<1> QED BY <1>1, <1>13 DEF l

(* The encoded characters stand for characters, and for a cut escape.      *)
LEMMA ExpandRLEOK ==
    ASSUME NEW in \in Seq(Chars)
    PROVE  ExpandRLE(in) \in Seq(Chars \cup {NoCode})
<1> DEFINE S == Chars \cup {NoCode}   l == Len(in)   n == l + 3
           G == CHOOSE g : g = [i \in 1 .. Len(in) + 3 |-> RleFrom(g, in, i)]
           T == {m \in 0 .. n : \A k \in 1 .. n : k > n - m => G[k] \in Seq(S)}
<1>1. G = [i \in 1 .. Len(in) + 3 |-> RleFrom(G, in, i)]
  BY RleExists
<1>2. ExpandRLE(in) = G[1]
  BY DEF ExpandRLE, RleFrom
<1> HIDE DEF G
<1>3. l \in Nat /\ n \in Nat /\ n = l + 3 /\ 1 \in 1 .. n
  OBVIOUS
<1>4. \A i \in 1 .. n : G[i] = RleFrom(G, in, i)
  BY <1>1
<1> HIDE DEF n, S
<1>5. 0 \in T
  BY <1>3
<1>6. ASSUME NEW m \in 0 .. n - 1, m \in T
      PROVE  m + 1 \in T
  <2>1. ASSUME NEW k \in 1 .. n, k > n - (m + 1) PROVE G[k] \in Seq(S)
    <3>1. \A j \in k + 1 .. n : G[j] \in Seq(S)
      <4> TAKE j \in k + 1 .. n
      <4>1. j \in 1 .. n /\ j > n - m
        BY <1>3, <2>1
      <4> QED BY <1>6, <4>1
    <3>2. \A j \in k + 1 .. Len(in) + 3 : G[j] \in Seq(S)
      BY <3>1 DEF n
    <3>3. k \in 1 .. Len(in) + 3 /\ Chars \subseteq S /\ NoCode \in S
      BY DEF n, S
    <3>4. RleFrom(G, in, k) \in Seq(S)
      BY <3>2, <3>3, RleFromOK
    <3> QED BY <1>4, <3>4
  <2> QED BY <1>3, <2>1
<1>7. \A m \in 0 .. n : m \in T
  <2> HIDE DEF T
  <2> QED BY <1>3, <1>5, <1>6, UpTo
<1>8. n \in T
  BY <1>3, <1>7
<1>9. G[1] \in Seq(S)
  BY <1>3, <1>8
<1> QED BY <1>2, <1>9 DEF S

(* A chunk that is not damaged is a block of characters.                   *)
LEMMA ExpandChunkOK ==
    ASSUME NEW t, TrieOK(t), NEW lzw2 \in BOOLEAN, NEW chunk, ChunkOK(chunk, lzw2)
    PROVE  LET e == ExpandChunk(t, chunk, lzw2)
           IN  ~e.bad => /\ e.out \in Seq(Chars) /\ Len(e.out) = BlockSize
                         /\ TrieOK(e.trie)
<1> DEFINE want == chunk.rleLen
           x    == ExpandLZW(t, chunk.body, want, lzw2)
           in   == IF chunk.lzw THEN x.out ELSE chunk.body
           out  == IF want # BlockSize THEN ExpandRLE(in) ELSE in
           bad  == (chunk.lzw /\ x.bad) \/ ~RLEMadeBlock(out)
           kept == [f \in DOMAIN EmptyTrie |-> x[f]]
           e    == ExpandChunk(t, chunk, lzw2)
<1>1. e.bad = bad /\ e.out = out /\ e.trie = IF chunk.lzw /\ ~bad THEN kept ELSE EmptyTrie
  BY DEF ExpandChunk
<1>2. want \in Nat
  BY Numbers DEF ChunkOK
<1>3. chunk.lzw => x.out \in Seq(Chars) /\ (~x.bad => TrieOK(kept))
  <2> HAVE chunk.lzw
  <2> DEFINE codes == chunk.body
  <2>1. codes \in Seq(Code) /\ AllFit(codes)
    BY DEF ChunkOK
  <2>2. \A i \in 1 .. Len(codes) : codes[i][1] \in Nat
    BY <2>1, Numbers DEF AllFit, FitCode
  <2> HIDE DEF codes
  <2>3. LET y == ExpandLZW(t, codes, want, lzw2)
        IN  /\ y.out \in Seq(Chars)
            /\ ~y.bad => TrieOK([f \in DOMAIN EmptyTrie |-> y[f]]) /\ Len(y.out) = want
    BY <1>2, <2>1, <2>2, ExpandLZWOK
  <2> QED BY <2>3 DEF codes
<1>4. in \in Seq(Chars)
  <2>1. ~chunk.lzw => chunk.body \in Seq(Chars)
    BY DEF ChunkOK
  <2> QED BY <1>3, <2>1
<1>5. TrieOK(EmptyTrie)
  <2> DEFINE t0 == <<>>
  <2>1. t0 \in Tables /\ Trie(t0, FirstCode) /\ FirstCode \in Nat
    BY NoEntries, Numbers
  <2>2. EmptyTrie = [trie |-> t0, entry |-> FirstCode, oldcode |-> 0, finalc |-> 0,
                     resetFix |-> FALSE]
    BY DEF EmptyTrie
  <2> HIDE DEF t0
  <2> QED BY <2>1, <2>2 DEF TrieOK
<1> HIDE DEF in, x, kept
<1>6. out \in Seq(Chars \cup {NoCode})
  <2>1. ExpandRLE(in) \in Seq(Chars \cup {NoCode})
    BY <1>4, ExpandRLEOK
  <2>2. in \in Seq(Chars \cup {NoCode})
    BY <1>4
  <2> QED BY <2>1, <2>2
<1> HIDE DEF out
<1>7. ASSUME ~bad
      PROVE  out \in Seq(Chars) /\ Len(out) = BlockSize /\ (chunk.lzw => TrieOK(kept))
  <2>1. Len(out) = BlockSize /\ \A i \in DOMAIN out : out[i] # NoCode
    BY <1>7 DEF RLEMadeBlock
  <2>2. \A i \in DOMAIN out : out[i] \in Chars
    BY <1>6, <2>1
  <2>3. out \in Seq(Chars)
    <3>1. Len(out) \in Nat /\ DOMAIN out = 1 .. Len(out) /\ out = [i \in 1 .. Len(out) |-> out[i]]
      BY <1>6
    <3> DEFINE n == Len(out)
    <3>2. out \in [1 .. n -> Chars]
      <4> HIDE DEF n
      <4> QED BY <2>2, <3>1 DEF n
    <3> QED BY <3>1, <3>2
  <2> QED BY <1>3, <1>7, <2>1, <2>3
<1> HIDE DEF bad
<1> QED BY <1>1, <1>5, <1>7
-----------------------------------------------------------------------------
(* Expansion of Squeeze and LZC                                            *)

SqOut == [path : Seq({0, 1}), out : Seq(Chars), lastc : Chars, inrep : BOOLEAN,
          ended : BOOLEAN]

(* A bit more.                                                             *)
LEMMA UnBitOK ==
    ASSUME NEW codes \in Trees, NEW d \in SqOut, NEW bit \in {0, 1}
    PROVE  SQ!unBit(codes, d, bit) \in SqOut
<1> DEFINE path  == Append(d.path, bit)
           found == {t \in DOMAIN codes : codes[t] = path}
           val   == CHOOSE t \in found : TRUE
           x     == SQ!unBit(codes, d, bit)
<1>1. path \in Seq({0, 1})
  BY DEF SqOut
<1>2. CASE d.ended
  <2>1. x = d
    BY <1>2 DEF SQ!unBit
  <2> QED BY <2>1
<1>3. CASE ~d.ended /\ found = {}
  <2>1. x = [d EXCEPT !.path = path]
    BY <1>3 DEF SQ!unBit
  <2> HIDE DEF path, x
  <2>2. x \in SqOut
    BY <1>1, <2>1 DEF SqOut
  <2> QED BY <2>2 DEF x
<1>4. CASE ~d.ended /\ found # {} /\ val = SQ!EOFToken
  <2>1. x = [d EXCEPT !.ended = TRUE]
    BY <1>4 DEF SQ!unBit
  <2> HIDE DEF x
  <2>2. x \in SqOut
    BY <2>1 DEF SqOut
  <2> QED BY <2>2 DEF x
<1>5. CASE ~d.ended /\ found # {} /\ val # SQ!EOFToken
  <2> DEFINE y == SQ!unRun(d, val)   none == <<>>
  <2>1. x = [y EXCEPT !.path = none]
    BY <1>5 DEF SQ!unBit
  <2>2. val \in Chars
    <3>1. val \in DOMAIN codes
      BY <1>5
    <3>2. val \in SQ!Syms
      BY <3>1 DEF Trees
    <3> HIDE DEF val
    <3> QED BY <1>5, <3>2, Symbols, Numbers
  <2> HIDE DEF val, x
  <2>3. y \in SqOut
    <3>1. CASE d.inrep
      <4> DEFINE c == IF val = 0 THEN Delim ELSE d.lastc
                 n == IF val = 0 THEN 1 ELSE val - 1
                 s == [i \in 1 .. n |-> c]
                 more == d.out \o s
      <4>1. y = [d EXCEPT !.out = more, !.lastc = c, !.inrep = FALSE]
        BY <3>1 DEF SQ!unRun
      <4>2. c \in Chars /\ n \in Nat
        <5>1. c \in Chars
          BY Symbols DEF SqOut
        <5>2. val \in Nat
          BY <2>2, Numbers
        <5>3. n \in Nat
          BY <5>2
        <5> QED BY <5>1, <5>3
      <4> HIDE DEF c, n
      <4>3. s \in Seq(Chars)
        BY <4>2
      <4> HIDE DEF s
      <4>4. more \in Seq(Chars)
        BY <4>3 DEF SqOut
      <4> HIDE DEF more, y
      <4> QED BY <4>1, <4>2, <4>4 DEF SqOut
    <3>2. CASE ~d.inrep /\ val = Delim
      <4>1. y = [d EXCEPT !.inrep = TRUE]
        BY <3>2 DEF SQ!unRun
      <4> HIDE DEF y
      <4> QED BY <4>1 DEF SqOut
    <3>3. CASE ~d.inrep /\ val # Delim
      <4> DEFINE more == Append(d.out, val)
      <4>1. y = [d EXCEPT !.out = more, !.lastc = val]
        BY <3>3 DEF SQ!unRun
      <4>2. more \in Seq(Chars)
        BY <2>2 DEF SqOut
      <4> HIDE DEF y, more
      <4> QED BY <2>2, <4>1, <4>2 DEF SqOut
    <3> QED BY <3>1, <3>2, <3>3
  <2>4. none \in Seq({0, 1})
    OBVIOUS
  <2> HIDE DEF y, none
  <2>5. x \in SqOut
    BY <2>1, <2>3, <2>4 DEF SqOut
  <2> QED BY <2>5 DEF x
<1> QED BY <1>2, <1>3, <1>4, <1>5

(* All of the bits.                                                        *)
LEMMA ExpandSqOK ==
    ASSUME NEW codes \in Trees, NEW bits \in Seq({0, 1})
    PROVE  SQ!ExpandHuffmanSQ(codes, bits).out \in Seq(Chars)
<1> DEFINE start == [path |-> <<>>, out |-> <<>>, lastc |-> 0, inrep |-> FALSE, ended |-> FALSE]
           n == Len(bits)
           Step(d, i) == SQ!unBit(codes, d, bits[i])
           S == SqOut
           step == [z \in S \X (1 .. n) |-> Step(z[1], z[2])]
           G == CHOOSE g : g = [i \in 0 .. n |-> IF i = 0 THEN start ELSE Step(g[i-1], i)]
<1>1. n \in Nat
  OBVIOUS
<1>2. start \in S
  <2> DEFINE t == <<>>
  <2>1. t \in Seq({0, 1}) /\ t \in Seq(Chars) /\ 0 \in Chars
    BY Numbers
  <2>2. start = [path |-> t, out |-> t, lastc |-> 0, inrep |-> FALSE, ended |-> FALSE]
    OBVIOUS
  <2> HIDE DEF t, start
  <2> QED BY <2>1, <2>2 DEF SqOut
<1>3. \A d \in S, i \in 1 .. n : Step(d, i) \in S
  <2> TAKE d \in S, i \in 1 .. n
  <2>1. bits[i] \in {0, 1}
    OBVIOUS
  <2> QED BY <2>1, UnBitOK
<1> HIDE DEF S, start
<1>4. step \in [S \X (1 .. n) -> S]
  <2> HIDE DEF Step
  <2> QED BY <1>3
<1>5. \A d \in S, i \in 1 .. n : step[<<d, i>>] = Step(d, i)
  <2> HIDE DEF Step
  <2> QED OBVIOUS
<1> HIDE DEF step, n
<1>6. PICK g : IsLoop(g, n, S, start, step)
  BY <1>1, <1>2, <1>4, LoopExists
<1>7. g = [i \in 0 .. n |-> IF i = 0 THEN start ELSE Step(g[i-1], i)]
  <2>1. g \in [0 .. n -> S] /\ g[0] = start
    BY <1>6 DEF IsLoop
  <2>2. \A i \in 1 .. n : g[i] = Step(g[i-1], i)
    <3> TAKE i \in 1 .. n
    <3>1. g[i-1] \in S
      BY <1>1, <2>1
    <3> QED BY <1>5, <1>6, <3>1 DEF IsLoop
  <2> HIDE DEF Step
  <2>3. \A i \in 0 .. n : g[i] = IF i = 0 THEN start ELSE Step(g[i-1], i)
    BY <1>1, <2>1, <2>2
  <2> QED BY <2>1, <2>3
<1>8. G = [i \in 0 .. n |-> IF i = 0 THEN start ELSE Step(G[i-1], i)]
  <2> HIDE DEF Step
  <2> QED BY <1>7
<1>9. SQ!ExpandHuffmanSQ(codes, bits) = G[n]
  BY DEF SQ!ExpandHuffmanSQ, n, start
<1> HIDE DEF G
<1>10. \A i \in 0 .. n : G[i] \in S
  <2>1. G[0] = start
    BY <1>1, <1>8
  <2>2. \A i \in 1 .. n : G[i] = Step(G[i-1], i)
    <3> HIDE DEF Step
    <3> QED BY <1>1, <1>8
  <2>3. \A i \in 1 .. n : G[i-1] \in S => G[i] \in S
    <3> HIDE DEF Step
    <3> QED BY <1>3, <2>2
  <2> QED BY <1>1, <1>2, <2>1, <2>3, LoopKeeps
<1>11. G[n] \in S
  BY <1>1, <1>10
<1>12. G[n].out \in Seq(Chars)
  BY <1>11 DEF S, SqOut
<1> QED BY <1>9, <1>12
(* The state of LZC_decompress.                                            *)
LzcIn == [pfx : Tables, nextfree : Nat, bits : Int, highcode : Int, prefix : Int,
          sufxchar : Int, fulltable : BOOLEAN, fresh : BOOLEAN, prevbits : Int, slot : Int,
          out : Seq(Chars), bad : BOOLEAN]

(* The codes below it are known: a full table has its last code, too.      *)
LzcTop(d) == IF d.fulltable THEN d.nextfree + 1 ELSE d.nextfree

LzcKnows(d) ==
    /\ d \in LzcIn /\ Trie(d.pfx, LzcTop(d))
    /\ d.fulltable => d.nextfree >= Lzc!maxcode
    /\ ~d.fresh => d.prefix \in Codes(LzcTop(d)) /\ d.sufxchar \in Chars

(* The string of an LZC code that is known.                                *)
LEMMA LzcStringOK ==
    ASSUME NEW n, NEW trie, Trie(trie, n), NEW code \in Codes(n)
    PROVE  /\ Lzc!lzcString(trie, code) \in Seq(Chars) /\ Len(Lzc!lzcString(trie, code)) # 0
           /\ Lzc!lzcString(trie, code)[1] \in Chars
<1> DEFINE D == 0 .. Lzc!CLEAR - 1 \cup DOMAIN trie
           G == CHOOSE g : g = [k \in D |->
                        IF k < Lzc!CLEAR THEN <<k>> ELSE Append(g[trie[k][1]], trie[k][2])]
<1>1. D = Codes(n) /\ \A k \in D : k < Lzc!CLEAR <=> k \in Chars
  <2>1. Lzc!CLEAR = ClearCode
    BY DEF Lzc!CLEAR, ClearCode
  <2>2. DOMAIN trie = FirstCode .. n - 1 /\ n \in Nat /\ FirstCode = ClearCode + 1
        /\ ClearCode \in Nat /\ Chars = 0 .. ClearCode - 1
    BY Numbers DEF Trie
  <2>3. D = Codes(n)
    BY <2>1, <2>2 DEF Codes
  <2>4. \A k \in D : k < Lzc!CLEAR <=> k \in Chars
    BY <2>1, <2>2
  <2> QED BY <2>3, <2>4
<1>2. Lzc!lzcString(trie, code) = G[code]
  BY DEF Lzc!lzcString
<1> HIDE DEF D
<1>3. PICK g : g = [k \in Codes(n) |-> g[k]] /\ AreStrings(g, trie, n)
  BY StringsExist
<1>4. g = [k \in D |-> IF k < Lzc!CLEAR THEN <<k>> ELSE Append(g[trie[k][1]], trie[k][2])]
  BY <1>1, <1>3 DEF AreStrings
<1>5. G = [k \in D |-> IF k < Lzc!CLEAR THEN <<k>> ELSE Append(G[trie[k][1]], trie[k][2])]
  BY <1>4
<1> HIDE DEF G
<1>6. AreStrings(G, trie, n)
  BY <1>1, <1>5 DEF AreStrings
<1> QED BY <1>2, <1>6, StringsType

(* An entry more, or none in a full table.                                 *)
LEMMA AddEntryOK ==
    ASSUME NEW d, LzcKnows(d), ~d.fresh, NEW code \in Nat, NEW s, s[1] \in Chars,
           d.fulltable \/ code \in Codes(d.nextfree + 1)
    PROVE  /\ LzcKnows(Lzc!addEntry(d, code, s))
           /\ Lzc!addEntry(d, code, s).out = d.out /\ ~Lzc!addEntry(d, code, s).fresh
<1> DEFINE x == Lzc!addEntry(d, code, s)
           next == d.nextfree   c == s[1]   y == <<d.prefix, c>>
           top  == next = d.highcode
           full == top /\ d.highcode >= Lzc!maxcode
           pfx  == Lzc!entered(d.pfx, next, y)
           n2   == IF full THEN next ELSE next + 1
           b2   == IF top /\ ~full THEN d.bits + 1 ELSE d.bits
           h2   == IF top /\ ~full THEN d.highcode + next + 1 ELSE d.highcode
<1>1. d \in LzcIn
  BY DEF LzcKnows
<1>2. CASE d.fulltable
  <2>1. x = d
    BY <1>2 DEF Lzc!addEntry
  <2> QED BY <2>1
<1>3. CASE ~d.fulltable
  <2>1. x = [d EXCEPT !.pfx = pfx, !.prefix = code, !.fulltable = full, !.nextfree = n2,
                      !.bits = b2, !.highcode = h2]
    BY <1>3 DEF Lzc!addEntry
  <2>2. Trie(d.pfx, next) /\ d.prefix \in Codes(next) /\ d.sufxchar \in Chars /\ next \in Nat
    BY <1>1, <1>3 DEF LzcKnows, LzcTop, LzcIn
  <2>3. pfx = Entered(d.pfx, next, y)
    BY DEF Lzc!entered, Entered
  <2>4. Trie(pfx, next + 1)
    BY <2>2, <2>3, OneEntry
  <2>5. pfx \in Tables
    BY <2>4 DEF Trie
  <2>6. full \in BOOLEAN /\ n2 \in Nat /\ b2 \in Int /\ h2 \in Int
        /\ (full => n2 = next /\ next >= Lzc!maxcode) /\ (~full => n2 = next + 1)
    BY <1>1, <2>2 DEF LzcIn
  <2> HIDE DEF pfx, full, n2, b2, h2
  <2> DEFINE z == [d EXCEPT !.pfx = pfx, !.prefix = code, !.fulltable = full]
  <2>7. z \in LzcIn /\ z.pfx = pfx /\ z.prefix = code /\ z.fulltable = full
        /\ z.fresh = d.fresh /\ z.sufxchar = d.sufxchar /\ z.out = d.out
    <3>1. code \in Int
      OBVIOUS
    <3> QED BY <1>1, <2>5, <2>6, <3>1 DEF LzcIn
  <2>8. x = [z EXCEPT !.nextfree = n2, !.bits = b2, !.highcode = h2]
    BY <2>1
  <2> HIDE DEF z, x
  <2>9. x \in LzcIn /\ x.pfx = z.pfx /\ x.prefix = z.prefix /\ x.fulltable = z.fulltable
        /\ x.nextfree = n2 /\ x.fresh = z.fresh /\ x.sufxchar = z.sufxchar /\ x.out = z.out
    BY <2>6, <2>7, <2>8 DEF LzcIn
  <2>10. LzcTop(x) = next + 1
    BY <2>2, <2>6, <2>7, <2>9 DEF LzcTop
  <2>11. LzcKnows(x)
    BY <1>3, <2>2, <2>4, <2>6, <2>7, <2>9, <2>10 DEF LzcKnows
  <2> QED BY <2>7, <2>9, <2>11 DEF x
<1> QED BY <1>2, <1>3

(* A code more.                                                            *)
LEMMA LzcCodeOK ==
    ASSUME NEW d, LzcKnows(d), NEW code \in 0 .. Lzc!maxcode, NEW width, NEW slot
    PROVE  LET x == Lzc!expandCode(d, code, width, slot)
           IN  /\ x.out \in Seq(Chars)
               /\ (d.fresh => code \in Chars) \/ d.bad =>
                     LzcKnows(x) /\ (x.fresh /\ ~x.bad => code = ClearCode)
<1> DEFINE x == Lzc!expandCode(d, code, width, slot)
           ns == Lzc!nextslot(d)
           read == [d EXCEPT !.slot = ns, !.prevbits = d.bits]
           kwkwk == code >= d.nextfree /\ ~d.fulltable
           s == IF kwkwk THEN Append(Lzc!lzcString(d.pfx, d.prefix), d.sufxchar)
                ELSE Lzc!lzcString(d.pfx, code)
           off == d.bad \/ width # d.bits \/ slot # ns
           bad == [d EXCEPT !.bad = TRUE]
<1>1. /\ d \in LzcIn /\ Trie(d.pfx, LzcTop(d)) /\ (d.fulltable => d.nextfree >= Lzc!maxcode)
      /\ ~d.fresh => d.prefix \in Codes(LzcTop(d)) /\ d.sufxchar \in Chars
  BY DEF LzcKnows
<1>2. /\ Lzc!CLEAR = ClearCode /\ Lzc!FIRSTFREE = FirstCode /\ FirstCode = ClearCode + 1
      /\ ClearCode \in Nat \ {0} /\ Chars = 0 .. ClearCode - 1 /\ FirstCode \in Nat
      /\ Lzc!maxcode \in Int /\ code \in Nat /\ code <= Lzc!maxcode
  <2>1. Lzc!CLEAR = ClearCode /\ Lzc!FIRSTFREE = FirstCode
    BY DEF Lzc!CLEAR, Lzc!FIRSTFREE, ClearCode, FirstCode
  <2>2. Lzc!maxcode \in Int
    <3>1. MaxBits \in 0 .. MaxBits
      BY Numbers
    <3>2. 2^MaxBits \in Nat
      BY <3>1, PowerAssumption
    <3> QED BY <3>2 DEF Lzc!maxcode
  <2>3. code \in Nat /\ code <= Lzc!maxcode
    BY <2>2
  <2> QED BY <2>1, <2>2, <2>3, Numbers
<1>3. bad \in LzcIn /\ LzcKnows(bad) /\ bad.bad /\ bad.out = d.out
  <2>1. bad \in LzcIn /\ bad.pfx = d.pfx /\ bad.nextfree = d.nextfree /\ bad.bad
        /\ bad.fulltable = d.fulltable /\ bad.fresh = d.fresh /\ bad.prefix = d.prefix
        /\ bad.sufxchar = d.sufxchar /\ bad.out = d.out
    BY <1>1 DEF LzcIn
  <2> HIDE DEF bad
  <2> QED BY <1>1, <2>1 DEF LzcKnows, LzcTop
<1>4. d.out \in Seq(Chars)
  BY <1>1 DEF LzcIn
<1>5. read \in LzcIn /\ read.pfx = d.pfx /\ read.nextfree = d.nextfree
      /\ read.fulltable = d.fulltable /\ read.fresh = d.fresh /\ read.prefix = d.prefix
      /\ read.sufxchar = d.sufxchar /\ read.out = d.out /\ read.bad = d.bad
  <2>1. ns \in Int
    <3>1. d.slot \in Int /\ CharBits \in Nat \ {0}
      BY <1>1, Numbers DEF LzcIn
    <3>2. (d.slot + 1) % CharBits \in Int
      BY <3>1
    <3> QED BY <3>2 DEF Lzc!nextslot
  <2> HIDE DEF ns
  <2> QED BY <1>1, <2>1 DEF LzcIn
<1> HIDE DEF read, ns
<1>6. CASE off
  <2>1. x = bad
    BY <1>6 DEF Lzc!expandCode, ns
  <2> QED BY <1>3, <1>4, <2>1
<1>7. CASE ~off /\ d.fresh
  <2> DEFINE c == code % Lzc!CLEAR   more == Append(d.out, c)
             z == [read EXCEPT !.out = more, !.prefix = code]
  <2>1. x = [read EXCEPT !.out = Append(@, c), !.prefix = code, !.sufxchar = c, !.fresh = FALSE]
    BY <1>7 DEF Lzc!expandCode, ns, read
  <2>2. c \in Chars /\ c \in Int
    BY <1>2
  <2> HIDE DEF c
  <2>3. more \in Seq(Chars)
    BY <1>4, <2>2
  <2>4. x = [z EXCEPT !.sufxchar = c, !.fresh = FALSE]
    BY <1>5, <2>1
  <2> HIDE DEF more, x
  <2>5. z \in LzcIn /\ z.pfx = d.pfx /\ z.nextfree = d.nextfree /\ z.fulltable = d.fulltable
        /\ z.prefix = code /\ z.out = more
    <3>1. code \in Int
      BY <1>2
    <3> QED BY <1>5, <2>3, <3>1 DEF LzcIn
  <2> HIDE DEF z
  <2>6. x \in LzcIn /\ x.pfx = z.pfx /\ x.nextfree = z.nextfree /\ x.fulltable = z.fulltable
        /\ x.prefix = z.prefix /\ x.out = z.out /\ x.sufxchar = c /\ ~x.fresh
    BY <2>2, <2>4, <2>5 DEF LzcIn
  <2>7. code \in Chars => LzcKnows(x)
    <3> HAVE code \in Chars
    <3>1. code \in Codes(LzcTop(d)) /\ LzcTop(x) = LzcTop(d)
      BY <2>5, <2>6 DEF Codes, LzcTop
    <3> QED BY <1>1, <2>2, <2>5, <2>6, <3>1 DEF LzcKnows
  <2> QED BY <1>7, <2>3, <2>5, <2>6, <2>7 DEF x
<1>8. CASE ~off /\ ~d.fresh /\ code = ClearCode
  <2> DEFINE t == <<>>   h == 2^Lzc!INITBITS - 1
             z == [read EXCEPT !.bits = Lzc!INITBITS, !.highcode = h]
             v == [z EXCEPT !.nextfree = FirstCode, !.fulltable = FALSE]
  <2>1. x = [read EXCEPT !.bits = Lzc!INITBITS, !.highcode = h, !.nextfree = FirstCode,
                         !.fulltable = FALSE, !.pfx = t, !.fresh = TRUE]
    BY <1>2, <1>8 DEF Lzc!expandCode, ns, read
  <2>2. Lzc!INITBITS \in Int /\ h \in Int
    BY Numbers DEF Lzc!INITBITS
  <2>3. Trie(t, FirstCode) /\ t \in Tables
    BY NoEntries
  <2> HIDE DEF h, t
  <2>4. x = [v EXCEPT !.pfx = t, !.fresh = TRUE]
    BY <2>1
  <2> HIDE DEF x
  <2>5. z \in LzcIn /\ z.out = d.out
    BY <1>5, <2>2 DEF LzcIn
  <2> HIDE DEF z
  <2>6. v \in LzcIn /\ v.out = d.out /\ v.nextfree = FirstCode /\ v.fulltable = FALSE
    BY <1>2, <2>5 DEF LzcIn
  <2> HIDE DEF v
  <2>7. x \in LzcIn /\ x.out = d.out /\ x.nextfree = FirstCode /\ x.fulltable = FALSE
        /\ x.pfx = t /\ x.fresh
    BY <2>3, <2>4, <2>6 DEF LzcIn
  <2>8. LzcKnows(x)
    BY <2>3, <2>7 DEF LzcKnows, LzcTop
  <2> QED BY <1>4, <1>8, <2>7, <2>8 DEF x
<1>9. CASE ~off /\ ~d.fresh /\ code # ClearCode /\ kwkwk /\ code # d.nextfree
  <2>1. x = bad
    BY <1>2, <1>9 DEF Lzc!expandCode, ns
  <2> QED BY <1>3, <1>4, <2>1
<1>10. CASE ~off /\ ~d.fresh /\ code # ClearCode /\ ~(kwkwk /\ code # d.nextfree)
  <2> DEFINE more == d.out \o s   c == s[1]
             z == [read EXCEPT !.out = more, !.sufxchar = c]
  <2>1. x = Lzc!addEntry([read EXCEPT !.out = @ \o s, !.sufxchar = s[1]], code, s)
    BY <1>2, <1>10 DEF Lzc!expandCode, ns, read
  <2>2. d.nextfree \in Nat /\ d.prefix \in Codes(LzcTop(d)) /\ d.sufxchar \in Chars
    BY <1>1, <1>10 DEF LzcIn
  <2>3. s \in Seq(Chars) /\ s[1] \in Chars
    <3>1. CASE kwkwk
      <4> DEFINE o == Lzc!lzcString(d.pfx, d.prefix)
      <4>1. o \in Seq(Chars) /\ Len(o) # 0 /\ o[1] \in Chars
        BY <1>1, <2>2, LzcStringOK
      <4>2. s = Append(o, d.sufxchar)
        BY <3>1
      <4> HIDE DEF o, s
      <4> QED BY <2>2, <4>1, <4>2
    <3>2. CASE ~kwkwk
      <4>1. code \in Codes(LzcTop(d))
        <5>1. d.fulltable => code <= d.nextfree
          BY <1>1, <1>2, <2>2
        <5>2. ~d.fulltable => code < d.nextfree
          BY <1>2, <2>2, <3>2
        <5> QED BY <1>2, <1>10, <2>2, <5>1, <5>2 DEF Codes, LzcTop
      <4>2. s = Lzc!lzcString(d.pfx, code)
        BY <3>2
      <4> HIDE DEF s
      <4> QED BY <1>1, <4>1, <4>2, LzcStringOK
    <3> QED BY <3>1, <3>2
  <2>4. d.fulltable \/ code \in Codes(d.nextfree + 1)
    <3>1. ~d.fulltable => code <= d.nextfree
      BY <1>2, <1>10, <2>2
    <3> QED BY <1>2, <1>10, <2>2, <3>1 DEF Codes
  <2> HIDE DEF s
  <2>5. x = Lzc!addEntry(z, code, s)
    BY <1>5, <2>1
  <2>6. more \in Seq(Chars) /\ c \in Chars /\ c \in Int
    BY <1>2, <1>4, <2>3
  <2> HIDE DEF more, x
  <2>7. z \in LzcIn /\ z.pfx = d.pfx /\ z.nextfree = d.nextfree /\ z.fulltable = d.fulltable
        /\ z.prefix = d.prefix /\ z.out = more /\ z.sufxchar = c /\ z.fresh = d.fresh
    BY <1>5, <2>6 DEF LzcIn
  <2> HIDE DEF z
  <2>8. LzcKnows(z)
    BY <1>1, <1>10, <2>2, <2>6, <2>7 DEF LzcKnows, LzcTop
  <2>9. ~z.fresh /\ code \in Nat /\ (z.fulltable \/ code \in Codes(z.nextfree + 1))
    BY <1>2, <1>10, <2>4, <2>7
  <2>10. LzcKnows(x) /\ x.out = z.out /\ ~x.fresh
    BY <2>3, <2>5, <2>8, <2>9, AddEntryOK
  <2> QED BY <2>6, <2>7, <2>10 DEF x
<1> QED BY <1>6, <1>7, <1>8, <1>9, <1>10

(* All of the codes.  Only the last one may follow a clear and not be a    *)
(* character: it is the stale prefix.                                      *)
LEMMA ExpandLzcOK ==
    ASSUME NEW codes \in Seq(LzcCode), LzcFit(codes), Starts(codes, Len(codes) - 1)
    PROVE  Lzc!LZC_decompress(codes).out \in Seq(Chars)
<1> DEFINE start == [pfx |-> <<>>, nextfree |-> Lzc!FIRSTFREE, bits |-> Lzc!INITBITS,
                     highcode |-> 2^Lzc!INITBITS - 1, prefix |-> 0, sufxchar |-> 0,
                     fulltable |-> FALSE, fresh |-> TRUE, prevbits |-> 0, slot |-> 0,
                     out |-> <<>>, bad |-> FALSE]
           n == Len(codes)
           m == IF n = 0 THEN 0 ELSE n - 1
           Step(d, i) == Lzc!expandCode(d, codes[i][1], codes[i][2], codes[i][3])
           S == {d \in LzcIn : LzcKnows(d)}
           step == [z \in S \X (1 .. m) |->
                       IF Step(z[1], z[2]) \in S THEN Step(z[1], z[2]) ELSE z[1]]
           G == CHOOSE g : g = [i \in 0 .. n |-> IF i = 0 THEN start ELSE Step(g[i-1], i)]
           Edge(i) == i = 0 \/ codes[i][1] = ClearCode
<1>1. n \in Nat /\ m \in Nat /\ m <= n /\ (n # 0 => m = n - 1)
  OBVIOUS
<1>2. start \in S /\ start.fresh
  <2> DEFINE t == <<>>   h == 2^Lzc!INITBITS - 1
  <2>1. t \in Seq(Chars) /\ t \in Tables /\ Trie(t, FirstCode)
    BY NoEntries
  <2>2. h \in Int /\ Lzc!INITBITS \in Int
    BY Numbers DEF Lzc!INITBITS
  <2>3. Lzc!FIRSTFREE = FirstCode /\ FirstCode \in Nat
    BY Numbers DEF Lzc!FIRSTFREE, Lzc!CLEAR, FirstCode, ClearCode
  <2>4. start = [pfx |-> t, nextfree |-> Lzc!FIRSTFREE, bits |-> Lzc!INITBITS,
                 highcode |-> h, prefix |-> 0, sufxchar |-> 0,
                 fulltable |-> FALSE, fresh |-> TRUE, prevbits |-> 0, slot |-> 0,
                 out |-> t, bad |-> FALSE]
    OBVIOUS
  <2> HIDE DEF t, h, start
  <2>5. start \in LzcIn /\ start.pfx = t /\ start.nextfree = FirstCode /\ start.fresh
        /\ ~start.fulltable
    BY <2>1, <2>2, <2>3, <2>4 DEF LzcIn
  <2>6. LzcKnows(start)
    BY <2>1, <2>5 DEF LzcKnows, LzcTop
  <2> QED BY <2>5, <2>6
<1> HIDE DEF start
<1>3. ASSUME NEW d, LzcKnows(d), NEW i \in 1 .. n
      PROVE  /\ Step(d, i).out \in Seq(Chars)
             /\ (d.fresh => codes[i][1] \in Chars) \/ d.bad =>
                   LzcKnows(Step(d, i)) /\ (Step(d, i).fresh /\ ~Step(d, i).bad => Edge(i))
  <2> DEFINE code == codes[i][1]   width == codes[i][2]   slot == codes[i][3]
  <2>1. width \in CharBits + 1 .. MaxBits /\ code \in 0 .. 2^width - 1
    BY DEF LzcFit
  <2>2. 2^width \in Nat /\ 2^width <= 2^MaxBits
    BY <2>1, Widths
  <2>3. 2^MaxBits \in Nat
    <3>1. MaxBits \in 0 .. MaxBits
      BY Numbers
    <3> QED BY <3>1, PowerAssumption
  <2>4. code \in 0 .. Lzc!maxcode
    BY <2>1, <2>2, <2>3 DEF Lzc!maxcode
  <2> HIDE DEF code, width, slot
  <2>5. LET x == Lzc!expandCode(d, code, width, slot)
        IN  /\ x.out \in Seq(Chars)
            /\ (d.fresh => code \in Chars) \/ d.bad =>
                  LzcKnows(x) /\ (x.fresh /\ ~x.bad => code = ClearCode)
    BY <1>3, <2>4, LzcCodeOK
  <2> DEFINE x == Lzc!expandCode(d, code, width, slot)
  <2>6. Step(d, i) = x
    BY DEF code, width, slot
  <2>7. code = codes[i][1]
    BY DEF code
  <2> HIDE DEF Step
  <2> QED BY <2>5, <2>6, <2>7
<1>4. step \in [S \X (1 .. m) -> S]
  <2> HIDE DEF Step, S
  <2> QED OBVIOUS
<1>5. \A d \in S, i \in 1 .. m : Step(d, i) \in S => step[<<d, i>>] = Step(d, i)
  <2> HIDE DEF Step, S
  <2> QED OBVIOUS
<1> HIDE DEF step
<1>6. PICK g : IsLoop(g, m, S, start, step)
  <2> HIDE DEF S, m
  <2> QED BY <1>1, <1>2, <1>4, LoopExists
<1>7. ASSUME NEW i \in 1 .. m, NEW d, LzcKnows(d), d.fresh /\ ~d.bad => Edge(i - 1)
      PROVE  LzcKnows(Step(d, i)) /\ (Step(d, i).fresh /\ ~Step(d, i).bad => Edge(i))
  <2>1. i \in 1 .. n /\ i \in 1 .. Len(codes) - 1
    BY <1>1
  <2>2. d.fresh /\ ~d.bad => codes[i][1] \in Chars
    <3> HAVE d.fresh /\ ~d.bad
    <3>1. i = 1 \/ codes[i - 1][1] = ClearCode
      BY <1>7, <2>1
    <3> QED BY <2>1, <3>1 DEF Starts
  <2>3. (d.fresh => codes[i][1] \in Chars) \/ d.bad
    BY <2>2
  <2> HIDE DEF Step, n, Edge
  <2> QED BY <1>3, <1>7, <2>1, <2>3
<1> DEFINE Fine(d, i) == LzcKnows(d) /\ (d.fresh /\ ~d.bad => Edge(i))
<1>8. Fine(start, 0)
  BY <1>2
<1>9. \A i \in 1 .. m : \A d : Fine(d, i - 1) => Fine(Step(d, i), i)
  <2> HIDE DEF Step, Edge
  <2> QED BY <1>7
<1>10. \A d : LzcKnows(d) => d \in S
  BY DEF LzcKnows
<1> HIDE DEF Edge, Step, S, m, n
<1>11. \A i \in 0 .. m : Fine(g[i], i)
  <2> DEFINE T == {i \in 0 .. m : Fine(g[i], i)}
  <2>1. 0 \in T
    BY <1>1, <1>6, <1>8 DEF IsLoop
  <2>2. ASSUME NEW i \in 0 .. m - 1, i \in T PROVE i + 1 \in T
    <3>1. i + 1 \in 1 .. m /\ i + 1 \in 0 .. m /\ (i + 1) - 1 = i /\ Fine(g[i], i)
      BY <1>1, <2>2
    <3> DEFINE j == i + 1
    <3>2. g[j - 1] = g[i] /\ Fine(g[j - 1], j - 1) /\ j \in 1 .. m
      BY <3>1
    <3> HIDE DEF j
    <3>3. Fine(Step(g[j - 1], j), j)
      <4> HIDE DEF Fine
      <4> QED BY <1>9, <3>2
    <3>4. g[j] = step[<<g[j - 1], j>>]
      BY <1>6, <3>2 DEF IsLoop
    <3>5. g[j - 1] \in S /\ Step(g[j - 1], j) \in S
      BY <1>10, <3>2, <3>3
    <3>6. g[j] = Step(g[j - 1], j)
      BY <1>5, <3>2, <3>4, <3>5
    <3>7. Fine(g[j], j)
      <4> HIDE DEF Fine
      <4> QED BY <3>3, <3>6
    <3> HIDE DEF Fine
    <3> QED BY <3>1, <3>7 DEF j
  <2>3. \A i \in 0 .. m : i \in T
    <3> HIDE DEF T
    <3> QED BY <1>1, <2>1, <2>2, UpTo
  <2> QED BY <2>3
<1> HIDE DEF Fine
<1>12. \A i \in 1 .. m : g[i] = Step(g[i - 1], i)
  <2> TAKE i \in 1 .. m
  <2>1. i - 1 \in 0 .. m /\ i \in 0 .. m
    BY <1>1
  <2>2. Fine(g[i - 1], i - 1)
    BY <1>11, <2>1
  <2>3. Fine(Step(g[i - 1], i), i)
    BY <1>9, <2>2
  <2>4. g[i - 1] \in S /\ Step(g[i - 1], i) \in S
    BY <1>10, <2>2, <2>3 DEF Fine
  <2>5. g[i] = step[<<g[i - 1], i>>]
    BY <1>6 DEF IsLoop
  <2> QED BY <1>5, <2>4, <2>5
<1>13. g[0] = start
  BY <1>6 DEF IsLoop
<1> DEFINE h == [i \in 0 .. n |-> IF i = 0 THEN start
                                  ELSE IF i = n THEN Step(g[n - 1], n) ELSE g[i]]
<1>14. h = [i \in 0 .. n |-> IF i = 0 THEN start ELSE Step(h[i-1], i)]
  <2>1. \A i \in 1 .. n : h[i] = Step(h[i - 1], i)
    <3> TAKE i \in 1 .. n
    <3>1. i \in 0 .. n /\ i - 1 \in 0 .. n /\ i - 1 # n /\ i # 0
      BY <1>1
    <3>2. h[i - 1] = g[i - 1]
      BY <1>13, <3>1
    <3>3. CASE i = n
      BY <3>1, <3>2, <3>3
    <3>4. CASE i # n
      <4>1. i \in 1 .. m
        BY <1>1, <3>1, <3>4
      <4>2. h[i] = g[i]
        BY <3>1, <3>4
      <4> QED BY <1>12, <3>2, <4>1, <4>2
    <3> QED BY <3>3, <3>4
  <2>2. h[0] = start
    BY <1>1
  <2>3. \A i \in 0 .. n : h[i] = IF i = 0 THEN start ELSE Step(h[i-1], i)
    <3> HIDE DEF h
    <3> QED BY <1>1, <2>1, <2>2
  <2>4. h = [i \in 0 .. n |-> h[i]]
    OBVIOUS
  <2> HIDE DEF h
  <2> QED BY <2>3, <2>4
<1>15. \E f : f = [i \in 0 .. n |-> IF i = 0 THEN start ELSE Step(f[i-1], i)]
  <2> HIDE DEF h
  <2> QED BY <1>14
<1> HIDE DEF h
<1>16. G = [i \in 0 .. n |-> IF i = 0 THEN start ELSE Step(G[i-1], i)]
  BY <1>15
<1>17. Lzc!LZC_decompress(codes) = G[n]
  BY DEF Lzc!LZC_decompress, n, start, Step
<1> HIDE DEF G
<1>18. G[0] = start /\ \A i \in 1 .. n : G[i] = Step(G[i - 1], i)
  BY <1>1, <1>16
<1>19. \A i \in 0 .. m : Fine(G[i], i)
  <2> DEFINE T == {i \in 0 .. m : Fine(G[i], i)}
  <2>1. 0 \in T
    BY <1>1, <1>18, <1>8
  <2>2. ASSUME NEW i \in 0 .. m - 1, i \in T PROVE i + 1 \in T
    <3>1. i + 1 \in 1 .. m /\ i + 1 \in 1 .. n /\ i + 1 \in 0 .. m /\ (i + 1) - 1 = i
      BY <1>1
    <3>2. Fine(G[i], i)
      BY <2>2
    <3> DEFINE j == i + 1
    <3>3. j - 1 = i /\ j \in 1 .. m /\ j \in 1 .. n /\ j \in 0 .. m
      BY <3>1
    <3> HIDE DEF j
    <3>4. Fine(Step(G[j - 1], j), j)
      BY <1>9, <3>2, <3>3
    <3>5. Fine(G[j], j)
      BY <1>18, <3>3, <3>4
    <3> QED BY <3>3, <3>5 DEF j
  <2>3. \A i \in 0 .. m : i \in T
    <3> HIDE DEF T
    <3> QED BY <1>1, <2>1, <2>2, UpTo
  <2> QED BY <2>3
<1>20. G[n].out \in Seq(Chars)
  <2>1. CASE n = 0
    BY <1>2, <1>18, <2>1 DEF S, LzcIn
  <2>2. CASE n # 0
    <3>1. m \in 0 .. m /\ m = n - 1 /\ n \in 1 .. n
      BY <1>1, <2>2
    <3>2. LzcKnows(G[n - 1])
      BY <1>19, <3>1 DEF Fine
    <3>3. G[n] = Step(G[n - 1], n)
      BY <1>18, <3>1
    <3> QED BY <1>3, <3>1, <3>2, <3>3
  <2> QED BY <2>1, <2>2
<1> QED BY <1>17, <1>20

-----------------------------------------------------------------------------
(* What the expanders give                                                 *)

(* Every piece has a size.                                                 *)
Sized(f) == \A i \in DOMAIN f : f[i].size \in Nat \ {0}

Errors == {"none", "baddata", "badcrc"}

(* The table of the LZW expander, and the data that was given.             *)
GivenInv ==
    /\ pc \in Compressing => thread.eof = 0
    /\ Sized(file)
    /\ given \in Seq(Chars) /\ err \in Errors
    /\ pc = "unlzw" => TrieOK(table)

(* The chunks of an LZW thread have sizes.                                 *)
LEMMA ChunksSized ==
    ASSUME NEW f, NEW lzw2, Chunks(f, lzw2)
    PROVE  Sized(f)
<1>1. f \in Seq(Chunk) /\ \A i \in 1 .. Len(f) : ChunkOK(f[i], lzw2)
  BY DEF Chunks
<1>2. DOMAIN f = 1 .. Len(f)
  BY <1>1
<1>3. Desired \in Nat
  BY Numbers DEF Desired
<1>4. \A i \in 1 .. Len(f) : f[i].size \in 1 .. Desired
  BY <1>1 DEF ChunkOK
<1> QED BY <1>2, <1>3, <1>4 DEF Sized

(* A piece alone.                                                          *)
LEMMA OneSized ==
    ASSUME NEW p, p.size \in Nat \ {0}
    PROVE  Sized(<<p>>)
<1> DEFINE f == <<p>>
<1>1. DOMAIN f = {1} /\ f[1] = p
  OBVIOUS
<1> HIDE DEF f
<1>2. Sized(f)
  BY <1>1 DEF Sized
<1> QED BY <1>2 DEF f

(* An empty table of the expander.                                         *)
LEMMA EmptyTrieOK == TrieOK(EmptyTrie)
<1> DEFINE t == <<>>   e == EmptyTrie
<1>1. Trie(t, FirstCode) /\ t \in Tables /\ FirstCode \in Nat
  BY NoEntries, Numbers
<1>2. e = [trie |-> t, entry |-> FirstCode, oldcode |-> 0, finalc |-> 0, resetFix |-> FALSE]
  BY DEF EmptyTrie
<1> HIDE DEF t, e
<1>3. e \in [trie : Tables, entry : Nat, oldcode : Int, finalc : Int, resetFix : BOOLEAN]
      /\ e.trie = t /\ e.entry = FirstCode /\ ~e.resetFix
  BY <1>1, <1>2
<1>4. TrieOK(e)
  BY <1>1, <1>3 DEF TrieOK
<1> QED BY <1>4 DEF e

(* A step of the compression that gives nothing.                           *)
LEMMA NothingGiven ==
    ASSUME GivenInv, UNCHANGED <<given, err>>, Sized(file'),
           pc' # "unlzw", pc' \in Compressing => thread'.eof = 0
    PROVE  GivenInv'
BY DEF GivenInv

(* The end of a job that is expanded in one go.                            *)
LEMMA GivenAtOnce ==
    ASSUME GivenInv, UNCHANGED file, given' \in Seq(Chars), err' \in Errors,
           pc' \in {"flush", "failed", "done"}
    PROVE  GivenInv'
BY DEF GivenInv, Compressing

(* A chunk of LZW is bad or gives characters.                              *)
LEMMA ChunkGives ==
    ASSUME CodecInv, GivenInv, ExpandLZWChunk
    PROVE  \/ pc' = "failed" /\ err' = "baddata" /\ UNCHANGED <<given, funnel>>
           \/ /\ pc' = pc /\ err' = err /\ TrieOK(table')
              /\ \E part \in Seq(Chars) : /\ given' = given \o part
                                          /\ funnel' = Fun!FunnelWrite(funnel, part)
<1> DEFINE chunk == Head(file)
           e     == ExpandChunk(table, chunk, type2)
           left  == thread.eof - pos
           want  == IF left <= BlockSize THEN left ELSE BlockSize
           part  == SubSeq(e.out, 1, want)
<1>1. /\ pc = "unlzw" /\ pos < thread.eof
      /\ \/ e.bad /\ pc' = "failed" /\ err' = "baddata" /\ UNCHANGED <<given, funnel>>
         \/ /\ ~e.bad /\ pc' = pc /\ err' = err /\ table' = e.trie
            /\ given' = given \o part /\ funnel' = Fun!FunnelWrite(funnel, part)
  BY DEF ExpandLZWChunk, Fail
<1>2. JobInv /\ FileInv /\ BufferInv
  BY DEF CodecInv
<1>3. IsLzw(thread.format) /\ Chunks(file, type2) /\ thread.eof = srcLen
      /\ pos \in 0 .. srcLen /\ srcLen \in Nat
  BY <1>1, <1>2, JobFacts DEF JobInv, FileInv, Compressing
<1>4. ChunkOK(chunk, type2)
  <2>1. PICK j \in Nat : pos = j * BlockSize /\ Covers(Len(file) + j, srcLen)
    BY <1>1, <1>2, <1>3 DEF BufferInv
  <2>2. Len(file) \in Nat
    BY <1>3 DEF Chunks
  <2>3. j * BlockSize < srcLen
    BY <1>1, <1>3, <2>1
  <2>4. Len(file) # 0
    BY <1>3, <2>1, <2>2, <2>3, CoverLeft
  <2> QED BY <1>3, <2>4, ChunksRest
<1>5. TrieOK(table)
  BY <1>1 DEF GivenInv
<1>6. CASE e.bad
  <2> HIDE DEF e
  <2> QED BY <1>1, <1>6
<1>7. CASE ~e.bad
  <2>1. type2 \in BOOLEAN
    BY DEF type2
  <2>2. e.out \in Seq(Chars) /\ Len(e.out) = BlockSize /\ TrieOK(e.trie)
    BY <1>4, <1>5, <1>7, <2>1, ExpandChunkOK
  <2>3. want \in 0 .. BlockSize /\ BlockSize \in Nat
    BY <1>1, <1>3, Numbers
  <2>4. /\ pc' = pc /\ err' = err /\ table' = e.trie /\ given' = given \o part
        /\ funnel' = Fun!FunnelWrite(funnel, part)
    BY <1>1, <1>7
  <2> HIDE DEF e, want
  <2>5. part \in Seq(Chars)
    <3> DEFINE s == e.out
    <3>1. s \in Seq(Chars) /\ Len(s) = BlockSize
      BY <2>2
    <3> HIDE DEF s
    <3>2. SubSeq(s, 1, want) \in Seq(Chars)
      BY <2>3, <3>1
    <3> QED BY <3>2 DEF s
  <2> HIDE DEF part
  <2> QED BY <2>2, <2>4, <2>5
<1> QED BY <1>6, <1>7

(* The invariant with a chunk of LZW.                                      *)
LEMMA ExpandLZWChunkGives ==
    ASSUME CodecInv, CodecInv', GivenInv, ExpandLZWChunk
    PROVE  GivenInv'
<1>1. pc = "unlzw" /\ thread' = thread
  BY DEF ExpandLZWChunk
<1>2. Sized(file')
  <2>1. JobInv /\ FileInv'
    BY DEF CodecInv
  <2>2. Chunks(file', type2')
    BY <1>1, <2>1 DEF JobInv, FileInv
  <2> QED BY <2>2, ChunksSized
<1>3. TrieOK(table) /\ given \in Seq(Chars) /\ err \in Errors
  BY <1>1 DEF GivenInv
<1>4. CASE pc' = "failed" /\ err' = "baddata" /\ UNCHANGED <<given, funnel>>
  BY <1>2, <1>3, <1>4 DEF GivenInv, Errors, Compressing
<1>5. CASE /\ pc' = pc /\ err' = err /\ TrieOK(table')
           /\ \E part \in Seq(Chars) : /\ given' = given \o part
                                       /\ funnel' = Fun!FunnelWrite(funnel, part)
  <2>1. given' \in Seq(Chars)
    BY <1>3, <1>5
  <2> QED BY <1>1, <1>2, <1>3, <1>5, <2>1 DEF GivenInv, Compressing
<1> QED BY <1>4, <1>5, ChunkGives

(* Every step.                                                             *)
LEMMA GivenStep ==
    ASSUME CodecInv, CodecInv', GivenInv, [Next]_vars
    PROVE  GivenInv'
<1>1. JobInv /\ FileInv /\ JobInv' /\ FileInv' /\ srcLen \in Nat /\ job.src \in Seq(Chars)
  BY JobFacts DEF CodecInv, JobInv
<1>2. Sized(file) /\ given \in Seq(Chars) /\ err \in Errors
      /\ (pc \in Compressing => thread.eof = 0)
  BY DEF GivenInv
<1>3. Sized(<<>>)
  BY DEF Sized
<1>4. CASE Begin
  <2>1. /\ pc' \in {"lzw", "count", "lzc", "store"} /\ thread' = [NoThread EXCEPT !.format = Target]
        /\ UNCHANGED <<file, given, err>>
    BY <1>4 DEF Begin, expandVars
  <2>2. thread'.eof = 0
    BY <2>1 DEF NoThread
  <2> QED BY <1>2, <2>1, <2>2, NothingGiven
<1>5. CASE Store
  <2>1. /\ pc' = "written" /\ UNCHANGED <<given, err>>
        /\ file' = IF srcLen = 0 THEN <<>> ELSE <<[body |-> job.src, size |-> srcLen]>>
    BY <1>5 DEF Store, expandVars
  <2>2. Sized(file')
    <3> DEFINE p == [body |-> job.src, size |-> srcLen]
    <3>1. srcLen # 0 => p.size \in Nat \ {0}
      BY <1>1
    <3> HIDE DEF p
    <3>2. srcLen # 0 => Sized(<<p>>)
      BY <3>1, OneSized
    <3> QED BY <1>3, <2>1, <3>2 DEF p
  <2> QED BY <2>1, <2>2, NothingGiven DEF Compressing
<1>6. CASE CompressLZWChunk
  <2>1. pc = "lzw" /\ pc' = pc /\ thread' = thread /\ UNCHANGED <<given, err>>
    BY <1>6 DEF CompressLZWChunk, expandVars
  <2>2. Chunks(file', type2')
    BY <1>1, <2>1 DEF JobInv, FileInv
  <2>3. Sized(file')
    BY <2>2, ChunksSized
  <2> QED BY <1>2, <2>1, <2>3, NothingGiven
<1>7. CASE FinishLZW \/ CountSQ \/ ScaleSQ \/ BuildTreeSQ
  <2>1. /\ pc \in Compressing /\ pc' # "unlzw" /\ UNCHANGED <<file, thread, given, err>>
    BY <1>7 DEF FinishLZW, CountSQ, ScaleSQ, BuildTreeSQ, expandVars, Compressing
  <2> QED BY <1>2, <2>1, NothingGiven
<1>8. CASE CompressSQ \/ CompressLZC
  <2>1. /\ pc \in Compressing /\ pc' = "keep" /\ UNCHANGED <<thread, given, err>>
        /\ thread.format \in {"sq", "lzc"}
    BY <1>1, <1>8 DEF CompressSQ, CompressLZC, expandVars, Compressing, JobInv
  <2>2. WholeFile'
    BY <1>1, <2>1 DEF FileInv, Whole
  <2>3. \E p : file' = <<p>> /\ p.size \in Nat \ {0}
    BY <2>1, <2>2 DEF WholeFile, SqPiece, LzcPiece
  <2>4. Sized(file')
    BY <2>3, OneSized
  <2> QED BY <1>2, <2>1, <2>4, NothingGiven
<1>9. CASE FallBack
  <2>1. pc \in Compressing /\ pc' = "store" /\ file' = <<>> /\ UNCHANGED <<thread, given, err>>
    BY <1>9 DEF FallBack, expandVars, Compressing
  <2> QED BY <1>2, <1>3, <2>1, NothingGiven
<1>10. CASE Keep \/ CopyRaw
  <2>1. pc' \in {"written", "copied"} /\ UNCHANGED <<file, given, err>>
    BY <1>10 DEF Keep, CopyRaw, expandVars
  <2> QED BY <1>2, <2>1, NothingGiven DEF Compressing
<1>11. CASE BeginExpand
  <2>1. /\ pc' \in {"unlzw", "unsq", "unlzc", "copy"} /\ UNCHANGED <<file, given, err>>
        /\ IsLzw(thread.format) => table' = EmptyTrie
        /\ pc' = "unlzw" => IsLzw(thread.format)
    BY <1>11 DEF BeginExpand
  <2> QED BY <1>2, <2>1, EmptyTrieOK DEF GivenInv, Compressing
<1>12. CASE ExpandUncompressed
  <2>1. /\ pc = "copy" /\ pc' = "flush" /\ UNCHANGED <<file, err>>
        /\ IF file = <<>> THEN given' = given ELSE given' = file[1].body
    BY <1>12 DEF ExpandUncompressed, Deliver
  <2>2. thread.format = "stored" /\ WholeFile
    BY <1>1, <2>1 DEF JobInv, FileInv, Whole
  <2>3. file # <<>> => file[1].body = job.src
    BY <2>2 DEF WholeFile
  <2>4. given' \in Seq(Chars)
    BY <1>1, <1>2, <2>1, <2>3
  <2> QED BY <1>2, <2>1, <2>4, GivenAtOnce
<1>13. CASE ExpandSQ
  <2>1. /\ pc = "unsq" /\ UNCHANGED file
        /\ given' = SQ!ExpandHuffmanSQ(file[1].tree, file[1].body).out
        /\ \/ pc' = "flush" /\ err' = err
           \/ pc' = "failed" /\ err' = "baddata"
    BY <1>13 DEF ExpandSQ, Deliver, Fail
  <2>2. thread.format = "sq" /\ WholeFile
    BY <1>1, <2>1 DEF JobInv, FileInv, Whole
  <2>3. PICK p : file = <<p>> /\ SqPiece(p)
    BY <2>2 DEF WholeFile
  <2>4. file[1] = p /\ p.tree \in Trees /\ p.body \in Seq({0, 1})
    BY <2>3 DEF SqPiece
  <2>5. given' \in Seq(Chars)
    <3> DEFINE t == p.tree   b == p.body
    <3>1. t \in Trees /\ b \in Seq({0, 1}) /\ given' = SQ!ExpandHuffmanSQ(t, b).out
      BY <2>1, <2>4
    <3> HIDE DEF t, b
    <3> QED BY <3>1, ExpandSqOK
  <2> QED BY <1>2, <2>1, <2>5, GivenAtOnce DEF Errors
<1>14. CASE ExpandLZC
  <2>1. /\ pc = "unlzc" /\ UNCHANGED file
        /\ given' = Lzc!LZC_decompress(file[1].body).out
        /\ \/ pc' = "flush" /\ err' = err
           \/ pc' = "failed" /\ err' = "baddata"
    BY <1>14 DEF ExpandLZC, Deliver, Fail
  <2>2. thread.format = "lzc" /\ WholeFile
    BY <1>1, <2>1 DEF JobInv, FileInv, Whole
  <2>3. PICK p : file = <<p>> /\ LzcPiece(p)
    BY <2>2 DEF WholeFile
  <2>4. file[1] = p /\ p.body \in Seq(LzcCode) /\ LzcFit(p.body)
        /\ Starts(p.body, Len(p.body) - 1)
    BY <2>3 DEF LzcPiece
  <2>5. given' \in Seq(Chars)
    <3> DEFINE b == p.body
    <3>1. /\ b \in Seq(LzcCode) /\ LzcFit(b) /\ Starts(b, Len(b) - 1)
          /\ given' = Lzc!LZC_decompress(b).out
      BY <2>1, <2>4
    <3> HIDE DEF b
    <3> QED BY <3>1, ExpandLzcOK
  <2> QED BY <1>2, <2>1, <2>5, GivenAtOnce DEF Errors
<1>15. CASE ExpandLZWChunk
  BY <1>15, ExpandLZWChunkGives
<1>16. CASE FinishUnLZW \/ FinishExpand
  <2>1. /\ pc' \in {"failed", "flush", "done"} /\ UNCHANGED <<file, given>>
        /\ err' \in {err, "baddata", "badcrc"}
    BY <1>16 DEF FinishUnLZW, FinishExpand, Fail
  <2> QED BY <1>2, <2>1, GivenAtOnce DEF Errors
<1>17. CASE UNCHANGED vars
  BY <1>17 DEF vars, GivenInv
<1>18. CASE Compress
  BY <1>4, <1>5, <1>6, <1>7, <1>8, <1>9, <1>10, <1>18 DEF Compress
<1>19. CASE Expand
  BY <1>11, <1>12, <1>13, <1>14, <1>15, <1>16, <1>19 DEF Expand
<1> QED BY <1>17, <1>18, <1>19 DEF Next, Over

(* Whatever is in the archive, the expanders give characters of the        *)
(* alphabet, and every piece in the file has a size.                       *)
THEOREM GivenInvariance == Spec => []GivenInv
<1>1. Init => GivenInv
  <2> SUFFICES ASSUME Init PROVE GivenInv
    OBVIOUS
  <2> DEFINE t == <<>>
  <2>1. /\ pc = "start" /\ file = t /\ thread = NoThread /\ given = t /\ err = "none"
    BY DEF Init
  <2>2. Sized(t) /\ t \in Seq(Chars)
    BY DEF Sized
  <2> HIDE DEF t
  <2> QED BY <2>1, <2>2 DEF GivenInv, NoThread, Errors
<1>2. CodecInv /\ CodecInv' /\ GivenInv /\ [Next]_vars => GivenInv'
  BY GivenStep
<1> QED BY <1>1, <1>2, CodecInvariance, PTL DEF Spec

(* The types of a job, at every step and for every source: the lengths are *)
(* within the source, no piece of a file is empty, and what the expanders   *)
(* make of what the compressors made is characters.                        *)
THEOREM CodecTypesHold == Spec => []CodecTypeOK
<1>1. CodecInv /\ GivenInv => CodecTypeOK
  <2> SUFFICES ASSUME CodecInv, GivenInv PROVE CodecTypeOK
    OBVIOUS
  <2>1. JobInv /\ FileInv
    BY DEF CodecInv
  <2>2. srcLen \in Nat /\ pos \in 0 .. srcLen /\ dstLen \in Nat
    BY <2>1, JobFacts DEF JobInv, FileInv
  <2>3. pc \in {"start", "lzw", "count", "scale", "tree", "squeeze", "lzc", "keep", "store",
                "written", "copied", "copy", "unsq", "unlzc", "unlzw", "flush", "done", "failed"}
    BY <2>1 DEF JobInv, Compressing, Written
  <2>4. thread.format \in Formats \cup {"none"} /\ thread.compEof \in Nat
    BY <2>1 DEF JobInv
  <2>5. thread.eof \in 0 .. srcLen
    BY <2>1, <2>2 DEF FileInv, GivenInv
  <2>6. \A i \in DOMAIN file : file[i].size \in Nat \ {0}
    BY DEF GivenInv, Sized
  <2>7. \A i \in DOMAIN given : given[i] \in Chars
    <3>1. given \in Seq(Chars)
      BY DEF GivenInv
    <3> QED BY <3>1
  <2>8. err \in {"none", "baddata", "badcrc"}
    BY DEF GivenInv, Errors
  <2> QED BY <2>2, <2>3, <2>4, <2>5, <2>6, <2>7, <2>8 DEF CodecTypeOK
<1> QED BY <1>1, CodecInvariance, GivenInvariance, PTL

-----------------------------------------------------------------------------
(* The funnel                                                              *)

(* A member more comes at the end.                                         *)
LEMMA FlattenMore ==
    ASSUME NEW S, NEW ss \in Seq(Seq(S)), NEW x \in Seq(S)
    PROVE  FlattenSeq(Append(ss, x)) = FlattenSeq(ss) \o x /\ FlattenSeq(ss) \in Seq(S)
<1> DEFINE tt == Append(ss, x)   n == Len(ss)
<1>1. n \in Nat /\ tt \in Seq(Seq(S)) /\ Len(tt) = n + 1 /\ tt[n + 1] = x
      /\ \A i \in 1 .. n : tt[i] = ss[i]
  OBVIOUS
<1>2. FlattenSeq(ss) \in Seq(S)
  BY FlattenPlaces
<1>3. PICK g : IsChain(tt, g, n + 1) /\ FlattenSeq(tt) = g[n + 1]
  <2>1. Len(tt) \in Nat \ {0}
    BY <1>1
  <2> HIDE DEF tt, n
  <2> QED BY <1>1, <2>1, FlattenIsChain
<1> HIDE DEF tt
<1>4. \A i \in 1 .. n + 1 : g[i] = IF i = 1 THEN tt[i] ELSE g[i-1] \o tt[i]
  <2> HIDE DEF n
  <2>1. n + 1 \in Nat
    BY <1>1
  <2> QED BY <1>3, <2>1, ChainStep
<1>5. CASE n = 0
  <2>1. ss = <<>>
    BY <1>5
  <2>2. FlattenSeq(ss) = ss
    BY <1>5 DEF FlattenSeq
  <2>3. FlattenSeq(tt) = x
    BY <1>1, <1>3, <1>4, <1>5
  <2>4. ss \o x = x
    BY <2>1
  <2> QED BY <1>2, <2>2, <2>3, <2>4 DEF tt
<1>6. CASE n # 0
  <2>1. PICK f : IsChain(ss, f, n) /\ FlattenSeq(ss) = f[n]
    BY <1>1, <1>6, FlattenIsChain
  <2>2. \A i \in 1 .. n : f[i] = IF i = 1 THEN ss[i] ELSE f[i-1] \o ss[i]
    <3> HIDE DEF n
    <3> QED BY <1>1, <2>1, ChainStep
  <2> HIDE DEF n
  <2> DEFINE T == {m \in 0 .. n : m = 0 \/ g[m] = f[m]}
  <2>3. ASSUME NEW m \in 0 .. n - 1, m \in T
        PROVE  m + 1 \in T
    <3> DEFINE k == m + 1
    <3>1. k \in 1 .. n /\ k \in 1 .. n + 1 /\ k - 1 = m /\ m \in Nat /\ (m = 0 <=> k = 1)
          /\ k \in 0 .. n
      BY <1>1
    <3> HIDE DEF k
    <3>2. g[k] = IF k = 1 THEN tt[k] ELSE g[k-1] \o tt[k]
      BY <1>4, <3>1
    <3>3. f[k] = IF k = 1 THEN ss[k] ELSE f[k-1] \o ss[k]
      BY <2>2, <3>1
    <3>4. tt[k] = ss[k]
      BY <1>1, <3>1
    <3>5. m # 0 => g[m] = f[m]
      BY <2>3
    <3>6. g[k] = f[k]
      <4>1. CASE k = 1
        BY <3>2, <3>3, <3>4, <4>1, Zenon
      <4>2. CASE k # 1
        BY <3>1, <3>2, <3>3, <3>4, <3>5, <4>2, Zenon
      <4> QED BY <4>1, <4>2
    <3> QED BY <3>1, <3>6 DEF k
  <2>4. 0 \in T
    BY <1>1
  <2>5. \A m \in 0 .. n : m \in T
    <3> HIDE DEF T
    <3> QED BY <1>1, <2>3, <2>4, UpTo
  <2>6. g[n] = f[n]
    <3>1. n \in 0 .. n
      BY <1>1
    <3> QED BY <1>6, <2>5, <3>1
  <2>7. g[n + 1] = g[n] \o x
    <3> DEFINE k == n + 1
    <3>1. k \in 1 .. n + 1 /\ k # 1 /\ k - 1 = n /\ tt[k] = x
      BY <1>1, <1>6
    <3> HIDE DEF k
    <3>2. g[k] = IF k = 1 THEN tt[k] ELSE g[k-1] \o tt[k]
      BY <1>4, <3>1
    <3>3. g[k] = g[n] \o x
      BY <3>1, <3>2, Zenon
    <3> QED BY <3>3 DEF k
  <2> QED BY <1>2, <1>3, <2>1, <2>6, <2>7 DEF tt
<1> QED BY <1>5, <1>6

Ends == {"CR", "LF", "CRLF"}
Outs == Chars \cup {CR, LF}

EndsOnCR(p) == p # <<>> /\ p[Len(p)] = CR

(* What is made of c after p.                                              *)
LineEnd(p, c, to) ==
    IF c \notin {CR, LF} THEN <<c>>
    ELSE IF c = LF /\ EndsOnCR(p) THEN <<>>
    ELSE Fun!EOL(to)

(* What is made of text at i.                                              *)
MadeAt(text, to, i) ==
    IF text[i] \notin {CR, LF} THEN <<text[i]>>
    ELSE IF text[i] = LF /\ i > 1 /\ text[i - 1] = CR THEN <<>>
    ELSE Fun!EOL(to)

(* A line end is written in characters.                                    *)
LEMMA EOLType ==
    ASSUME NEW to \in Ends
    PROVE  Fun!EOL(to) \in Seq(Outs)
<1>1. <<CR>> \in Seq(Outs) /\ <<LF>> \in Seq(Outs) /\ <<CR, LF>> \in Seq(Outs)
  BY DEF Outs
<1> QED BY <1>1 DEF Fun!EOL, Ends

(* Each character adds to what was made of the text before it.             *)
LEMMA ConvertedMore ==
    ASSUME NEW p \in Seq(Chars), NEW c \in Chars, NEW to \in Ends
    PROVE  /\ Fun!Converted(Append(p, c), to) = Fun!Converted(p, to) \o LineEnd(p, c, to)
           /\ Fun!Converted(p, to) \in Seq(Outs)
<1> DEFINE q == Append(p, c)   n == Len(p)
           ss == [i \in DOMAIN p |-> MadeAt(p, to, i)]
           tt == [i \in DOMAIN q |-> MadeAt(q, to, i)]
           x  == LineEnd(p, c, to)
<1>1. /\ n \in Nat /\ q \in Seq(Chars) /\ Len(q) = n + 1 /\ q[n + 1] = c
      /\ DOMAIN p = 1 .. n /\ DOMAIN q = 1 .. n + 1 /\ \A i \in 1 .. n : q[i] = p[i] /\ p[i] \in Chars
  OBVIOUS
<1>2. Fun!EOL(to) \in Seq(Outs) /\ Chars \subseteq Outs
  BY EOLType DEF Outs
<1> DEFINE none == <<>>
<1>3. none \in Seq(Outs) /\ \A a \in Outs : <<a>> \in Seq(Outs)
  OBVIOUS
<1> HIDE DEF q
<1>4. \A i \in 1 .. n : MadeAt(p, to, i) \in Seq(Outs)
  BY <1>1, <1>2, <1>3 DEF MadeAt
<1>5. x \in Seq(Outs)
  BY <1>2, <1>3 DEF LineEnd
<1>6. ss \in Seq(Seq(Outs)) /\ Len(ss) = n
  BY <1>1, <1>4
<1>7. \A i \in 1 .. n : MadeAt(q, to, i) = MadeAt(p, to, i)
  <2> TAKE i \in 1 .. n
  <2>1. q[i] = p[i] /\ (i > 1 => i - 1 \in 1 .. n)
    BY <1>1
  <2>2. i > 1 => q[i - 1] = p[i - 1]
    BY <1>1, <2>1
  <2> QED BY <2>1, <2>2 DEF MadeAt
<1>8. MadeAt(q, to, n + 1) = x
  <2>1. EndsOnCR(p) <=> n + 1 > 1 /\ q[(n + 1) - 1] = CR
    <3>1. p = <<>> <=> n = 0
      OBVIOUS
    <3>2. n # 0 => n \in 1 .. n /\ (n + 1) - 1 = n /\ n + 1 > 1
      BY <1>1
    <3> QED BY <1>1, <3>1, <3>2 DEF EndsOnCR
  <2>2. q[n + 1] = c
    BY <1>1
  <2> QED BY <2>1, <2>2 DEF MadeAt, LineEnd
<1>9. tt = Append(ss, x)
  <2>1. Append(ss, x) = [i \in 1 .. n + 1 |-> IF i = n + 1 THEN x ELSE ss[i]]
    <3> HIDE DEF ss, x
    <3>1. Len(Append(ss, x)) = n + 1 /\ Append(ss, x) \in Seq(Seq(Outs))
      BY <1>5, <1>6
    <3>2. \A i \in 1 .. n + 1 : Append(ss, x)[i] = IF i = n + 1 THEN x ELSE ss[i]
      BY <1>5, <1>6, <1>1
    <3>3. Append(ss, x) = [i \in 1 .. n + 1 |-> Append(ss, x)[i]]
      <4> DEFINE u == Append(ss, x)
      <4>1. u \in Seq(Seq(Outs)) /\ Len(u) = n + 1
        BY <3>1
      <4> HIDE DEF u
      <4>2. u = [i \in 1 .. n + 1 |-> u[i]]
        BY <4>1
      <4> QED BY <4>2 DEF u
    <3> QED BY <3>2, <3>3
  <2>2. \A i \in 1 .. n + 1 : tt[i] = IF i = n + 1 THEN x ELSE ss[i]
    <3> TAKE i \in 1 .. n + 1
    <3>1. i = n + 1 \/ i \in 1 .. n
      BY <1>1
    <3>2. tt[i] = MadeAt(q, to, i)
      BY <1>1
    <3>3. i \in 1 .. n => ss[i] = MadeAt(p, to, i) /\ i # n + 1
      BY <1>1
    <3> HIDE DEF tt, ss, x
    <3> QED BY <1>7, <1>8, <3>1, <3>2, <3>3
  <2>3. tt = [i \in 1 .. n + 1 |-> tt[i]]
    BY <1>1
  <2> HIDE DEF tt, ss, x
  <2> QED BY <2>1, <2>2, <2>3
<1>10. Fun!Converted(p, to) = FlattenSeq(ss) /\ Fun!Converted(q, to) = FlattenSeq(tt)
  <2>1. \A s : Fun!FlattenSeq(s) = FlattenSeq(s)
    BY DEF Fun!FlattenSeq, FlattenSeq
  <2>2. Fun!Converted(p, to) = Fun!FlattenSeq(ss)
    BY DEF Fun!Converted, MadeAt
  <2>3. Fun!Converted(q, to) = Fun!FlattenSeq(tt)
    BY DEF Fun!Converted, MadeAt
  <2> HIDE DEF ss, tt
  <2> QED BY <2>1, <2>2, <2>3
<1> HIDE DEF ss, tt, x
<1>11. FlattenSeq(Append(ss, x)) = FlattenSeq(ss) \o x /\ FlattenSeq(ss) \in Seq(Outs)
  BY <1>5, <1>6, FlattenMore
<1> QED BY <1>9, <1>10, <1>11 DEF q, x

(* Nothing is made of nothing.                                             *)
LEMMA ConvertedNone ==
    ASSUME NEW to
    PROVE  Fun!Converted(<<>>, to) = <<>>
<1> DEFINE ss == [i \in DOMAIN <<>> |-> MadeAt(<<>>, to, i)]
<1>1. Fun!Converted(<<>>, to) = Fun!FlattenSeq(ss)
  BY DEF Fun!Converted, MadeAt
<1>2. ss = <<>>
  OBVIOUS
<1>3. Fun!FlattenSeq(<<>>) = <<>>
  BY DEF Fun!FlattenSeq
<1> HIDE DEF ss
<1> QED BY <1>1, <1>2, <1>3

(* What is known of a funnel: the text p has passed through it.            *)
FunnelRec == [buf : Seq(Chars), first : BOOLEAN, conv : {"on", "off", "auto"}, to : Ends,
              lastCR : BOOLEAN, out : Seq(Outs)]

Sent(f, p) ==
    /\ f.conv = "auto" => f.first /\ p = <<>>
    /\ f.conv \in {"auto", "off"} => f.out = p
    /\ f.conv # "off" => f.out = Fun!Converted(p, f.to) /\ (f.lastCR <=> EndsOnCR(p))

(* All that was written to it, g, is sent or in the buffer.                *)
Holds(f, g) == f \in FunnelRec /\ \E p \in Seq(Chars) : g = p \o f.buf /\ Sent(f, p)

(* A funnel goes on as it was asked to, and auto is decided once.          *)
SameAs(f, x) == x.to = f.to /\ (f.conv # "auto" => x.conv = f.conv)

(* None and all of the characters after others, and one more.              *)
LEMMA NoneAndAll ==
    ASSUME NEW S, NEW p \in Seq(S), NEW data \in Seq(S)
    PROVE  p \o SubSeq(data, 1, 0) = p /\ p \o SubSeq(data, 1, Len(data)) = p \o data
<1>1. SubSeq(data, 1, 0) = <<>> /\ SubSeq(data, 1, Len(data)) = data
  OBVIOUS
<1>2. p \o <<>> = p
  OBVIOUS
<1> QED BY <1>1, <1>2

(* The data up to one character more.                                      *)
LEMMA OneMore ==
    ASSUME NEW S, NEW p \in Seq(S), NEW data \in Seq(S), NEW i \in 1 .. Len(data)
    PROVE  p \o SubSeq(data, 1, i) = Append(p \o SubSeq(data, 1, i - 1), data[i])
<1> DEFINE a == SubSeq(data, 1, i - 1)   b == SubSeq(data, 1, i)   c == data[i]
<1>1. a \in Seq(S) /\ b \in Seq(S) /\ c \in S
  OBVIOUS
<1>2. b = Append(a, c)
  OBVIOUS
<1> HIDE DEF a, b, c
<1>3. p \o Append(a, c) = Append(p \o a, c)
  BY <1>1
<1> QED BY <1>2, <1>3 DEF a, b, c

(* A character through the converter.                                      *)
LEMMA ConvertCharOK ==
    ASSUME NEW f \in FunnelRec, NEW c \in Chars
    PROVE  LET x == Fun!convertChar(f, c)
           IN  /\ x \in FunnelRec /\ x.buf = f.buf /\ x.to = f.to /\ x.conv = f.conv
               /\ x.first = f.first
               /\ \A p \in Seq(Chars) :
                     f.conv = "on" /\ Sent(f, p) => Sent(x, Append(p, c))
<1> DEFINE made == IF c = CR \/ (c = LF /\ ~f.lastCR) THEN Fun!EOL(f.to)
                   ELSE IF c = LF THEN <<>> ELSE <<c>>
           more == f.out \o made
           last == (c = CR)
           x == Fun!convertChar(f, c)
<1>1. f.to \in Ends /\ f.out \in Seq(Outs)
  BY DEF FunnelRec
<1>2. made \in Seq(Outs)
  <2> DEFINE none == <<>>   one == <<c>>
  <2>1. Fun!EOL(f.to) \in Seq(Outs) /\ none \in Seq(Outs) /\ c \in Outs
    BY <1>1, EOLType DEF Outs
  <2>2. one \in Seq(Outs)
    BY <2>1
  <2> HIDE DEF none, one
  <2>3. made = IF c = CR \/ (c = LF /\ ~f.lastCR) THEN Fun!EOL(f.to)
               ELSE IF c = LF THEN none ELSE one
    BY DEF none, one
  <2> HIDE DEF made
  <2> QED BY <2>1, <2>2, <2>3
<1>3. x = [f EXCEPT !.lastCR = last, !.out = more]
  BY DEF Fun!convertChar
<1> HIDE DEF made
<1>4. more \in Seq(Outs) /\ last \in BOOLEAN
  BY <1>1, <1>2
<1> HIDE DEF more, last, x
<1>5. x \in FunnelRec /\ x.buf = f.buf /\ x.to = f.to /\ x.conv = f.conv /\ x.first = f.first
      /\ x.out = more /\ x.lastCR = last
  BY <1>3, <1>4 DEF FunnelRec
<1>6. ASSUME NEW p \in Seq(Chars), f.conv = "on", Sent(f, p)
      PROVE  Sent(x, Append(p, c))
  <2>1. f.out = Fun!Converted(p, f.to) /\ (f.lastCR <=> EndsOnCR(p))
    BY <1>6 DEF Sent
  <2>2. CR # LF
    BY CodecAssumption DEF Fun!FunnelAssumption
  <2>3. made = LineEnd(p, c, f.to)
    BY <2>1, <2>2 DEF made, LineEnd
  <2>4. more = Fun!Converted(Append(p, c), f.to)
    BY <1>1, <2>1, <2>3, ConvertedMore DEF more
  <2>5. EndsOnCR(Append(p, c)) <=> c = CR
    <3>1. Append(p, c) # <<>> /\ Append(p, c)[Len(Append(p, c))] = c
      OBVIOUS
    <3> QED BY <3>1 DEF EndsOnCR
  <2> QED BY <1>5, <1>6, <2>4, <2>5 DEF Sent, last
<1> QED BY <1>5, <1>6 DEF x

(* A piece through the converter.                                          *)
LEMMA WriteConvertOK ==
    ASSUME NEW f \in FunnelRec, NEW p \in Seq(Chars), Sent(f, p), NEW data \in Seq(Chars)
    PROVE  LET x == Fun!FunnelWriteConvert(f, data)
           IN  /\ x \in FunnelRec /\ x.buf = f.buf /\ SameAs(f, x)
               /\ Sent(x, p \o data)
<1> DEFINE conv == IF f.first /\ f.conv = "auto" THEN Fun!DetermineConversion(data, f.to)
                   ELSE f.conv
           start == [f EXCEPT !.first = FALSE, !.conv = conv]
           n == Len(data)
           Step(d, i) == Fun!convertChar(d, data[i])
           S == FunnelRec
           step == [z \in S \X (1 .. n) |-> Step(z[1], z[2])]
           G == CHOOSE g : g = [i \in 0 .. n |-> IF i = 0 THEN start ELSE Step(g[i-1], i)]
           x == Fun!FunnelWriteConvert(f, data)
           q(i) == p \o SubSeq(data, 1, i)
<1>1. n \in Nat /\ \A i \in 1 .. n : data[i] \in Chars
  OBVIOUS
<1>2. conv \in {"on", "off"} /\ (f.conv # "auto" => conv = f.conv)
  <2>1. Fun!DetermineConversion(data, f.to) \in {"on", "off"}
    BY DEF Fun!DetermineConversion
  <2>2. f.conv = "auto" => f.first
    BY DEF Sent
  <2>3. f.conv \in {"on", "off", "auto"}
    BY DEF FunnelRec
  <2> QED BY <2>1, <2>2, <2>3
<1>3. x = IF conv = "off" THEN [start EXCEPT !.out = @ \o data] ELSE G[n]
  BY DEF Fun!FunnelWriteConvert
<1> HIDE DEF conv
<1>4. start \in FunnelRec /\ start.buf = f.buf /\ start.to = f.to /\ start.conv = conv
      /\ start.out = f.out /\ start.lastCR = f.lastCR
  BY <1>2 DEF FunnelRec
<1>5. Sent(start, p)
  <2> DEFINE none == <<>>
  <2>1. f.conv = "auto" => p = none /\ f.out = none
    BY DEF Sent
  <2>2. f.conv \in {"on", "off", "auto"}
    BY DEF FunnelRec
  <2> QED BY <1>2, <1>4, <2>1, <2>2 DEF Sent
<1>6. SameAs(f, start)
  BY <1>2, <1>4 DEF SameAs
<1> HIDE DEF start
<1>7. CASE conv = "off"
  <2> DEFINE more == start.out \o data
  <2>1. x = [start EXCEPT !.out = more]
    BY <1>3, <1>7
  <2>2. start.out = p
    BY <1>4, <1>5, <1>7 DEF Sent
  <2>3. more \in Seq(Outs)
    <3>1. p \o data \in Seq(Chars)
      OBVIOUS
    <3>2. Chars \subseteq Outs
      BY DEF Outs
    <3>3. \A s : s \in Seq(Chars) => s \in Seq(Outs)
      BY <3>2
    <3> QED BY <2>2, <3>1, <3>3
  <2> HIDE DEF more, x
  <2>4. x \in FunnelRec /\ x.buf = start.buf /\ x.to = start.to /\ x.conv = "off" /\ x.out = more
    BY <1>4, <1>7, <2>1, <2>3 DEF FunnelRec
  <2>5. Sent(x, p \o data)
    BY <2>2, <2>4 DEF Sent, more
  <2> QED BY <1>4, <1>6, <1>7, <2>4, <2>5 DEF SameAs, x
<1>8. CASE conv # "off"
  <2>1. conv = "on" /\ x = G[n]
    BY <1>2, <1>3, <1>8
  <2>2. \A d \in S, i \in 1 .. n : Step(d, i) \in S
    BY <1>1, ConvertCharOK
  <2>3. step \in [S \X (1 .. n) -> S]
    <3> HIDE DEF Step, S
    <3> QED BY <2>2
  <2>4. \A d \in S, i \in 1 .. n : step[<<d, i>>] = Step(d, i)
    <3> HIDE DEF Step, S
    <3> QED OBVIOUS
  <2> HIDE DEF step, n
  <2>5. PICK g : IsLoop(g, n, S, start, step)
    <3> HIDE DEF S
    <3>1. start \in S
      BY <1>4 DEF S
    <3> QED BY <1>1, <2>3, <3>1, LoopExists
  <2>6. g = [i \in 0 .. n |-> IF i = 0 THEN start ELSE Step(g[i-1], i)]
    <3> HIDE DEF Step, S
    <3>1. g \in [0 .. n -> S] /\ g[0] = start
      BY <2>5 DEF IsLoop
    <3>2. \A i \in 1 .. n : g[i] = Step(g[i-1], i)
      <4> TAKE i \in 1 .. n
      <4>1. g[i-1] \in S
        BY <1>1, <3>1
      <4> QED BY <2>4, <2>5, <4>1 DEF IsLoop
    <3>3. \A i \in 0 .. n : g[i] = IF i = 0 THEN start ELSE Step(g[i-1], i)
      BY <1>1, <3>1, <3>2
    <3> QED BY <3>1, <3>3
  <2>7. G = [i \in 0 .. n |-> IF i = 0 THEN start ELSE Step(G[i-1], i)]
    <3> HIDE DEF Step
    <3> QED BY <2>6
  <2> HIDE DEF G
  <2>8. G[0] = start /\ \A i \in 1 .. n : G[i] = Step(G[i-1], i)
    <3> HIDE DEF Step
    <3> QED BY <1>1, <2>7
  <2> DEFINE Good(d, i) == d \in FunnelRec /\ d.buf = f.buf /\ d.to = f.to /\ d.conv = conv
                           /\ Sent(d, q(i))
  <2>9. /\ q(0) = p /\ q(n) = p \o data /\ \A i \in 0 .. n : q(i) \in Seq(Chars)
        /\ \A i \in 1 .. n : q(i) = Append(q(i - 1), data[i])
    <3>1. q(0) = p /\ q(n) = p \o data
      BY NoneAndAll DEF n
    <3>2. \A i \in 0 .. n : q(i) \in Seq(Chars)
      BY DEF n
    <3>3. \A i \in 1 .. n : q(i) = Append(q(i - 1), data[i])
      <4> TAKE i \in 1 .. n
      <4>1. i \in 1 .. Len(data)
        BY DEF n
      <4> QED BY <4>1, OneMore
    <3> QED BY <3>1, <3>2, <3>3
  <2> HIDE DEF q
  <2>10. Good(G[0], 0)
    BY <1>4, <1>5, <2>8, <2>9
  <2>11. \A i \in 1 .. n : Good(G[i - 1], i - 1) => Good(G[i], i)
    <3> SUFFICES ASSUME NEW i \in 1 .. n, Good(G[i - 1], i - 1) PROVE Good(G[i], i)
      OBVIOUS
    <3> DEFINE d == G[i - 1]   c == data[i]   o == q(i - 1)   y == Fun!convertChar(d, c)
    <3>1. i - 1 \in 0 .. n
      BY <1>1
    <3>2. d \in FunnelRec /\ d.buf = f.buf /\ d.to = f.to /\ d.conv = "on" /\ Sent(d, o)
      BY <2>1
    <3>3. c \in Chars /\ o \in Seq(Chars) /\ q(i) = Append(o, c) /\ G[i] = y
      BY <1>1, <2>8, <2>9, <3>1
    <3> HIDE DEF d, c, o
    <3>4. y \in FunnelRec /\ y.buf = d.buf /\ y.to = d.to /\ y.conv = d.conv
          /\ Sent(y, Append(o, c))
      BY <3>2, <3>3, ConvertCharOK
    <3> HIDE DEF y
    <3> QED BY <2>1, <3>2, <3>3, <3>4
  <2> HIDE DEF Good
  <2> DEFINE T == {i \in 0 .. n : Good(G[i], i)}
  <2>12. \A i \in 0 .. n : i \in T
    <3>1. 0 \in T
      BY <1>1, <2>10
    <3>2. \A i \in 0 .. n - 1 : i \in T => i + 1 \in T
      <4> TAKE i \in 0 .. n - 1
      <4>1. i + 1 \in 1 .. n /\ (i + 1) - 1 = i /\ i + 1 \in 0 .. n
        BY <1>1
      <4> DEFINE j == i + 1
      <4>2. j \in 1 .. n /\ j - 1 = i /\ j \in 0 .. n
        BY <4>1
      <4> HIDE DEF j
      <4>3. Good(G[i], i) => Good(G[j], j)
        BY <2>11, <4>2
      <4> QED BY <4>2, <4>3 DEF j
    <3> HIDE DEF T
    <3> QED BY <1>1, <3>1, <3>2, UpTo
  <2>13. Good(x, n)
    BY <1>1, <2>1, <2>12
  <2> HIDE DEF x
  <2>14. x \in FunnelRec /\ x.buf = f.buf /\ x.to = f.to /\ x.conv = conv /\ Sent(x, q(n))
    BY <2>13 DEF Good
  <2> QED BY <1>2, <2>9, <2>14 DEF SameAs, x
<1> QED BY <1>7, <1>8

(* The buffer is emptied.                                                  *)
LEMMA FlushOK ==
    ASSUME NEW f, NEW g \in Seq(Chars), Holds(f, g)
    PROVE  LET x == Fun!FunnelFlush(f)
           IN  x \in FunnelRec /\ x.buf = <<>> /\ SameAs(f, x) /\ Sent(x, g)
<1> DEFINE x == Fun!FunnelFlush(f)   y == Fun!FunnelWriteConvert(f, f.buf)   none == <<>>
<1>1. f \in FunnelRec
  BY DEF Holds
<1>2. PICK p \in Seq(Chars) : g = p \o f.buf /\ Sent(f, p)
  BY DEF Holds
<1>3. f.buf \in Seq(Chars)
  BY <1>1 DEF FunnelRec
<1>4. CASE f.buf = <<>>
  <2>1. x = f
    BY <1>4 DEF Fun!FunnelFlush
  <2>2. g = p
    BY <1>2, <1>4
  <2> QED BY <1>1, <1>2, <1>4, <2>1, <2>2 DEF SameAs
<1>5. CASE f.buf # <<>>
  <2>1. x = [y EXCEPT !.buf = none]
    BY <1>5 DEF Fun!FunnelFlush
  <2>2. y \in FunnelRec /\ SameAs(f, y) /\ Sent(y, g)
    BY <1>1, <1>2, <1>3, WriteConvertOK
  <2>3. none \in Seq(Chars)
    OBVIOUS
  <2> HIDE DEF y, x, none
  <2>4. x \in FunnelRec /\ x.buf = none /\ x.to = y.to /\ x.conv = y.conv /\ x.first = y.first
        /\ x.out = y.out /\ x.lastCR = y.lastCR
    BY <2>1, <2>2, <2>3 DEF FunnelRec
  <2>5. Sent(x, g) /\ SameAs(f, x)
    BY <2>2, <2>4 DEF Sent, SameAs
  <2> QED BY <2>4, <2>5 DEF x, none
<1> QED BY <1>4, <1>5

(* A piece is written to the funnel.                                       *)
LEMMA WriteOK ==
    ASSUME NEW f, NEW g \in Seq(Chars), Holds(f, g), NEW data \in Seq(Chars)
    PROVE  Holds(Fun!FunnelWrite(f, data), g \o data) /\ SameAs(f, Fun!FunnelWrite(f, data))
<1> DEFINE x == Fun!FunnelWrite(f, data)   y == Fun!FunnelFlush(f)
           z == Fun!FunnelWriteConvert(y, data)   none == <<>>
<1>1. f \in FunnelRec
  BY DEF Holds
<1>2. PICK p \in Seq(Chars) : g = p \o f.buf /\ Sent(f, p)
  BY DEF Holds
<1>3. f.buf \in Seq(Chars)
  BY <1>1 DEF FunnelRec
<1>4. y \in FunnelRec /\ y.buf = none /\ SameAs(f, y) /\ Sent(y, g)
  BY FlushOK
<1>5. CASE Len(f.buf) + Len(data) < FunnelBufSize
  <2> DEFINE more == f.buf \o data
  <2>1. x = [f EXCEPT !.buf = more]
    BY <1>5 DEF Fun!FunnelWrite
  <2>2. more \in Seq(Chars)
    BY <1>3
  <2>3. g \o data = p \o more
    <3> DEFINE b == f.buf
    <3>1. b \in Seq(Chars) /\ g = p \o b
      BY <1>2, <1>3
    <3> HIDE DEF b
    <3>2. (p \o b) \o data = p \o (b \o data)
      BY <3>1
    <3> QED BY <3>1, <3>2 DEF b
  <2> HIDE DEF more, x
  <2>4. x \in FunnelRec /\ x.buf = more /\ x.to = f.to /\ x.conv = f.conv /\ x.first = f.first
        /\ x.out = f.out /\ x.lastCR = f.lastCR
    BY <1>1, <2>1, <2>2 DEF FunnelRec
  <2>5. Sent(x, p) /\ SameAs(f, x)
    BY <1>2, <2>4 DEF Sent, SameAs
  <2>6. \E r \in Seq(Chars) : g \o data = r \o x.buf /\ Sent(x, r)
    BY <2>3, <2>4, <2>5
  <2> QED BY <2>4, <2>5, <2>6 DEF Holds, x
<1>6. CASE ~(Len(f.buf) + Len(data) < FunnelBufSize) /\ Len(data) >= FunnelBufSize \div 4
  <2>1. x = z
    BY <1>6 DEF Fun!FunnelWrite
  <2> HIDE DEF y, none
  <2>2. z \in FunnelRec /\ z.buf = y.buf /\ SameAs(y, z) /\ Sent(z, g \o data)
    BY <1>4, WriteConvertOK
  <2>3. (g \o data) \o none = g \o data /\ g \o data \in Seq(Chars)
    BY DEF none
  <2> HIDE DEF z
  <2>4. SameAs(f, z)
    BY <1>4, <2>2 DEF SameAs
  <2>5. Holds(z, g \o data)
    BY <1>4, <2>2, <2>3 DEF Holds
  <2> HIDE DEF x
  <2> QED BY <2>1, <2>4, <2>5 DEF x
<1>7. CASE ~(Len(f.buf) + Len(data) < FunnelBufSize) /\ ~(Len(data) >= FunnelBufSize \div 4)
  <2>1. x = [y EXCEPT !.buf = data]
    BY <1>7 DEF Fun!FunnelWrite
  <2> HIDE DEF x, y
  <2>2. x \in FunnelRec /\ x.buf = data /\ x.to = y.to /\ x.conv = y.conv /\ x.first = y.first
        /\ x.out = y.out /\ x.lastCR = y.lastCR
    BY <1>4, <2>1 DEF FunnelRec
  <2>3. Sent(x, g) /\ SameAs(f, x)
    BY <1>4, <2>2 DEF Sent, SameAs
  <2>4. Holds(x, g \o data)
    BY <2>2, <2>3 DEF Holds
  <2> QED BY <2>3, <2>4 DEF x
<1> QED BY <1>5, <1>6, <1>7

(* Character by character.                                                 *)
LEMMA WriteEachOK ==
    ASSUME NEW f, NEW p \in Seq(Chars), Holds(f, p), NEW data \in Seq(Chars)
    PROVE  /\ Holds(Fun!FunnelWriteEach(f, data), p \o data)
           /\ SameAs(f, Fun!FunnelWriteEach(f, data))
<1> DEFINE n == Len(data)
           Step(d, i) == Fun!FunnelWrite(d, <<data[i]>>)
           S == {d \in FunnelRec : \E o \in Seq(Chars) : Holds(d, o)}
           step == [z \in S \X (1 .. n) |-> Step(z[1], z[2])]
           G == CHOOSE g : g = [i \in 0 .. n |-> IF i = 0 THEN f ELSE Step(g[i-1], i)]
           q(i) == p \o SubSeq(data, 1, i)
<1>1. n \in Nat /\ \A i \in 1 .. n : data[i] \in Chars
  OBVIOUS
<1>2. ASSUME NEW d, NEW o \in Seq(Chars), Holds(d, o), NEW i \in 1 .. n
      PROVE  /\ Holds(Step(d, i), Append(o, data[i])) /\ SameAs(d, Step(d, i))
             /\ Append(o, data[i]) \in Seq(Chars)
  <2> DEFINE c == data[i]   one == <<c>>
  <2>1. c \in Chars
    BY <1>1
  <2> HIDE DEF c
  <2>2. one \in Seq(Chars) /\ o \o one = Append(o, c) /\ Append(o, c) \in Seq(Chars)
    BY <2>1
  <2> HIDE DEF one
  <2>3. Holds(Fun!FunnelWrite(d, one), o \o one) /\ SameAs(d, Fun!FunnelWrite(d, one))
    BY <1>2, <2>2, WriteOK
  <2>4. Step(d, i) = Fun!FunnelWrite(d, one)
    BY DEF one, c
  <2>5. Append(o, data[i]) = Append(o, c)
    BY DEF c
  <2> HIDE DEF Step
  <2> QED BY <2>2, <2>3, <2>4, <2>5
<1>3. \A d \in S, i \in 1 .. n : Step(d, i) \in S
  <2> TAKE d \in S, i \in 1 .. n
  <2>1. PICK o \in Seq(Chars) : Holds(d, o)
    OBVIOUS
  <2> HIDE DEF Step, n
  <2>2. Holds(Step(d, i), Append(o, data[i])) /\ Append(o, data[i]) \in Seq(Chars)
    BY <1>2, <2>1
  <2>3. Step(d, i) \in FunnelRec
    BY <2>2 DEF Holds
  <2> QED BY <2>2, <2>3
<1>4. f \in S
  BY DEF Holds
<1>5. step \in [S \X (1 .. n) -> S]
  <2> HIDE DEF Step, S
  <2> QED BY <1>3
<1>6. \A d \in S, i \in 1 .. n : step[<<d, i>>] = Step(d, i)
  <2> HIDE DEF Step, S
  <2> QED OBVIOUS
<1> HIDE DEF step, n, S, Step
<1>7. PICK g : IsLoop(g, n, S, f, step)
  BY <1>1, <1>4, <1>5, LoopExists
<1>8. g = [i \in 0 .. n |-> IF i = 0 THEN f ELSE Step(g[i-1], i)]
  <2>1. g \in [0 .. n -> S] /\ g[0] = f
    BY <1>7 DEF IsLoop
  <2>2. \A i \in 1 .. n : g[i] = Step(g[i-1], i)
    <3> TAKE i \in 1 .. n
    <3>1. g[i-1] \in S
      BY <1>1, <2>1
    <3> QED BY <1>6, <1>7, <3>1 DEF IsLoop
  <2>3. \A i \in 0 .. n : g[i] = IF i = 0 THEN f ELSE Step(g[i-1], i)
    BY <1>1, <2>1, <2>2
  <2> QED BY <2>1, <2>3
<1>9. G = [i \in 0 .. n |-> IF i = 0 THEN f ELSE Step(G[i-1], i)]
  BY <1>8
<1>10. Fun!FunnelWriteEach(f, data) = G[n]
  BY DEF Fun!FunnelWriteEach, n, Step
<1> HIDE DEF G
<1>11. G[0] = f /\ \A i \in 1 .. n : G[i] = Step(G[i-1], i)
  BY <1>1, <1>9
<1>12. /\ q(0) = p /\ q(n) = p \o data /\ \A i \in 0 .. n : q(i) \in Seq(Chars)
       /\ \A i \in 1 .. n : q(i) = Append(q(i - 1), data[i])
  <2>1. q(0) = p /\ q(n) = p \o data
    BY NoneAndAll DEF n
  <2>2. \A i \in 0 .. n : q(i) \in Seq(Chars)
    BY DEF n
  <2>3. \A i \in 1 .. n : q(i) = Append(q(i - 1), data[i])
    <3> TAKE i \in 1 .. n
    <3>1. i \in 1 .. Len(data)
      BY DEF n
    <3> QED BY <3>1, OneMore
  <2> QED BY <2>1, <2>2, <2>3
<1> HIDE DEF q
<1> DEFINE Good(d, i) == Holds(d, q(i)) /\ SameAs(f, d)
<1>13. Good(G[0], 0)
  BY <1>11, <1>12 DEF SameAs
<1>14. \A i \in 1 .. n : Good(G[i - 1], i - 1) => Good(G[i], i)
  <2> SUFFICES ASSUME NEW i \in 1 .. n, Good(G[i - 1], i - 1) PROVE Good(G[i], i)
    OBVIOUS
  <2> DEFINE d == G[i - 1]   o == q(i - 1)   y == Step(d, i)
  <2>1. i - 1 \in 0 .. n
    BY <1>1
  <2>2. Holds(d, o) /\ SameAs(f, d) /\ o \in Seq(Chars)
    BY <1>12, <2>1
  <2>3. q(i) = Append(o, data[i]) /\ G[i] = y
    BY <1>11, <1>12
  <2> HIDE DEF d, o
  <2>4. Holds(y, Append(o, data[i])) /\ SameAs(d, y)
    BY <1>2, <2>2
  <2> HIDE DEF y
  <2>5. SameAs(f, y)
    BY <2>2, <2>4 DEF SameAs
  <2> QED BY <2>3, <2>4, <2>5
<1> HIDE DEF Good
<1> DEFINE T == {i \in 0 .. n : Good(G[i], i)}
<1>15. \A i \in 0 .. n : i \in T
  <2>1. 0 \in T
    BY <1>1, <1>13
  <2>2. \A i \in 0 .. n - 1 : i \in T => i + 1 \in T
    <3> TAKE i \in 0 .. n - 1
    <3>1. i + 1 \in 1 .. n /\ (i + 1) - 1 = i /\ i + 1 \in 0 .. n
      BY <1>1
    <3> DEFINE j == i + 1
    <3>2. j \in 1 .. n /\ j - 1 = i /\ j \in 0 .. n
      BY <3>1
    <3> HIDE DEF j
    <3>3. Good(G[i], i) => Good(G[j], j)
      BY <1>14, <3>2
    <3> QED BY <3>2, <3>3 DEF j
  <2> HIDE DEF T
  <2> QED BY <1>1, <2>1, <2>2, UpTo
<1>16. Good(G[n], n)
  BY <1>1, <1>15
<1> QED BY <1>10, <1>12, <1>16 DEF Good

(* A new funnel holds nothing.                                             *)
LEMMA FunnelNewOK ==
    ASSUME NEW conv \in {"on", "off", "auto"}, NEW to \in Ends
    PROVE  LET x == Fun!FunnelNew(conv, to)
           IN  Holds(x, <<>>) /\ x.conv = conv /\ x.to = to
<1> DEFINE x == Fun!FunnelNew(conv, to)   t == <<>>
<1>1. x = [buf |-> t, first |-> TRUE, conv |-> conv, to |-> to, lastCR |-> FALSE, out |-> t]
  BY DEF Fun!FunnelNew
<1>2. t \in Seq(Chars) /\ t \in Seq(Outs) /\ t \o t = t
  OBVIOUS
<1>3. Fun!Converted(t, to) = t /\ ~EndsOnCR(t)
  BY ConvertedNone DEF EndsOnCR
<1> HIDE DEF x
<1>4. x \in FunnelRec /\ x.buf = t /\ x.first /\ x.conv = conv /\ x.to = to /\ ~x.lastCR
      /\ x.out = t
  <2> HIDE DEF t
  <2> QED BY <1>1, <1>2 DEF FunnelRec
<1>5. Sent(x, t)
  BY <1>3, <1>4 DEF Sent
<1>6. Holds(x, t)
  <2>1. t = t \o x.buf
    BY <1>2, <1>4
  <2> HIDE DEF t
  <2> QED BY <1>2, <1>4, <1>5, <2>1 DEF Holds
<1> QED BY <1>4, <1>6 DEF x

(* As the sink asked for.                                                  *)
Asked(f) == f.to = job.to /\ (job.conv # "auto" => f.conv = job.conv)

(* The funnel has all that was given, and at the end sent it on.           *)
FunnelInv ==
    pc \notin Compressing \cup Written =>
        /\ Holds(funnel, given) /\ Asked(funnel)
        /\ pc \in {"copy", "unsq", "unlzc"} => given = <<>>
        /\ pc = "done" => funnel.buf = <<>>

(* Every step.                                                             *)
LEMMA FunnelStep ==
    ASSUME CodecInv, GivenInv, GivenInv', FunnelInv, [Next]_vars
    PROVE  FunnelInv'
<1>1. JobInv /\ IdleInv /\ given \in Seq(Chars) /\ given' \in Seq(Chars)
  BY DEF CodecInv, GivenInv
<1>2. /\ job.conv \in {"on", "off", "auto"} /\ job.to \in Ends
  BY <1>1, JobFacts DEF JobInv, Ends
<1>3. CASE Compress
  <2>1. pc' \in Compressing \cup Written
    BY <1>3 DEF Compress, Begin, Store, CompressLZWChunk, FinishLZW, CountSQ, ScaleSQ,
       BuildTreeSQ, CompressSQ, CompressLZC, Keep, FallBack, CopyRaw, Compressing, Written
  <2> QED BY <2>1 DEF FunnelInv
<1>4. CASE BeginExpand
  <2>1. /\ pc \in Written /\ job' = job /\ given' = given
        /\ funnel' = Fun!FunnelNew(job.conv, job.to) /\ pc' \in {"unlzw", "unsq", "unlzc", "copy"}
    BY <1>4 DEF BeginExpand, Written
  <2>2. given = <<>>
    BY <1>1, <2>1 DEF IdleInv
  <2> DEFINE x == Fun!FunnelNew(job.conv, job.to)
  <2>3. Holds(x, <<>>) /\ x.conv = job.conv /\ x.to = job.to
    BY <1>2, FunnelNewOK
  <2> HIDE DEF x
  <2>4. funnel' = x
    BY <2>1 DEF x
  <2> QED BY <2>1, <2>2, <2>3, <2>4 DEF FunnelInv, Asked
<1>5. ASSUME pc \in {"copy", "unsq", "unlzc"}, job' = job, pc' \in {"flush", "failed"},
             funnel' = Fun!FunnelWriteEach(funnel, given') \/ funnel' = Fun!FunnelWrite(funnel, given')
      PROVE  FunnelInv'
  <2>1. pc \notin Compressing \cup Written
    BY <1>5 DEF Compressing, Written
  <2>2. Holds(funnel, given) /\ Asked(funnel) /\ given = <<>>
    BY <1>5, <2>1 DEF FunnelInv
  <2> DEFINE data == given'   x == funnel'   w == Fun!FunnelWrite(funnel, data)
             e == Fun!FunnelWriteEach(funnel, data)
  <2>3. data \in Seq(Chars) /\ given \o data = data
    BY <1>1, <2>2
  <2>4. x = w \/ x = e
    BY <1>5
  <2> HIDE DEF data, x
  <2>5. Holds(w, data) /\ SameAs(funnel, w)
    BY <1>1, <2>2, <2>3, WriteOK
  <2>6. Holds(e, data) /\ SameAs(funnel, e)
    BY <1>1, <2>2, <2>3, WriteEachOK
  <2> HIDE DEF w, e
  <2>7. Holds(x, data) /\ SameAs(funnel, x)
    BY <2>4, <2>5, <2>6
  <2>8. x.to = job.to /\ (job.conv # "auto" => x.conv = job.conv)
    BY <2>2, <2>7 DEF SameAs, Asked
  <2> QED BY <1>5, <2>7, <2>8 DEF FunnelInv, Asked, x, data
<1>6. CASE ExpandUncompressed
  <2>1. /\ pc = "copy" /\ pc' = "flush" /\ job' = job
        /\ IF file = <<>> THEN UNCHANGED <<given, funnel>>
           ELSE funnel' = Fun!FunnelWrite(funnel, given')
    BY <1>6 DEF ExpandUncompressed, Deliver
  <2>2. CASE file = <<>>
    <3>1. pc \notin Compressing \cup Written /\ given' = given /\ funnel' = funnel
      BY <2>1, <2>2 DEF Compressing, Written
    <3> QED BY <2>1, <3>1 DEF FunnelInv, Asked
  <2>3. CASE file # <<>>
    BY <1>5, <2>1, <2>3
  <2> QED BY <2>2, <2>3
<1>7. CASE ExpandSQ \/ ExpandLZC
  <2>1. /\ pc \in {"unsq", "unlzc"} /\ pc' \in {"flush", "failed"} /\ job' = job
        /\ funnel' = Fun!FunnelWriteEach(funnel, given')
    BY <1>7 DEF ExpandSQ, ExpandLZC, Deliver, Fail
  <2> QED BY <1>5, <2>1
<1>8. CASE ExpandLZWChunk
  <2>1. /\ pc = "unlzw" /\ pc' \in {"unlzw", "failed"} /\ job' = job
        /\ \/ UNCHANGED <<given, funnel>>
           \/ \E part \in Seq(Chars) :
                 given' = given \o part /\ funnel' = Fun!FunnelWrite(funnel, part)
    <3>1. pc = "unlzw" /\ job' = job
      BY <1>8 DEF ExpandLZWChunk
    <3> QED BY <1>8, <3>1, ChunkGives
  <2>2. pc \notin Compressing \cup Written
    BY <2>1 DEF Compressing, Written
  <2>3. Holds(funnel, given) /\ Asked(funnel)
    BY <2>2 DEF FunnelInv
  <2>4. CASE UNCHANGED <<given, funnel>>
    BY <2>1, <2>3, <2>4 DEF FunnelInv, Asked
  <2>5. CASE \E part \in Seq(Chars) :
                   given' = given \o part /\ funnel' = Fun!FunnelWrite(funnel, part)
    <3>1. PICK part \in Seq(Chars) :
                   given' = given \o part /\ funnel' = Fun!FunnelWrite(funnel, part)
      BY <2>5
    <3> DEFINE x == Fun!FunnelWrite(funnel, part)
    <3>2. Holds(x, given \o part) /\ SameAs(funnel, x)
      BY <1>1, <2>3, WriteOK
    <3> HIDE DEF x
    <3>3. funnel' = x
      BY <3>1 DEF x
    <3>4. x.to = job.to /\ (job.conv # "auto" => x.conv = job.conv)
      BY <2>3, <3>2 DEF SameAs, Asked
    <3> QED BY <2>1, <3>1, <3>2, <3>3, <3>4 DEF FunnelInv, Asked
  <2> QED BY <2>1, <2>4, <2>5
<1>9. CASE FinishUnLZW
  <2>1. /\ pc = "unlzw" /\ pc' \in {"flush", "failed"} /\ UNCHANGED <<job, given, funnel>>
    BY <1>9 DEF FinishUnLZW, Fail
  <2>2. pc \notin Compressing \cup Written
    BY <2>1 DEF Compressing, Written
  <2> QED BY <2>1, <2>2 DEF FunnelInv, Asked
<1>10. CASE FinishExpand
  <2>1. /\ pc = "flush" /\ pc' \in {"done", "failed"} /\ UNCHANGED <<job, given>>
        /\ funnel' = Fun!FunnelFlush(funnel)
    BY <1>10 DEF FinishExpand, Fail
  <2>2. pc \notin Compressing \cup Written
    BY <2>1 DEF Compressing, Written
  <2>3. Holds(funnel, given) /\ Asked(funnel)
    BY <2>2 DEF FunnelInv
  <2> DEFINE x == Fun!FunnelFlush(funnel)   none == <<>>
  <2>4. x \in FunnelRec /\ x.buf = none /\ SameAs(funnel, x) /\ Sent(x, given)
    BY <1>1, <2>3, FlushOK
  <2>5. funnel' = x
    BY <2>1
  <2>6. given \o none = given
    BY <1>1
  <2> HIDE DEF x
  <2>7. Holds(x, given)
    BY <1>1, <2>4, <2>6 DEF Holds
  <2>8. x.to = job.to /\ (job.conv # "auto" => x.conv = job.conv)
    BY <2>3, <2>4 DEF SameAs, Asked
  <2> QED BY <2>1, <2>4, <2>5, <2>7, <2>8 DEF FunnelInv, Asked
<1>11. CASE UNCHANGED vars
  BY <1>11 DEF vars, FunnelInv, Asked
<1>12. CASE Expand
  BY <1>4, <1>6, <1>7, <1>8, <1>9, <1>10, <1>12 DEF Expand
<1> QED BY <1>3, <1>11, <1>12 DEF Next, Over

(* Everything that was given to the funnel is sent on in the end, however  *)
(* it was cut into pieces: as it was, or with every line end converted.     *)
THEOREM LineEndsHold == Spec => []LineEnds
<1>1. Init => FunnelInv
  BY DEF Init, FunnelInv, Compressing
<1>2. CodecInv /\ GivenInv /\ GivenInv' /\ FunnelInv /\ [Next]_vars => FunnelInv'
  BY FunnelStep
<1>3. CodecInv /\ GivenInv /\ FunnelInv => LineEnds
  <2> SUFFICES ASSUME CodecInv, GivenInv, FunnelInv PROVE LineEnds
    OBVIOUS
  <2>1. JobInv /\ IdleInv /\ job.conv \in {"on", "off", "auto"}
    BY JobFacts DEF CodecInv, JobInv
  <2>2. CASE pc \in Compressing \cup Written
    <3>1. funnel = <<>> /\ pc # "done"
      BY <2>1, <2>2 DEF IdleInv, Compressing, Written
    <3> QED BY <3>1 DEF LineEnds
  <2>3. CASE pc \notin Compressing \cup Written
    <3>1. Holds(funnel, given) /\ Asked(funnel) /\ (pc = "done" => funnel.buf = <<>>)
      BY <2>3 DEF FunnelInv
    <3>2. PICK p \in Seq(Chars) : given = p \o funnel.buf /\ Sent(funnel, p)
      BY <3>1 DEF Holds
    <3>3. job.conv = "off" => funnel.out \o funnel.buf = given
      <4> HAVE job.conv = "off"
      <4>1. funnel.conv = "off"
        BY <3>1 DEF Asked
      <4>2. funnel.out = p
        BY <3>2, <4>1 DEF Sent
      <4> QED BY <3>2, <4>2
    <3>4. ASSUME pc = "done"
          PROVE  /\ funnel.buf = <<>>
                 /\ job.conv = "on" => funnel.out = Fun!Converted(given, job.to)
                 /\ job.conv = "auto" => funnel.out \in {given, Fun!Converted(given, job.to)}
      <4>1. funnel.buf = <<>> /\ p \o <<>> = p
        BY <3>1, <3>4
      <4>2. given = p
        BY <3>2, <4>1
      <4>3. funnel.conv \in {"on", "off", "auto"} /\ funnel.to = job.to
        BY <3>1 DEF Holds, FunnelRec, Asked
      <4>4. funnel.out \in {p, Fun!Converted(p, job.to)}
        BY <3>2, <4>3 DEF Sent
      <4>5. job.conv = "on" => funnel.out = Fun!Converted(p, job.to)
        BY <3>1, <3>2, <4>3 DEF Sent, Asked
      <4> QED BY <4>1, <4>2, <4>4, <4>5
    <3> QED BY <3>3, <3>4 DEF LineEnds
  <2> QED BY <2>2, <2>3
<1> QED BY <1>1, <1>2, <1>3, CodecInvariance, GivenInvariance, PTL DEF Spec
=============================================================================
