------------------------------- MODULE NuLzw -------------------------------
(***************************************************************************)
(* The ShrinkIt compressor of nufxlib/Lzw.c: run-length encoding followed  *)
(* by LZW, one block of BlockSize characters at a time.  LZW/1 starts every *)
(* block with an empty table, LZW/2 carries the table from block to block. *)
(* The widths are parameters: 8-bit characters, 9- to 12-bit codes and 4K  *)
(* blocks in the code.  A compressed block is the sequence of its codes,    *)
(* each with the width it is written in; its bits are not modelled, a code *)
(* read in another width than it was written in is garbage.                *)
(***************************************************************************)
EXTENDS Integers, Sequences, SequencesExt

CONSTANTS
    CharBits,       \* bits of a character (8)
    MaxBits,        \* widest code (12)
    StopCode,       \* kNuLZW2StopCode (0xffd), the last code handed out
    BlockSize,      \* kNuLZWBlockSize (4096)
    Escape,         \* kNuRLEDefaultEscape (0xdb)
    MinRun,         \* longest run that is left alone (3)
    FieldSize       \* characters a 16-bit length takes in the file (2)

Chars == 0 .. 2^CharBits - 1

\* What the constants have to be; assumed by NuCodec.
LzwAssumption ==
    /\ CharBits \in Nat \ {0} /\ MaxBits \in Nat /\ MaxBits > CharBits
    /\ StopCode \in 2^CharBits + 1 .. 2^MaxBits - 2
    /\ BlockSize \in Nat \ {0} /\ MinRun \in Nat /\ FieldSize \in 1 .. 2
    /\ Escape \in Chars
    \* a block that fills the table has not become smaller
    /\ (StopCode - 2^CharBits) * (CharBits + 2) - 2^CharBits >= BlockSize * CharBits

ClearCode == 2^CharBits
FirstCode == ClearCode + 1
MaxRun    == 2^CharBits     \* a count is written less one in one character
NoCode    == -1

(***************************************************************************)
(* Run-length encoding.                                                    *)
(***************************************************************************)
Copies(c, n) == [i \in 1 .. n |-> c]

\* The runs of equal characters of s, as <<character, length>>.
Runs(s) ==
    LET upTo[i \in 0 .. Len(s)] ==
            IF i = 0 THEN <<>>
            ELSE LET runs == upTo[i - 1]
                 IN  IF i > 1 /\ s[i] = s[i - 1]
                     THEN [runs EXCEPT ![Len(runs)][2] = @ + 1]
                     ELSE Append(runs, <<s[i], 1>>)
    IN  upTo[Len(s)]

\* A run is written <<Escape, character, length - 1>> when that is shorter and
\* when the character is Escape itself.  What is left over of a run longer
\* than MaxRun is written out when it is short, escapes included.
EncodeRun(c, n) ==
    LET full == IF n > MaxRun THEN (n - 1) \div MaxRun ELSE 0
        rest == n - full * MaxRun
        Triple(k) == <<Escape, c, k - 1>>
    IN  FlattenSeq([i \in 1 .. full |-> Triple(MaxRun)])
        \o (IF rest > MinRun \/ (full = 0 /\ c = Escape)
            THEN Triple(rest) ELSE Copies(c, rest))

CompressBlockRLE(block) ==
    LET runs == Runs(block)
    IN  FlattenSeq([i \in DOMAIN runs |-> EncodeRun(runs[i][1], runs[i][2])])

\* What the encoded characters stand for, <<NoCode>> where an escape is cut
\* off by their end.  The code stops at a full block; as every character of
\* the input adds to the output, input and output come out even exactly when
\* the whole of the input makes one block.
ExpandRLE(in) ==
    LET from[i \in 1 .. Len(in) + 3] ==
            IF i > Len(in) THEN <<>>
            ELSE IF in[i] # Escape THEN <<in[i]>> \o from[i + 1]
            ELSE IF i + 2 > Len(in) THEN <<NoCode>>
            ELSE Copies(in[i + 1], in[i + 2] + 1) \o from[i + 3]
    IN  from[1]

RLEMadeBlockUnchecked(out) == Len(out) = BlockSize   \* mutant: a cut escape passes
RLEMadeBlock(out) == Len(out) = BlockSize /\ \A i \in DOMAIN out : out[i] # NoCode

(***************************************************************************)
(* LZW compression: the table as kept from one block to the next, and the  *)
(* state of the loop over the characters of a block.                       *)
(***************************************************************************)
ClearedTable ==
    [table |-> <<>>, nextFree |-> FirstCode, codeBits |-> CharBits + 1,
     highCode |-> 2^(CharBits + 1) - 1, initialClear |-> FALSE]

\* A table with one code more (not TLC's @@ and :>, which the proof system does
\* not know).
Entered(table, code, entry) ==
    [k \in DOMAIN table \cup {code} |-> IF k = code THEN entry ELSE table[k]]

Working(s, codes) ==
    [table |-> s.table, nextFree |-> s.nextFree, codeBits |-> s.codeBits,
     highCode |-> s.highCode, initialClear |-> s.initialClear,
     prefix |-> NoCode, codes |-> codes, full |-> FALSE]

PutCode(w, code) == [w EXCEPT !.codes = Append(@, <<code, w.codeBits>>)]

Widened(w, code) ==
    IF code >= w.highCode
    THEN [w EXCEPT !.highCode = @ + code + 1, !.codeBits = @ + 1]
    ELSE w

Restart(w) == Working(ClearedTable, PutCode(w, ClearCode).codes)

\* The string read so far followed by c is not in the table.
NewCode(w, c) ==
    LET code  == w.nextFree
        added == [Widened(PutCode(w, w.prefix), code) EXCEPT
                    !.table = Entered(@, code, <<w.prefix, c>>),
                    !.nextFree = @ + 1, !.prefix = c]
    IN  IF code = StopCode THEN [PutCode(added, c) EXCEPT !.full = TRUE] ELSE added

CompressChar(w, c) ==
    LET found == {k \in DOMAIN w.table : w.table[k] = <<w.prefix, c>>}
    IN  IF w.full THEN [Restart(w) EXCEPT !.prefix = c]
        ELSE IF w.prefix = NoCode THEN [w EXCEPT !.prefix = c]
        ELSE IF found # {} THEN [w EXCEPT !.prefix = CHOOSE k \in found : TRUE]
        ELSE NewCode(w, c)

\* mutant: no code is left for the expander's entry
EndBlockUnreserved(w) ==
    LET last == Widened(PutCode(w, w.prefix), w.nextFree)
    IN  IF w.full THEN [w EXCEPT !.initialClear = TRUE]
        ELSE [last EXCEPT !.initialClear = w.nextFree > StopCode]

\* The last string is written; the code after it is left for the entry the
\* expander makes of it.  A table that is full then is cleared by the next block.
EndBlock(w) ==
    LET last == Widened(PutCode(w, w.prefix), w.nextFree)
    IN  IF w.full THEN [w EXCEPT !.initialClear = TRUE]
        ELSE [last EXCEPT !.nextFree = @ + 1,
                          !.initialClear = w.nextFree + 1 > StopCode]

CompressLZWBlock(s, data) ==
    LET start == IF s.initialClear THEN Restart(Working(s, <<>>))
                 ELSE Working(s, <<>>)
        after[i \in 0 .. Len(data)] ==
            IF i = 0 THEN start ELSE CompressChar(after[i - 1], data[i])
    IN  EndBlock(after[Len(data)])

\* The characters the codes take in the file.
LzwSize(codes) ==
    LET bits[i \in 0 .. Len(codes)] ==
            IF i = 0 THEN 0 ELSE bits[i - 1] + codes[i][2]
    IN  (bits[Len(codes)] + CharBits - 1) \div CharBits

Padded(block) == block \o Copies(0, BlockSize - Len(block))

ChunkHeader(type2, lzw) ==
    IF type2 THEN (IF lzw THEN 2 * FieldSize ELSE FieldSize) ELSE FieldSize + 1

\* mutant: LZW/1 is kept whatever its size
CompressChunkUnweighed(s, block, type2, mimic) ==
    LET rle  == CompressBlockRLE(Padded(block))
        in   == IF Len(rle) < BlockSize THEN rle ELSE Padded(block)
        w    == CompressLZWBlock(IF type2 THEN s ELSE ClearedTable, in)
        size == LzwSize(w.codes)
        keep == ~type2 \/ size < Len(in)
    IN  [chunk |-> [rleLen |-> Len(in), lzw |-> keep,
                    body |-> IF keep THEN w.codes ELSE in,
                    size |-> ChunkHeader(type2, keep)
                             + (IF keep THEN size ELSE Len(in))],
         table |-> IF keep /\ type2
                   THEN [f \in DOMAIN ClearedTable |-> w[f]] ELSE ClearedTable]

\* The outcome of one block: what goes to the file and the table kept.
CompressChunk(s, block, type2, mimic) ==
    LET rle  == CompressBlockRLE(Padded(block))
        in   == IF Len(rle) < BlockSize THEN rle ELSE Padded(block)
        w    == CompressLZWBlock(IF type2 THEN s ELSE ClearedTable, in)
        size == LzwSize(w.codes)
        keep == size + (IF type2 /\ ~mimic THEN FieldSize ELSE 0) < Len(in)
    IN  [chunk |-> [rleLen |-> Len(in), lzw |-> keep,
                    body |-> IF keep THEN w.codes ELSE in,
                    size |-> ChunkHeader(type2, keep)
                             + (IF keep THEN size ELSE Len(in))],
         table |-> IF keep /\ type2
                   THEN [f \in DOMAIN ClearedTable |-> w[f]] ELSE ClearedTable]

(***************************************************************************)
(* Expansion: the trie as kept from one LZW/2 chunk to the next.  Entries   *)
(* from before a clear are never read and are dropped with it.             *)
(***************************************************************************)
EmptyTrie == [trie |-> <<>>, entry |-> FirstCode, oldcode |-> 0, finalc |-> 0,
              resetFix |-> FALSE]

\* gNuBitWidth: the width of the next code, by the high part of entry + 1.
BitWidth(entry) ==
    LET high == (entry + 1) \div 2^CharBits
        bits == CHOOSE b \in 0 .. MaxBits : 2^b > high /\ (b = 0 \/ 2^(b - 1) <= high)
    IN  IF CharBits + bits > MaxBits THEN MaxBits ELSE CharBits + bits

StringOf(trie, code) ==
    LET str[k \in Chars \cup DOMAIN trie] ==
            IF k \in Chars THEN <<k>> ELSE Append(str[trie[k][1]], trie[k][2])
    IN  str[code]

ExpandCode(e, code, width, want) ==
    LET s == IF code = e.entry THEN Append(StringOf(e.trie, e.oldcode), e.finalc)
             ELSE StringOf(e.trie, code)
    IN  IF e.bad \/ width # BitWidth(e.entry) \/ Len(e.out) >= want
        THEN [e EXCEPT !.bad = TRUE]
        ELSE IF e.fresh /\ code >= ClearCode THEN [e EXCEPT !.bad = TRUE]
        ELSE IF e.fresh
        THEN [e EXCEPT !.out = Append(@, code), !.oldcode = code, !.finalc = code,
                       !.fresh = FALSE, !.resetFix = Len(e.out) + 1 = want]
        ELSE IF code = ClearCode /\ e.type2
        THEN [e EXCEPT !.trie = <<>>, !.entry = FirstCode, !.fresh = TRUE]
        ELSE IF code > e.entry \/ code = ClearCode THEN [e EXCEPT !.bad = TRUE]
        ELSE [e EXCEPT !.out = @ \o s, !.trie = Entered(@, e.entry, <<e.oldcode, s[1]>>),
                       !.entry = @ + 1, !.oldcode = code, !.finalc = s[1]]

\* A chunk of codes that must make want characters.
ExpandLZW(t, codes, want, type2) ==
    LET from  == IF type2 THEN t ELSE EmptyTrie
        start == [trie |-> from.trie, entry |-> from.entry, oldcode |-> from.oldcode,
                  finalc |-> from.finalc, resetFix |-> FALSE, out |-> <<>>, bad |-> FALSE,
                  type2 |-> type2, fresh |-> from.entry = FirstCode /\ ~from.resetFix]
        after[i \in 0 .. Len(codes)] ==
            IF i = 0 THEN start
            ELSE ExpandCode(after[i - 1], codes[i][1], codes[i][2], want)
        end   == after[Len(codes)]
    IN  [end EXCEPT !.bad = @ \/ Len(end.out) # want]

\* The outcome of one chunk: the block it holds, whether it is damaged, and
\* the trie kept.
ExpandChunk(t, chunk, type2) ==
    LET e   == ExpandLZW(t, chunk.body, chunk.rleLen, type2)
        in  == IF chunk.lzw THEN e.out ELSE chunk.body
        out == IF chunk.rleLen # BlockSize THEN ExpandRLE(in) ELSE in
        bad == (chunk.lzw /\ e.bad) \/ ~RLEMadeBlock(out)
    IN  [bad |-> bad, out |-> out,
         trie |-> IF chunk.lzw /\ ~bad THEN [f \in DOMAIN EmptyTrie |-> e[f]]
                  ELSE EmptyTrie]
=============================================================================
