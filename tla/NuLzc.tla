------------------------------- MODULE NuLzc -------------------------------
(***************************************************************************)
(* The compressor of UNIX compress as nufxlib/Lzc.c has it: one table for  *)
(* the whole source, emptied by a CLEAR code when it is full.  Codes are    *)
(* written in groups of CharBits codes (8 in the code), and a change of    *)
(* width fills up the group, so the reader has to see the change at the    *)
(* same group.  The compressor stops at MaxCode, which may be less than     *)
(* MaxBits bits can hold; the expander knows only MaxBits, from the header. *)
(***************************************************************************)
EXTENDS Integers, Sequences

CONSTANTS
    CharBits,       \* bits of a character (8), and codes of a group
    MaxBits,        \* widest code (12 or 16)
    MaxCode         \* Maxcode(maxbits): last code handed out

\* What the constants have to be; assumed by NuCodec.
LzcAssumption ==
    /\ CharBits \in Nat \ {0} /\ MaxBits \in Nat /\ MaxBits > CharBits
    /\ MaxCode \in 2^CharBits + 1 .. 2^MaxBits - 1

CLEAR     == 2^CharBits
FIRSTFREE == CLEAR + 1
INITBITS  == CharBits + 1
MagicSize == 3          \* two magic bytes and one for the width

(***************************************************************************)
(* Compression.                                                            *)
(***************************************************************************)
\* A table with one code more.
entered(table, code, entry) ==
    [k \in DOMAIN table \cup {code} |-> IF k = code THEN entry ELSE table[k]]

init_tables(w) == [w EXCEPT !.table = <<>>, !.nextfree = FIRSTFREE, !.bits = INITBITS,
                            !.highcode = 2^INITBITS - 1]

\* A code goes to the next slot of its group; another width starts a new one.
putcode(w, code) ==
    LET slot == IF w.bits = w.oldbits THEN w.offset ELSE 0
        left == IF w.bits # w.oldbits /\ w.offset > 0 THEN w.oldbits ELSE 0
    IN  [w EXCEPT !.codes = Append(@, <<code % 2^w.bits, w.bits, slot>>),
                  !.bytesOut = @ + left + (IF slot + 1 = CharBits THEN w.bits ELSE 0),
                  !.oldbits = w.bits,
                  !.offset = (slot + 1) % CharBits]

\* prefix followed by c is a new string: it gets a code while there are any,
\* and afterwards c is written by itself and the table cleared.
newcode(w, c) ==
    LET put  == putcode(w, w.prefix)
        code == w.nextfree
        wide == code > w.highcode
    IN  IF code <= MaxCode
        THEN [put EXCEPT !.table = entered(@, code, <<w.prefix, c>>),
                         !.nextfree = @ + 1, !.prefix = c,
                         !.bits = IF wide THEN @ + 1 ELSE @,
                         !.highcode = IF wide THEN @ + code ELSE @]
        ELSE [init_tables(putcode(putcode(put, c), CLEAR)) EXCEPT !.cleared = TRUE]

\* The next character of the source; the one after a clear is the new prefix.
compressChar(w, c) ==
    LET found == {k \in DOMAIN w.table : w.table[k] = <<w.prefix, c>>}
    IN  IF w.cleared THEN [w EXCEPT !.prefix = c, !.cleared = FALSE]
        ELSE IF found # {} THEN [w EXCEPT !.prefix = CHOOSE k \in found : TRUE]
        ELSE newcode(w, c)

\* The whole of the source.  The prefix is written at the end, also the one
\* of before the clear when the source ends with a clear.
LZC_compress(src) ==
    LET start == [table |-> <<>>, nextfree |-> FIRSTFREE, bits |-> INITBITS,
                  highcode |-> 2^INITBITS - 1, prefix |-> src[1], cleared |-> FALSE,
                  codes |-> <<>>, oldbits |-> 0, offset |-> 0, bytesOut |-> MagicSize]
        after[i \in 1 .. Len(src)] ==
            IF i = 1 THEN start ELSE compressChar(after[i - 1], src[i])
        end   == putcode(after[Len(src)], after[Len(src)].prefix)
    IN  [codes |-> end.codes,
         size |-> end.bytesOut
                  + (end.offset * end.oldbits + CharBits - 1) \div CharBits]

EndsOnClear(src) ==
    LET codes == LZC_compress(src).codes
    IN  Len(codes) > 1 /\ codes[Len(codes) - 1][1] = CLEAR

(***************************************************************************)
(* Expansion.                                                              *)
(***************************************************************************)
maxcode == 2^MaxBits - 1

lzcString(pfx, code) ==
    LET str[k \in 0 .. CLEAR - 1 \cup DOMAIN pfx] ==
            IF k < CLEAR THEN <<k>> ELSE Append(str[pfx[k][1]], pfx[k][2])
    IN  str[code]

\* The slot the next code is read from, in the width the expander is at.
nextslot(d) == IF d.bits = d.prevbits THEN (d.slot + 1) % CharBits ELSE 0

\* The entry made of the last string and the first character of this one.
addEntry(d, savecode, s) ==
    LET code == d.nextfree
        top  == code = d.highcode
        full == top /\ d.highcode >= maxcode
    IN  IF d.fulltable THEN d
        ELSE [d EXCEPT !.pfx = entered(@, code, <<d.prefix, s[1]>>),
                       !.prefix = savecode,
                       !.fulltable = full,
                       !.nextfree = IF full THEN code ELSE code + 1,
                       !.bits = IF top /\ ~full THEN @ + 1 ELSE @,
                       !.highcode = IF top /\ ~full THEN @ + code + 1 ELSE @]

expandCode(d, code, width, slot) ==
    LET read  == [d EXCEPT !.slot = nextslot(d), !.prevbits = d.bits]
        kwkwk == code >= d.nextfree /\ ~d.fulltable
        s == IF kwkwk THEN Append(lzcString(d.pfx, d.prefix), d.sufxchar)
             ELSE lzcString(d.pfx, code)
    IN  IF d.bad \/ width # d.bits \/ slot # nextslot(d) THEN [d EXCEPT !.bad = TRUE]
        ELSE IF d.fresh
        THEN [read EXCEPT !.out = Append(@, code % CLEAR), !.prefix = code,
                          !.sufxchar = code % CLEAR, !.fresh = FALSE]
        ELSE IF code = CLEAR
        THEN [read EXCEPT !.bits = INITBITS, !.highcode = 2^INITBITS - 1,
                          !.nextfree = FIRSTFREE, !.fulltable = FALSE,
                          !.pfx = <<>>, !.fresh = TRUE]
        ELSE IF kwkwk /\ code # d.nextfree THEN [d EXCEPT !.bad = TRUE]
        ELSE addEntry([read EXCEPT !.out = @ \o s, !.sufxchar = s[1]], code, s)

LZC_decompress(codes) ==
    LET start == [pfx |-> <<>>, nextfree |-> FIRSTFREE, bits |-> INITBITS,
                  highcode |-> 2^INITBITS - 1, prefix |-> 0, sufxchar |-> 0,
                  fulltable |-> FALSE, fresh |-> TRUE, prevbits |-> 0, slot |-> 0,
                  out |-> <<>>, bad |-> FALSE]
        after[i \in 0 .. Len(codes)] ==
            IF i = 0 THEN start
            ELSE expandCode(after[i - 1], codes[i][1], codes[i][2], codes[i][3])
    IN  after[Len(codes)]
=============================================================================
