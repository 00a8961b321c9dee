----------------------------- MODULE NuSqueeze -----------------------------
(***************************************************************************)
(* Squeeze, nufxlib/Squeeze.c: run-length encoding, then a Huffman code     *)
(* made for the source in a pass of its own.  The code must not need more   *)
(* than MaxCodeLen bits (16); the weights are scaled down to ever lower     *)
(* ceilings until it does not.  A subtree of the encoding tree is its       *)
(* weight, its depth and the codes it gives to its leaves.                 *)
(***************************************************************************)
EXTENDS Integers, Sequences, SequencesExt, FiniteSets, FiniteSetsExt

CONSTANTS
    CharBits,       \* bits of a character (8)
    Delim,          \* kNuSQRLEDelim (0x90)
    MaxCount,       \* kNuSQMaxCount (65535), one less than a power of two
    MaxCodeLen,     \* longest code that can be written (16)
    FieldSize       \* characters a 16-bit value takes in the file (2)

EOFToken == 2^CharBits
Syms     == 0 .. EOFToken
MaxLike  == 2^CharBits - 1      \* longest run one count can stand for

\* What the constants have to be; assumed by NuCodec.
SqueezeAssumption ==
    /\ CharBits \in Nat \ {0} /\ Delim \in Syms \ {EOFToken}
    /\ MaxCount \in Nat \ {0} /\ MaxCodeLen \in Nat /\ FieldSize \in Nat
    /\ 2^MaxCodeLen >= Cardinality(Syms)

(***************************************************************************)
(* The run-length layer.                                                   *)
(***************************************************************************)
\* A run of c as it is handed to the Huffman coder, in pieces of MaxLike: the
\* character, then its delimiter and the length of the piece, the character
\* itself included.  A delimiter of the source is always escaped, by itself.
sqRun(c, n) ==
    LET Piece(k) == IF k < 3 THEN [i \in 1 .. k |-> c] ELSE <<c, Delim, k>>
        full     == n \div MaxLike
    IN  IF c = Delim THEN FlattenSeq([i \in 1 .. n |-> <<Delim, 0>>])
        ELSE FlattenSeq([i \in 1 .. full |-> Piece(MaxLike)])
             \o Piece(n - full * MaxLike)

\* All symbols of a source given by its runs, the end of file included.
Tokens(runs) ==
    Append(FlattenSeq([i \in DOMAIN runs |-> sqRun(runs[i][1], runs[i][2])]),
           EOFToken)

\* The decoder of the run-length layer: out and whether a count is due.
unRun(d, val) ==
    IF d.inrep
    THEN LET c == IF val = 0 THEN Delim ELSE d.lastc
             n == IF val = 0 THEN 1 ELSE val - 1
         IN  [d EXCEPT !.out = @ \o [i \in 1 .. n |-> c], !.lastc = c, !.inrep = FALSE]
    ELSE IF val = Delim THEN [d EXCEPT !.inrep = TRUE]
    ELSE [d EXCEPT !.out = Append(@, val), !.lastc = val]

(***************************************************************************)
(* The Huffman code.                                                       *)
(***************************************************************************)
Weights(tokens) ==
    [s \in Syms |->
        Min({MaxCount, Cardinality({i \in DOMAIN tokens : tokens[i] = s})})]

\* What one pass of the loop of Nu_SQScale finds for the divisor: sums wrap at
\* 16 bits.  It becomes the least weight of every symbol that occurs, and when
\* nothing had to be raised everything is divided by it.
divisor(w, ceiling) ==
    LET sum[s \in Syms] ==
            IF s = 0 THEN 0 ELSE (sum[s - 1] + w[s - 1]) % (MaxCount + 1)
    IN  1 + Cardinality({s \in Syms : w[s] > ceiling - sum[s]})

raised(w, least)  == [s \in Syms |-> IF w[s] # 0 /\ w[s] < least THEN least ELSE w[s]]
divided(w, least) == [s \in Syms |-> w[s] \div least]

Leaf(s, weight) == [weight |-> weight, depth |-> 0,
                    codes |-> [t \in {s} |-> <<>>]]

\* Nu_SQCmpTrees orders subtrees; which of several least ones the heap has on
\* top does not matter.
lighter(a, b) == a.weight < b.weight \/ (a.weight = b.weight /\ a.depth <= b.depth)
Least(forest) == CHOOSE a \in forest : \A b \in forest : lighter(a, b)

Joined(l, r) ==
    [weight |-> l.weight + r.weight,
     depth |-> 1 + Max({l.depth, r.depth}),
     codes |-> [t \in DOMAIN l.codes \cup DOMAIN r.codes |->
                  IF t \in DOMAIN l.codes THEN <<0>> \o l.codes[t]
                  ELSE <<1>> \o r.codes[t]]]

SQBuildTree(w) ==
    LET leaves == {Leaf(s, w[s]) : s \in {t \in Syms : w[t] # 0}}
        forest[n \in 1 .. Cardinality(leaves)] ==
            IF n = 1 THEN leaves
            ELSE LET trees == forest[n - 1]
                     l     == Least(trees)
                     r     == Least(trees \ {l})
                 IN  (trees \ {l, r}) \cup {Joined(l, r)}
    IN  CHOOSE tree \in forest[Cardinality(leaves)] : TRUE

TooLong(tree) == tree.depth > MaxCodeLen

\* The file: the tree, then the codes of the symbols.
sqBits(codes, tokens) == FlattenSeq([i \in DOMAIN tokens |-> codes[tokens[i]]])

sqSize(codes, bits) ==
    FieldSize + 2 * FieldSize * (Cardinality(DOMAIN codes) - 1)
    + (Len(bits) + CharBits - 1) \div CharBits

(***************************************************************************)
(* Expansion: bits are followed down the tree to a symbol, symbols go to    *)
(* the run-length layer, until the end-of-file symbol.                      *)
(***************************************************************************)
unBit(codes, d, bit) ==
    LET path  == Append(d.path, bit)
        found == {t \in DOMAIN codes : codes[t] = path}
        val   == CHOOSE t \in found : TRUE
    IN  IF d.ended THEN d
        ELSE IF found = {} THEN [d EXCEPT !.path = path]
        ELSE IF val = EOFToken THEN [d EXCEPT !.ended = TRUE]
        ELSE [unRun(d, val) EXCEPT !.path = <<>>]

ExpandHuffmanSQ(codes, bits) ==
    LET start == [path |-> <<>>, out |-> <<>>, lastc |-> 0, inrep |-> FALSE,
                  ended |-> FALSE]
        after[i \in 0 .. Len(bits)] ==
            IF i = 0 THEN start ELSE unBit(codes, after[i - 1], bits[i])
    IN  after[Len(bits)]
=============================================================================
