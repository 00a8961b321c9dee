----------------------------- MODULE MCNuCodec -----------------------------
(***************************************************************************)
(* Small jobs for NuCodec: three-bit characters, blocks of 32 characters,   *)
(* codes of four and five bits.                                            *)
(***************************************************************************)
EXTENDS NuCodec

Cycle(p, n) == [i \in 1 .. n |-> p[((i - 1) % Len(p)) + 1]]

Job(src, format, mimic, conv, to) ==
    [src |-> src, format |-> format, mimic |-> mimic, conv |-> conv, to |-> to]

\* Nothing to compress, escapes among it.
Noise == <<0, 6, 5, 0, 3, 7, 6, 0, 2, 7, 5, 3, 0, 4, 6, 2, 1, 7, 3, 5, 2, 0, 7, 4, 2, 6, 3,
           1, 5, 4, 3, 2>>

\* Blocks that compress to all sizes, by runs and by repeated strings.
RunBlock(k)     == Copies(0, k) \o SubSeq(Noise, k + 1, BlockSize)
RepeatBlock(k)  == Cycle(<<0, 2>>, k) \o SubSeq(Noise, k + 1, BlockSize)
MCBlocks == {RunBlock(k) : k \in {0, 10, 18, 27, 32}}
            \cup {RepeatBlock(k) : k \in {18, 24, 28, 32}}
            \cup {Cycle(p, BlockSize) : p \in {<<0, 2, 2, 0>>, <<0, 2, 3>>, <<0, 0, 2>>}}
\* Blocks of every compressed size before one that takes a whole buffer.
MCTight  == {b \o Noise \o e : b \in {RunBlock(k) : k \in 0 .. BlockSize}
                                    \cup {RepeatBlock(k) : k \in 0 .. BlockSize},
                               e \in {<<>>, Copies(0, BlockSize)}}
\* Last blocks that do not compress with their padding, behind some that do.
MCPadded == {Copies(0, k * BlockSize) \o SubSeq(Noise, 1, n) : k \in 1 .. 2, n \in 26 .. 31}
MCEnds   == {<<>>, <<2>>, Cycle(<<0, 2>>, 11), Copies(0, 31), Copies(1, 9)}

\* Runs of the escape of every length, after and before something else.
MCEscapes == {SubSeq(Copies(c, k) \o Copies(Escape, n) \o Cycle(e, BlockSize), 1, BlockSize)
                 \o Copies(0, BlockSize)
                 : c \in {0, 2}, k \in {0, 3, 21, 23}, n \in 0 .. 12,
                   e \in {<<0>>, <<6, 2>>}}

LzwJobs ==
    {Job(s, f, m, "off", "CR") :
        s \in MCEscapes \cup MCTight \cup MCPadded \cup {<<>>, <<1>>} \cup {a \o b : a \in MCBlocks, b \in MCEnds}
              \cup {a \o b \o c : a \in MCBlocks, b \in MCBlocks, c \in MCBlocks},
        f \in {"lzw1", "lzw2"}, m \in BOOLEAN}

\* Skewed sources; the last ones need codes that are too long at first.
SqJobs ==
    {Job(s, "sq", FALSE, "off", "CR") :
        s \in {Cycle(p, n) : p \in {<<0>>, <<4>>, <<0, 2>>, <<0, 0, 2>>, <<0, 0, 2, 0, 4>>,
                                    <<4, 4, 0, 4>>, <<0, 0, 0, 0, 0, 2, 2>>},
                             n \in {6, 40, 41, 62, 63, 90}}
              \cup {<<6, 5, 5>> \o Cycle(<<3, 7>>, 8) \o Cycle(<<7, 2>>, 8)
                       \o Cycle(<<2, 0>>, 20) \o Cycle(<<0, 0, 2>>, k) : k \in 24 .. 60}}

LzcJobs ==
    {Job(s, "lzc", FALSE, "off", "CR") :
        s \in {Cycle(p, n) : p \in {<<0>>, <<0, 2>>, <<0, 0, 2>>, <<0, 2, 3, 2, 0>>,
                                    <<0, 7, 0, 0, 7, 7, 7, 0>>},
                             n \in 40 .. 96}}

\* Text, with pairs of line ends that any piece may cut.
MCTexts == {Copies(0, k) \o Cycle(p, n) : k \in 0 .. 3,
               p \in {<<2, 3>>, <<0, 0, 2, 3>>, <<0, 2>>, <<0, 3, 0>>, <<2, 0, 3, 0, 5>>},
               n \in {9, 45, 64, 78}}

TextJobs ==
    {Job(s, f, FALSE, c, e) : s \in MCTexts, f \in {"stored", "sq", "lzw1", "lzw2"},
                              c \in {"on", "auto"}, e \in {"CR", "LF", "CRLF"}}

MCJobs    == LzwJobs \cup SqJobs \cup LzcJobs \cup TextJobs
MCEscJobs == {Job(s, f, FALSE, "off", "CR") : s \in MCEscapes, f \in {"lzw1", "lzw2"}}
=============================================================================
