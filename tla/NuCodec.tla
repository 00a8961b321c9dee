------------------------------ MODULE NuCodec ------------------------------
(***************************************************************************)
(* One thread through the library: Nu_CompressToArchive (Compress.c) puts  *)
(* a source into the archive, in the format asked for or stored when that  *)
(* does not make it smaller, and Nu_ExpandStream (Expand.c) takes it out    *)
(* again through a funnel.  A job is the source, the format asked for,      *)
(* whether ShrinkIt is mimicked, and what the data sink wants; between the  *)
(* two the thread may be copied as it is into another archive.             *)
(*                                                                         *)
(* A CRC is modelled as the data it was computed over: two CRCs are equal   *)
(* when the data is.                                                       *)
(***************************************************************************)
EXTENDS Integers, Sequences

CONSTANTS
    Jobs,           \* the jobs, [src, format, mimic, conv, to]
    CharBits, MaxBits, StopCode, BlockSize, Escape, MinRun, FieldSize,
    LzcMaxCode,     \* Maxcode of the LZC format
    Delim, MaxCount, MaxCodeLen,
    CR, LF, Binary, FunnelBufSize, MinConv, MaxBinary,
    GenBufSize,     \* kNuGenCompBufSize (32768)
    Threshold       \* kNuSHKLZWThreshold (512)

INSTANCE NuLzw
Lzc == INSTANCE NuLzc WITH MaxCode <- LzcMaxCode
SQ  == INSTANCE NuSqueeze
Fun == INSTANCE NuFunnel

Formats == {"stored", "sq", "lzw1", "lzw2", "lzc"}

ASSUME CodecAssumption ==
    /\ LzwAssumption /\ Lzc!LzcAssumption /\ SQ!SqueezeAssumption /\ Fun!FunnelAssumption
    /\ GenBufSize \in Nat /\ GenBufSize > BlockSize + FieldSize + 1
    /\ \A j \in Jobs : /\ j.src \in Seq(Chars)
                       /\ j.format \in Formats /\ j.mimic \in BOOLEAN
                       /\ j.conv \in {"on", "off", "auto"} /\ j.to \in {"CR", "LF", "CRLF"}

\* What powers of two are: arithmetic the proof system is not told.
ASSUME PowerAssumption ==
    \A n \in 0 .. MaxBits : 2^n \in Nat \ {0} /\ 2^(n + 1) = 2 * 2^n

VARIABLES
    job,            \* what is to be done; never changes
    pc,
    pos,            \* characters of the source read so far
    file,           \* what is in the archive: pieces, each with its size
    dstLen,
    table,          \* lzwCompressState / lzwExpandState: the LZW table kept
    huff,           \* Squeeze: the weights, the ceiling and the tree
    thread,         \* the thread header: format, EOFs and CRC
    inBuf,          \* dataInBuffer, LZW expansion
    compRemaining,
    given,          \* the data handed to the funnel
    chunkCrc,       \* LZW/1: the data its own CRC covers
    funnel,
    err

vars == <<job, pc, pos, file, dstLen, table, huff, thread, inBuf, compRemaining,
          given, chunkCrc, funnel, err>>

NoThread == [format |-> "none", eof |-> 0, compEof |-> 0, crc |-> <<>>]
NoHuff   == [tokens |-> <<>>, weights |-> <<>>, ceiling |-> 0, tree |-> <<>>]
NoTable  == <<>>

srcLen == Len(job.src)
type2  == thread.format = "lzw2"
IsLzw(format) == format \in {"lzw1", "lzw2"}

Init ==
    /\ job \in Jobs
    /\ pc = "start" /\ pos = 0 /\ file = <<>> /\ dstLen = 0
    /\ table = NoTable /\ huff = NoHuff /\ thread = NoThread
    /\ inBuf = 0 /\ compRemaining = 0 /\ given = <<>> /\ chunkCrc = <<>>
    /\ funnel = <<>> /\ err = "none"

expandVars == <<inBuf, compRemaining, given, chunkCrc, funnel>>

(***************************************************************************)
(* Nu_CompressToArchive.                                                   *)
(***************************************************************************)
\* GSHK does not compress small files, and nobody compresses empty ones.
Target == IF srcLen = 0 \/ (job.mimic /\ srcLen < Threshold) THEN "stored" ELSE job.format

\* What an LZW thread has in front of its chunks: the CRC of LZW/1, the disk
\* volume and the escape character.
LzwHeader(format) == IF format = "lzw1" THEN FieldSize + 2 ELSE 2

Begin ==
    /\ pc = "start"
    /\ thread' = [NoThread EXCEPT !.format = Target]
    /\ pc' = CASE IsLzw(Target) -> "lzw" [] Target = "sq" -> "count"
               [] Target = "lzc" -> "lzc" [] OTHER -> "store"
    /\ table' = IF IsLzw(Target) THEN ClearedTable ELSE NoTable
    /\ dstLen' = IF IsLzw(Target) THEN LzwHeader(Target) ELSE 0
    /\ UNCHANGED <<job, pos, file, huff, err, expandVars>>

\* Nu_CompressUncompressed, also after a compression that did not help: the
\* file is back where the thread starts and the source rewound.
Store ==
    /\ pc = "store"
    /\ file' = IF srcLen = 0 THEN <<>> ELSE <<[body |-> job.src, size |-> srcLen]>>
    /\ dstLen' = srcLen
    /\ thread' = [format |-> "stored", eof |-> srcLen, compEof |-> srcLen, crc |-> job.src]
    /\ pc' = "written"
    /\ UNCHANGED <<job, pos, table, huff, err, expandVars>>

\* One block of the loop of Nu_CompressLZW.
CompressLZWChunk ==
    /\ pc = "lzw" /\ pos < srcLen
    /\ \E end \in {IF srcLen - pos > BlockSize THEN pos + BlockSize ELSE srcLen} :
       \E c \in {CompressChunk(table, SubSeq(job.src, pos + 1, end), type2, job.mimic)} :
          /\ pos' = end
          /\ file' = Append(file, c.chunk)
          /\ table' = c.table
          /\ dstLen' = dstLen + c.chunk.size
    /\ UNCHANGED <<job, pc, huff, thread, err, expandVars>>

\* mutant: the character ShrinkIt adds is not counted
FinishLZWUncounted ==
    /\ pc = "lzw" /\ pos = srcLen
    /\ table' = NoTable
    /\ pc' = "keep"
    /\ UNCHANGED <<job, pos, file, dstLen, huff, thread, err, expandVars>>

\* The end of Nu_CompressLZW: ShrinkIt adds a character to every LZW thread.
FinishLZW ==
    /\ pc = "lzw" /\ pos = srcLen
    /\ dstLen' = dstLen + (IF job.mimic THEN 1 ELSE 0)
    /\ table' = NoTable
    /\ pc' = "keep"
    /\ UNCHANGED <<job, pos, file, huff, thread, err, expandVars>>

\* Squeeze's first pass.
CountSQ ==
    /\ pc = "count"
    /\ LET tokens == SQ!Tokens(Runs(job.src))
       IN  huff' = [NoHuff EXCEPT !.tokens = tokens, !.weights = SQ!Weights(tokens),
                                  !.ceiling = MaxCount]
    /\ pc' = "scale"
    /\ UNCHANGED <<job, pos, file, dstLen, table, thread, err, expandVars>>

\* A pass of Nu_SQScale, the last one when it raises nothing.
ScaleSQ ==
    /\ pc = "scale"
    /\ \E least \in {SQ!divisor(huff.weights, huff.ceiling)} :
          LET more == SQ!raised(huff.weights, least)
          IN  IF more # huff.weights
              THEN huff' = [huff EXCEPT !.weights = more] /\ UNCHANGED pc
              ELSE huff' = [huff EXCEPT !.weights = SQ!divided(@, least)] /\ pc' = "tree"
    /\ UNCHANGED <<job, pos, file, dstLen, table, thread, err, expandVars>>

\* mutant: the ceiling stays where it was
BuildTreeSQUnlowered ==
    /\ pc = "tree"
    /\ \E tree \in {SQ!SQBuildTree(huff.weights)} :
          /\ huff' = [huff EXCEPT !.tree = tree.codes]
          /\ pc' = IF SQ!TooLong(tree) THEN "scale" ELSE "squeeze"
    /\ UNCHANGED <<job, pos, file, dstLen, table, thread, err, expandVars>>

\* The rest of the loop that lowers the ceiling until the code is short enough.
BuildTreeSQ ==
    /\ pc = "tree"
    /\ \E tree \in {SQ!SQBuildTree(huff.weights)} :
          /\ huff' = [huff EXCEPT !.ceiling = @ \div 2, !.tree = tree.codes]
          /\ pc' = IF SQ!TooLong(tree) THEN "scale" ELSE "squeeze"
    /\ UNCHANGED <<job, pos, file, dstLen, table, thread, err, expandVars>>

\* The second pass.
CompressSQ ==
    /\ pc = "squeeze"
    /\ \E bits \in {SQ!sqBits(huff.tree, huff.tokens)} :
          /\ dstLen' = SQ!sqSize(huff.tree, bits)
          /\ file' = <<[body |-> bits, tree |-> huff.tree, size |-> dstLen']>>
    /\ huff' = NoHuff
    /\ pc' = "keep"
    /\ UNCHANGED <<job, pos, table, thread, err, expandVars>>

CompressLZC ==
    /\ pc = "lzc"
    /\ \E c \in {Lzc!LZC_compress(job.src)} :
          /\ file' = <<[body |-> c.codes, size |-> c.size]>>
          /\ dstLen' = c.size
    /\ pc' = "keep"
    /\ UNCHANGED <<job, pos, table, huff, thread, err, expandVars>>

\* The compressed data is kept when it is smaller than the source.
Keep ==
    /\ pc = "keep" /\ dstLen < srcLen
    /\ thread' = [thread EXCEPT !.eof = srcLen, !.compEof = dstLen, !.crc = job.src]
    /\ pc' = "written"
    /\ UNCHANGED <<job, pos, file, dstLen, table, huff, err, expandVars>>

FallBack ==
    /\ pc = "keep" /\ dstLen >= srcLen
    /\ file' = <<>> /\ dstLen' = 0 /\ pos' = 0
    /\ pc' = "store"
    /\ UNCHANGED <<job, table, huff, thread, err, expandVars>>

\* The thread is taken out unexpanded (Nu_ExpandRaw) and added to another
\* archive as compressed data: the format, the length and the CRC come from
\* the application, the compressed length is that of the data.
CopyRaw ==
    /\ pc = "written" /\ thread.format # "stored"
    /\ thread' = [thread EXCEPT !.compEof = dstLen]
    /\ pc' = "copied"
    /\ UNCHANGED <<job, pos, file, dstLen, table, huff, err, expandVars>>

(***************************************************************************)
(* Nu_ExpandStream.                                                        *)
(***************************************************************************)
DesiredShort == BlockSize + FieldSize    \* mutant: a character short
Desired == BlockSize + FieldSize + 1    \* kNuLZWDesiredChunk

BeginExpand ==
    /\ pc \in {"written", "copied"}
    /\ funnel' = Fun!FunnelNew(job.conv, job.to)
    /\ pos' = 0
    /\ compRemaining' = IF IsLzw(thread.format)
                        THEN thread.compEof - LzwHeader(thread.format) ELSE 0
    /\ table' = IF IsLzw(thread.format) THEN EmptyTrie ELSE NoTable
    /\ pc' = CASE IsLzw(thread.format) -> "unlzw" [] thread.format = "sq" -> "unsq"
               [] thread.format = "lzc" -> "unlzc" [] OTHER -> "copy"
    /\ UNCHANGED <<job, file, dstLen, huff, thread, inBuf, given, chunkCrc, err>>

Fail(e) == err' = e /\ pc' = "failed"

\* All of the data an expander made, character by character or in one piece.
Deliver(data, each) ==
    /\ given' = data
    /\ funnel' = IF each THEN Fun!FunnelWriteEach(funnel, data)
                 ELSE Fun!FunnelWrite(funnel, data)

\* Nu_ExpandUncompressed.
ExpandUncompressed ==
    /\ pc = "copy"
    /\ IF file = <<>> THEN UNCHANGED <<given, funnel>> ELSE Deliver(file[1].body, FALSE)
    /\ pc' = "flush"
    /\ UNCHANGED <<job, pos, file, dstLen, table, huff, thread, inBuf, compRemaining,
                   chunkCrc, err>>

ExpandSQ ==
    /\ pc = "unsq"
    /\ \E d \in {SQ!ExpandHuffmanSQ(file[1].tree, file[1].body)} :
          /\ Deliver(d.out, TRUE)
          /\ IF d.ended /\ ~d.inrep THEN pc' = "flush" /\ UNCHANGED err
             ELSE Fail("baddata")
    /\ UNCHANGED <<job, pos, file, dstLen, table, huff, thread, inBuf, compRemaining,
                   chunkCrc>>

ExpandLZC ==
    /\ pc = "unlzc"
    /\ \E d \in {Lzc!LZC_decompress(file[1].body)} :
          /\ Deliver(d.out, TRUE)
          /\ IF d.bad THEN Fail("baddata") ELSE pc' = "flush" /\ UNCHANGED err
    /\ UNCHANGED <<job, pos, file, dstLen, table, huff, thread, inBuf, compRemaining,
                   chunkCrc>>

\* One turn of the loop of Nu_ExpandLZW: the buffer is filled up when it may
\* not hold a whole chunk, then a chunk is taken from it.  Of a last block that
\* is not compressed only the part with data is.
ExpandLZWChunk ==
    /\ pc = "unlzw" /\ pos < thread.eof
    /\ \E e \in {ExpandChunk(table, Head(file), type2)} :
       LET get   == IF inBuf >= Desired THEN 0
                    ELSE IF GenBufSize - inBuf < compRemaining THEN GenBufSize - inBuf
                    ELSE compRemaining
           chunk == Head(file)
           want  == IF thread.eof - pos <= BlockSize THEN thread.eof - pos ELSE BlockSize
           spare == IF ~chunk.lzw /\ chunk.rleLen = BlockSize THEN BlockSize - want ELSE 0
       IN  /\ compRemaining' = compRemaining - get
           /\ inBuf' = inBuf + get - (chunk.size - spare)
           /\ IF e.bad
              THEN Fail("baddata") /\ UNCHANGED <<pos, file, table, given, chunkCrc, funnel>>
              ELSE /\ pos' = pos + want
                   /\ file' = Tail(file)
                   /\ table' = e.trie
                   /\ given' = given \o SubSeq(e.out, 1, want)
                   /\ chunkCrc' = IF type2 THEN <<>> ELSE chunkCrc \o e.out
                   /\ funnel' = Fun!FunnelWrite(funnel, SubSeq(e.out, 1, want))
                   /\ UNCHANGED <<pc, err>>
    /\ UNCHANGED <<job, dstLen, huff, thread>>

\* The end of Nu_ExpandLZW.
FinishUnLZW ==
    /\ pc = "unlzw" /\ pos = thread.eof
    /\ IF compRemaining > 0 THEN Fail("baddata")
       ELSE IF ~type2 /\ chunkCrc # job.src \o Copies(0, (-srcLen) % BlockSize)
       THEN Fail("badcrc")
       ELSE pc' = "flush" /\ UNCHANGED err
    /\ chunkCrc' = <<>>
    /\ table' = NoTable
    /\ UNCHANGED <<job, pos, file, dstLen, huff, thread, inBuf, compRemaining, given, funnel>>

\* The end of Nu_ExpandStream.
FinishExpand ==
    /\ pc = "flush"
    /\ funnel' = Fun!FunnelFlush(funnel)
    /\ IF given # thread.crc THEN Fail("badcrc") ELSE pc' = "done" /\ UNCHANGED err
    /\ UNCHANGED <<job, pos, file, dstLen, table, huff, thread, inBuf, compRemaining,
                   given, chunkCrc>>

Compress == Begin \/ Store \/ CompressLZWChunk \/ FinishLZW \/ CountSQ \/ ScaleSQ
            \/ BuildTreeSQ \/ CompressSQ \/ CompressLZC \/ Keep \/ FallBack \/ CopyRaw
Expand   == BeginExpand \/ ExpandUncompressed \/ ExpandSQ \/ ExpandLZC
            \/ ExpandLZWChunk \/ FinishUnLZW \/ FinishExpand

Over == pc \in {"done", "failed"} /\ UNCHANGED vars

Next == Compress \/ Expand \/ Over

\* A job goes on as long as it is not over.
Spec == Init /\ [][Next]_vars /\ ([]<><<TRUE>>_vars \/ <>[](pc \in {"done", "failed"}))

(***************************************************************************)
(* Properties.                                                             *)
(***************************************************************************)
\* Types.
CodecTypeOK ==
    /\ pc \in {"start", "lzw", "count", "scale", "tree", "squeeze", "lzc", "keep", "store", "written",
               "copied", "copy", "unsq", "unlzc", "unlzw", "flush", "done", "failed"}
    /\ pos \in 0 .. srcLen /\ dstLen \in Nat
    /\ \A i \in DOMAIN file : file[i].size \in Nat \ {0}
    /\ thread.format \in Formats \cup {"none"}
    /\ thread.eof \in 0 .. srcLen /\ thread.compEof \in Nat
    /\ \A i \in DOMAIN given : given[i] \in Chars
    /\ err \in {"none", "baddata", "badcrc"}

(* The three sources the code cannot bring back, each found by hand in the  *)
(* file it names.                                                          *)
\* Lzw.c: what is left over of a long run of the escape is not escaped.
BadRun(c, n)   == c = Escape /\ n > MaxRun /\ ((n - 1) % MaxRun) + 1 <= MinRun
BadBlock(b)    == /\ Len(CompressBlockRLE(b)) < BlockSize
                  /\ \E r \in Range(Runs(b)) : BadRun(r[1], r[2])
Blocks(s)      == {Padded(SubSeq(s, i * BlockSize + 1,
                                 IF (i + 1) * BlockSize < Len(s) THEN (i + 1) * BlockSize
                                 ELSE Len(s))) : i \in 0 .. (Len(s) - 1) \div BlockSize}
LooseEscape    == IsLzw(thread.format) /\ \E b \in Blocks(job.src) : BadBlock(b)
\* Lzc.c: a source that ends with the clear of the table gets a stale code.
StaleCode      == thread.format = "lzc" /\ Lzc!EndsOnClear(job.src)
\* Lzw.c: the character ShrinkIt adds is all that is left in the file.
StrayCharacter == IsLzw(thread.format) /\ job.mimic /\ compRemaining = 1

Excused == LooseEscape \/ StaleCode \/ StrayCharacter

\* What comes out of an archive is what went in: the data the funnel has been
\* given is always the beginning of the source, all of it at the end, and no
\* thread the library wrote itself is called damaged.  Excepted are the three
\* named circumstances.
RoundTrip ==
    \/ IsPrefix(given, job.src) /\ (pc = "done" => given = job.src) /\ pc # "failed"
    \/ Excused

\* The same without exceptions: the escape "1-3 0xDBs" get (Lzw.c:235).
Lossless == pc # "failed"

\* The characters some pieces take in the archive.
SizeOf(pieces) ==
    LET size[i \in 0 .. Len(pieces)] == IF i = 0 THEN 0 ELSE size[i - 1] + pieces[i].size
    IN  size[Len(pieces)]

\* The lengths in the thread header are those of what is in the file: nothing
\* is kept that did not become smaller, whatever was tried before, and the
\* data copied to another archive has the length it had.
HeaderTrue ==
    pc \in {"written", "copied"} =>
        LET lzw == IsLzw(thread.format)
        IN  /\ thread.eof = srcLen
            /\ thread.compEof = SizeOf(file)
                                + (IF lzw THEN LzwHeader(thread.format) ELSE 0)
                                + (IF lzw /\ job.mimic THEN 1 ELSE 0)
            /\ thread.compEof <= thread.eof
            /\ thread.format # "stored" => thread.compEof < thread.eof

\* Every code fits the width it is written in and the table, and no block of
\* LZW/1 that is kept has filled the table: the expander of LZW/1 knows no
\* clear code (Lzw.c: a table of 4K strings is never filled by a 4K block).
CodesFit ==
    /\ \A i \in DOMAIN file :
          (IsLzw(thread.format) /\ file[i].lzw) =>
              \A k \in DOMAIN file[i].body :
                  LET code == file[i].body[k]
                  IN  /\ code[1] < 2^code[2] /\ code[2] <= MaxBits /\ code[1] <= StopCode
                      /\ thread.format = "lzw1" => code[1] # ClearCode
    /\ table # NoTable /\ pc = "lzw" =>
          table.initialClear \/ table.nextFree <= StopCode

\* The buffer the LZW expander works from always holds the chunk it takes, and
\* with what is still to be read it holds all the chunks not taken and the
\* character ShrinkIt adds.  In the end only that is left, and the padding of
\* a last block that would not compress (the "few stray bytes" of Lzw.c:1568).
BufferHoldsChunk ==
    LET stray == IF job.mimic THEN 1 ELSE 0
    IN  /\ inBuf \in 0 .. GenBufSize /\ compRemaining >= 0
        /\ pc = "unlzw" /\ pos < thread.eof =>
              inBuf + compRemaining = SizeOf(file) + stray
        /\ IsLzw(thread.format) /\ pc \in {"flush", "done"} =>
              inBuf - stray \in {0, (-srcLen) % BlockSize}

\* Whatever pieces the expander hands over and whatever the buffer makes of
\* them, the data sink gets all of the data, with every line end converted or
\* none at all.  A CR LF may be cut in two by the pieces.
LineEnds ==
    /\ job.conv = "off" /\ funnel # <<>> => funnel.out \o funnel.buf = given
    /\ pc = "done" =>
          /\ funnel.buf = <<>>
          /\ job.conv = "on" => funnel.out = Fun!Converted(given, job.to)
          /\ job.conv = "auto" => funnel.out \in {given, Fun!Converted(given, job.to)}

\* Every job comes to its end: the weights of Squeeze are scaled down until
\* the code is short enough, and each block is taken from the thread once.
JobsEnd == <>(pc \in {"done", "failed"})
=============================================================================
