------------------------------ MODULE Binary2 ------------------------------
(***************************************************************************)
(* nulib2 reading a Binary II library (Binary2.c): a chain of entries,     *)
(* each a header block and the blocks of a file, which only says whether   *)
(* another entry follows.  The library may come from stdin, where nothing  *)
(* can be read twice, so whatever a command does with an entry it must     *)
(* leave the file at the next header.                                      *)
(*                                                                         *)
(* A library is [entries, size, stdin]: size is the number of bytes there  *)
(* are, whatever the headers claim.  An entry is                           *)
(*   [name, type, dir, eof, follow, sq, good]                              *)
(* where sq is <<>> for a plain file; for a squeezed one it is the number  *)
(* of bytes taken from the file by the SQ header and then by each symbol,  *)
(* the stop symbol last.  good is false if the checksum is wrong.          *)
(***************************************************************************)
EXTENDS NuNames, TLC

CONSTANTS
    BlockSize,      \* kBNYBlockSize (128)
    SqBufferSize,   \* kSqBufferSize (8192)
    MinFill,        \* bytes a symbol may need: refill below it (65)
    MinSqueezed,    \* shortest SQ file (8)
    Sessions        \* what is asked of nulib2, of what, and what is there

ASSUME Binary2Assumption ==
    /\ {BlockSize, SqBufferSize, MinFill, MinSqueezed} \subseteq Nat \ {0}
    /\ SqBufferSize % BlockSize = 0 /\ MinFill <= BlockSize

VARIABLES
    session,        \* one of Sessions; never changes
    at,             \* where the command is
    status,         \* "idle", "busy", "ok" or "failed"
    why,            \* what made it fail
    job, done,      \* what it has to hand out, and what it has dealt with
    n,              \* the entry or record it is at
    out,            \* the local pathname it goes to
    files,          \* what there is in the current directory: pathname -> file
    pos,            \* how far the library was read
    consumed,       \* consumedFlag: all of the entry's blocks were read
    left,           \* BNYCopyBlocks: bytesLeft
    inBuf, comp,    \* BNYUnSqueeze: dataInBuffer, compRemaining
    sym             \* how much of the entry's sq was decoded

call == <<session, job>>
blocks == <<left, inBuf, comp, sym>>
bnyVars == <<session, at, status, why, job, done, n, out, files, pos, consumed, blocks>>

Opt == session.opt
Library == session.source
Entry == Library.entries[n]

LibraryEntry == [name : Seq(Chars), type : DOMAIN TypeName, dir : BOOLEAN, eof : Nat,
                 follow : Nat, sq : Seq(Nat), good : BOOLEAN]

Blocks(bytes) == (bytes + BlockSize - 1) \div BlockSize
RealEOF(e) == IF e.dir THEN 0 ELSE e.eof
IsSqueezed(e) == RealEOF(e) > 0 /\ e.sq # <<>>

\* Where the header of entry i is, if the library is sound up to there.
Start[i \in 1 .. Len(Library.entries) + 1] ==
    IF i = 1 THEN 0
    ELSE Start[i-1] + BlockSize * (1 + Blocks(RealEOF(Library.entries[i-1])))

NameIsSpecified(name) ==
    \/ Opt.specs = {}
    \/ IF Opt.recurse THEN \E spec \in Opt.specs : IsPrefix(spec, name) ELSE name \in Opt.specs

\* The entries the headers lead to.
Chain == LET ends == {i \in DOMAIN Library.entries : Library.entries[i].follow = 0}
         IN  IF ends = {} THEN Len(Library.entries) ELSE Min(ends)

\* A directory is its own kind of file; nothing is there if not in the domain.
Dir == [kind |-> "dir"]
IsDir(path) == path \in DOMAIN files /\ files[path] = Dir
Exists(path) == path \in DOMAIN files /\ files[path] # Dir
Parent(path) == IF Lasts(path, Sep) = {} THEN <<>>
                ELSE SubSeq(path, 1, Max(Lasts(path, Sep)) - 1)
HasRoom(path) == path # <<>> /\ (Parent(path) = <<>> \/ IsDir(Parent(path)))
File(from, whole, age) == [kind |-> "file", from |-> from, whole |-> whole, age |-> age]
Now == 9            \* the age of a file just written, newer than any other

\* A map over another, and a map with one key set: TLC's @@ and :>, which the
\* provers do not read.
Overlay(f, g) == [x \in DOMAIN f \cup DOMAIN g |-> IF x \in DOMAIN f THEN f[x] ELSE g[x]]
Put(key, value, map) == Overlay([x \in {key} |-> value], map)

Over(result, reason) == at' = "over" /\ status' = result /\ why' = reason
Fail(reason) == Over("failed", reason)
GoTo(place) == at' = place /\ UNCHANGED <<status, why>>

Enough(bytes) == pos + bytes <= Library.size
-----------------------------------------------------------------------------
(* BNYIterate                                                              *)

BNYInit ==
    /\ session \in Sessions
    /\ files = session.before
    /\ at = "idle" /\ status = "idle" /\ why = "" /\ job = <<>> /\ done = <<>>
    /\ n = 0 /\ out = <<>> /\ pos = 0 /\ consumed = FALSE
    /\ left = 0 /\ inBuf = 0 /\ comp = 0 /\ sym = 0

IsLibrary == session.kind = "bny"

\* The entry points of Binary2.c.  Extraction has none of -f, -u, -l and -c.
BNYBegin ==
    /\ IsLibrary /\ at = "idle"
    /\ job' = FlattenSeq([i \in 1 .. Chain |->
                  IF NameIsSpecified(Library.entries[i].name) THEN <<<<i, "data">>>> ELSE <<>>])
    /\ IF session.cmd \in {"x", "p"} /\ (Opt.fresh \/ Opt.update \/ Opt.comments)
       THEN Fail("syntax")
       ELSE at' = "header" /\ status' = "busy" /\ UNCHANGED why
    /\ UNCHANGED <<session, done, n, out, files, pos, consumed, blocks>>

\* BNYDecodeHeader knows a header when it sees one.
ReadHeader ==
    /\ at = "header"
    /\ IF ~Enough(BlockSize) THEN Fail("read") /\ UNCHANGED <<n, pos>>
       ELSE /\ pos' = pos + BlockSize
            /\ IF \E i \in DOMAIN Library.entries : Start[i] = pos
               THEN /\ n' = CHOOSE i \in DOMAIN Library.entries : Start[i] = pos
                    /\ GoTo("first")
               ELSE Fail("header") /\ UNCHANGED n
    /\ UNCHANGED <<call, done, out, files, consumed, blocks>>

\* The first block of the file is read so that it can be looked at.
ReadFirst ==
    /\ at = "first"
    /\ IF RealEOF(Entry) = 0 THEN GoTo("entry") /\ UNCHANGED pos
       ELSE IF ~Enough(BlockSize) THEN Fail("read") /\ UNCHANGED pos
       ELSE GoTo("entry") /\ pos' = pos + BlockSize
    /\ consumed' = FALSE
    /\ UNCHANGED <<call, done, n, out, files, blocks>>

\* Mutant of NextEntry: the block already read is skipped again.
NextEntryAgain ==
    LET more == (IF consumed \/ RealEOF(Entry) <= BlockSize THEN 0
                 ELSE Blocks(RealEOF(Entry))) * BlockSize
    IN  /\ at = "pass"
        /\ IF Library.stdin /\ ~Enough(more) THEN Fail("seek") /\ UNCHANGED pos
           ELSE /\ pos' = pos + more
                /\ IF Entry.follow = 0 THEN Over("ok", why) ELSE GoTo("header")
        /\ out' = <<>>
        /\ UNCHANGED <<call, done, n, files, consumed, blocks>>

\* Blocks nobody consumed are passed over; fseek does not mind the end of the
\* file.  A wrong number of files to follow is only worth a warning.
NextEntry ==
    LET more == (IF consumed \/ RealEOF(Entry) <= BlockSize THEN 0
                 ELSE Blocks(RealEOF(Entry)) - 1) * BlockSize
    IN  /\ at = "pass"
        /\ IF Library.stdin /\ ~Enough(more) THEN Fail("seek") /\ UNCHANGED pos
           ELSE /\ pos' = pos + more
                /\ IF Entry.follow = 0 THEN Over("ok", why) ELSE GoTo("header")
        /\ out' = <<>>
        /\ UNCHANGED <<call, done, n, files, consumed, blocks>>

Deal(fate) == done' = Append(done, <<<<n, "data">>, fate>>)

(* What the iterator does with an entry: nothing,                          *)
PassOver ==
    /\ at = "entry" /\ ~NameIsSpecified(Entry.name)
    /\ GoTo("pass")
    /\ UNCHANGED <<call, done, n, out, files, pos, consumed, blocks>>

(* list it (the three list functions),                                     *)
ListEntry ==
    /\ at = "entry" /\ NameIsSpecified(Entry.name) /\ session.cmd = "t"
    /\ GoTo("pass") /\ Deal("given")
    /\ UNCHANGED <<call, n, out, files, pos, consumed, blocks>>

(* or extract it.                                                          *)
Extracts(e) == at = "entry" /\ NameIsSpecified(e.name) /\ session.cmd \in {"x", "p", "i"}

\* BNYExtractDirectory.  The name is taken as it is: -e is not for directories.
BNYExtractDirectory ==
    /\ Extracts(Entry) /\ Entry.dir
    /\ IF session.cmd = "i" \/ Opt.junk \/ IsDir(Entry.name)
         THEN GoTo("pass") /\ Deal("skipped") /\ UNCHANGED files
       ELSE IF Exists(Entry.name) \/ ~HasRoom(Entry.name)
         THEN Fail("exists") /\ UNCHANGED <<done, files>>
       ELSE GoTo("pass") /\ Deal("given") /\ files' = Put(Entry.name, Dir, files)
    /\ UNCHANGED <<call, n, out, pos, consumed, blocks>>
-----------------------------------------------------------------------------
(* BNYExtract                                                              *)

QQ == <<".", "q", "q">>
OutputName(e) ==
    LET strip == IsSqueezed(e) /\ Len(e.name) > Len(QQ) /\ IsSuffix(QQ, e.name)
        name  == IF strip THEN SubSeq(e.name, 1, Len(e.name) - Len(QQ)) ELSE e.name
    IN  NormalizePath(name, Sep, e.type, "data", Opt)

\* Mutant of OpenOutput: only a directory is in the way.
OpenOutputAnyway ==
    /\ Extracts(Entry) /\ ~Entry.dir
    /\ IF session.cmd # "x" THEN GoTo("data") /\ UNCHANGED <<out, files>>
       ELSE \E path \in {OutputName(Entry)} :
              /\ out' = path
              /\ IF IsDir(path)
                   THEN Fail("exists") /\ UNCHANGED files
                 ELSE IF ~HasRoom(path) THEN Fail("open") /\ UNCHANGED files
                 ELSE GoTo("data") /\ files' = Put(path, File(<<n, "data">>, FALSE, Now), files)
    /\ UNCHANGED <<call, done, n, pos, consumed, blocks>>

\* Nobody is asked: a file in the way ends it all, unless -s was given.  No
\* directory is made for the file.
OpenOutput ==
    /\ Extracts(Entry) /\ ~Entry.dir
    /\ IF session.cmd # "x" THEN GoTo("data") /\ UNCHANGED <<out, files>>
       ELSE \E path \in {OutputName(Entry)} :
              /\ out' = path
              /\ IF IsDir(path) \/ (Exists(path) /\ ~Opt.over)
                   THEN Fail("exists") /\ UNCHANGED files
                 ELSE IF ~HasRoom(path) THEN Fail("open") /\ UNCHANGED files
                 ELSE GoTo("data") /\ files' = Put(path, File(<<n, "data">>, FALSE, Now), files)
    /\ UNCHANGED <<call, done, n, pos, consumed, blocks>>

\* The file is written, and every block of the entry was read.
Complete ==
    /\ GoTo("pass") /\ Deal("given") /\ consumed' = TRUE
    /\ files' = IF out = <<>> THEN files ELSE [files EXCEPT ![out].whole = TRUE]

ExtractNothing ==
    /\ at = "data" /\ RealEOF(Entry) = 0
    /\ Complete
    /\ UNCHANGED <<call, n, out, pos, blocks>>

StartCopy ==
    /\ at = "data" /\ RealEOF(Entry) > 0 /\ ~IsSqueezed(Entry)
    /\ left' = RealEOF(Entry)
    /\ GoTo("copy")
    /\ UNCHANGED <<call, done, n, out, files, pos, consumed, inBuf, comp, sym>>

\* One turn of BNYCopyBlocks: a block is written and the next one read.  The
\* last may be short, if it has just what is left.
CopyBlock ==
    LET rest == Max({0, left - BlockSize})
    IN  /\ at = "copy" /\ left > 0
        /\ left' = rest
        /\ IF rest = 0 THEN Complete /\ UNCHANGED pos
           ELSE /\ IF Enough(BlockSize) THEN GoTo("copy") /\ pos' = pos + BlockSize
                   ELSE IF Library.size - pos = rest THEN GoTo("copy") /\ pos' = Library.size
                   ELSE Fail("read") /\ UNCHANGED pos
                /\ UNCHANGED <<done, files, consumed>>
        /\ UNCHANGED <<call, n, out, inBuf, comp, sym>>

(* BNYUnSqueeze: the buffer is filled, starting with the block already read*)
StartUnSqueeze ==
    LET total == Blocks(RealEOF(Entry)) * BlockSize
        get   == Min({total, SqBufferSize})
    IN  /\ at = "data" /\ IsSqueezed(Entry)
        /\ IF RealEOF(Entry) < MinSqueezed THEN Fail("baddata") /\ UNCHANGED <<pos, inBuf, comp, sym>>
           ELSE IF ~Enough(get - BlockSize) THEN Fail("read") /\ UNCHANGED <<pos, inBuf, comp, sym>>
           ELSE /\ pos' = pos + get - BlockSize
                /\ comp' = total - get
                /\ IF Entry.sq[1] > get THEN Fail("underrun") /\ UNCHANGED <<inBuf, sym>>
                   ELSE GoTo("unsqueeze") /\ inBuf' = get - Entry.sq[1] /\ sym' = 1
        /\ UNCHANGED <<call, done, n, out, files, consumed, left>>

\* Mutant of Runs: the buffer is refilled when there is nothing left in it.
RunsOut == inBuf = 0 /\ comp > 0

\* Less than the longest code in the buffer, but there is more in the file
Runs == inBuf < MinFill /\ comp > 0

Refill ==
    LET get == Min({SqBufferSize - inBuf, comp})
    IN  /\ at = "unsqueeze" /\ sym < Len(Entry.sq) /\ Runs
        /\ IF Enough(get)
           THEN GoTo(at) /\ pos' = pos + get /\ inBuf' = inBuf + get /\ comp' = comp - get
           ELSE Fail("read") /\ UNCHANGED <<pos, inBuf, comp>>
        /\ UNCHANGED <<call, done, n, out, files, consumed, left, sym>>

\* USQDecodeHuffSymbol
DecodeSymbol ==
    LET bytes == Entry.sq[sym + 1]
    IN  /\ at = "unsqueeze" /\ sym < Len(Entry.sq) /\ ~Runs
        /\ IF bytes > inBuf THEN Fail("underrun") /\ UNCHANGED <<inBuf, sym>>
           ELSE GoTo(at) /\ inBuf' = inBuf - bytes /\ sym' = sym + 1
        /\ UNCHANGED <<call, done, n, out, files, pos, consumed, left, comp>>

\* After the stop symbol: the checksum, and what is left of the entry.
EndUnSqueeze ==
    /\ at = "unsqueeze" /\ sym = Len(Entry.sq)
    /\ IF ~Entry.good THEN Fail("checksum") /\ UNCHANGED <<pos, done, files, consumed>>
       ELSE IF comp > SqBufferSize THEN Fail("leftover") /\ UNCHANGED <<pos, done, files, consumed>>
       ELSE IF ~Enough(comp) THEN Fail("read") /\ UNCHANGED <<pos, done, files, consumed>>
       ELSE Complete /\ pos' = pos + comp
    /\ inBuf' = 0 /\ comp' = 0 /\ sym' = 0
    /\ UNCHANGED <<call, n, out, left>>

BNYNext ==
    \/ BNYBegin \/ ReadHeader \/ ReadFirst \/ NextEntry
    \/ PassOver \/ ListEntry \/ BNYExtractDirectory \/ OpenOutput
    \/ ExtractNothing \/ StartCopy \/ CopyBlock
    \/ StartUnSqueeze \/ Refill \/ DecodeSymbol \/ EndUnSqueeze
-----------------------------------------------------------------------------
(* Properties of reading a library                                         *)

(***************************************************************************)
(* Whatever was done with an entry -- passed over, listed, copied,         *)
(* unsqueezed, its directory made -- the next header is looked for where   *)
(* it is, if the library is not cut off before it (BNYIterate's consumed   *)
(* flag against what the functions read).                                  *)
(* Unsqueezing knows at any time how much of the entry is to come.         *)
(***************************************************************************)
HeadersAligned ==
    IsLibrary =>
        /\ at = "header" /\ n < Len(Library.entries) /\ Start[n + 1] <= Library.size =>
              pos = Start[n + 1]
        /\ at = "unsqueeze" => pos + comp = Start[n + 1]

\* How many bytes of the entry are behind its SQ header and each symbol
Taken(e) ==
    LET taken[i \in 1 .. Len(e.sq) + 1] == IF i = 1 THEN 0 ELSE taken[i-1] + e.sq[i-1]
    IN  taken

\* The entry is what its header says, its codes no longer than they may be.
Sound(e) ==
    IsSqueezed(e) =>
        /\ e.good /\ e.eof >= MinSqueezed /\ e.sq[1] <= BlockSize
        /\ Blocks(Taken(e)[Len(e.sq) + 1]) = Blocks(e.eof)
        /\ \A i \in 2 .. Len(e.sq) : e.sq[i] <= MinFill

\* ProTERM does not fill up the last block.  That is put up with where the
\* block is read by BNYCopyBlocks, and only if nothing at all was filled up.
ToleratesShortEnd ==
    LET e == Library.entries[Len(Library.entries)]
    IN  /\ session.cmd \in {"x", "p", "i"} /\ NameIsSpecified(e.name)
        /\ ~IsSqueezed(e) /\ RealEOF(e) > BlockSize

\* A library with nothing wrong with it, to the command it is given to
Intact ==
    LET last == Len(Library.entries)
    IN  /\ last > 0
        /\ \A i \in 1 .. last : /\ Sound(Library.entries[i])
                                /\ Library.entries[i].follow > 0 <=> i < last
        /\ \/ Library.size >= Start[last + 1]
           \/ /\ ToleratesShortEnd
              /\ Library.size = Start[last] + BlockSize + RealEOF(Library.entries[last])

(***************************************************************************)
(* A library with nothing wrong with it is read to its end: no command     *)
(* fails for the size of its blocks, of the buffer or of the codes.        *)
(***************************************************************************)
IntactReads ==
    IsLibrary /\ status = "failed" /\ Intact => why \in {"syntax", "exists", "open"}
=============================================================================
