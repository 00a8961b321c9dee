# A TLA+ development of NufxLib and NuLib2

NufxLib (`src/nufxlib`) reads and writes NuFX archives (ShrinkIt, `.SHK`);
NuLib2 (`src/nulib2`) is the command-line program on top of it. Neither has
threads. What makes the library hard is that edits are *deferred*: calls pile up
changes in memory, `NuFlush` carries them all out against two files, and any
call it makes to the system, or the user asked about an error, can stop it in
the middle. The archive, the temp file and four structures in memory then have
to agree again, or the next flush works from wrong premises and destroys an
archive that was good.

Reading has its own difficulties: a stream that cannot go back, callbacks that
may skip, rename or abort at every step, compressors that must give back what
they were given, and names that must survive a trip through a file system.

This directory models both sides in TLA+, checks them with TLC and proves with
TLAPS the safety properties of the editing side, of the reading side, of the
codecs and of nulib2, with the three refinements. Left to TLC are liveness, that
expanding inverts compressing, and that names come back.

## 1. The system

| Component | State it keeps | Operations | Correct when |
|---|---|---|---|
| Record sets (`Record.c`, `Thread.c`) | `orig`, `copy`, `new` lists; per record its threads, pending modifications (`pThreadMods`), `dirtyHeader`, `dropRecFilename`, cached name; the index counter | add record, add file, add / update / delete thread, delete record, bulk delete, rename, set attributes | copy is orig plus what is noted as pending; modification lists can be carried out; indices name one thing; no forbidden mix of threads |
| Flush (`Deferred.c`) | locals of `Nu_Flush` (`writeToTemp`, `canAbort`, `deleteAll`, `initialEOF`), `newMasterHeader`, status flags, both files | `Nu_Flush`, `Nu_Abort`, `Nu_Close` | all or nothing; nothing lost in a failure or a crash; the flags say what happened |
| Archive (`Archive.c`, `ArchiveIO.c`) | open mode, file handles and names, `headerOffset`, `masterHeader`, `newlyCreated` | open RO / RW / streaming, write header, wrapper | header, sets and file agree |
| Layout (`Record.c`, `Thread.c`) | header lengths, attribute counts, fake threads, file offsets | read / write record header, scan threads | written = planned; offsets right |
| Reading (`Record.c`, `Thread.c`, `Expand.c`) | progress of the walk, callbacks' answers | contents, extract, test, get record | every thread once; abort and skip honoured |
| Files (`FileIO.c`) | overwrite settings, file attributes | open output, open input, rename, copy section | nothing overwritten without leave |
| Sources and sinks (`SourceSink.c`) | reference counts, prepared file | new, copy, prepare, get block, free | freed once, closed once |
| Funnel and straw (`Funnel.c`) | buffer, conversion mode, last CR | write, flush, read | conversion independent of block boundaries |
| Compression (`Lzw.c`, `Squeeze.c`, `Lzc.c`, `Deflate.c`, `Bzip2.c`, `Compress.c`, `Expand.c`) | tables, bit buffers | compress, expand | expand inverts compress |
| Entry points (`Entry.c`) | busy flag | every API call | no re-entry from callbacks; state consistent at entry |
| NuLib2 (`Main.c`, `State.c`, `ArcUtils.c`, ...) | options, callbacks' state | commands | what is reported is what happened |
| NuLib2 Binary II, file names (`Binary2.c`, `Filename.c`) | position, name buffers | iterate, extract, escape, unescape | files to follow counted; names survive a round trip |

They interact by call: NuLib2 calls an entry point, which validates the archive
and calls into `Record.c`, `Thread.c` or `Deferred.c`; those read and write the
sets, and the flush goes through `Archive.c` and `FileIO.c` to the files. The way
back is by callback: the selection filter, output name filter, progress updater
and error handler are the application's, and the last decides between abort,
retry, skip and overwrite.

## 2. The modules

`NuRecord` - what a record, a thread and a modification are, and the pure parts:
when a thread may be added (`OkayToAddThread`), when a record counts as emptied
(`RecordIsEmpty`), what carrying modifications out gives (`Applied`,
`Constructed`), and the name a reader of the file would find (`ReadName`).

`NuArchive` - an archive opened read-write, as the application sees it. The
state is `orig`, `copy`, `copyLoaded`, `new`, `nextIdx`, `mode`. One action
for each edit call: `AddRecord`, `AddFile`, `AddThread`,
`UpdatePresizedThread`, `DeleteThread`, `DeleteRecord`, `Delete` (the bulk one),
`Rename`, `SetRecordAttr`. Refusals that come after copy was cloned are part of
the action, because the clone stays. A flush is one step, with one of four
outcomes: `FlushNothing`, `FlushCommit`, `FlushAbort`, `FlushLock`. It is the
abstract specification of the next module.

`NuFlush` - `Nu_Flush` step by step (the numbers are the source's):

| Code | Action |
|---|---|
| 1, nothing to do | `BeginNothing` |
| 1-4, choose and prepare | `Begin` |
| 5a in place / 5b to temp | `UpdateOld` / `CopyOld`, `BuildOld`, `SkipOld`, then `OldDone` |
| 6 new records | `BuildNew`, `SkipNew` |
| 7, 8 truncate, master header | `WriteHeader` |
| 9 wrapper | `CarryWrapper` |
| 10 in place / via temp | `Sync` / `DeleteArchive`, `CloseTemp`, `RenameTemp`, `Reopen` |
| 11, 12 | `Commit`, `Reset` |
| `bail:` with `canAbort` / without | `Abort` / `Lock`, in `FailOld` ... `FailReset` |
| assertions | `Abend` |
| the process dies | `Crash` |
| `Nu_Abort`, `Nu_Close` | `GiveUp`, `Close` |

The files are functions from position to cell, a record taking one position
whatever its length. That keeps what depends on *where* things are
(`headerOffset`, `mhMasterEOF`, each record's `fileOffset`, the end of the file)
and drops how long they are.

Modelling decisions worth knowing:

* A record's name in the header, in a filename thread and in the cache are kept
  apart; other header fields are one value, `attr`. The fields the flush itself
  derives when a disk image is added are left out.
* A filename thread that `Nu_ConstructNewRecord` makes takes a fresh index in the
  code and the index of its own record here. Which number it is does not matter,
  only that nothing else has it; `IndicesUnique` shows it is free.
* The user's answer to a failure to open a source file is a choice: skip is an
  action, abort is one of the failures, and retry is the absence of a step.
* Settable values are chosen anew at each call, so every order of changing them
  between calls is covered. They are not changed by callbacks during a call.
* Calls turned away before they touch anything are not actions.
* `orig` holds the table of contents from the start; the library reads it at the
  first edit.
* A write reaches the file at once: what stdio still buffers when the process
  dies is not modelled, nor is a failing `ftruncate`, whose result the code does
  not look at.

`stale` in `NuFlush` is a history variable. It says that a failed flush has left
`headerOffset`, offsets or a header that do not fit the archive - the cases the
violation runs exhibit - so that the other properties can be stated of what
happens otherwise.

`NuReader` - what any reading call promises: it is given a job, a list of things
to hand out; it hands out each of them once and in order, or passes over it
because it was told to; it succeeds only after the last one; no other call
begins before it has come back. `NuExtract` and `NuLib2` both implement it.

`NuExtract` - the reading side of the library. An archive is a sequence of
records with their threads; on disk a header takes one position, a thread as
many as it is long, and what a read finds is what is at the positions it read.

| Code | Action |
|---|---|
| the entry points and `Nu_ValidateNuArchive` | `CallBulk`, `CallSingle` |
| `Nu_RecordWalkGetNext`, from the TOC / from the file | `NextFromToc` / `NextFromFile`, `NextFails` |
| `Nu_RecordWalkFinish` | `WalkFinish`, in every action that ends a walk |
| the loops over threads, made-up forks | `PassThread`, `TakeThread`, `MakeFork`, `EndOfRecord` |
| selection filter, path function, progress | `Select`, `ChoosePath`, `SendOpening`, `Finish` |
| `Nu_OpenOutputFile` | `CheckAge`, `CheckExists`, `OpenFile` |
| `Nu_ExpandStream` | `ExpandNothing`, `Expand`, `ExpandFails`, `Interrupt` |
| `Nu_SkipThread` | `SkipTo` |

A callback that is not installed gives the default answer, one that is gives any
answer its caller accepts. Between the question and the answer the application
has control (`AppRuns`) and may call the library; the busy flag turns it away.

`NuCodec` - one thread through the library and back: `Nu_CompressToArchive`,
perhaps a copy to another archive as compressed data, `Nu_ExpandStream`. The
algorithms are modules of operators, each translated with the widths as
parameters:

* `NuLzw` - ShrinkIt's RLE and LZW/1 and LZW/2, with the table that LZW/2 keeps
  from block to block;
* `NuLzc` - UNIX compress, with the groups codes are written in;
* `NuSqueeze` - Squeeze, with the scaling of weights until the code is short
  enough;
* `NuFunnel` - the output buffer and the conversion of line ends.

A CRC is the data it was computed over: what can go wrong in this code is *which*
data that is (padding or not, before or after the funnel). Codes are not split
into bits but keep the width they are written in, and a code read in another
width, or in LZC from another group, is garbage.

`NuNames` - names in nulib2: record name to pathname, with or without the
preservation string, and pathname to record name.

`Binary2` - nulib2 on a Binary II library: `BNYIterate` and the four commands,
with a file position that on stdin can only go forward. The squeezed files in it
are sequences of the number of bytes each symbol takes, since what is hard
here is the buffer and the 128-byte blocks, not the tree (that is `NuSqueeze`).

`NuLib2` - `EXTENDS Binary2` with NuFX archives: one command that reads, then one
that adds what there is now or deletes. It models what nulib2's callbacks answer
and the user's answers to nulib2; of the library it has what a callback can see.

```
NuRecord <- NuArchive <- NuFlush   (refines NuArchive)
NuExtract                          (refines NuReader)
NuLzw, NuLzc, NuSqueeze, NuFunnel <- NuCodec
NuNames <- Binary2 <- NuLib2       (refines NuReader)
```

and of the proofs, with facts of numbers and sequences in `NuLemmas`:

```
NuArchive <- NuArchive_proofs
NuFlush   <- NuFlush_proofs   <- NuFiles_proofs      (NuFlush_proofs has an
                                                      instance of NuArchive_proofs)
NuExtract, NuLemmas <- NuExtract_proofs <- NuReader_proofs
NuCodec,   NuLemmas <- NuCodec_proofs
NuLib2,    NuLemmas <- NuLib2_proofs
```

More decisions worth knowing:

* A record without threads read with `MaskDataless` trips the assertion at
  Record.c:1771 ("If valMaskDataless is enabled, this won't fire"), and in a
  stream a data thread before the filename is replaced by an empty file
  (Record.c:1545 accepts that). Archives with the one or the other are excluded
  where such a setting is used, by `ASSUME NiceArchives`.
* The current directory nulib2 works in is a tree: what is above a file that is
  there is a directory that is there (`SessionsAssumption`).
* A directory that cannot be made and a file that cannot be opened are one
  error, `Open`; `kNuErrNotDir` cannot come up on UNIX, where `stat` has failed
  before.
* `StreamSkipLate` says whether the progress updater may skip a thread of a
  stream some of which was read. It is FALSE in run `extract` and TRUE in run
  `skip`, which shows what comes of it.
* The branch of the LZW/2 expander for a clear code at the end of a block is
  never taken and is left out.
* In the codec the compressor never fails for want of space, and nobody
  interrupts it: these are in `NuFlush` and `NuExtract`.

## 3. What is checked

`MCNuArchive` and `MCNuFlush` give three small archives: a new, empty one; a record with
filename and data threads; and two records, one named by a thread and with a
comment, the other named in its header. These are the shapes the code tells
apart.

Run `archive` (about 35,000 states; three edit calls in any order, flushed in
between or not, two new indices, all settings):

* `ModsWellFormed` - the modification list of an existing record has at most one entry
  to a thread; that of a new record holds nothing but adds.
* `CopyOfOrig` - copy is orig less deleted records, and every difference is
  noted where the flush looks.
* `IndicesUnique` - no index the application was given, or a pending thread
  has, means two things.
* `NoConflictingThreads` - a disk image next to a fork, data next to control,
  two of a kind: neither now nor after any pending change.
* `NameMatchesFile` - the cached name is the one a reader would find.
* `OnlyPendingChanges` - a flush, however it ends, leaves unmodified records
  alone and removes only what was deleted or emptied.

Run `flush` (about 170,000 states; two edit calls, a wrapper to keep or discard,
in place or through the temp file, with or without ShrinkIt's comment):

* `ImplementsNuArchive` - the whole of `Nu_Flush` is, to the application, one
  step of `NuArchive`: commit, abort or lock. Until it returns the sets count as
  what they were when it was called, and in a read-only archive the pending sets
  count as gone.
* `NothingLost` - at every moment one of the two files is a whole archive with
  the old or the new contents. Existing records updated in place are the
  documented exception (NOTES.md:176-180).
* `TocMatchesFile` - between calls, every record is where its `fileOffset` says,
  and count and EOF are those of the header in the file.
* `ArchiveUntouchedUntilSwap` - the archive is removed only once the temp
  file is complete.
* `EntryChecks` - the assertions at the start of every API call hold.
* `FlagsTellTheTruth` - Aborted and Succeeded mean it.
* `FlushReturns` - a flush comes back.

Bounds: `MaxEdits` and `MaxIdx` limit edit calls and new indices; a flush does
not count against either (but for the index of a comment). Two edits are
enough for every pair of modifications to meet in one flush, or in two
consecutive flushes; three, in the smaller model, for a conflict between two to
be hidden by a third. One wrapper position is enough, as only its presence
counts. Deadlock is not checked: an application may stop calling, and a process
that died or an archive that was closed does nothing.

Fairness is weak fairness on `FlushStep`: `Nu_Flush` is straight-line code that
goes on as long as the calls it makes return. No edit, crash, failure or close is
ever forced.

Run `extract` (about 190,000 states; three archives, seven settings with their
callbacks, two states of the output directory, two calls):

* `ImplementsReader` - the whole of the reading side is a `NuReader`: bulk or
  single, file or stream, with a table of contents or without, after calls that
  failed, and with calls attempted from callbacks.
* `TocOrNothing` - between calls the table of contents is whole or empty.
* `Aligned` - the file position is where the next read takes it to be: a stream at
  the next thread or record, whichever way the last was dealt with.
* `NothingToMakeUp` - forks GS/ShrinkIt left out are made up when the threads
  are read or after them, never both (the assertion at Record.c:1771).
* `OverwriteOnlyWithLeave` - a file loses its contents only by a setting, or by
  leave given for this very path.
* `CallReturns` - every call comes back.

Two calls are enough for one to find what another left behind: position, table of
contents, busy flag, files. The archives have a forked file, a file with empty
forks left out, a disk image, a name in the header, a bad header and a bad
checksum, and threads of length 1 and 2, the least that can be cut in the middle.

Run `codec` (10,540 jobs, about 134,000 states; characters of 3 bits, codes of 4
and 5 bits, blocks of 32 characters, other sizes in proportion):

* `RoundTrip` - what the funnel is given is always a prefix of the source and at
  the end all of it, and nothing the library wrote is called damaged. Three
  circumstances are excepted by name, each a defect of the code:
  `LooseEscape` (run `escape`); `StaleCode`: a source that ends where LZC clears its
  table gets one code too many (Lzc.c:707-724); `StrayCharacter`: the character
  added to mimic ShrinkIt (Lzw.c:766, asked for by nulib2, ArcUtils.c:843) stays
  outside the expander's buffer if the last chunk fills it, and
  `compRemaining` (Lzw.c:1589) is then an error.
* `HeaderTrue` - format and lengths in the thread header are those of what is in
  the file, also after a compression that did not help and a raw copy.
* `CodesFit` - every code fits its width; LZW/1 writes no clear code, which its
  expander does not know.
* `BufferHoldsChunk` - the expander's buffer holds the chunk it takes; with what is
  still to be read it holds what the chunks to come need, no more and no less; and
  at the end nothing but ShrinkIt's character and the padding of a last block kept as
  it is (the "few stray bytes" of Lzw.c:1568).
* `LineEnds` - the sink gets all data, with every line end converted or none, wherever
  pieces and buffers cut a CR LF.
* `JobsEnd` - every job ends: Squeeze's ceiling comes down until the code fits.

The jobs were chosen by what decides: blocks of every compressed size, runs of the
escape of every length at every place, sources of every length around the
clearing of a table, last blocks that are not kept compressed, weights whose code is too long at first, texts that put
a pair of line ends across every boundary. At these widths the tables fill up and
are cleared, codes widen, buffers are refilled and formats fall back to stored.

Run `nulib2` (4,742 sessions, about 100,000 states):

* `ReadsInOrder` - reading a library or an archive is a `NuReader`.
* `HeadersAligned` - whatever was done with a Binary II entry, the next header is
  looked for where it is, unless the library is cut off before it.
* `IntactReads` - a sound library is read to its end, also one whose last block is
  not filled up at all, as far as `BNYCopyBlocks` puts up with that.
* `NamedForIt` - a name the user typed is used for the fork it was typed for.
* `NamesComeBack` - what is extracted with `-e` and added with `-e` has its name, type
  and kind again, but for names called `Inexact`.
* `NothingOverwritten` - a complete file is overwritten only with leave, also one
  the same command has just written.
* `AddAllOrNothing` - an add that succeeds has added, or passed over with a reason,
  every file; one that fails has left the archive alone.
* `CommandEnds` - commands end.

The sessions: every usable name of up to three characters out of `f 2 % # . / :`
with both separators and six combinations of type, kind and `-e` or `-ee`, extracted and
added again; ten libraries, whole, cut short by 1, 2 or 5 bytes or in the
short last block of an entry with another to follow, and too long, from
a file and from stdin, with every command and with files in the way; and archives
with forks, comments and names that collide under `-j`. Blocks are of 4 bytes and
the squeeze buffer of two blocks, so that an entry needs several refills.

Fairness. `NuExtract`: weak fairness of `Step`, as the library goes on while calls
and callbacks return, and strong fairness of the two questions about a file
answered otherwise than by another name: an application that always says rename and
always names a file that is there is never done. `NuLib2` has the same two
assumptions, of nulib2 and of the user; `NuCodec` goes on until it is over. In these two
weak fairness is written out as "infinitely many steps, or over for good", which
is the same as nothing but the end stops `Next` (deadlock is checked there, with
an explicit last stutter). In `NuExtract` deadlock is not checked: an application
that has made its calls stops.

Seven runs show where the code is not what is said of it:

| Run | Said | Found |
|---|---|---|
| `emptied` | NOTES.md:131: deleting all threads deletes the record | not if that empties the whole archive: the flush finds "nothing pending after purge" |
| `rename` | NOTES.md:148: one filename thread per record | two renames of a record named in its header, and an assertion fails in the flush |
| `inplace` | NOTES.md:169: aborting causes a complete rollback | the master header already written in place stays |
| `discard` | NOTES.md:96: orig is not disturbed until the commit | `headerOffset` and the offsets in orig are, and stay so after an abort |
| `delete` | Deferred.c:2391, 2399: temp is valid, new data is in it | closing the archive removes it |
| `skip` | Thread.c:505: a skip assumes the file is at the start of the thread's data | the progress updater may skip after part of it was read, and the stream is out of step |
| `escape` | Lzw.c:190: the format is escape, character, count | up to three escapes left over from a long run are written bare, and do not expand again |

Seen on the way and tolerated by the models, as nothing in the repository
says otherwise:

* `GetFileDetails` turns `%2f` into `/` before `ReplaceFssep` turns `/` into `:`,
  so a name with a slash comes back as a path; a `:` in a component comes back as
  `X`; a name that begins with `..` loses its directories (`Inexact`).
* `-u` on a file with two forks can delete the archived record for the newer fork
  after the other was passed over as not newer; that fork is then gone.
* A Binary II library whose last block is not filled up is accepted by
  `BNYCopyBlocks` (its comment names ProTERM), but not if it is filled up in part, if
  it is the entry's only block, if the entry is squeezed, or if it is passed over
  on stdin. A file
  `DIR/FILE` extracted alone fails, as nobody makes the directory.
  A partial file is left behind by a failure.
* A name the user types for a file in a directory that does not exist works only
  if the record's separator is `/`.
* `DoDelete` does not look at what `NuClose` returns when it flushes.

For every property of the passing runs PROJECT.json names a mutant of the
modelled code, kept next to the definition it changes, under which TLC finds the
property violated.


## 4. What is proved

Everything in this section holds for all names, contents, archives, sessions,
settings and bounds that satisfy the named assumptions, and no others are made:

| Assumption | Says |
|---|---|
| `RecordAssumption`, `NamesAssumption`, `ExtractAssumption`, `Binary2Assumption`, `FlushAssumption` | the constants are of their types; a squeeze buffer is made of whole blocks |
| `LzwAssumption`, `CodecAssumption`, and those of the other codecs | the widths are such as the code's are: a code is wider than a character, the table's last code has a number, a field of a length is one or two characters, **a block that fills the table has not become smaller**, the expander's buffer holds a largest chunk and one character; a job is a source of characters, a format and settings |
| `PowerAssumption` | 2^(n+1) = 2 * 2^n: arithmetic, which the provers are not told |
| `ArchiveAssumption` | the archive read in has nothing pending, and its indices were handed out by the counter |
| `WellFormedArchives` | it is one NufxLib would write: no forbidden mix of threads, one filename thread, each record cached under the name it has in the file |
| `NiceArchives` | what the code takes for granted of an archive it reads (section 2) |
| `SessionsAssumption` | nulib2 works in a tree of files and directories; the entries of a library and the records of an archive have the fields they need |

TLC evaluates each of them in every run that uses the module.

| Theorem | Property | Rests on the invariant |
|---|---|---|
| `NuArchive_proofs` `TypeCorrect`, `CopyCorrect`, `OnlyPendingCorrect` | `TypeOK`, `CopyOfOrig`, `OnlyPendingChanges` | `Inv` |
| `NuArchive_proofs` `ModsCorrect`, `IndicesCorrect` | `ModsWellFormed`, `IndicesUnique` | `Full` |
| `NuArchive_proofs` `ThreadsCorrect`, `NamesCorrect` | `NoConflictingThreads`, `NameMatchesFile` | `Whole` |
| `NuFlush_proofs` `FlushImplements` | `ImplementsNuArchive` | `FlushInv` |
| `NuFlush_proofs` `FlushTypes`, `EntryCorrect` | `FlushTypeOK`, `EntryChecks` | `Sound` |
| `NuFiles_proofs` `TocCorrect`, `OldOrNewSurvives`, `SwapOnly`, `FlagsAreTrue` | `TocMatchesFile`, `NothingLost`, `ArchiveUntouchedUntilSwap`, `FlagsTellTheTruth` | `Sound /\ Files` |
| `NuExtract_proofs` `ExtractTypes`, `TocWholeOrNone`, `NothingLeftToMakeUp`, `FileAligned`, `OverwrittenOnlyWithLeave` | `ExtractTypeOK`, `TocOrNothing`, `NothingToMakeUp`, `Aligned`, `OverwriteOnlyWithLeave` | `Reading` |
| `NuReader_proofs` `EveryCallReads`, `EveryCallReadsInStep` | `ImplementsReader` | `Reading /\ Counting` |
| `NuLib2_proofs` `NamesOwn`, `OverwrittenWithLeave`, `EntriesAligned`, `Lib2Types`, `AddedAll`, `AllDealtWith`, `IntactIsRead` | `NamedForIt`, `NothingOverwritten`, `HeadersAligned`, `Lib2TypeOK`, `AddAllOrNothing`, `ReadsInOrder`, `IntactReads` | see below |
| `NuCodec_proofs` `HeaderIsTrue`, `CodesAlwaysFit`, `BufferAlwaysHolds` | `HeaderTrue`, `CodesFit`, `BufferHoldsChunk` | `CodecInv` |
| `NuCodec_proofs` `CodecTypesHold` | `CodecTypeOK` | `CodecInv /\ GivenInv` |
| `NuCodec_proofs` `LineEndsHold` | `LineEnds` | `FunnelInv`, and the two before |

**`NuArchive_proofs`.** The first three come from
`Inv == TypeOK /\ CopyOfOrig /\ OrigClean /\ RecordIndices`. Types and the copy
set alone are not inductive: a flush moves orig under copy, so orig must
have nothing pending (`OrigClean`), and it merges new into orig, so their record
indices must be apart (`RecordIndices`). An edit call keeps `Inv` if what it
leaves in copy is derived from orig (`EditKeeps`, and under it one lemma for each
shape of change: the clone, the clone less some records, the clone with one
record changed); each call is brought under one of them. A flush keeps it because
the outcome is clean whichever modifications are skipped (`OutcomeType`).
`OnlyPendingCorrect` needs one thing more: a derived record with nothing noted
as pending is equal to its original (`UnmodifiedIsOrig`).

The other two strengthen it to `Full == Inv /\ ModsWellFormed /\ IndicesUnique`.
Neither addition is inductive without the other: a thread added under an index
already in the list would be a second entry to that thread, and a list with two
entries to a thread, carried out, would not have the indices it is said to have.
`EditWell` says what an edit may do to the indices: draw the next ones, all for one
record. `CarriedWell` says where an index in the archive after a flush can come
from - the record had it, it is the record's own number, or it was drawn for the
comment - and that two records cannot have it from any two of these.

`ThreadsCorrect` and `NamesCorrect` are about what a record *will* be, so they are
stated of its future: `Future(r, t, id)`, once its modifications are
carried out r has thread t of kind id, and `Fits(r)`, no two threads of that
future exclude each other. `OkayToAddThread` looks at what is there and what is
pending and so keeps `Fits`; a flush may skip some modifications, and what is
left of a future that fits still does. For names, a record's header name may be
dropped only if a filename thread is on its way (`GoodCopy`), and if the flush
skips that thread it skips the drop too (`SkipsTogether`); without either half the
name in the cache is one no reader would find.

**`NuFlush_proofs`.** First the refinement, step by step: each of the actions of
the table in section 2 is a stutter of `NuArchive` but for the last of a flush,
which is `FlushNothing`, `FlushCommit`, `FlushAbort` or `FlushLock`. `FlushInv`
is `Whole` of the mapped sets - an INSTANCE of `NuArchive_proofs` under the
refinement mapping - with what `Nu_Flush` has got to: the records built so far are
what carrying out their modifications gives, for *some* set of skipped ones.
The abstract commit asks for one set for the whole archive. The sets of
the single records can be put together because modifications of different
records are different (`ModsApart`, from `IndicesUnique`). This proof led to a
correction of `Carried`, the commit of the abstract level. Then types:
`Sound == FlushInv /\ OldBeforeNew /\ Shape`, where `Shape` are the types of
memory, files and locals at each pc, and `OldBeforeNew` that the indices of new
records come after those of orig, so that `Rank` goes on where it was.

**`NuFiles_proofs`.** What is in the two files at each pc, while no failed flush
has left memory and file apart (`~stale`): where records have been laid so far,
in place or in temp (`TempLaid`, `PlaceOld`, `NewPlaces`), which
file is the whole of what between `DeleteArchive` and `Reopen`, and that of an
archive that is closed or read-only one of the two files still holds the old or the
new contents (`Left`). `Rank`, the place of a record in its list, is counted, so the
lemmas before it are about cardinalities; `FileOf`, the file an archive ought to
be in, is made a description (`IsFileOf`) of what is at each position. The invariant
was checked by TLC on the states of run `flush` first.

**`NuLemmas`** has the facts of numbers and sequences: a set of numbers has a least
one (the principle every induction here goes through, as the theorem on
induction itself cannot be instantiated), and from it chains of partial sums, and
where each part of a flattened sequence lies.

**`NuExtract_proofs`.** `Layout` says where each header and thread is in the file,
for archives of any length. `Reading` has ten parts: types, what each pc means
for whom it is the turn of, the table of contents so far, the records gone through so
far, where a stream is, where a file is, that `currentOffset` is not ahead, the
thread in hand, the forks still to be made up, and the leave to overwrite.
TLC checked it in run `extract` and in run `skip`. `FileAligned` says
`InStep => Aligned`, where `InStep` is: it is not a stream, or no thread is skipped
half read. What happens otherwise is run `skip`.

**`NuReader_proofs`.** The refinement of `NuReader`. What a record promises is
counted thread by thread (forks seen, forks wanting), what an archive
promises record by record, and `Counting` says that at every pc the items done are
those before the one in hand. That the item then handed out is the
next of the job is a fact of where the parts of a flattened sequence lie.
`EveryCallReads` is `Spec /\ []InStep => ImplementsReader`; without a stream
`InStep` is true by definition, and with the library as its own callbacks use it
(`StreamSkipLate = FALSE`) always, which is the corollary.

**`NuLib2_proofs`.**

* `NamesOwn` - `Named`: while the user is asked about a fork, what
  `renameToStr` holds was typed for this record's forks.
* `OverwrittenWithLeave` - `Begun` (in a library) and `Asked` (in an archive):
  how existing files are handled is something the user answered, and a question is
  only asked of something there, in a directory that is there.
* `EntriesAligned` - `Positions` and `Counters`: at every place of `BNYIterate` and
  its four commands the position is the start of the next entry less what is still
  to be read, or the library is cut off before it (`Reached`).
* `Lib2Types` - the hard part is that what there is stays a tree (`Tree`)
  whatever is extracted, which takes lemmas on paths: what is above a path, that
  parents of parents are above, that there is one below at each turn of the walk.
* `AddedAll` - `Adding`: while files are added, each file asked for is still to
  come in the walk (`Awaits`), asked about, passed over with a reason, or in a new
  record. It is the induction over a tree of directories of any depth
  that TLC's sessions cannot show.
* `AllDealtWith` - the third refinement, of `NuReader` again. `Shares` is what is
  asked for of each entry or record, `ShareEnds` where the part of each ends in
  the job; `Dealt` says that at every place as much has been dealt with as comes
  before the entry, or the record and the fork of it, in hand. That the header
  found is the one of the *next* entry takes `Positions` and that later entries
  begin later (`StartGrows`); that the last one found is the last of the job, that
  headers lead to every entry up to one that says it is the last (`ChainFacts`).

* `IntactIsRead` - `WellRead`: of a library with nothing wrong with it, every byte of a
  squeezed entry is in the buffer, to come, or decoded; a file being copied has
  been read one block further than it was written; and what is passed over is not
  the entry that may end short. With `Positions` this says at each read that the
  bytes are there, and at each symbol that its code is in the buffer: either
  `MinFill` bytes are, or all of the rest.

**`NuCodec_proofs`.** The compressors and expanders are loops, written as recursive
functions. What such a loop computes for a given input is out of reach, but what
every turn of it preserves is not: a function on `0 .. n` that is so defined
exists and is in `[0 .. n -> S]` if the step stays in S (`LoopExists`; where what
holds depends on the turn, by `UpTo` of `NuLemmas`).

* `CodecInv` - what the table of LZW/2 is between blocks and within one (`KeptOK`,
  `WorkOK`), what is in the file of each format and what its size stands for, and
  while LZW is expanded, that the buffer and what is still to be read hold exactly
  the chunks not taken yet and the stray character. Neither the size of the thread
  nor the state of the buffer alone would be inductive, as `Desired` decides by both.
* `CodesAlwaysFit` - that LZW/1 writes no clear code is not a matter of one step: it
  is said in the source that the table of LZW/1 "never fills completely", because a
  block that fills it would be too long to be kept. `Heavy` says so in bits: with
  every entry the codes grow by at least `CharBits + 1`, so a block with a clear code
  is heavier than its characters (`TableOutlastsBlock` is where the assumption on
  the widths is used; it holds of 8, 12, 0xffd and 4096).
* `CodecTypesHold` - the tables of the expanders are trees of earlier codes
  (`StringOf`, `lzcString`), so that a string found in them is one of characters,
  whatever was in the archive; `GivenInv` says that what has been expanded so far is
  characters.
* `LineEndsHold` - `FunnelInv`: what was sent, with what the buffer holds, is the
  conversion of what was given up to now, and whether the next LF belongs to a line
  end depends on its last character only (`ConvertedMore`), which the funnel remembers
  from one piece to the next.

Attempts at these proofs that failed found the model inexact in these places, since
corrected: `HeadersAligned` did not except a library that ends before the next
header; leave to overwrite was granted to any file while one was asked about;
the walk of an add could leave a directory, or go into one, while an answer
about a file of it was still due; `BufferHoldsChunk` denied the padding that the
expander leaves in its buffer; and `IntactReads` did not except a last block that is
filled up in part, which `BNYCopyBlocks` does not accept. Each of the last two came
with an input on which TLC then found the old property violated; these inputs are
now among those of the runs.

Only model-checked:

* liveness (`FlushReturns`, `CallReturns`, `JobsEnd`, `CommandEnds`), which is out of
  the proof system's reach;
* `RoundTrip` and `NamesComeBack`: both say that one recursive function undoes another
  on every input, which takes an induction over the input with the state of both
  in it, for each of the formats and for the escapes of a name.

## 5. Not modelled

PROJECT.json lists every component with its status. Left out, with the reason:

* Byte lengths of record and thread headers (`recHeaderLength`, attribute counts):
  in `NuFlush` and `NuExtract` a header is one position. Deferred.c:1209 is the
  place where planned and written size could differ.
* The search for the master header (junk in front, Binary II or SEA wrappers) and
  its validation: it reads, finds or gives up, and keeps no state.
* Reference counts of data sources, and the straw: buffers around a file.
* Bad checksums answered by nulib2's user, comments and disk images on an add, case in
  names, files that vanish between walk and flush.
* nulib2's parsing of options: a session is a command with options that passed it.
  The listing formats.
* deflate and bzip2 (glue around other people's libraries), character set tables,
  dates, printing, host file attributes, Windows, the samples (programs that use
  the library, read for how it is meant to be used).
* A failing `ftruncate`, what stdio still buffers when the process dies, and two
  processes on one archive: the library has no locks.
