----------------------------- MODULE NuExtract -----------------------------
(***************************************************************************)
(* The reading side of NufxLib: NuContents, NuExtract, NuTest and the      *)
(* calls on one record or thread, from a file or from a stream that can    *)
(* only go forward (Record.c:1283-1995, Thread.c:424-880, Expand.c,        *)
(* FileIO.c:600-1165).                                                     *)
(*                                                                         *)
(* An archive is a sequence of records, a record a header and a sequence   *)
(* of threads.  On disk a header takes one position and a thread as many   *)
(* as it is long; what a read finds is the records and threads whose       *)
(* positions it read.  The table of contents is the list of records in the *)
(* order they were read in.  Every callback is asked where the code asks   *)
(* it, and may give any answer.                                            *)
(***************************************************************************)
EXTENDS Naturals, FiniteSets, Sequences, SequencesExt

CONSTANTS
    Archives,       \* archives to read
    Settings,       \* archive values and installed callbacks: see Setting
    FileSystems,    \* what is in the output directory beforehand
    Paths,          \* names of output files
    Parent,         \* Parent[p], the directory p is in, or NoDir
    NoDir,
    Default,        \* Default[i], the path the name of record i stands for
    StreamSkipLate, \* may the progress updater skip a thread of a stream
                    \* after some of it has been read?
    MaxCalls        \* bound: calls in a behaviour

Forks == {"data", "rsrc", "disk"}       \* threads of class data
Kinds == Forks \cup {"filename", "comment", "control"}

Thread == [id : Kinds, len : Nat, bad : {"no", "crc", "data"}]
Record == [hname : BOOLEAN, ext : BOOLEAN, bad : BOOLEAN, threads : Seq(Thread)]

(* stream: opened by NuStreamOpenRO.  mask, ignoreCRC, handle and older    *)
(* are the values MaskDataless, IgnoreCRC, HandleExisting, OnlyUpdateOlder;*)
(* sel, path, handler and progress tell which callbacks are installed.     *)
Setting == [stream : BOOLEAN, mask : BOOLEAN, ignoreCRC : BOOLEAN,
            handle : {"always", "maybe", "never", "must"}, older : BOOLEAN,
            sel : BOOLEAN, path : BOOLEAN, handler : BOOLEAN,
            progress : BOOLEAN]

(* "older" and "newer" are files that were there before, "part" one being  *)
(* written, "out" one written to its end and dated.                        *)
FileStates == {"none", "older", "newer", "part", "out", "dir"}

ASSUME ExtractAssumption ==
    /\ Archives \subseteq Seq(Record)
    /\ Settings \subseteq Setting
    /\ FileSystems \subseteq [Paths -> FileStates]
    /\ {NoDir, "sink"} \cap Paths = {}
    /\ Parent \in [Paths -> Paths \cup {NoDir}]
    /\ \A a \in Archives : \A i \in DOMAIN a : Default[i] \in Paths
    /\ StreamSkipLate \in BOOLEAN
    /\ MaxCalls \in Nat

(* What the code takes for granted of an archive: a stream has the         *)
(* filename thread of a record before its data ("we just assume that all   *)
(* NuFX applications are nice", Record.c:1545), and the assertion at       *)
(* Record.c:1771 that a record read with MaskDataless has some thread.     *)
ASSUME NiceArchives ==
    \A a \in Archives : \A i \in DOMAIN a :
        /\ (\E s \in Settings : s.stream) =>
              \A k \in DOMAIN a[i].threads :
                 a[i].threads[k].id = "filename" =>
                    \A j \in 1 .. k - 1 :
                       a[i].threads[j].id \in {"filename", "comment"}
        /\ (\E s \in Settings : s.mask) => a[i].threads # <<>>

VARIABLES
    arc, disk,      \* the archive, and the file it is in
    opt,            \* the settings
    files,          \* output files
    toc, haveToc,   \* records of the orig set, in order, and haveToc
    pos,            \* archiveFp, as a count of positions
    cur,            \* currentOffset
    busy,           \* the busy flag
    op,             \* the call being served, the record and thread it names,
                    \* and the record it can begin with
    pc,             \* where it is
    left, rec,      \* "count" and "pRecord" of the walk
    idx, needs,     \* next thread, and the forks to make up
    mark,           \* where the record ends
    th,             \* the thread being extracted
    dest,           \* where to: a path, or "sink"
    granted,        \* has the error handler said overwrite for dest?
    done, result,   \* what the call dealt with, what it returned
    calls

env   == <<arc, disk, opt>>
reads == <<toc, haveToc, pos, cur>>
walk  == <<left, rec, mark>>
loop  == <<idx, needs>>
out   == <<th, dest, granted>>
api   == <<busy, op, calls>>
vars  == <<env, files, reads, walk, loop, out, api, pc, done, result>>

-----------------------------------------------------------------------------
(* The archive file *)

Cells(a) ==
    FlattenSeq([i \in DOMAIN a |->
        <<[rec |-> i, thr |-> 0]>> \o
        FlattenSeq([k \in DOMAIN a[i].threads |->
            [j \in 1 .. a[i].threads[k].len |-> [rec |-> i, thr |-> k]]])])

EOF == Len(disk)

(* Where thread k of record i begins, 0 being the record's header.  A      *)
(* thread made up by MaskDataless comes after the others                   *)
(* (Nu_ComputeThreadData).                                                 *)
Start(i, k) == Cardinality({p \in 1 .. EOF :
                   \/ disk[p].rec < i
                   \/ disk[p].rec = i /\ disk[p].thr < k})

HeaderHere == pos < EOF /\ disk[pos + 1].thr = 0

(* A read of n positions from p on finds exactly thread k of record i.     *)
Finds(p, n, i, k) ==
    /\ n = arc[i].threads[k].len
    /\ \A q \in p + 1 .. p + n : q <= EOF /\ disk[q] = [rec |-> i, thr |-> k]

Kind(i, k) == arc[i].threads[k].id
HasKind(i, S) == \E k \in DOMAIN arc[i].threads : Kind(i, k) \in S

MissingForks(i) ==
    {f \in {"data", "rsrc"} : /\ f = "rsrc" => arc[i].ext
                              /\ ~HasKind(i, {f, "disk"})}

InOrder(S) == (IF "data" \in S THEN <<"data">> ELSE <<>>) \o
              (IF "rsrc" \in S THEN <<"rsrc">> ELSE <<>>)

(* Mutant of Threads: only the data fork is made up. *)
ThreadsWithData(i) ==
    LET made == IF opt.mask /\ arc[i].threads # <<>>
                  THEN InOrder(MissingForks(i) \ {"rsrc"}) ELSE <<>>
    IN  arc[i].threads \o
        [n \in DOMAIN made |-> [id |-> made[n], len |-> 0, bad |-> "no"]]

(* Threads of a record as Nu_ReadThreadHeaders leaves them: with           *)
(* MaskDataless missing forks are appended, unless the record has no       *)
(* thread at all.                                                          *)
Threads(i) ==
    LET made == IF opt.mask /\ arc[i].threads # <<>>
                  THEN InOrder(MissingForks(i)) ELSE <<>>
    IN  arc[i].threads \o
        [n \in DOMAIN made |-> [id |-> made[n], len |-> 0, bad |-> "no"]]

TotalLen(i) == Start(i + 1, 0) - Start(i, 1)

(* Nu_StreamExtract reads up to the first filename thread, if any.         *)
FilenameIdx(i) ==
    IF HasKind(i, {"filename"})
      THEN CHOOSE k \in DOMAIN arc[i].threads :
              /\ Kind(i, k) = "filename"
              /\ \A j \in 1 .. k - 1 : Kind(i, j) # "filename"
      ELSE 0

-----------------------------------------------------------------------------
(* Calls *)

BulkCalls   == {"contents", "extract", "test"}
SingleCalls == {"getRecord", "extractRecord", "testRecord", "extractThread"}
Testing     == op.name \in {"test", "testRecord"}
Bulk        == op.name \in BulkCalls

NoOp == [name |-> "none", rec |-> 0, thr |-> 0, from |-> 0]
NoThread == [id |-> "none", len |-> 0, bad |-> "no", thr |-> 0, at |-> 0,
             own |-> TRUE]

Handler == {"abort", "retry", "rename", "skip", "overwrite", "ignore"}
Answers(installed, S) == IF installed THEN S ELSE {"ok"}

Init ==
    /\ arc \in Archives /\ disk = Cells(arc)
    /\ opt \in Settings /\ files \in FileSystems
    /\ toc = <<>> /\ haveToc = FALSE /\ pos = 0 /\ cur = 0
    /\ busy = FALSE /\ op = NoOp /\ pc = "idle"
    /\ left = 0 /\ rec = 0 /\ mark = 0
    /\ idx = 0 /\ needs = {}
    /\ th = NoThread /\ dest = "sink" /\ granted = FALSE
    /\ done = <<>> /\ result = "none" /\ calls = 0

(* Mutant of Validate: the busy flag is not looked at. *)
ValidateAlways == calls < MaxCalls

(* Nu_ValidateNuArchive turns away a call made from inside a callback.     *)
Validate == ~busy /\ calls < MaxCalls

(* Where the application has control: outside of any call, or in a callback*)
AppRuns == pc \in {"idle", "show", "select", "path", "opening", "final"}

(* Nu_RecordWalkPrepare; a stream cannot be rewound *)
WalkPrepare == IF opt.stream \/ haveToc THEN UNCHANGED <<pos, cur>>
               ELSE pos' = 0 /\ cur' = 0

(* Mutant of WalkFinish: an interrupted walk leaves its records behind. *)
WalkFinishKeep(ok) ==
    /\ haveToc' = (haveToc \/ (ok /\ ~opt.stream))
    /\ toc' = toc

(* Nu_RecordWalkFinish: all of the table of contents, or none of it *)
WalkFinish(ok) ==
    /\ haveToc' = (haveToc \/ (ok /\ ~opt.stream))
    /\ toc' = IF haveToc' THEN toc ELSE <<>>

(* Every call of Entry.c clears the busy flag when it comes back.  Its     *)
(* locals are gone.                                                        *)
Return(r) ==
    /\ pc' = "idle" /\ busy' = FALSE /\ result' = r
    /\ left' = 0 /\ rec' = 0 /\ mark' = 0 /\ idx' = 0 /\ needs' = {}
    /\ th' = NoThread /\ dest' = "sink" /\ granted' = FALSE

(* A stream read before has only the rest of its records to give.          *)
FirstRecord == IF ~opt.stream THEN 1
               ELSE IF HeaderHere THEN disk[pos + 1].rec
               ELSE Len(arc) + 1

(* NuContents, NuExtract, NuTest *)
CallBulk(name) ==
    /\ AppRuns /\ Validate
    /\ op' = [NoOp EXCEPT !.name = name, !.from = FirstRecord]
    /\ busy' = TRUE /\ calls' = calls + 1
    /\ WalkPrepare
    /\ left' = Len(arc)
    /\ pc' = "next" /\ done' = <<>> /\ result' = "none"
    /\ UNCHANGED <<env, files, toc, haveToc, rec, mark, loop, out>>

(* NuGetRecord, NuExtractRecord, NuTestRecord, NuExtractThread: not for    *)
(* streams; the table of contents is read first if need be.                *)
CallSingle(name, i, k) ==
    /\ AppRuns /\ Validate
    /\ op' = [name |-> name, rec |-> i, thr |-> k, from |-> 1]
    /\ calls' = calls + 1 /\ done' = <<>>
    /\ IF opt.stream
         THEN /\ result' = "Usage"
              /\ UNCHANGED <<reads, busy, pc, left>>
         ELSE /\ busy' = TRUE /\ result' = "none"
              /\ WalkPrepare
              /\ left' = IF haveToc THEN 0 ELSE Len(arc)
              /\ pc' = IF haveToc THEN "find" ELSE "next"
              /\ UNCHANGED <<toc, haveToc>>
    /\ UNCHANGED <<env, files, rec, mark, loop, out>>

ThreadsOf(i) == IF i \in DOMAIN arc THEN DOMAIN Threads(i) ELSE {}

Call ==
    \/ \E name \in BulkCalls : CallBulk(name)
    \/ \E i \in 1 .. Len(arc) + 1 :
          \/ \E name \in SingleCalls \ {"extractThread"} : CallSingle(name, i, 0)
          \/ \E k \in ThreadsOf(i) : CallSingle("extractThread", i, k)

-----------------------------------------------------------------------------
(* The walk over the records *)

Stop(r) ==
    /\ Return(r)
    /\ WalkFinish(FALSE)
    /\ UNCHANGED <<env, op, calls>>

(* What is done with a record once it is read *)
AfterRecord == CASE op.name = "contents" -> "show"
                 [] op.name \in {"extract", "test"} -> "threads"
                 [] OTHER -> "next"

BeginThreads(i, k) == idx' = k /\ needs' = {"data"} \cup
                                  (IF arc[i].ext THEN {"rsrc"} ELSE {})

(* Nu_RecordWalkGetNext with a table of contents *)
NextFromToc ==
    /\ pc = "next" /\ left > 0 /\ haveToc
    /\ left' = left - 1
    /\ rec' = toc[Len(arc) - left + 1]
    /\ BeginThreads(rec', 0)
    /\ pc' = AfterRecord
    /\ UNCHANGED <<env, files, reads, mark, out, api, done, result>>

HeaderReadable == HeaderHere /\ (arc[disk[pos + 1].rec].bad
                                   => opt.ignoreCRC \/ opt.handler)

(* Nu_ReadRecordHeader and Nu_ScanThreads: all of the record is passed     *)
(* over, or, to extract from a stream, the threads up to its filename.  A  *)
(* bad header checksum is ignored because the value or the handler says so.*)
NextFromFile ==
    /\ pc = "next" /\ left > 0 /\ ~haveToc /\ HeaderReadable
    /\ LET i    == disk[pos + 1].rec
           part == opt.stream /\ op.name \in {"extract", "test"}
           upTo == IF part THEN FilenameIdx(i) ELSE 0
           stop == IF part THEN Start(i, upTo + 1) ELSE Start(i + 1, 0)
       IN  /\ part => upTo > 0 \/ arc[i].hname
           /\ left' = left - 1 /\ rec' = i
           /\ pos' = stop /\ mark' = stop
           /\ cur' = cur + 1 + (IF part /\ upTo = 0 THEN 0 ELSE TotalLen(i))
           /\ toc' = IF opt.stream THEN toc ELSE Append(toc, i)
           /\ BeginThreads(i, upTo)
           /\ pc' = AfterRecord
    /\ UNCHANGED <<env, files, haveToc, out, api, done, result>>

(* No header where one should be, a checksum that is not ignored, or, to   *)
(* extract from a stream, a record without a name                          *)
Unreadable ==
    HeaderHere =>
        LET i == disk[pos + 1].rec IN
           \/ arc[i].bad /\ ~opt.ignoreCRC
           \/ /\ opt.stream /\ op.name \in {"extract", "test"}
              /\ ~arc[i].hname /\ ~HasKind(i, {"filename"})

NextFails ==
    /\ pc = "next" /\ left > 0 /\ ~haveToc /\ Unreadable
    /\ Stop("BadRecord")
    /\ UNCHANGED <<files, pos, cur, done>>

(* contentFunc gets the record.                                            *)
Show ==
    /\ pc = "show"
    /\ \/ /\ done' = Append(done, <<<<rec, "record">>, "given">>)
          /\ pc' = "next"
          /\ UNCHANGED <<env, files, reads, walk, loop, out, api, result>>
       \/ Stop("Aborted") /\ UNCHANGED <<files, pos, cur, done>>

EndOfWalk ==
    /\ pc = "next" /\ left = 0
    /\ WalkFinish(TRUE)
    /\ IF Bulk THEN Return("ok")
       ELSE pc' = "find" /\ UNCHANGED <<busy, result, walk, loop, out>>
    /\ UNCHANGED <<env, files, pos, cur, op, calls, done>>

(* Thread k of record i, or with k = 0 a fork made up for it *)
OpenThread(t, i, k) ==
    th' = [id |-> t.id, len |-> t.len, bad |-> t.bad, thr |-> k,
           at |-> IF k = 0 THEN 0 ELSE Start(i, k), own |-> TRUE]

(* Nu_RecordSet_FindByIdx, Nu_RecordSet_FindByThreadIdx *)
FindRecord ==
    /\ pc = "find"
    /\ IF \A n \in DOMAIN toc : toc[n] # op.rec THEN Return("RecordNotFound")
       ELSE IF op.name = "getRecord" THEN Return("ok")
       ELSE /\ rec' = op.rec
            /\ IF op.name = "extractThread"
                 THEN /\ pc' = "select"
                      /\ OpenThread(Threads(op.rec)[op.thr], op.rec, op.thr)
                      /\ UNCHANGED loop
                 ELSE /\ pc' = "threads"
                      /\ BeginThreads(op.rec, 0)
                      /\ UNCHANGED th
            /\ UNCHANGED <<left, mark, dest, granted, busy, result>>
    /\ UNCHANGED <<env, files, reads, op, calls, done>>

-----------------------------------------------------------------------------
(* The threads of a record: Nu_StreamExtract and Nu_ExtractRecordByPtr *)

SkipWouldFail(n) == opt.stream /\ pos + n > EOF

(* Mutant of SkipTo: a thread not asked for is left to the next read. *)
SkipToNothing(n) == pos' = pos

(* Mutant of SkipTo: a file is read past the thread too. *)
SkipToAlways(n) == pos' = pos + n

(* Nu_SkipThread: nothing to do in a file, reading past it in a stream *)
SkipTo(n) == pos' = IF opt.stream THEN pos + n ELSE pos

(* The forks that need not be made up once this thread is seen.  A disk    *)
(* image is neither fork, and with a thread unknown to it the code makes   *)
(* nothing up.                                                             *)
Supplies(id) == CASE id \in {"data", "rsrc"} -> {id}
                  [] id \in {"disk", "control"} -> {"data", "rsrc"}
                  [] OTHER -> {}

(* Threads that are not of class data are passed over.                     *)
PassThread ==
    /\ pc = "threads" /\ idx < Len(Threads(rec))
    /\ LET t == Threads(rec)[idx + 1] IN
          /\ t.id \notin Forks
          /\ IF SkipWouldFail(t.len)
               THEN Stop("FileSeek") /\ pos' = EOF /\ UNCHANGED cur
               ELSE /\ SkipTo(t.len)
                    /\ idx' = idx + 1 /\ needs' = needs \ Supplies(t.id)
                    /\ UNCHANGED <<env, toc, haveToc, cur, walk, out, api, pc, result>>
    /\ UNCHANGED <<files, done>>

(* Nu_ExtractThreadBulk *)
TakeThread ==
    /\ pc = "threads" /\ idx < Len(Threads(rec))
    /\ LET t == Threads(rec)[idx + 1] IN
          /\ t.id \in Forks
          /\ OpenThread(t, rec, idx + 1)
          /\ idx' = idx + 1 /\ needs' = needs \ Supplies(t.id)
    /\ pc' = "select"
    /\ UNCHANGED <<env, files, reads, walk, dest, granted, api, done, result>>

(* Nu_FakeZeroExtract: GS/ShrinkIt leaves out the threads of empty forks.  *)
MakeFork ==
    /\ pc = "threads" /\ idx = Len(Threads(rec)) /\ needs # {}
    /\ LET f == Head(InOrder(needs)) IN
          /\ OpenThread([id |-> f, len |-> 0, bad |-> "no"], rec, 0)
          /\ needs' = needs \ {f}
    /\ pc' = "select"
    /\ UNCHANGED <<env, files, reads, walk, idx, dest, granted, api, done, result>>

(* Nu_Extract puts the file back where the walk left it.                   *)
EndOfRecord ==
    /\ pc = "threads" /\ idx = Len(Threads(rec)) /\ needs = {}
    /\ IF Bulk
         THEN /\ pos' = IF opt.stream \/ haveToc THEN pos ELSE mark
              /\ pc' = "next" /\ UNCHANGED <<busy, result, walk, loop, out>>
         ELSE Return("ok") /\ UNCHANGED pos
    /\ UNCHANGED <<env, files, toc, haveToc, cur, op, calls, done>>

-----------------------------------------------------------------------------
(* One thread: Nu_ExtractThreadCommon *)

(* What is handed out: the thread, unless something else was read for it *)
Item == IF th.own THEN <<rec, th.id>> ELSE <<0, "garbage">>

(* On to the next thread of the record, or back to the application *)
ThreadOver(fate, r) ==
    /\ done' = Append(done, <<Item, fate>>)
    /\ IF op.name = "extractThread" THEN Return(r)
       ELSE pc' = "threads" /\ UNCHANGED <<busy, result, walk, loop, out>>

(* kNuErrSkipped: the bulk calls skip the thread, NuExtractThread returns  *)
(* it.  Nu_SkipThread takes the stream to be at the start of the thread.   *)
PassedOver ==
    IF SkipWouldFail(th.len)
      THEN Stop("FileSeek") /\ pos' = EOF /\ UNCHANGED <<files, cur, done>>
      ELSE /\ SkipTo(th.len) /\ ThreadOver("skipped", "ok")
           /\ UNCHANGED <<env, files, toc, haveToc, cur, op, calls>>

SkipThread ==
    IF op.name = "extractThread"
      THEN Stop("Skipped") /\ UNCHANGED <<files, pos, cur, done>>
      ELSE PassedOver

ThreadFails(r) == Stop(r) /\ UNCHANGED <<files, pos, cur, done>>

GoOn(to) == /\ pc' = to
            /\ UNCHANGED <<env, files, reads, walk, loop, api, done, result>>

(* selectionFilterFunc.  In test mode there is a sink that takes anything, *)
(* and NuExtractThread may be given one that is not a file.                *)
Select ==
    /\ pc = "select"
    /\ \E a \in Answers(opt.sel, {"ok", "skip", "abort"}) :
          \/ a = "skip" /\ PassedOver
          \/ a = "abort" /\ ThreadFails("Aborted")
          \/ /\ a = "ok"
             /\ \E to \in {"opening", "path"} :
                   /\ to = "opening" => Testing \/ op.name = "extractThread"
                   /\ to = "path" => ~Testing
                   /\ GoOn(to)
             /\ dest' = "sink" /\ granted' = FALSE
             /\ UNCHANGED th

(* outputPathnameFunc, asked again after every "rename": a path, or a data *)
(* sink of the application's own                                           *)
ChoosePath ==
    /\ pc = "path"
    /\ \/ /\ ~opt.path
          /\ GoOn("opening") /\ dest' = Default[rec] /\ granted' = FALSE
          /\ UNCHANGED th
       \/ /\ opt.path
          /\ \/ PassedOver
             \/ ThreadFails("Aborted")
             \/ \E p \in Paths \cup {"sink"} :
                   /\ GoOn("opening") /\ dest' = p /\ granted' = FALSE
                   /\ UNCHANGED th

(* The progress message before the file is opened, for data threads *)
SendOpening ==
    /\ pc = "opening"
    /\ \E a \in Answers(opt.progress /\ th.id \in Forks, {"ok", "skip", "abort"}) :
          \/ a = "skip" /\ SkipThread
          \/ a = "abort" /\ ThreadFails("Aborted")
          \/ /\ a = "ok"
             /\ GoOn(IF dest = "sink" THEN "expand" ELSE "check")
             /\ UNCHANGED out

Exists == files[dest] # "none"

(* Mutant of AskHandler: without a handler the name is asked for again. *)
AskHandlerAgain(err, overwrite) ==
    IF opt.handler
      THEN \/ ThreadFails("Aborted")
           \/ GoOn("path") /\ UNCHANGED out
           \/ GoOn(overwrite) /\ granted' = TRUE /\ UNCHANGED <<th, dest>>
      ELSE GoOn("path") /\ UNCHANGED out

(* What the error handler may say to a file in the way, or not there; if   *)
(* there is none, err is the answer.                                       *)
AskHandler(err, overwrite) ==
    IF opt.handler
      THEN \/ ThreadFails("Aborted")
           \/ GoOn("path") /\ UNCHANGED out
           \/ SkipThread
           \/ GoOn(overwrite) /\ granted' = TRUE /\ UNCHANGED <<th, dest>>
           \/ ThreadFails("Syntax")
      ELSE ThreadFails(err)

(* Nu_OpenOutputFile, first part: with OnlyUpdateOlder a file must be      *)
(* older than the record.  stat fails if a file stands where a directory   *)
(* is needed.                                                              *)
CheckAge ==
    /\ pc = "check"
    /\ IF Parent[dest] # NoDir /\ files[Parent[dest]] \notin {"none", "dir"}
         THEN ThreadFails("FileStat")
       ELSE IF opt.older /\ Exists /\ files[dest] # "older"
         THEN AskHandler("NotNewer", "exists")
       ELSE GoOn("exists") /\ UNCHANGED out

(* Mutant of CheckExists: every setting but "never" may overwrite. *)
CheckExistsTrusting ==
    /\ pc = "exists"
    /\ IF Exists /\ opt.handle = "never" THEN SkipThread
       ELSE IF ~Exists /\ opt.handle = "must"
         THEN AskHandler("DuplicateNotFound", "open")
       ELSE GoOn("open") /\ UNCHANGED out

(* Second part: HandleExisting *)
CheckExists ==
    /\ pc = "exists"
    /\ IF Exists /\ opt.handle = "maybe" THEN AskHandler("FileExists", "open")
       ELSE IF Exists /\ opt.handle = "never" THEN SkipThread
       ELSE IF ~Exists /\ opt.handle = "must"
         THEN AskHandler("DuplicateNotFound", "open")
       ELSE GoOn("open") /\ UNCHANGED out

(* Third part: directories are made, an existing file is truncated.  The   *)
(* system may refuse.                                                      *)
OpenFile ==
    /\ pc = "open"
    /\ IF Exists /\ files[dest] = "dir" THEN ThreadFails("NotRegularFile")
       ELSE \/ ThreadFails("Open")
            \/ /\ files' = [p \in Paths |-> IF p = dest THEN "part"
                                            ELSE IF p = Parent[dest] THEN "dir"
                                            ELSE files[p]]
               /\ pc' = "expand"
               /\ UNCHANGED <<env, reads, walk, loop, out, api, done, result>>

From == IF opt.stream THEN pos ELSE th.at

(* Nu_ExpandStream reads nothing of a thread that has no data.             *)
ExpandNothing ==
    /\ pc = "expand" /\ th.len = 0
    /\ GoOn("final") /\ UNCHANGED out

(* All of the data is read and written; a bad checksum is ignored because  *)
(* the value or the handler says so.                                       *)
Expand ==
    /\ pc = "expand" /\ th.len > 0 /\ th.bad # "data" /\ From + th.len <= EOF
    /\ th.bad = "crc" => opt.ignoreCRC \/ opt.handler
    /\ pos' = From + th.len
    /\ th' = [th EXCEPT !.own = Finds(From, th.len, rec, th.thr)]
    /\ pc' = "final"
    /\ UNCHANGED <<env, files, toc, haveToc, cur, walk, loop, dest, granted, api,
                   done, result>>

(* It ends in an error: data that cannot be expanded or written, a         *)
(* checksum that counts, or the end of the file.                           *)
ExpandFails ==
    /\ pc = "expand" /\ th.len > 0
    /\ \E n \in 0 .. th.len :
          /\ From + n <= EOF
          /\ n = th.len => th.bad # "no" /\ (th.bad = "crc" => ~opt.ignoreCRC)
          /\ pos' = From + n
    /\ Stop("BadData")
    /\ UNCHANGED <<files, cur, done>>

(* The progress updater interrupts it once n positions are read.           *)
Interrupt ==
    /\ pc = "expand" /\ th.len > 0 /\ opt.progress /\ th.id \in Forks
    /\ \E n \in 1 .. th.len :
          /\ From + n <= EOF
          /\ \/ /\ Stop("Aborted")
                /\ pos' = From + n /\ UNCHANGED <<files, cur, done>>
             \/ /\ opt.stream => StreamSkipLate
                /\ IF op.name = "extractThread"
                     THEN /\ Stop("Skipped")
                          /\ pos' = From + n /\ UNCHANGED <<files, cur, done>>
                   ELSE IF opt.stream /\ From + n + th.len > EOF
                     THEN /\ Stop("FileSeek")
                          /\ pos' = EOF /\ UNCHANGED <<files, cur, done>>
                   ELSE /\ pos' = From + n + (IF opt.stream THEN th.len ELSE 0)
                        /\ ThreadOver("skipped", "ok")
                        /\ UNCHANGED <<env, files, toc, haveToc, cur, op, calls>>

(* The last progress message; then Nu_CloseOutputFile dates the file.      *)
Finish ==
    /\ pc = "final"
    /\ \E a \in Answers(opt.progress /\ th.id \in Forks, {"ok", "skip", "abort"}) :
          \/ /\ a = "skip" /\ (opt.stream /\ th.len > 0 => StreamSkipLate)
             /\ SkipThread
          \/ a = "abort" /\ ThreadFails("Aborted")
          \/ /\ a = "ok"
             /\ files' = IF dest = "sink" THEN files
                         ELSE [files EXCEPT ![dest] = "out"]
             /\ ThreadOver("given", "ok")
             /\ UNCHANGED <<env, reads, op, calls>>

Step ==
    \/ NextFromToc \/ NextFromFile \/ NextFails \/ Show \/ EndOfWalk
    \/ FindRecord \/ PassThread \/ TakeThread \/ MakeFork \/ EndOfRecord
    \/ Select \/ ChoosePath \/ SendOpening
    \/ CheckAge \/ CheckExists \/ OpenFile
    \/ ExpandNothing \/ Expand \/ ExpandFails \/ Interrupt \/ Finish

Next == Call \/ Step

(* The library keeps going, and an application asked again and again what  *)
(* to do with a file does not ask for another name forever.                *)
Fairness == /\ WF_vars(Step)
            /\ SF_vars(CheckAge /\ pc' # "path")
            /\ SF_vars(CheckExists /\ pc' # "path")

Spec == Init /\ [][Next]_vars /\ Fairness

-----------------------------------------------------------------------------
(* Properties *)

(* Every variable has its type. *)
ExtractTypeOK ==
    /\ arc \in Archives /\ opt \in Settings
    /\ files \in [Paths -> FileStates]
    /\ toc \in Seq(DOMAIN arc) /\ haveToc \in BOOLEAN /\ busy \in BOOLEAN
    /\ pos \in 0 .. EOF /\ cur \in 0 .. EOF
    /\ op.rec \in 0 .. Len(arc) + 1 /\ op.from \in 0 .. Len(arc) + 1
    /\ left \in 0 .. Len(arc) /\ rec \in 0 .. Len(arc) /\ mark \in 0 .. EOF
    /\ needs \subseteq {"data", "rsrc"}
    /\ idx <= Cardinality(ThreadsOf(rec))
    /\ dest \in Paths \cup {"sink"} /\ granted \in BOOLEAN
    /\ calls \in 0 .. MaxCalls

(* What a reader of the archive is promised for record i: the forks it     *)
(* has, and an empty one for each it should have and has not, unless it    *)
(* has threads nobody knows.  MaskDataless makes the forks up regardless.  *)
Promised(i) ==
    LET made == IF HasKind(i, {"control"}) /\ ~opt.mask THEN <<>>
                ELSE InOrder(MissingForks(i))
    IN  FlattenSeq([k \in DOMAIN arc[i].threads |->
                       IF Kind(i, k) \in Forks THEN <<<<i, Kind(i, k)>>>> ELSE <<>>]) \o
        [k \in DOMAIN made |-> <<i, made[k]>>]

Job == CASE op.name = "contents" ->
              [n \in 1 .. Len(arc) + 1 - op.from |-> <<n + op.from - 1, "record">>]
         [] op.name \in {"extract", "test"} ->
              FlattenSeq([n \in 1 .. Len(arc) + 1 - op.from |->
                             Promised(n + op.from - 1)])
         [] op.name \in {"extractRecord", "testRecord"} /\ op.rec \in DOMAIN arc ->
              Promised(op.rec)
         [] op.name = "extractThread" /\ op.rec \in DOMAIN arc ->
              <<<<op.rec, Threads(op.rec)[op.thr].id>>>>
         [] OTHER -> <<>>

ItemSet == Nat \X (Kinds \cup {"record"})

Status == IF busy THEN "busy"
          ELSE IF result = "none" THEN "idle"
          ELSE IF result = "ok" THEN "ok" ELSE "failed"

Reader == INSTANCE NuReader WITH
    Items <- ItemSet, job <- Job, done <- done, status <- Status

(* Every call hands out the records or forks it was asked for, each once,  *)
(* in order and with its own data, succeeds only after the last one, and   *)
(* is over before another begins: in a stream and in a file, with the      *)
(* table of contents and without, after calls that failed, and whatever    *)
(* the callbacks answer.                                                   *)
ImplementsReader == Reader!Spec

(* Between calls the table of contents is the whole archive in its order,  *)
(* or there is none (the assertions of Nu_ValidateNuArchive).  An          *)
(* interrupted walk, walked again, must not leave records twice.           *)
TocOrNothing ==
    ~busy => toc = IF haveToc THEN [i \in DOMAIN arc |-> i] ELSE <<>>

(* The archive file is where the next read takes it to be: a stream at the *)
(* next thread or the next record; a file, whatever extraction did to it,  *)
(* at the next record while the walk reads records, with currentOffset in  *)
(* step (the assertion in Nu_ScanThreads).                                 *)
Aligned ==
    /\ opt.stream /\ busy =>
          /\ pc = "next" /\ rec # 0 => pos = Start(rec + 1, 0)
          /\ pc = "threads" => pos = Start(rec, idx + 1)
          /\ pc \in {"select", "path", "opening", "check", "exists", "open",
                     "expand"} /\ th.thr # 0 => pos = th.at
    /\ ~opt.stream /\ ~haveToc /\ busy /\ rec # 0 =>
          cur = mark /\ (pc = "next" => pos = mark)

(* The assertion behind the loop over the threads: with MaskDataless there *)
(* is never a fork to make up.                                             *)
NothingToMakeUp == pc = "threads" /\ idx = Len(Threads(rec)) /\ opt.mask
                      => needs = {}

(* A file that is there loses its contents only to an extraction, and only *)
(* if the settings allow it without asking or the error handler said so    *)
(* for this very path: not after a rename, not for the second fork of a    *)
(* record that goes to the same path, not when testing.                    *)
OverwriteOnlyWithLeave ==
    [][\A p \in Paths :
          files[p] \notin {"none", "dir"} /\ files'[p] \notin {files[p], "out"} =>
             /\ p = dest /\ ~Testing
             /\ \/ granted
                \/ /\ opt.handle \in {"always", "must"}
                   /\ opt.older => files[p] = "older"]_vars

(* Every call comes back.                                                  *)
CallReturns == busy ~> ~busy
=============================================================================
