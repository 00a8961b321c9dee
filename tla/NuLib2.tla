------------------------------- MODULE NuLib2 -------------------------------
(***************************************************************************)
(* nulib2: one command that reads an archive into the current directory    *)
(* (Extract.c), and another that adds what is there to an archive or       *)
(* deletes from it (Add.c, Delete.c, SysUtils.c), with the answers nulib2  *)
(* gives to NufxLib's callbacks and the user gives to nulib2 (ArcUtils.c). *)
(* A Binary II library is read as in Binary2; a NuFX archive through       *)
(* NufxLib, of which there is here what the callbacks can see: NuExtract   *)
(* and NuArchive say the rest.                                             *)
(*                                                                         *)
(* A session is [kind, cmd, source, opt, before, then, archive]: what to   *)
(* read, how, what the directory holds before, what to do next, and the    *)
(* archive that is done to.  A NuFX source is [records, stdin], a record   *)
(* [name, sep, type, kinds, comment, age].  The archive written to maps    *)
(* names to [type, forks, age], forks mapping kinds to what they hold.     *)
(***************************************************************************)
EXTENDS Binary2

CONSTANT RenameTo   \* what the user may type as a new name

ArchiveRecord == [name : Seq(Chars), sep : Chars, type : DOMAIN TypeName,
                  kinds : Seq({"data", "rsrc", "disk"}), comment : BOOLEAN, age : Nat]

\* What is above a path; what is above something that is there is a directory.
Above(path) == {SubSeq(path, 1, i - 1) : i \in Lasts(path, Sep) \ {1}}
IsTree(fs) ==
    \A path \in DOMAIN fs :
        /\ path \in Seq(Chars) \ {<<>>}
        /\ fs[path] = Dir \/ fs[path].kind = "file"
        /\ \A d \in Above(path) : d \in DOMAIN fs /\ fs[d] = Dir

ASSUME SessionsAssumption ==
    /\ RenameTo \subseteq Seq(Chars)
    /\ \A s \in Sessions :
          /\ IsTree(s.before)
          /\ \/ /\ s.kind = "bny"
                /\ s.source.entries \in Seq(LibraryEntry) /\ s.source.size \in Nat
             \/ s.kind = "nufx" /\ s.source.records \in Seq(ArchiveRecord)

VARIABLES
    fork,           \* the fork of record n it is at
    handle,         \* kNuValueHandleExisting: "maybe", "never", "always", "must"
    rename,         \* renameToStr and renameFromIdx, if the user gave a name
    answers,        \* all the user's answers: <<record, kind, reply or name>>
    walk,           \* the directories being walked: what is left to visit
    copy, new,      \* the archive's copy and new record sets
    archive,        \* the archive on disk
    passed,         \* files that were not added, and why
    added           \* how the second command fares

addVars == <<walk, copy, new, archive, passed, added>>
askVars == <<handle, rename, answers>>
nufxVars == <<fork, askVars, addVars>>
vars == <<bnyVars, nufxVars>>

NoRename == <<>>
Record == session.source.records[n]
Forks(r) == (IF Opt.comments /\ r.comment THEN <<"comment">> ELSE <<>>) \o r.kinds
Kind == Forks(Record)[fork]

Init ==
    /\ BNYInit
    /\ fork = 0 /\ handle = "maybe" /\ rename = NoRename /\ answers = {}
    /\ walk = <<>> /\ copy = <<>> /\ new = <<>> /\ archive = session.archive
    /\ passed = {} /\ added = "no"
-----------------------------------------------------------------------------
(* DoExtract, DoExtractToPipe, DoTest on a NuFX archive                    *)

\* OpenArchiveReadOnly: -f overrides -s.  ExtractAllRecords cannot look records
\* up in a stream.
NuFXBegin ==
    /\ ~IsLibrary /\ at = "idle"
    /\ \E records \in {session.source.records} :
          job' = FlattenSeq([i \in DOMAIN records |->
                    IF NameIsSpecified(records[i].name)
                    THEN [k \in DOMAIN Forks(records[i]) |-> <<i, Forks(records[i])[k]>>]
                    ELSE <<>>])
    /\ handle' = IF Opt.fresh THEN "must" ELSE IF Opt.over THEN "always" ELSE "maybe"
    /\ IF Opt.comments /\ session.source.stdin THEN Fail("usage")
       ELSE at' = "record" /\ status' = "busy" /\ UNCHANGED why
    /\ UNCHANGED <<session, done, n, out, files, pos, consumed, blocks,
                   fork, rename, answers, addVars>>

\* SelectionFilter is asked once for every record.
NextRecord ==
    /\ at = "record" /\ n < Len(session.source.records)
    /\ n' = n + 1 /\ fork' = 0
    /\ GoTo(IF NameIsSpecified(session.source.records[n'].name) THEN "fork" ELSE "record")
    /\ UNCHANGED <<call, done, out, files, pos, consumed, blocks, askVars, addVars>>

EndRecords ==
    /\ at = "record" /\ n = Len(session.source.records)
    /\ Over("ok", why)
    /\ UNCHANGED <<call, done, n, out, files, pos, consumed, blocks, nufxVars>>

DealFork(fate) == done' = Append(done, <<<<n, Kind>>, fate>>)

\* Comments are shown, tests and pipes need no file.
NextFork ==
    /\ at = "fork" /\ fork < Len(Forks(Record))
    /\ fork' = fork + 1
    /\ \E kind \in {Forks(Record)[fork + 1]} :
         IF kind = "comment" \/ session.cmd # "x"
         THEN GoTo(at) /\ done' = Append(done, <<<<n, kind>>, "given">>)
         ELSE GoTo("path") /\ UNCHANGED done
    /\ UNCHANGED <<call, n, out, files, pos, consumed, blocks, askVars, addVars>>

\* Mutant of EndForks: a skipped fork ends the record.
EndForksEarly ==
    /\ at = "fork"
    /\ \/ fork = Len(Forks(Record))
       \/ fork > 0 /\ done # <<>> /\ Last(done) = <<<<n, Kind>>, "skipped">>
    /\ GoTo("record")
    /\ UNCHANGED <<call, done, n, out, files, pos, consumed, blocks, nufxVars>>

EndForks ==
    /\ at = "fork" /\ fork = Len(Forks(Record))
    /\ GoTo("record")
    /\ UNCHANGED <<call, done, n, out, files, pos, consumed, blocks, nufxVars>>

OwnPath == NormalizePath(Record.name, Record.sep, Record.type, Kind, Opt)

\* Mutant of OutputPathnameFilter: the user's name is kept for next time.
OutputPathnameFilterKept ==
    /\ at = "path"
    /\ out' = IF rename # NoRename /\ rename[1] = n THEN rename[2] ELSE OwnPath
    /\ UNCHANGED rename
    /\ GoTo("check")
    /\ UNCHANGED <<call, done, n, files, pos, consumed, blocks, fork, handle, answers, addVars>>

\* A name the user typed is taken once, as it is; others are normalized.
OutputPathnameFilter ==
    /\ at = "path"
    /\ out' = IF rename # NoRename /\ rename[1] = n THEN rename[2] ELSE OwnPath
    /\ rename' = NoRename
    /\ GoTo("check")
    /\ UNCHANGED <<call, done, n, files, pos, consumed, blocks, fork, handle, answers, addVars>>

SkipFork == GoTo("fork") /\ DealFork("skipped") /\ UNCHANGED files

\* Mutant of WriteFork: no directories are made.
WriteForkBare ==
    IF IsDir(out) THEN Fail("notfile") /\ UNCHANGED <<done, files>>
    ELSE /\ GoTo("fork") /\ DealFork("given")
         /\ files' = Put(out, File(<<n, Kind>>, TRUE, Record.age), files)

\* Directories are made, those of a user's name only if the record's separator
\* is the local one; the file is truncated, written, and dated as the record.
\* There is no file without a name.
WriteFork ==
    IF IsDir(out) THEN Fail("notfile") /\ UNCHANGED <<done, files>>
    ELSE IF out = <<>> \/ (out # OwnPath /\ Record.sep # Sep /\ ~HasRoom(out))
      THEN Fail("open") /\ UNCHANGED <<done, files>>
    ELSE /\ GoTo("fork") /\ DealFork("given")
         /\ files' = Put(out, File(<<n, Kind>>, TRUE, Record.age),
                         Overlay([d \in Above(out) |-> Dir], files))

TooNew == (Opt.fresh \/ Opt.update) /\ ~(IsDir(out) \/ files[out].age < Record.age)

\* Nu_OpenOutputFile, and what ErrorHandler answers by itself: a file that is
\* too new, or with -f not there, is passed over.
Check ==
    /\ at = "check"
    /\ IF \E d \in Above(out) : Exists(d) THEN Fail("stat") /\ UNCHANGED <<done, files>>
       ELSE IF out \in DOMAIN files
         THEN IF TooNew THEN SkipFork
              ELSE CASE handle = "maybe" -> GoTo("ask") /\ UNCHANGED <<done, files>>
                     [] handle = "never" -> SkipFork
                     [] OTHER            -> WriteFork
       ELSE IF handle = "must" THEN SkipFork ELSE WriteFork
    /\ UNCHANGED <<call, n, out, pos, consumed, blocks, nufxVars>>

Answer(reply) == answers' = answers \cup {<<n, Kind, reply>>}

(* HandleReplaceExisting.  What it does not understand it asks again; when *)
(* nobody can be asked it gives up.                                        *)
Replace ==
    /\ at = "ask" /\ ~session.source.stdin
    /\ \/ Answer(<<"y">>) /\ UNCHANGED handle
       \/ Answer(<<"A">>) /\ handle' = "always"
    /\ WriteFork
    /\ UNCHANGED <<call, n, out, pos, consumed, blocks, fork, rename, addVars>>

\* Mutant of Keep: the fork is tried again.
KeepAgain ==
    /\ at = "ask" /\ ~session.source.stdin
    /\ \/ Answer(<<"n">>) /\ UNCHANGED handle
       \/ Answer(<<"N">>) /\ handle' = "never"
    /\ GoTo("path") /\ UNCHANGED <<done, files>>
    /\ UNCHANGED <<call, n, out, pos, consumed, blocks, fork, rename, addVars>>

Keep ==
    /\ at = "ask" /\ ~session.source.stdin
    /\ \/ Answer(<<"n">>) /\ UNCHANGED handle
       \/ Answer(<<"N">>) /\ handle' = "never"
    /\ SkipFork
    /\ UNCHANGED <<call, n, out, pos, consumed, blocks, fork, rename, addVars>>

Quit ==
    /\ at = "ask"
    /\ Fail("aborted")
    /\ UNCHANGED <<call, done, n, out, files, pos, consumed, blocks, nufxVars>>

Rename ==
    /\ at = "ask" /\ ~session.source.stdin
    /\ \E name \in RenameTo : rename' = <<n, name>> /\ Answer(name)
    /\ GoTo("path")
    /\ UNCHANGED <<call, done, n, out, files, pos, consumed, blocks, fork, handle, addVars>>
-----------------------------------------------------------------------------
(* DoAdd                                                                   *)

Then == session.then
readVars == <<session, at, status, why, job, done, n, files, pos, consumed, blocks, fork, rename>>

\* OpenArchiveReadWrite, and the files named on the command line
StartAdd ==
    /\ at = "over" /\ added = "no" /\ Then.cmd = "add"
    /\ added' = "busy" /\ copy' = archive /\ new' = <<>>
    /\ handle' = IF Then.fresh THEN "must" ELSE "maybe"
    /\ walk' = <<{p \in DOMAIN files : Parent(p) = <<>>}>>
    /\ out' = <<>>
    /\ UNCHANGED <<readVars, answers, archive, passed>>

(* UNIXAddDirectory.  The order of its entries is the system's.            *)
Walk(path) == walk' = <<walk[1] \ {path}>> \o Tail(walk)
EndDirectory ==
    /\ added = "busy" /\ walk # <<>> /\ out = <<>> /\ walk[1] = {}
    /\ walk' = Tail(walk)
    /\ UNCHANGED <<readVars, out, handle, answers, copy, new, archive, passed, added>>

Descend ==
    /\ added = "busy" /\ walk # <<>> /\ out = <<>>
    /\ \E path \in walk[1] :
         /\ IsDir(path)
         /\ walk' = (IF Then.recurse THEN <<{p \in DOMAIN files : Parent(p) = path}>> ELSE <<>>)
                    \o <<walk[1] \ {path}>> \o Tail(walk)
    /\ UNCHANGED <<readVars, out, handle, answers, copy, new, archive, passed, added>>

\* Any error but those DoAddFile expects ends the command; NuAbort.
AddFails ==
    /\ added' = "failed" /\ walk' = <<>> /\ copy' = archive /\ new' = <<>>
    /\ UNCHANGED <<archive, passed>>

PassFile(path, reason) ==
    /\ passed' = passed \cup {<<path, reason>>}
    /\ UNCHANGED <<copy, new, archive, added>>

\* Nu_AddRecord and Nu_AddFileThreadMod, once nothing is in the way
NewRecord(path, details) ==
    /\ new' = Put(details.name,
                  [type |-> details.type, age |-> files[path].age,
                   forks |-> [kind \in {details.kind} |-> files[path].from]], new)
    /\ copy' = [name \in DOMAIN copy \ {details.name} |-> copy[name]]
    /\ UNCHANGED <<archive, passed, added>>

\* Nu_OkayToAddThread, for data, rsrc and disk
OkayToAdd(forks, kind) ==
    kind \notin DOMAIN forks /\ "disk" \notin DOMAIN forks
    /\ (kind = "disk" => DOMAIN forks = {})

\* Mutant of JoinRecord: a new record of that name is replaced.
JoinRecordAnew(path, details) ==
    IF OkayToAdd(new[details.name].forks, details.kind)
    THEN /\ new' = [new EXCEPT ![details.name].forks = Put(details.kind, files[path].from, @)]
         /\ UNCHANGED <<copy, archive, passed, added>>
    ELSE NewRecord(path, details)

\* Nu_AddFile looks among the new records first; the other fork of a file gets
\* in without further questions.
JoinRecord(path, details) ==
    IF OkayToAdd(new[details.name].forks, details.kind)
    THEN /\ new' = [new EXCEPT ![details.name].forks = Put(details.kind, files[path].from, @)]
         /\ UNCHANGED <<copy, archive, passed, added>>
    ELSE AddFails

\* Nu_HandleAddDuplicateRecord: with -u or -f the record must be older.
NotNewer(path, name) ==
    (Then.update \/ Then.fresh) /\ ~(copy[name].age < files[path].age)

AddFile ==
    /\ added = "busy" /\ walk # <<>> /\ out = <<>>
    /\ \E path \in walk[1] : \E details \in {GetFileDetails(path, Then)} :
         /\ ~IsDir(path)
         /\ IF details.name \in DOMAIN new
              THEN JoinRecord(path, details) /\ UNCHANGED out
            ELSE IF details.name \notin DOMAIN copy
              THEN /\ IF handle = "must" THEN PassFile(path, "notfound")
                      ELSE NewRecord(path, details)
                   /\ UNCHANGED out
            ELSE IF NotNewer(path, details.name) THEN PassFile(path, "notnewer") /\ UNCHANGED out
            ELSE IF handle = "never" THEN PassFile(path, "told") /\ UNCHANGED out
            ELSE IF handle = "maybe" /\ ~Then.update
              THEN out' = path /\ UNCHANGED <<copy, new, archive, passed, added>>
            ELSE NewRecord(path, details) /\ UNCHANGED out
         /\ IF added' = "failed" THEN walk' = <<>> ELSE Walk(path)
    /\ UNCHANGED <<readVars, handle, answers>>

(* HandleReplaceExisting again; records are not renamed.                   *)
AnswerAdd ==
    /\ added = "busy" /\ out # <<>>
    /\ out' = <<>>
    /\ \E reply \in {"y", "A", "n", "N", "q"} :
         /\ answers' = answers \cup {<<0, "add", <<reply>>>>}
         /\ handle' = CASE reply = "A" -> "always" [] reply = "N" -> "never" [] OTHER -> handle
         /\ CASE reply \in {"y", "A"} -> NewRecord(out, GetFileDetails(out, Then)) /\ UNCHANGED walk
              [] reply \in {"n", "N"} -> PassFile(out, "told") /\ UNCHANGED walk
              [] reply = "q"          -> AddFails
    /\ UNCHANGED readVars

\* NuFlush does it, or does it and fails afterwards, or does not, and NuAbort
\* (how, and what happens if the old archive cannot be replaced, is in NuFlush).
Flush ==
    /\ added = "busy" /\ walk = <<>> /\ out = <<>>
    /\ \/ archive' = Overlay(new, copy) /\ added' \in {"ok", "written"}
       \/ new # <<>> /\ UNCHANGED archive /\ added' = "failed"
    /\ UNCHANGED <<readVars, out, handle, answers, walk, copy, new, passed>>

\* DoDelete: NuClose flushes, and nobody looks at what it returns.
DoDelete ==
    /\ at = "over" /\ added = "no" /\ Then.cmd = "delete"
    /\ \E kept \in {{name \in DOMAIN archive : ~ \E spec \in Then.specs :
                        IF Then.recurse THEN IsPrefix(spec, name) ELSE spec = name}} :
          \/ archive' = [name \in kept |-> archive[name]]
          \/ kept # DOMAIN archive /\ UNCHANGED archive
    /\ added' = "ok"
    /\ UNCHANGED <<readVars, out, handle, answers, walk, copy, new, passed>>
-----------------------------------------------------------------------------
Reading ==
    \/ BNYNext /\ UNCHANGED nufxVars
    \/ NuFXBegin \/ NextRecord \/ EndRecords \/ NextFork \/ EndForks
    \/ OutputPathnameFilter \/ Check \/ Replace \/ Keep \/ Quit \/ Rename

Writing ==
    StartAdd \/ EndDirectory \/ Descend \/ AddFile \/ AnswerAdd \/ Flush \/ DoDelete

\* Both commands are over.
Ended == at = "over" /\ (Then.cmd # "none" => added \in {"ok", "written", "failed"})
Rest == Ended /\ UNCHANGED vars

Next == Reading \/ Writing \/ Rest

\* nulib2 goes on until it is done, and the user does not go on typing names of
\* files that exist: asked again and again, he gives another answer in the end.
\* (This is WF of Next and SF of the answers: nothing but Ended stops Next, and
\* there is always an answer when one is asked for.)
Fairness ==
    /\ []<><<Next>>_vars \/ <>[]Ended
    /\ []<>(at = "ask") => []<><<Replace \/ Keep \/ Quit>>_vars

Spec == Init /\ [][Next]_vars /\ Fairness
-----------------------------------------------------------------------------
(* Properties                                                              *)

\* Where things are, and of what kind: nothing is being written to a directory,
\* what waits for an answer is a file that is there.
Lib2TypeOK ==
    /\ at \in {"idle", "header", "first", "entry", "data", "copy", "unsqueeze", "pass",
               "record", "fork", "path", "check", "ask", "over"}
    /\ status \in {"idle", "busy", "ok", "failed"} /\ (status = "failed" <=> why # "")
    /\ added \in {"no", "busy", "ok", "written", "failed"}
    /\ handle \in {"maybe", "never", "always", "must"}
    /\ inBuf \in 0 .. SqBufferSize /\ comp \in Nat /\ left \in Nat
    /\ \A path \in DOMAIN files : files[path] = Dir \/ files[path].kind = "file"
    /\ \A path \in DOMAIN files : HasRoom(path)
    /\ at = "ask" => out \in DOMAIN files
    /\ DOMAIN copy \cap DOMAIN new = {}

(***************************************************************************)
(* Reading, of a library or of an archive, keeps the promise of NuReader:  *)
(* everything specified is dealt with, once and in order.                  *)
(***************************************************************************)
Reader == INSTANCE NuReader WITH
              Items <- Nat \X {"data", "rsrc", "disk", "comment"}
ReadsInOrder == Reader!Spec

(***************************************************************************)
(* A file that was complete is overwritten only with leave: -s, an answer, *)
(* or -f and a file that is older than the record (HandleReplaceExisting,  *)
(* BNYExtract).  That goes for files the same command has just made.       *)
(***************************************************************************)
Leave(path) ==
    IF IsLibrary THEN Opt.over
    ELSE /\ path = out
         /\ \/ at = "ask"
            \/ /\ \/ handle = "always" /\ (Opt.over \/ \E a \in answers : a[3] = <<"A">>)
                  \/ handle = "must" /\ Opt.fresh
               /\ Opt.fresh \/ Opt.update => files[path].age < Record.age
NothingOverwritten ==
    [][\A path \in DOMAIN files :
          Exists(path) /\ files[path].whole /\ files'[path] # files[path] => Leave(path)]_vars

(***************************************************************************)
(* A file gets the name of its fork, or one the user typed for it: a name  *)
(* given for one fork is never used for another (renameToStr and           *)
(* renameFromIdx are left behind by one callback for another).             *)
(***************************************************************************)
NamedForIt ==
    ~IsLibrary /\ at \in {"check", "ask"} =>
        out = OwnPath \/ <<n, Kind, out>> \in answers

\* Names that cannot come back: a separator within a component (":" and "/" are
\* both separators somewhere), and what GetFileDetails takes for a relative path.
Inexact(r) ==
    LET name == SelectSeq(r.name, LAMBDA c : c # r.sep)
        path == NormalizePath(r.name, r.sep, r.type, "data", [Opt EXCEPT !.junk = FALSE])
    IN  \/ Range(name) \cap {Sep, StorageSep} # {}
        \/ Sanitized(path) # path \/ HasDotDot(path)

StoredName(r) ==
    LET lead == Max({i \in 0 .. Len(r.name) : \A j \in 1 .. i : r.name[j] = r.sep})
        name == [i \in 1 .. Len(r.name) - lead |->
                    IF r.name[i + lead] = r.sep THEN Sep ELSE r.name[i + lead]]
    IN  [i \in DOMAIN name |-> IF name[i] = Sep THEN StorageSep ELSE name[i]]

(***************************************************************************)
(* What is extracted with -e and added with -e comes back with its name,   *)
(* its type and its kind, unless the name is one of the inexact ones       *)
(* ("preserving the file types of anything that was extracted with -e",    *)
(* nulib2.1:181; AddPreservationString against ExtractPreservationString,  *)
(* NormalizeFileName against DenormalizePath).                             *)
(***************************************************************************)
NamesComeBack ==
    /\ ~IsLibrary /\ Opt.preserve /\ ~Opt.junk /\ added = "ok" /\ Then.cmd = "add" /\ Then.preserve
    /\ ~Then.junk
    => \A name \in DOMAIN archive : \A kind \in DOMAIN archive[name].forks :
          LET from == archive[name].forks[kind]
              r    == session.source.records[from[1]]
          IN  from[1] > 0 /\ ~Inexact(r) /\ (\A a \in answers : a[3] \notin RenameTo) =>
                  /\ kind = from[2]
                  /\ archive[name].type = r.type
                  /\ name = StoredName(r)

(***************************************************************************)
(* An add that succeeds, or says that the changes were written, has put    *)
(* every file it came to into the archive, or passed it over because -u,   *)
(* -f or the user said so; one that fails otherwise has left the archive   *)
(* as it was (DoAdd, DoAddFile, NuAddFile, NuFlush).                       *)
(***************************************************************************)
AddAllOrNothing ==
    /\ added = "failed" => archive = session.archive
    /\ added \in {"ok", "written"} /\ Then.cmd = "add" =>
          \A path \in {p \in DOMAIN files : Exists(p) /\ (Then.recurse \/ Parent(p) = <<>>)} :
              LET details == GetFileDetails(path, Then)
              IN  \/ \E reason \in {"notnewer", "notfound", "told"} : <<path, reason>> \in passed
                  \/ /\ details.name \in DOMAIN archive
                     /\ details.kind \in DOMAIN archive[details.name].forks
                     /\ archive[details.name].forks[details.kind] = files[path].from

(***************************************************************************)
(* Both commands come to an end, whatever the archive holds and whatever   *)
(* is in the way, if the user does not rename for ever.                    *)
(***************************************************************************)
CommandEnds == <>[]Ended
=============================================================================
