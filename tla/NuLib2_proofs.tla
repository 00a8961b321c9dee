--------------------------- MODULE NuLib2_proofs ---------------------------
(***************************************************************************)
(* What TLAPS proves of nulib2: for every session, library and archive,    *)
(* every name and every answer of the user.                                *)
(***************************************************************************)
EXTENDS NuLib2, NuLemmas

-----------------------------------------------------------------------------
(* Where the two commands may be *)

LibraryPlaces == {"header", "first", "entry", "data", "copy", "unsqueeze", "pass"}
ArchivePlaces == {"record", "fork", "path", "check", "ask"}

(* A library is read in its own places and an archive in its own; the      *)
(* second command does nothing before the first is over.                   *)
InPlace ==
    /\ session \in Sessions
    /\ at \in {"idle", "over"} \cup LibraryPlaces \cup ArchivePlaces
    /\ at \in LibraryPlaces => IsLibrary
    /\ at \in ArchivePlaces => ~IsLibrary
    /\ added \in {"no", "busy", "ok", "written", "failed"}
    /\ added # "no" => at = "over"
    /\ handle \in {"maybe", "never", "always", "must"}

LEMMA InitInPlace == Init => InPlace
BY DEF Init, BNYInit, InPlace, LibraryPlaces, ArchivePlaces

(* The steps of reading a library                                          *)
LEMMA LibraryInPlace ==
    ASSUME InPlace, BNYNext, UNCHANGED nufxVars
    PROVE  InPlace'
<1>1. added' = added /\ handle' = handle
  BY DEF nufxVars, addVars, askVars
<1> USE DEF InPlace, LibraryPlaces, ArchivePlaces, GoTo, Fail, Over, IsLibrary, call
<1>2. CASE BNYBegin
  BY <1>1, <1>2 DEF BNYBegin
<1>3. CASE ReadHeader
  BY <1>1, <1>3 DEF ReadHeader
<1>4. CASE ReadFirst
  BY <1>1, <1>4 DEF ReadFirst
<1>5. CASE NextEntry
  BY <1>1, <1>5 DEF NextEntry
<1>6. CASE PassOver
  BY <1>1, <1>6 DEF PassOver
<1>7. CASE ListEntry
  BY <1>1, <1>7 DEF ListEntry
<1>8. CASE BNYExtractDirectory
  BY <1>1, <1>8 DEF BNYExtractDirectory, Extracts
<1>9. CASE OpenOutput
  BY <1>1, <1>9 DEF OpenOutput, Extracts
<1>10. CASE ExtractNothing
  BY <1>1, <1>10 DEF ExtractNothing, Complete
<1>11. CASE StartCopy
  BY <1>1, <1>11 DEF StartCopy
<1>12. CASE CopyBlock
  BY <1>1, <1>12 DEF CopyBlock, Complete
<1>13. CASE StartUnSqueeze
  BY <1>1, <1>13 DEF StartUnSqueeze
<1>14. CASE Refill
  BY <1>1, <1>14 DEF Refill
<1>15. CASE DecodeSymbol
  BY <1>1, <1>15 DEF DecodeSymbol
<1>16. CASE EndUnSqueeze
  BY <1>1, <1>16 DEF EndUnSqueeze, Complete
<1> QED
  BY <1>2, <1>3, <1>4, <1>5, <1>6, <1>7, <1>8, <1>9, <1>10, <1>11, <1>12, <1>13, <1>14,
     <1>15, <1>16 DEF BNYNext

(* The steps of reading an archive                                         *)
ArchiveStep ==
    \/ NuFXBegin \/ NextRecord \/ EndRecords \/ NextFork \/ EndForks
    \/ OutputPathnameFilter \/ Check \/ Replace \/ Keep \/ Quit \/ Rename

LEMMA ArchiveInPlace ==
    ASSUME InPlace, ArchiveStep
    PROVE  InPlace'
<1> USE DEF InPlace, LibraryPlaces, ArchivePlaces, GoTo, Fail, Over, IsLibrary, call,
            addVars, askVars, nufxVars
<1>1. CASE NuFXBegin
  BY <1>1 DEF NuFXBegin
<1>2. CASE NextRecord
  BY <1>2 DEF NextRecord
<1>3. CASE EndRecords
  BY <1>3 DEF EndRecords
<1>4. CASE NextFork
  BY <1>4 DEF NextFork
<1>5. CASE EndForks
  BY <1>5 DEF EndForks
<1>6. CASE OutputPathnameFilter
  BY <1>6 DEF OutputPathnameFilter
<1>7. CASE Check
  BY <1>7 DEF Check, SkipFork, WriteFork
<1>8. CASE Replace
  BY <1>8 DEF Replace, WriteFork
<1>9. CASE Keep
  BY <1>9 DEF Keep, SkipFork
<1>10. CASE Quit
  BY <1>10 DEF Quit
<1>11. CASE Rename
  BY <1>11 DEF Rename
<1> QED
  BY <1>1, <1>2, <1>3, <1>4, <1>5, <1>6, <1>7, <1>8, <1>9, <1>10, <1>11 DEF ArchiveStep

(* The second command leaves all of the first as it is, the session too.   *)
LEMMA WritingReads ==
    ASSUME Writing
    PROVE  UNCHANGED readVars
BY DEF Writing, StartAdd, EndDirectory, Descend, AddFile, AnswerAdd, Flush, DoDelete

(* It begins when the first is over.                                       *)
LEMMA WritingInPlace ==
    ASSUME InPlace, Writing
    PROVE  InPlace' /\ at = "over"
<1>1. UNCHANGED <<session, at>>
  BY WritingReads DEF readVars
<1>2. at = "over"
  BY DEF Writing, StartAdd, EndDirectory, Descend, AddFile, AnswerAdd, Flush, DoDelete, InPlace
<1>3. added' \in {"no", "busy", "ok", "written", "failed"}
  BY DEF Writing, StartAdd, EndDirectory, Descend, AddFile, AnswerAdd, Flush, DoDelete, InPlace,
         JoinRecord, NewRecord, AddFails, PassFile
<1>4. handle' \in {"maybe", "never", "always", "must"}
  BY DEF Writing, StartAdd, EndDirectory, Descend, AddFile, AnswerAdd, Flush, DoDelete, InPlace
<1> QED BY <1>1, <1>2, <1>3, <1>4 DEF InPlace, LibraryPlaces, ArchivePlaces, IsLibrary

LEMMA NextParts ==
    ASSUME [Next]_vars
    PROVE  (BNYNext /\ UNCHANGED nufxVars) \/ ArchiveStep \/ Writing \/ UNCHANGED vars
BY DEF Next, Reading, Rest, ArchiveStep

LEMMA StutterInPlace ==
    ASSUME InPlace, UNCHANGED vars
    PROVE  InPlace'
BY DEF InPlace, vars, bnyVars, nufxVars, addVars, askVars, IsLibrary

LEMMA NextInPlace == InPlace /\ [Next]_vars => InPlace'
BY NextParts, LibraryInPlace, ArchiveInPlace, WritingInPlace, StutterInPlace

LEMMA AlwaysInPlace == Spec => []InPlace
BY InitInPlace, NextInPlace, PTL DEF Spec

-----------------------------------------------------------------------------
(* Names *)

(* A name the user gave waits for its fork only until the fork's path is   *)
(* made, and what is being looked at is of its own or of such a name.      *)
Named ==
    ~IsLibrary =>
        /\ rename # NoRename =>
              at = "path" /\ \E name : rename = <<n, name>> /\ <<n, Kind, name>> \in answers
        /\ at \in {"check", "ask"} => out = OwnPath \/ <<n, Kind, out>> \in answers

LEMMA SameFork ==
    ASSUME UNCHANGED <<session, n, fork>>
    PROVE  Kind' = Kind /\ OwnPath' = OwnPath /\ Record' = Record
BY DEF Kind, OwnPath, Record, Forks, Opt

LEMMA InitNamed == Init => Named
BY DEF Init, BNYInit, Named, NoRename

(* What leaves the places of an archive behind                             *)
LEMMA OutsideNamed ==
    ASSUME Named, rename' = rename, at # "path" \/ IsLibrary, at' \notin {"path", "check", "ask"},
           session' = session
    PROVE  Named'
BY DEF Named, IsLibrary, NoRename

LEMMA ArchiveNamed ==
    ASSUME InPlace, Named, ArchiveStep
    PROVE  Named'
<1> DEFINE There(o) == o = OwnPath \/ <<n, Kind, o>> \in answers
<1>1. CASE NuFXBegin
  <2>1. rename' = rename /\ session' = session /\ at = "idle" /\ at' \in {"record", "over"}
    BY <1>1 DEF NuFXBegin, Fail, Over
  <2> QED BY <2>1, OutsideNamed
<1>2. CASE NextRecord
  <2>1. rename' = rename /\ session' = session /\ at = "record" /\ at' \in {"record", "fork"}
    BY <1>2 DEF NextRecord, GoTo, call, askVars
  <2> QED BY <2>1, OutsideNamed
<1>3. CASE EndRecords
  <2>1. rename' = rename /\ session' = session /\ at = "record" /\ at' = "over"
    BY <1>3 DEF EndRecords, Over, call, nufxVars, askVars
  <2> QED BY <2>1, OutsideNamed
<1>4. CASE NextFork
  <2>1. rename' = rename /\ session' = session /\ at = "fork" /\ at' \in {"fork", "path"}
    BY <1>4 DEF NextFork, GoTo, call, askVars
  <2> QED BY <2>1 DEF Named, IsLibrary, NoRename
<1>5. CASE EndForks
  <2>1. rename' = rename /\ session' = session /\ at = "fork" /\ at' = "record"
    BY <1>5 DEF EndForks, GoTo, call, nufxVars, askVars
  <2> QED BY <2>1, OutsideNamed
<1>6. CASE OutputPathnameFilter
  <2>1. /\ UNCHANGED <<session, n, fork, answers>> /\ rename' = NoRename /\ at' = "check"
        /\ out' = IF rename # NoRename /\ rename[1] = n THEN rename[2] ELSE OwnPath
    BY <1>6 DEF OutputPathnameFilter, GoTo, call
  <2>2. ASSUME ~IsLibrary
        PROVE  out' = OwnPath \/ <<n, Kind, out'>> \in answers
    <3>1. CASE rename # NoRename
      <4>1. PICK name : rename = <<n, name>> /\ <<n, Kind, name>> \in answers
        BY <2>2, <3>1 DEF Named
      <4>2. rename[1] = n /\ rename[2] = name
        BY <4>1
      <4>3. out' = name
        BY <2>1, <3>1, <4>2
      <4> QED BY <4>1, <4>3
    <3>2. CASE rename = NoRename
      BY <2>1, <3>2
    <3> QED BY <3>1, <3>2
  <2>3. Kind' = Kind /\ OwnPath' = OwnPath
    BY <2>1, SameFork
  <2>4. IsLibrary' = IsLibrary
    BY <2>1 DEF IsLibrary
  <2> QED BY <2>1, <2>2, <2>3, <2>4 DEF Named
<1>7. CASE Check
  <2>1. /\ UNCHANGED <<session, n, fork, answers, rename, out>> /\ at = "check"
        /\ at' \in {"fork", "ask", "over"}
    BY <1>7 DEF Check, SkipFork, WriteFork, GoTo, Fail, Over, call, nufxVars, askVars
  <2>2. Kind' = Kind /\ OwnPath' = OwnPath
    BY <2>1, SameFork
  <2>3. IsLibrary' = IsLibrary
    BY <2>1 DEF IsLibrary
  <2> QED BY <2>1, <2>2, <2>3 DEF Named
<1>8. CASE Replace
  <2>1. rename' = rename /\ session' = session /\ at = "ask" /\ at' \in {"fork", "over"}
    BY <1>8 DEF Replace, WriteFork, GoTo, Fail, Over, call
  <2> QED BY <2>1, OutsideNamed
<1>9. CASE Keep
  <2>1. rename' = rename /\ session' = session /\ at = "ask" /\ at' = "fork"
    BY <1>9 DEF Keep, SkipFork, GoTo, call
  <2> QED BY <2>1, OutsideNamed
<1>10. CASE Quit
  <2>1. rename' = rename /\ session' = session /\ at = "ask" /\ at' = "over"
    BY <1>10 DEF Quit, Fail, Over, call, nufxVars, askVars
  <2> QED BY <2>1, OutsideNamed
<1>11. CASE Rename
  <2>1. PICK name \in RenameTo : rename' = <<n, name>> /\ Answer(name)
    BY <1>11 DEF Rename
  <2>2. UNCHANGED <<session, n, fork>> /\ at' = "path"
    BY <1>11 DEF Rename, GoTo, call
  <2>3. Kind' = Kind /\ OwnPath' = OwnPath
    BY <2>2, SameFork
  <2>4. <<n, Kind, name>> \in answers'
    BY <2>1 DEF Answer
  <2> QED BY <2>1, <2>2, <2>3, <2>4 DEF Named
<1> QED
  BY <1>1, <1>2, <1>3, <1>4, <1>5, <1>6, <1>7, <1>8, <1>9, <1>10, <1>11 DEF ArchiveStep

(* Reading a library is no business of this.                               *)
LEMMA LibraryFacts ==
    ASSUME InPlace, BNYNext
    PROVE  IsLibrary /\ session' = session
<1>1. at = "idle" => BNYBegin
  BY DEF BNYNext, ReadHeader, ReadFirst, NextEntry, PassOver, ListEntry, BNYExtractDirectory,
         OpenOutput, Extracts, ExtractNothing, StartCopy, CopyBlock, StartUnSqueeze, Refill,
         DecodeSymbol, EndUnSqueeze
<1>2. at \in LibraryPlaces \cup {"idle"}
  BY DEF BNYNext, BNYBegin, ReadHeader, ReadFirst, NextEntry, PassOver, ListEntry,
         BNYExtractDirectory, OpenOutput, Extracts, ExtractNothing, StartCopy, CopyBlock,
         StartUnSqueeze, Refill, DecodeSymbol, EndUnSqueeze, LibraryPlaces
<1>3. session' = session
  BY DEF BNYNext, BNYBegin, ReadHeader, ReadFirst, NextEntry, PassOver, ListEntry,
         BNYExtractDirectory, OpenOutput, ExtractNothing, StartCopy, CopyBlock,
         StartUnSqueeze, Refill, DecodeSymbol, EndUnSqueeze, call
<1> QED BY <1>1, <1>2, <1>3 DEF InPlace, BNYBegin

LEMMA NextNamed == InPlace /\ Named /\ [Next]_vars => Named'
<1> SUFFICES ASSUME InPlace, Named, [Next]_vars PROVE Named'
  OBVIOUS
<1>1. CASE BNYNext /\ UNCHANGED nufxVars
  BY <1>1, LibraryFacts DEF Named, IsLibrary
<1>2. CASE ArchiveStep
  BY <1>2, ArchiveNamed
<1>3. CASE Writing
  <2>1. rename' = rename /\ session' = session /\ at = "over" /\ at' = "over"
    BY <1>3, WritingReads, WritingInPlace DEF readVars
  <2> QED BY <2>1, OutsideNamed
<1>4. CASE UNCHANGED vars
  <2>1. UNCHANGED <<session, n, fork, answers, rename, out, at>>
    BY <1>4 DEF vars, bnyVars, nufxVars, askVars
  <2>2. Kind' = Kind /\ OwnPath' = OwnPath
    BY <2>1, SameFork
  <2> QED BY <2>1, <2>2 DEF Named, IsLibrary
<1> QED BY <1>1, <1>2, <1>3, <1>4, NextParts

(* A fork is written under its own name or one the user typed for it.      *)
THEOREM NamesOwn == Spec => []NamedForIt
<1>1. Named => NamedForIt
  BY DEF Named, NamedForIt
<1> QED BY <1>1, InitNamed, NextNamed, AlwaysInPlace, PTL DEF Spec

-----------------------------------------------------------------------------
(* What may be overwritten *)

(* Of a library: what is being extracted is a file just begun.             *)
Begun ==
    /\ at \in {"idle", "header", "first", "entry"} => out = <<>>
    /\ at \in {"data", "copy", "unsqueeze"} /\ out # <<>> =>
          out \in DOMAIN files /\ files[out] = File(<<n, "data">>, FALSE, Now)

(* Of an archive: how existing files are handled is what was asked for, and *)
(* a question is only asked about something that is there, in a directory.  *)
Asked ==
    /\ at \in ArchivePlaces =>
          /\ handle = "always" => Opt.over \/ \E a \in answers : a[3] = <<"A">>
          /\ handle = "must" => Opt.fresh
    /\ at = "ask" => out \in DOMAIN files /\ \A d \in Above(out) : ~Exists(d)

LEMMA InitBegun == Init => Begun /\ Asked
BY DEF Init, BNYInit, Begun, Asked, ArchivePlaces

(* A function changed in one place, or with some new values before it      *)
LEMMA PutTwo ==
    ASSUME NEW fs, NEW p, NEW v, NEW D, NEW w
    PROVE  LET gs == Put(p, v, Overlay([d \in D |-> w], fs))
           IN  /\ DOMAIN gs = DOMAIN fs \cup D \cup {p}
               /\ gs[p] = v
               /\ \A q \in D : q # p => gs[q] = w
               /\ \A q \in DOMAIN fs : q # p /\ q \notin D => gs[q] = fs[q]
BY DEF Put, Overlay

LEMMA FilesPut ==
    ASSUME NEW p, NEW v, files' = Put(p, v, files)
    PROVE  /\ DOMAIN files' = DOMAIN files \cup {p}
           /\ files'[p] = v
           /\ \A q \in DOMAIN files : q # p => files'[q] = files[q]
BY DEF Put, Overlay

LEMMA LibraryBegun ==
    ASSUME Begun, BNYNext
    PROVE  Begun'
<1> USE DEF GoTo, Fail, Over, call
<1>1. CASE BNYBegin
  BY <1>1 DEF BNYBegin, Begun
<1>2. CASE ReadHeader
  BY <1>2 DEF ReadHeader, Begun
<1>3. CASE ReadFirst
  BY <1>3 DEF ReadFirst, Begun
<1>4. CASE NextEntry
  BY <1>4 DEF NextEntry, Begun
<1>5. CASE PassOver
  BY <1>5 DEF PassOver, Begun
<1>6. CASE ListEntry
  BY <1>6 DEF ListEntry, Begun
<1>7. CASE BNYExtractDirectory
  BY <1>7 DEF BNYExtractDirectory, Begun
<1>8. CASE OpenOutput
  <2>1. CASE session.cmd # "x"
    BY <1>8, <2>1 DEF OpenOutput, Begun, Extracts
  <2>2. CASE session.cmd = "x"
    <3>1. at' = "over" \/ (at' = "data" /\ n' = n
                           /\ files' = Put(out', File(<<n, "data">>, FALSE, Now), files))
      BY <1>8, <2>2 DEF OpenOutput
    <3>2. ASSUME files' = Put(out', File(<<n, "data">>, FALSE, Now), files)
          PROVE  out' \in DOMAIN files' /\ files'[out'] = File(<<n, "data">>, FALSE, Now)
      BY <3>2, FilesPut
    <3>3. File(<<n, "data">>, FALSE, Now)' = File(<<n', "data">>, FALSE, Now)
      BY DEF File, Now
    <3> QED BY <3>1, <3>2, <3>3 DEF Begun
  <2> QED BY <2>1, <2>2
<1>9. CASE ExtractNothing
  BY <1>9 DEF ExtractNothing, Complete, Begun
<1>10. CASE StartCopy
  BY <1>10 DEF StartCopy, Begun
<1>11. CASE CopyBlock
  <2>1. at' \in {"pass", "over"} \/ (at' = "copy" /\ UNCHANGED <<n, out, files>>)
    BY <1>11 DEF CopyBlock, Complete
  <2> QED BY <1>11, <2>1 DEF Begun, CopyBlock
<1>12. CASE StartUnSqueeze
  <2>1. at' = "over" \/ (at' = "unsqueeze" /\ UNCHANGED <<n, out, files>>)
    BY <1>12 DEF StartUnSqueeze
  <2> QED BY <1>12, <2>1 DEF Begun, StartUnSqueeze
<1>13. CASE Refill
  <2>1. at' = "over" \/ (at' = "unsqueeze" /\ UNCHANGED <<n, out, files>>)
    BY <1>13 DEF Refill
  <2> QED BY <1>13, <2>1 DEF Begun, Refill
<1>14. CASE DecodeSymbol
  <2>1. at' = "over" \/ (at' = "unsqueeze" /\ UNCHANGED <<n, out, files>>)
    BY <1>14 DEF DecodeSymbol
  <2> QED BY <1>14, <2>1 DEF Begun, DecodeSymbol
<1>15. CASE EndUnSqueeze
  BY <1>15 DEF EndUnSqueeze, Complete, Begun
<1> QED
  BY <1>1, <1>2, <1>3, <1>4, <1>5, <1>6, <1>7, <1>8, <1>9, <1>10, <1>11, <1>12, <1>13, <1>14,
     <1>15 DEF BNYNext

(* Where a library is read it stays so.                                    *)
LEMMA LibraryGoes ==
    ASSUME BNYNext
    PROVE  at' \in LibraryPlaces \cup {"over"}
BY DEF BNYNext, BNYBegin, ReadHeader, ReadFirst, NextEntry, PassOver, ListEntry,
       BNYExtractDirectory, OpenOutput, ExtractNothing, StartCopy, CopyBlock, StartUnSqueeze,
       Refill, DecodeSymbol, EndUnSqueeze, Complete, GoTo, Fail, Over, LibraryPlaces

LEMMA ArchiveGoes ==
    ASSUME ArchiveStep
    PROVE  at' \in ArchivePlaces \cup {"over"}
BY DEF ArchiveStep, NuFXBegin, NextRecord, EndRecords, NextFork, EndForks, OutputPathnameFilter,
       Check, Replace, Keep, Quit, Rename, WriteFork, SkipFork, GoTo, Fail, Over, ArchivePlaces

LEMMA NextBegun == InPlace /\ Begun /\ [Next]_vars => Begun'
<1> SUFFICES ASSUME InPlace, Begun, [Next]_vars PROVE Begun'
  OBVIOUS
<1>1. CASE BNYNext
  BY <1>1, LibraryBegun
<1>2. CASE ArchiveStep
  BY <1>2, ArchiveGoes DEF Begun, ArchivePlaces
<1>3. CASE Writing
  BY <1>3, WritingInPlace, WritingReads DEF Begun, readVars
<1>4. CASE UNCHANGED vars
  BY <1>4 DEF Begun, vars, bnyVars
<1> QED BY <1>1, <1>2, <1>3, <1>4, NextParts

(* Extracting from a library overwrites what is whole only with -s.        *)
LEMMA LibraryLeave ==
    ASSUME Begun, BNYNext, NEW path \in DOMAIN files, Exists(path), files[path].whole,
           files'[path] # files[path]
    PROVE  Opt.over
<1>0. files[path] # Dir
  BY DEF Exists
<1> DEFINE Done == files' = files \/ (out # <<>> /\ files' = [files EXCEPT ![out].whole = TRUE])
<1>1. ASSUME Done, at \in {"data", "copy", "unsqueeze"} PROVE FALSE
  <2>1. out # <<>> /\ files' = [files EXCEPT ![out].whole = TRUE]
    BY <1>1
  <2>2. path = out
    BY <2>1
  <2>3. files[out].whole = FALSE
    BY <1>1, <2>1 DEF Begun, File
  <2> QED BY <2>2, <2>3
<1>2. CASE BNYExtractDirectory
  <2>1. files' = Put(Entry.name, Dir, files) /\ ~Exists(Entry.name)
    BY <1>2 DEF BNYExtractDirectory
  <2>2. path = Entry.name
    BY <2>1, FilesPut
  <2> QED BY <2>1, <2>2
<1>3. CASE OpenOutput
  <2>1. PICK p \in {OutputName(Entry)} :
           /\ files' = Put(p, File(<<n, "data">>, FALSE, Now), files)
           /\ Exists(p) => Opt.over
    BY <1>3 DEF OpenOutput
  <2>2. path = p
    BY <2>1, FilesPut
  <2> QED BY <2>1, <2>2
<1>4. CASE ExtractNothing
  BY <1>1, <1>4 DEF ExtractNothing, Complete
<1>5. CASE CopyBlock
  BY <1>1, <1>5 DEF CopyBlock, Complete
<1>6. CASE EndUnSqueeze
  BY <1>1, <1>6 DEF EndUnSqueeze, Complete
<1>7. CASE files' = files
  BY <1>7
<1> QED
  BY <1>2, <1>3, <1>4, <1>5, <1>6, <1>7
  DEF BNYNext, BNYBegin, ReadHeader, ReadFirst, NextEntry, PassOver, ListEntry, StartCopy,
      StartUnSqueeze, Refill, DecodeSymbol

LEMMA FilesPutTwo ==
    ASSUME NEW p, NEW v, NEW D, files' = Put(p, v, Overlay([d \in D |-> Dir], files))
    PROVE  /\ DOMAIN files' = DOMAIN files \cup D \cup {p}
           /\ files'[p] = v
           /\ \A q \in D : q # p => files'[q] = Dir
           /\ \A q \in DOMAIN files : q # p /\ q \notin D => files'[q] = files[q]
BY DEF Put, Overlay

LEMMA SameAbove ==
    ASSUME UNCHANGED <<out, files>>
    PROVE  (\A d \in Above(out) : ~Exists(d))' <=> \A d \in Above(out) : ~Exists(d)
BY DEF Above, Exists, Lasts, Sep

LEMMA ArchiveAsked ==
    ASSUME InPlace, Asked, ArchiveStep
    PROVE  Asked'
<1> USE DEF GoTo, Fail, Over, call, addVars, askVars, nufxVars, ArchivePlaces
<1>1. CASE NuFXBegin
  BY <1>1 DEF NuFXBegin, Asked, Opt
<1>2. CASE NextRecord
  BY <1>2 DEF NextRecord, Asked, Opt
<1>3. CASE EndRecords
  BY <1>3 DEF EndRecords, Asked
<1>4. CASE NextFork
  BY <1>4 DEF NextFork, Asked, Opt
<1>5. CASE EndForks
  BY <1>5 DEF EndForks, Asked, Opt
<1>6. CASE OutputPathnameFilter
  BY <1>6 DEF OutputPathnameFilter, Asked, Opt
<1>7. CASE Check
  <2>1. UNCHANGED <<session, handle, answers, out>> /\ at = "check"
    BY <1>7 DEF Check
  <2>2. CASE at' # "ask"
    BY <2>1, <2>2 DEF Asked, Opt
  <2>3. CASE at' = "ask"
    <3>1. ~ \E d \in Above(out) : Exists(d)
      BY <1>7, <2>3 DEF Check
    <3>2. out \in DOMAIN files /\ files' = files
      BY <1>7, <2>3 DEF Check, SkipFork, WriteFork
    <3>3. (\A d \in Above(out) : ~Exists(d))'
      BY <2>1, <3>1, <3>2, SameAbove
    <3> QED BY <2>1, <3>2, <3>3 DEF Asked, Opt
  <2> QED BY <2>2, <2>3
<1>8. CASE Replace
  <2>1. at' \in {"fork", "over"} /\ at = "ask" /\ session' = session
    BY <1>8 DEF Replace, WriteFork
  <2>2. CASE handle' = handle
    <3>1. answers \subseteq answers'
      BY <1>8 DEF Replace, Answer
    <3> QED BY <2>1, <2>2, <3>1 DEF Asked, Opt
  <2>3. CASE handle' = "always" /\ Answer(<<"A">>)
    <3>1. <<n, Kind, <<"A">>>> \in answers'
      BY <2>3 DEF Answer
    <3> QED BY <2>1, <2>3, <3>1 DEF Asked, Opt
  <2> QED BY <1>8, <2>2, <2>3 DEF Replace
<1>9. CASE Keep
  <2>1. at' = "fork" /\ at = "ask" /\ session' = session /\ answers \subseteq answers'
    BY <1>9 DEF Keep, SkipFork, Answer
  <2>2. handle' = handle \/ handle' = "never"
    BY <1>9 DEF Keep
  <2> QED BY <2>1, <2>2 DEF Asked, Opt
<1>10. CASE Quit
  BY <1>10 DEF Quit, Asked
<1>11. CASE Rename
  <2>1. at' = "path" /\ at = "ask" /\ session' = session /\ answers \subseteq answers'
        /\ handle' = handle
    BY <1>11 DEF Rename, Answer
  <2> QED BY <2>1 DEF Asked, Opt
<1> QED
  BY <1>1, <1>2, <1>3, <1>4, <1>5, <1>6, <1>7, <1>8, <1>9, <1>10, <1>11 DEF ArchiveStep

LEMMA NextAsked == InPlace /\ Asked /\ [Next]_vars => Asked'
<1> SUFFICES ASSUME InPlace, Asked, [Next]_vars PROVE Asked'
  OBVIOUS
<1>1. CASE BNYNext
  BY <1>1, LibraryGoes DEF Asked, ArchivePlaces, LibraryPlaces
<1>2. CASE ArchiveStep
  BY <1>2, ArchiveAsked
<1>3. CASE Writing
  BY <1>3, WritingInPlace, WritingReads DEF Asked, readVars, ArchivePlaces
<1>4. CASE UNCHANGED vars
  <2>1. UNCHANGED <<session, at, handle, answers, out, files>>
    BY <1>4 DEF vars, bnyVars, nufxVars, askVars
  <2>2. (\A d \in Above(out) : ~Exists(d))' <=> \A d \in Above(out) : ~Exists(d)
    BY <2>1, SameAbove
  <2> QED BY <2>1, <2>2 DEF Asked, Opt
<1> QED BY <1>1, <1>2, <1>3, <1>4, NextParts

LEMMA AlwaysAsked == Spec => [](Begun /\ Asked)
BY InitBegun, NextBegun, NextAsked, AlwaysInPlace, PTL DEF Spec

(* Extracting from an archive overwrites only what was asked about, or what *)
(* -s, -f or an earlier answer gives leave for.                            *)
LEMMA ArchiveLeave ==
    ASSUME InPlace, Asked, ArchiveStep, NEW path \in DOMAIN files, Exists(path),
           files[path].whole, files'[path] # files[path]
    PROVE  Leave(path)
<1>1. files[path] # Dir
  BY DEF Exists
<1>2. ASSUME WriteFork, \A d \in Above(out) : ~Exists(d)
      PROVE  path = out /\ ~IsDir(out)
  <2>1. CASE files' = files
    BY <2>1
  <2>2. CASE files' # files
    <3>1. files' = Put(out, File(<<n, Kind>>, TRUE, Record.age),
                       Overlay([d \in Above(out) |-> Dir], files)) /\ ~IsDir(out)
      BY <1>2, <2>2 DEF WriteFork
    <3>2. path \notin Above(out)
      BY <1>2
    <3>3. \A q \in DOMAIN files : q # out /\ q \notin Above(out) => files'[q] = files[q]
      BY <3>1 DEF Put, Overlay
    <3>4. path = out
      BY <3>2, <3>3
    <3> QED BY <3>1, <3>4
  <2> QED BY <2>1, <2>2
<1>3. CASE Check
  <2>1. /\ ~ \E d \in Above(out) : Exists(d)
        /\ out \in DOMAIN files => ~TooNew /\ handle # "maybe" /\ handle # "never"
        /\ WriteFork
    BY <1>3 DEF Check, SkipFork
  <2>2. path = out /\ ~IsDir(out)
    BY <1>2, <2>1
  <2>3. ~TooNew /\ handle \in {"always", "must"} /\ at = "check"
    BY <1>3, <2>1, <2>2 DEF InPlace, Check
  <2>4. Opt.fresh \/ Opt.update => files[path].age < Record.age
    BY <2>2, <2>3 DEF TooNew
  <2>5. ~IsLibrary
    BY <2>3 DEF InPlace, ArchivePlaces
  <2> QED BY <2>2, <2>3, <2>4, <2>5 DEF Leave, Asked, ArchivePlaces
<1>4. CASE Replace
  <2>1. at = "ask" /\ WriteFork
    BY <1>4 DEF Replace
  <2>2. path = out
    BY <1>2, <2>1 DEF Asked
  <2>3. ~IsLibrary
    BY <2>1 DEF InPlace, ArchivePlaces
  <2> QED BY <2>1, <2>2, <2>3 DEF Leave
<1>5. CASE files' = files
  BY <1>5
<1> QED
  BY <1>3, <1>4, <1>5
  DEF ArchiveStep, NuFXBegin, NextRecord, EndRecords, NextFork, EndForks, OutputPathnameFilter,
      Keep, SkipFork, Quit, Rename

(* What was complete before is overwritten only with leave.                *)
THEOREM OverwrittenWithLeave == Spec => NothingOverwritten
<1> DEFINE Step == \A path \in DOMAIN files :
              Exists(path) /\ files[path].whole /\ files'[path] # files[path] => Leave(path)
<1>1. ASSUME InPlace, Begun, Asked, [Next]_vars
      PROVE  [Step]_vars
  <2>1. CASE BNYNext
    <3>1. IsLibrary
      BY <1>1, <2>1, LibraryFacts
    <3> QED BY <1>1, <2>1, <3>1, LibraryLeave DEF Leave
  <2>2. CASE ArchiveStep
    BY <1>1, <2>2, ArchiveLeave
  <2>3. CASE Writing
    BY <2>3, WritingReads DEF readVars
  <2>4. CASE UNCHANGED vars
    BY <2>4
  <2> QED BY <1>1, <2>1, <2>2, <2>3, <2>4, NextParts
<1> QED BY <1>1, AlwaysInPlace, AlwaysAsked, PTL DEF Spec, NothingOverwritten

-----------------------------------------------------------------------------
(* Paths *)

Path == Seq(Chars)

LEMMA CutPath ==
    ASSUME NEW S, NEW p \in Seq(S), NEW i \in 1 .. Len(p)
    PROVE  /\ SubSeq(p, 1, i - 1) \in Seq(S)
           /\ Len(SubSeq(p, 1, i - 1)) = i - 1
           /\ \A j \in 1 .. i - 1 : SubSeq(p, 1, i - 1)[j] = p[j]
<1>1. 1 \in 1 .. Len(p) + 1 /\ i - 1 \in 1 - 1 .. Len(p)
  OBVIOUS
<1>2. /\ SubSeq(p, 1, i - 1) \in Seq(S)
      /\ Len(SubSeq(p, 1, i - 1)) = (i - 1) - 1 + 1
      /\ \A j \in 1 .. (i - 1) - 1 + 1 : SubSeq(p, 1, i - 1)[j] = p[1 + j - 1]
  BY <1>1, SubSeqProperties
<1>3. (i - 1) - 1 + 1 = i - 1 /\ \A j \in 1 .. i - 1 : 1 + j - 1 = j
  OBVIOUS
<1> QED BY <1>2, <1>3

LEMMA LastsMax ==
    ASSUME NEW S, NEW p \in Seq(S), NEW c, Lasts(p, c) # {}
    PROVE  /\ Max(Lasts(p, c)) \in 1 .. Len(p)
           /\ p[Max(Lasts(p, c))] = c
           /\ \A j \in Lasts(p, c) : j <= Max(Lasts(p, c))
<1>1. Lasts(p, c) \subseteq 0 .. Len(p) /\ Len(p) \in Nat
  BY DEF Lasts
<1>2. Max(Lasts(p, c)) \in Lasts(p, c) /\ \A j \in Lasts(p, c) : j <= Max(Lasts(p, c))
  BY <1>1, MaxUpTo
<1> QED BY <1>2 DEF Lasts

(* The part of a path before a separator, and the separators in it         *)
LEMMA CutLasts ==
    ASSUME NEW p \in Path, NEW i \in 1 .. Len(p)
    PROVE  /\ Lasts(SubSeq(p, 1, i - 1), Sep) = {j \in Lasts(p, Sep) : j < i}
           /\ \A j \in 1 .. i - 1 :
                 SubSeq(SubSeq(p, 1, i - 1), 1, j - 1) = SubSeq(p, 1, j - 1)
<1> DEFINE d == SubSeq(p, 1, i - 1)
<1>1. d \in Path /\ Len(d) = i - 1 /\ \A j \in 1 .. i - 1 : d[j] = p[j]
  BY CutPath DEF Path
<1>2. DOMAIN d = 1 .. i - 1 /\ DOMAIN p = 1 .. Len(p) /\ Len(p) \in Nat
  <2> HIDE DEF d
  <2> QED BY <1>1 DEF Path
<1> HIDE DEF d
<1>3. Lasts(d, Sep) = {j \in Lasts(p, Sep) : j < i}
  BY <1>1, <1>2 DEF Lasts
<1>4. ASSUME NEW j \in 1 .. i - 1
      PROVE  SubSeq(d, 1, j - 1) = SubSeq(p, 1, j - 1)
  <2>1. j \in 1 .. Len(d) /\ j \in 1 .. Len(p)
    BY <1>1, <1>2
  <2>2. /\ SubSeq(d, 1, j - 1) \in Path /\ Len(SubSeq(d, 1, j - 1)) = j - 1
        /\ \A k \in 1 .. j - 1 : SubSeq(d, 1, j - 1)[k] = d[k]
    BY <1>1, <2>1, CutPath DEF Path
  <2>3. /\ SubSeq(p, 1, j - 1) \in Path /\ Len(SubSeq(p, 1, j - 1)) = j - 1
        /\ \A k \in 1 .. j - 1 : SubSeq(p, 1, j - 1)[k] = p[k]
    BY <2>1, CutPath DEF Path
  <2>4. \A k \in 1 .. j - 1 : d[k] = p[k]
    BY <1>1
  <2>5. \A k \in 1 .. j - 1 : SubSeq(d, 1, j - 1)[k] = SubSeq(p, 1, j - 1)[k]
    BY <2>2, <2>3, <2>4
  <2> HIDE DEF d
  <2> QED BY <2>2, <2>3, <2>5, SeqEqual DEF Path
<1> QED BY <1>3, <1>4 DEF d

(* What is above a path: shorter paths, with what is above them.           *)
LEMMA AboveFacts ==
    ASSUME NEW p \in Path, NEW d \in Above(p)
    PROVE  d \in Path \ {<<>>} /\ Len(d) < Len(p) /\ Above(d) \subseteq Above(p)
<1>1. PICK i \in Lasts(p, Sep) \ {1} : d = SubSeq(p, 1, i - 1)
  BY DEF Above
<1>2. i \in 2 .. Len(p) /\ i \in 1 .. Len(p) /\ Len(p) \in Nat
  BY <1>1 DEF Lasts, Path
<1>3. d \in Path /\ Len(d) = i - 1
  BY <1>1, <1>2, CutPath DEF Path
<1>4. d # <<>>
  BY <1>2, <1>3
<1>5. ASSUME NEW e \in Above(d) PROVE e \in Above(p)
  <2>1. PICK j \in Lasts(d, Sep) \ {1} : e = SubSeq(d, 1, j - 1)
    BY DEF Above
  <2>2. j \in Lasts(p, Sep) /\ j < i /\ j # 1
    BY <1>1, <1>2, <2>1, CutLasts
  <2>3. j \in 1 .. i - 1
    BY <1>2, <2>2 DEF Lasts, Path
  <2>4. e = SubSeq(p, 1, j - 1)
    BY <1>1, <1>2, <2>1, <2>3, CutLasts
  <2> QED BY <2>2, <2>4 DEF Above
<1> QED BY <1>2, <1>3, <1>4, <1>5

(* The parent is the last of what is above.                                *)
LEMMA ParentFacts ==
    ASSUME NEW p \in Path
    PROVE  \/ Parent(p) = <<>> /\ Above(p) = {}
           \/ /\ Parent(p) \in Above(p) /\ Parent(p) # <<>>
              /\ Above(p) \subseteq {Parent(p)} \cup Above(Parent(p))
<1>1. CASE Lasts(p, Sep) = {}
  BY <1>1 DEF Parent, Above
<1>2. CASE Lasts(p, Sep) # {}
  <2> DEFINE m == Max(Lasts(p, Sep))
  <2>1. /\ m \in 1 .. Len(p) /\ m \in Lasts(p, Sep) /\ Len(p) \in Nat
        /\ \A j \in Lasts(p, Sep) : j <= m /\ j \in 1 .. Len(p)
    <3>1. /\ m \in 1 .. Len(p) /\ p[m] = Sep /\ \A j \in Lasts(p, Sep) : j <= m
      BY <1>2, LastsMax DEF Path
    <3> HIDE DEF m
    <3>2. Len(p) \in Nat /\ DOMAIN p = 1 .. Len(p)
      BY DEF Path
    <3>3. m \in Lasts(p, Sep) /\ \A j \in Lasts(p, Sep) : j \in 1 .. Len(p)
      BY <3>1, <3>2 DEF Lasts
    <3> QED BY <3>1, <3>2, <3>3
  <2>2. Parent(p) = SubSeq(p, 1, m - 1)
    BY <1>2 DEF Parent
  <2> HIDE DEF m
  <2>3. CASE m = 1
    <3>1. \A j \in Lasts(p, Sep) : j = 1
      BY <2>1, <2>3
    <3>2. Above(p) = {}
      BY <3>1 DEF Above
    <3>3. Parent(p) \in Path /\ Len(Parent(p)) = 0
      BY <2>1, <2>2, <2>3, CutPath DEF Path
    <3> QED BY <3>2, <3>3 DEF Path
  <2>4. CASE m # 1
    <3>1. Parent(p) \in Above(p)
      BY <2>1, <2>2, <2>4 DEF Above
    <3>2. Parent(p) # <<>>
      BY <3>1, AboveFacts
    <3>3. ASSUME NEW e \in Above(p), e # Parent(p)
          PROVE  e \in Above(Parent(p))
      <4>1. PICK j \in Lasts(p, Sep) \ {1} : e = SubSeq(p, 1, j - 1)
        BY DEF Above
      <4>2. j # m
        BY <2>2, <3>3, <4>1
      <4>3. j < m /\ j \in 1 .. m - 1
        BY <2>1, <4>1, <4>2
      <4>4. j \in Lasts(Parent(p), Sep)
        BY <2>1, <2>2, <4>1, <4>3, CutLasts
      <4>5. e = SubSeq(Parent(p), 1, j - 1)
        BY <2>1, <2>2, <4>1, <4>3, CutLasts
      <4> QED BY <4>1, <4>4, <4>5 DEF Above
    <3> QED BY <3>1, <3>2, <3>3
  <2> QED BY <2>3, <2>4
<1> QED BY <1>1, <1>2

(* Of some paths there is a shortest.                                      *)
LEMMA Shortest ==
    ASSUME NEW C, C \subseteq Path, C # {}
    PROVE  \E c \in C : \A e \in C : Len(c) <= Len(e)
<1> DEFINE T == {Len(c) : c \in C}
<1>1. T \subseteq Nat
  BY DEF Path
<1>2. PICK x \in C : TRUE
  OBVIOUS
<1>3. Len(x) \in T
  OBVIOUS
<1>4. PICK t \in T : \A u \in T : t <= u
  <2> HIDE DEF T
  <2> QED BY <1>1, <1>3, LeastNat
<1> QED BY <1>4

(* A path, or something above it, is at the top.                           *)
LEMMA SomeAtTop ==
    ASSUME NEW p \in Path
    PROVE  \E c \in {p} \cup Above(p) : Parent(c) = <<>>
<1> DEFINE C == {p} \cup Above(p)
<1>1. C \subseteq Path /\ C # {}
  BY AboveFacts
<1>2. PICK c \in C : \A e \in C : Len(c) <= Len(e)
  <2> HIDE DEF C
  <2> QED BY <1>1, Shortest
<1>3. c \in Path /\ Above(c) \subseteq C
  BY <1>1, AboveFacts
<1>4. \A e \in Above(c) : FALSE
  <2> SUFFICES ASSUME NEW e \in Above(c) PROVE FALSE
    OBVIOUS
  <2>1. Len(e) < Len(c) /\ e \in Path
    BY <1>3, AboveFacts
  <2>2. Len(c) <= Len(e)
    BY <1>2, <1>3
  <2> QED BY <1>3, <2>1, <2>2 DEF Path
<1>5. Parent(c) = <<>>
  BY <1>3, <1>4, ParentFacts
<1> QED BY <1>5

(* On the way down from something above a path there is a next step.       *)
LEMMA NextBelow ==
    ASSUME NEW p \in Path, NEW q \in Above(p)
    PROVE  \E c \in {p} \cup Above(p) : Parent(c) = q
<1> DEFINE C == {c \in {p} \cup Above(p) : q \in Above(c)}
<1>1. C \subseteq Path /\ p \in C
  BY AboveFacts
<1>2. PICK c \in C : \A e \in C : Len(c) <= Len(e)
  <2> HIDE DEF C
  <2> QED BY <1>1, Shortest
<1>3. c \in Path /\ Above(c) \subseteq {p} \cup Above(p) /\ q \in Above(c)
  BY <1>1, <1>2, AboveFacts
<1>4. ASSUME q # Parent(c) PROVE FALSE
  <2>1. Parent(c) \in Above(c) /\ q \in Above(Parent(c))
    BY <1>3, <1>4, ParentFacts
  <2>2. Parent(c) \in C
    BY <1>3, <2>1
  <2>3. Len(Parent(c)) < Len(c) /\ Parent(c) \in Path
    BY <1>3, <2>1, AboveFacts
  <2>4. Len(c) <= Len(Parent(c))
    BY <1>2, <2>2
  <2> QED BY <1>3, <2>3, <2>4 DEF Path
<1> QED BY <1>2, <1>4

-----------------------------------------------------------------------------
(* A local pathname is a sequence of characters *)

LEMMA AfterPath ==
    ASSUME NEW p \in Path, NEW i \in 0 .. Len(p)
    PROVE  After(p, i) \in Path
<1>1. \A k \in i + 1 .. Len(p) : p[k] \in Chars
  BY DEF Path
<1>2. i + 1 \in Int /\ Len(p) \in Int
  BY DEF Path
<1> QED BY <1>1, <1>2, SubSeqProperties DEF After, Path

LEMMA ShortPaths ==
    /\ <<>> \in Path
    /\ \A c \in Chars : <<c>> \in Path
    /\ \A c, d \in Chars : <<c, d>> \in Path
    /\ \A c, d, e \in Chars : <<c, d, e>> \in Path
    /\ \A p \in Path : \A c \in Chars : Append(p, c) \in Path
BY DEF Path

LEMMA FewChars ==
    /\ "#" \in Chars /\ "." \in Chars /\ "r" \in Chars /\ "i" \in Chars /\ "P" \in Chars
    /\ "O" \in Chars /\ Sep \in Chars /\ "%" \in Chars /\ "2" \in Chars /\ "f" \in Chars
    /\ "_" \in Chars /\ ResourceStr \in Chars
BY NamesAssumption DEF Sep, ResourceStr

LEMMA FilenameOnlyPath ==
    ASSUME NEW p \in Path
    PROVE  FilenameOnly(p) \in Path
<1>1. CASE Lasts(p, Sep) = {}
  BY <1>1 DEF FilenameOnly
<1>2. CASE Lasts(p, Sep) # {}
  <2>1. Max(Lasts(p, Sep)) \in 0 .. Len(p)
    BY <1>2, LastsMax DEF Path
  <2> QED BY <1>2, <2>1, AfterPath DEF FilenameOnly
<1> QED BY <1>1, <1>2

LEMMA FindExtensionPath ==
    ASSUME NEW p \in Path
    PROVE  FindExtension(p) \in Path
<1> DEFINE name == FilenameOnly(p)
<1>1. name \in Path
  BY FilenameOnlyPath
<1>2. FindExtension(p) = IF Lasts(name, ".") = {} THEN <<>> ELSE After(name, Max(Lasts(name, ".")))
  BY DEF FindExtension
<1> HIDE DEF name
<1>3. CASE Lasts(name, ".") = {}
  BY <1>2, <1>3 DEF Path
<1>4. CASE Lasts(name, ".") # {}
  <2>1. Max(Lasts(name, ".")) \in 0 .. Len(name)
    BY <1>1, <1>4, LastsMax DEF Path
  <2> QED BY <1>1, <1>2, <1>4, <2>1, AfterPath
<1> QED BY <1>3, <1>4

LEMMA JoinPaths ==
    ASSUME NEW p \in Path, NEW q \in Path
    PROVE  p \o q \in Path
BY ConcatProperties DEF Path

LEMMA PreservedPath ==
    ASSUME NEW p \in Path, NEW type \in DOMAIN TypeName, NEW kind, NEW opt
    PROVE  AddPreservationString(p, type, kind, opt) \in Path
<1>1. type \in Path /\ TypeName[type] \in Path
  BY NamesAssumption DEF Path
<1>2. ExtendedExt(p, type, kind) \in Path
  <2>1. FindExtension(p) \in Path /\ <<>> \in Path /\ <<"P", "O">> \in Path
    BY FindExtensionPath, ShortPaths, FewChars
  <2> QED BY <1>1, <2>1 DEF ExtendedExt
<1> DEFINE ext == ExtendedExt(p, type, kind)
           flag == CASE kind = "rsrc" -> <<"r">> [] kind = "disk" -> <<"i">> [] OTHER -> <<>>
           tail == IF opt.extended /\ ext # <<>> THEN <<".">> \o ext ELSE <<>>
<1>3. flag \in Path /\ <<"#">> \in Path /\ <<".">> \in Path /\ <<>> \in Path
  BY ShortPaths, FewChars
<1>4. tail \in Path
  <2>1. <<".">> \o ext \in Path
    BY <1>2, <1>3, JoinPaths
  <2> QED BY <1>3, <2>1
<1>5. AddPreservationString(p, type, kind, opt) = p \o <<"#">> \o type \o flag \o tail
  BY DEF AddPreservationString
<1> HIDE DEF flag, tail, ext
<1>6. p \o <<"#">> \in Path
  BY <1>3, JoinPaths
<1>7. (p \o <<"#">>) \o type \in Path
  BY <1>1, <1>6, JoinPaths
<1>8. ((p \o <<"#">>) \o type) \o flag \in Path
  BY <1>3, <1>7, JoinPaths
<1>9. (((p \o <<"#">>) \o type) \o flag) \o tail \in Path
  BY <1>4, <1>8, JoinPaths
<1> QED BY <1>5, <1>9

LEMMA LocalPath ==
    ASSUME NEW name \in Path, NEW sep, NEW type \in DOMAIN TypeName, NEW kind, NEW opt
    PROVE  NormalizePath(name, sep, type, kind, opt) \in Path
<1> DEFINE leads == {k \in 0 .. Len(name) : \A i \in 1 .. k : name[i] = sep}
           lead == Max(leads)
           pieces == [i \in 1 .. Len(name) - lead |->
                        IF name[i + lead] = sep THEN <<Sep>>
                        ELSE NormalizeChar(name[i + lead], opt.preserve)]
           path == FlattenSeq(pieces)
           full == IF opt.preserve THEN AddPreservationString(path, type, kind, opt)
                   ELSE IF kind = "rsrc" THEN Append(path, ResourceStr)
                   ELSE path
<1>1. NormalizePath(name, sep, type, kind, opt) = IF opt.junk THEN FilenameOnly(full) ELSE full
  BY DEF NormalizePath
<1>2. lead \in 0 .. Len(name) /\ Len(name) \in Nat
  <2>1. Len(name) \in Nat /\ leads \subseteq 0 .. Len(name) /\ 0 \in leads
    BY DEF Path
  <2> HIDE DEF leads
  <2> QED BY <2>1, MaxUpTo
<1> HIDE DEF lead
<1>3. path \in Path
  <2>1. \A i \in 1 .. Len(name) - lead : name[i + lead] \in Chars
    <3>1. \A i \in 1 .. Len(name) - lead : i + lead \in 1 .. Len(name)
      BY <1>2
    <3> QED BY <3>1 DEF Path
  <2>2. \A c \in Chars : NormalizeChar(c, opt.preserve) \in Seq(Chars) /\ <<Sep>> \in Seq(Chars)
    <3> SUFFICES ASSUME NEW c \in Chars
                 PROVE  NormalizeChar(c, opt.preserve) \in Path /\ <<Sep>> \in Path
      BY DEF Path
    <3>1. /\ <<"%", "%">> \in Path /\ <<"%", "2", "f">> \in Path /\ <<"_">> \in Path
          /\ <<c>> \in Path /\ <<Sep>> \in Path
      BY ShortPaths, FewChars
    <3> QED BY <3>1 DEF NormalizeChar
  <2>3. \A i \in 1 .. Len(name) - lead :
           (IF name[i + lead] = sep THEN <<Sep>>
            ELSE NormalizeChar(name[i + lead], opt.preserve)) \in Seq(Chars)
    BY <2>1, <2>2
  <2>4. pieces \in [1 .. Len(name) - lead -> Seq(Chars)]
    BY <2>3
  <2>5. Len(name) - lead \in Nat
    BY <1>2
  <2> HIDE DEF pieces
  <2>6. pieces \in Seq(Seq(Chars))
    BY <2>4, <2>5, SeqDef
  <2> QED BY <2>6, FlattenPlaces DEF Path
<1> HIDE DEF path
<1>4. full \in Path
  <2>1. Append(path, ResourceStr) \in Path
    BY <1>3, ShortPaths, FewChars
  <2> QED BY <1>3, <2>1, PreservedPath
<1> QED BY <1>1, <1>4, FilenameOnlyPath

-----------------------------------------------------------------------------
(* Where a library is read *)

LEMMA LibraryTypes ==
    ASSUME session \in Sessions
    PROVE  /\ IsTree(session.before)
           /\ IsLibrary => Library.entries \in Seq(LibraryEntry) /\ Library.size \in Nat
           /\ ~IsLibrary => session.source.records \in Seq(ArchiveRecord)
BY SessionsAssumption DEF IsLibrary, Library

LEMMA Sizes ==
    /\ BlockSize \in Nat \ {0} /\ SqBufferSize \in Nat \ {0} /\ MinFill \in Nat \ {0}
    /\ BlockSize <= SqBufferSize
<1>1. BlockSize \in Nat \ {0} /\ SqBufferSize \in Nat \ {0} /\ MinFill \in Nat \ {0}
      /\ SqBufferSize % BlockSize = 0
  BY Binary2Assumption
<1>2. SqBufferSize = BlockSize * (SqBufferSize \div BlockSize)
  BY <1>1
<1> QED BY <1>1, <1>2

(* The blocks of so many bytes                                             *)
LEMMA BlocksFacts ==
    ASSUME NEW x \in Nat
    PROVE  /\ Blocks(x) \in Nat /\ BlockSize * Blocks(x) \in Nat
           /\ x = 0 => Blocks(x) = 0
           /\ x > 0 /\ x <= BlockSize => Blocks(x) = 1
           /\ x > 0 => Blocks(x) >= 1
           /\ x > BlockSize => Blocks(x - BlockSize) = Blocks(x) - 1 /\ Blocks(x) >= 2
<1> DEFINE b == BlockSize
           y == x + b - 1
<1>1. b \in Nat \ {0} /\ y \in Nat /\ Blocks(x) = y \div b
  BY Sizes DEF Blocks
<1> HIDE DEF b
<1>2. y \div b \in Nat
  BY <1>1
<1>3. b * (y \div b) \in Nat
  BY <1>1, <1>2
<1>4. x = 0 => y \div b = 0
  BY <1>1
<1>5. ASSUME x > 0, x <= b PROVE y \div b = 1
  <2>1. b * 1 <= y /\ y < b * 1 + b
    BY <1>1, <1>5
  <2> QED BY <1>1, <2>1
<1>6. x > 0 => y \div b >= 1
  BY <1>1
<1>7. ASSUME x > b PROVE Blocks(x - b) = (y \div b) - 1 /\ (y \div b) - 1 >= 1
  <2>1. Blocks(x - b) = (y - b) \div b
    <3>1. Blocks(x - b) = ((x - b) + b - 1) \div b
      BY DEF Blocks, b
    <3>2. (x - b) + b - 1 = y - b
      BY <1>1
    <3> QED BY <3>1, <3>2
  <2>2. y >= b /\ y - b \in Nat /\ y - b >= b
    BY <1>1, <1>7
  <2>3. (y - b) \div b = (y \div b) - 1
    BY <1>1, <2>2
  <2>4. (y - b) \div b >= 1
    BY <1>1, <2>2
  <2> QED BY <2>1, <2>3, <2>4
<1>8. ASSUME x > b PROVE y \div b >= 2
  <2>1. (y \div b) - 1 >= 1
    BY <1>7, <1>8
  <2> QED BY <1>2, <2>1
<1> QED BY <1>1, <1>2, <1>3, <1>4, <1>5, <1>6, <1>7, <1>8 DEF b

(* An entry begins where the one before ends.                              *)
LEMMA StartFacts ==
    ASSUME Library.entries \in Seq(LibraryEntry)
    PROVE  /\ Start[1] = 0
           /\ \A i \in DOMAIN Library.entries :
                 Start[i+1] = Start[i] + BlockSize * (1 + Blocks(RealEOF(Library.entries[i])))
<1> DEFINE m == Len(Library.entries)
           Size(j) == BlockSize * (1 + Blocks(RealEOF(Library.entries[j])))
           h == [j \in 1 .. m |-> Size(j)]
           S == CHOOSE g : g = [i \in 1 .. m + 1 |-> IF i = 1 THEN 0 ELSE g[i-1] + Size(i-1)]
<1>1. m \in Nat /\ DOMAIN Library.entries = 1 .. m
  OBVIOUS
<1>2. Start = S
  BY DEF Start
<1>3. \E g : g = [i \in 1 .. m + 1 |-> IF i = 1 THEN 0 ELSE g[i-1] + Size(i-1)]
  <2>1. PICK g : IsSums(h, m, g)
    BY <1>1, SumsExist
  <2>2. \A i \in 1 .. m + 1 : i # 1 => i - 1 \in 1 .. m
    BY <1>1
  <2>3. \A i \in 1 .. m + 1 : i # 1 => h[i-1] = Size(i-1)
    BY <2>2
  <2> HIDE DEF h, Size, m
  <2>4. \A i \in 1 .. m + 1 : (IF i = 1 THEN 0 ELSE g[i-1] + h[i-1])
                              = IF i = 1 THEN 0 ELSE g[i-1] + Size(i-1)
    BY <2>3
  <2>5. g = [i \in 1 .. m + 1 |-> IF i = 1 THEN 0 ELSE g[i-1] + h[i-1]]
    BY <2>1 DEF IsSums
  <2>6. [i \in 1 .. m + 1 |-> IF i = 1 THEN 0 ELSE g[i-1] + h[i-1]]
        = [i \in 1 .. m + 1 |-> IF i = 1 THEN 0 ELSE g[i-1] + Size(i-1)]
    BY <2>4
  <2> QED BY <2>5, <2>6, Zenon
<1>4. S = [i \in 1 .. m + 1 |-> IF i = 1 THEN 0 ELSE S[i-1] + Size(i-1)]
  <2> HIDE DEF Size, m
  <2> QED BY <1>3
<1> HIDE DEF S, Size, m
<1>5. S[1] = 0
  BY <1>1, <1>4
<1>6. ASSUME NEW i \in 1 .. m PROVE S[i+1] = S[i] + Size(i)
  <2>1. i + 1 \in 1 .. m + 1 /\ i + 1 # 1 /\ (i + 1) - 1 = i
    BY <1>1
  <2>2. S[i+1] = IF i + 1 = 1 THEN 0 ELSE S[(i+1)-1] + Size((i+1)-1)
    BY <1>4, <2>1, Zenon
  <2> QED BY <2>1, <2>2
<1> QED BY <1>1, <1>2, <1>5, <1>6 DEF Size

LEMMA EntryFacts ==
    ASSUME Library.entries \in Seq(LibraryEntry), NEW i \in 1 .. Len(Library.entries)
    PROVE  /\ Library.entries[i] \in LibraryEntry
           /\ RealEOF(Library.entries[i]) \in Nat
           /\ Library.entries[i].sq \in Seq(Nat)
           /\ Library.entries[i].name \in Path
           /\ Library.entries[i].type \in DOMAIN TypeName
<1>1. Library.entries[i] \in LibraryEntry
  OBVIOUS
<1> QED BY <1>1 DEF LibraryEntry, RealEOF, Path

LEMMA StartNumbers ==
    ASSUME Library.entries \in Seq(LibraryEntry)
    PROVE  \A i \in 1 .. Len(Library.entries) + 1 : Start[i] \in Nat
<1> DEFINE m == Len(Library.entries)
           T == {k \in 0 .. m : Start[k+1] \in Nat}
<1>1. m \in Nat /\ DOMAIN Library.entries = 1 .. m
  OBVIOUS
<1>2. 0 \in T
  BY <1>1, StartFacts
<1>3. ASSUME NEW k \in 0 .. m - 1, k \in T PROVE k + 1 \in T
  <2>1. k + 1 \in 1 .. m /\ k + 1 \in 0 .. m
    BY <1>1
  <2>2. RealEOF(Library.entries[k+1]) \in Nat
    BY <1>1, <2>1, EntryFacts
  <2>3. BlockSize * (1 + Blocks(RealEOF(Library.entries[k+1]))) \in Nat
    <3>1. Blocks(RealEOF(Library.entries[k+1])) \in Nat /\ BlockSize \in Nat
      BY <2>2, BlocksFacts, Sizes
    <3>2. \A x, y \in Nat : x * (1 + y) \in Nat
      OBVIOUS
    <3> QED BY <3>1, <3>2
  <2>4. Start[(k+1)+1] = Start[k+1] + BlockSize * (1 + Blocks(RealEOF(Library.entries[k+1])))
    BY <1>1, <2>1, StartFacts
  <2>5. Start[(k+1)+1] \in Nat
    <3> DEFINE z == BlockSize * (1 + Blocks(RealEOF(Library.entries[k+1])))
    <3>1. Start[k+1] \in Nat  BY <1>3
    <3> HIDE DEF z
    <3>2. z \in Nat /\ Start[(k+1)+1] = Start[k+1] + z  BY <2>3, <2>4 DEF z
    <3> QED BY <3>1, <3>2
  <2> QED BY <2>1, <2>5
<1>4. \A k \in 0 .. m : k \in T
  <2> HIDE DEF T, m
  <2> QED BY <1>1, <1>2, <1>3, UpTo
<1>5. ASSUME NEW i \in 1 .. m + 1 PROVE Start[i] \in Nat
  <2>1. i - 1 \in 0 .. m /\ (i - 1) + 1 = i
    BY <1>1
  <2> QED BY <1>4, <2>1
<1> QED BY <1>5

(* Where the reading of a library is at its places; a library that was cut *)
(* off in the last block of an entry has been read to its end.             *)
Reached == pos = Start[n+1] \/ (pos = Library.size /\ pos < Start[n+1])
FirstBlock == IF RealEOF(Entry) = 0 THEN 0 ELSE BlockSize

Positions ==
    IsLibrary =>
        /\ n \in 0 .. Len(Library.entries) /\ pos \in Nat
        /\ at \in LibraryPlaces \ {"header"} => n \in 1 .. Len(Library.entries)
        /\ at = "idle" => n = 0 /\ pos = 0
        /\ at = "header" => n + 1 \in 1 .. Len(Library.entries) + 1 /\ Reached
        /\ at = "first" => pos = Start[n] + BlockSize
        /\ at \in {"entry", "data"} => pos = Start[n] + BlockSize + FirstBlock /\ ~consumed
        /\ at = "copy" =>
              /\ left > 0
              /\ \/ pos + BlockSize * Blocks(left) = Start[n+1] + BlockSize
                 \/ left <= BlockSize /\ pos = Library.size /\ pos < Start[n+1]
        /\ at = "unsqueeze" => pos + comp = Start[n+1]
        /\ at = "pass" => IF consumed THEN Reached ELSE pos = Start[n] + BlockSize + FirstBlock

Counters == inBuf \in 0 .. SqBufferSize /\ comp \in Nat /\ left \in Nat /\ sym \in Nat

LEMMA InitPositions == Init => Positions /\ Counters
<1> SUFFICES ASSUME Init PROVE Positions /\ Counters
  OBVIOUS
<1>1. at = "idle" /\ n = 0 /\ pos = 0 /\ session \in Sessions
      /\ inBuf = 0 /\ comp = 0 /\ left = 0 /\ sym = 0
  BY DEF Init, BNYInit
<1>2. Counters
  BY <1>1, Sizes DEF Counters
<1>3. ASSUME IsLibrary PROVE n \in 0 .. Len(Library.entries)
  <2>1. Len(Library.entries) \in Nat
    BY <1>1, <1>3, LibraryTypes
  <2> QED BY <1>1, <2>1
<1> QED BY <1>1, <1>2, <1>3 DEF Positions, LibraryPlaces

(* The entry it is at                                                      *)
LEMMA Here ==
    ASSUME InPlace, Positions, IsLibrary, at \in LibraryPlaces \ {"header"}
    PROVE  /\ n \in 1 .. Len(Library.entries) /\ Len(Library.entries) \in Nat
           /\ pos \in Nat /\ Library.size \in Nat
           /\ Entry \in LibraryEntry /\ Entry.sq \in Seq(Nat) /\ Entry.name \in Path
           /\ RealEOF(Entry) \in Nat /\ Entry.type \in DOMAIN TypeName
           /\ Start[n] \in Nat /\ Start[n+1] \in Nat /\ BlockSize * Blocks(RealEOF(Entry)) \in Nat
           /\ Start[n+1] = Start[n] + BlockSize + BlockSize * Blocks(RealEOF(Entry))
<1>1. Library.entries \in Seq(LibraryEntry) /\ Library.size \in Nat
  BY LibraryTypes DEF InPlace
<1>2. n \in 1 .. Len(Library.entries) /\ pos \in Nat /\ Len(Library.entries) \in Nat
      /\ n \in DOMAIN Library.entries
  BY <1>1 DEF Positions
<1>3. /\ Entry \in LibraryEntry /\ Entry.sq \in Seq(Nat) /\ Entry.name \in Path
      /\ RealEOF(Entry) \in Nat /\ Entry.type \in DOMAIN TypeName
  BY <1>1, <1>2, EntryFacts DEF Entry
<1>4. Start[n] \in Nat /\ Start[n+1] \in Nat
  <2>1. n \in 1 .. Len(Library.entries) + 1 /\ n + 1 \in 1 .. Len(Library.entries) + 1
    BY <1>2
  <2> QED BY <1>1, <2>1, StartNumbers
<1>5. Start[n+1] = Start[n] + BlockSize * (1 + Blocks(RealEOF(Entry)))
  BY <1>1, <1>2, StartFacts DEF Entry
<1>6. Blocks(RealEOF(Entry)) \in Nat /\ BlockSize * Blocks(RealEOF(Entry)) \in Nat
  BY <1>3, BlocksFacts
<1>7. BlockSize * (1 + Blocks(RealEOF(Entry))) = BlockSize + BlockSize * Blocks(RealEOF(Entry))
  <2>1. \A x, y \in Nat : x * (1 + y) = x + x * y
    OBVIOUS
  <2> QED BY <1>6, <2>1, Sizes
<1>8. Start[n+1] = Start[n] + BlockSize + BlockSize * Blocks(RealEOF(Entry))
  <2> DEFINE p == BlockSize * Blocks(RealEOF(Entry))
             q == BlockSize * (1 + Blocks(RealEOF(Entry)))
  <2>1. p \in Nat /\ q = BlockSize + p /\ BlockSize \in Nat /\ Start[n+1] = Start[n] + q
    BY <1>5, <1>6, <1>7, Sizes
  <2> HIDE DEF p, q
  <2>2. Start[n+1] = Start[n] + BlockSize + p
    BY <1>4, <2>1
  <2> QED BY <2>2 DEF p
<1> QED BY <1>1, <1>2, <1>3, <1>4, <1>6, <1>8

LEMMA SameSession ==
    ASSUME session' = session
    PROVE  IsLibrary' = IsLibrary /\ Library' = Library /\ Start' = Start
BY DEF IsLibrary, Library, Start, Blocks, RealEOF

LEMMA SameEntry ==
    ASSUME session' = session, n' = n
    PROVE  IsLibrary' = IsLibrary /\ Library' = Library /\ Start' = Start
           /\ Entry' = Entry /\ FirstBlock' = FirstBlock
BY SameSession DEF Entry, FirstBlock, Library, RealEOF

(* One block less                                                          *)
LEMMA BlockLess ==
    ASSUME NEW x \in Nat, x > BlockSize
    PROVE  x - BlockSize \in Nat
           /\ BlockSize * Blocks(x) = BlockSize * Blocks(x - BlockSize) + BlockSize
           /\ BlockSize * Blocks(x - BlockSize) \in Nat
           /\ BlockSize * Blocks(x - BlockSize) >= BlockSize
<1>1. BlockSize \in Nat \ {0} /\ Blocks(x) \in Nat /\ Blocks(x - BlockSize) = Blocks(x) - 1
      /\ Blocks(x) >= 2
  BY BlocksFacts, Sizes
<1>2. \A b, k \in Nat : k >= 2 => b * k = b * (k - 1) + b /\ b * (k - 1) \in Nat /\ b * (k - 1) >= b
  <2> SUFFICES ASSUME NEW b \in Nat, NEW k \in Nat, k >= 2
               PROVE  b * k = b * (k - 1) + b /\ b * (k - 1) \in Nat /\ b * (k - 1) >= b
    OBVIOUS
  <2>1. PICK j \in Nat : k = j + 2
    <3>1. k - 2 \in Nat /\ k = (k - 2) + 2
      OBVIOUS
    <3> QED BY <3>1
  <2>2. k - 1 = j + 1 /\ b * (j + 2) = b * j + b + b /\ b * (j + 1) = b * j + b /\ b * j \in Nat
    BY <2>1
  <2> QED BY <2>1, <2>2
<1> QED BY <1>1, <1>2

LEMMA SameReached ==
    ASSUME session' = session, n' = n, pos' = pos, Reached
    PROVE  Reached'
BY SameSession DEF Reached

(* Steps before the bytes of a file are read                               *)
LEMMA HeaderPositions ==
    ASSUME InPlace, Positions, IsLibrary, BNYBegin \/ ReadHeader \/ ReadFirst
    PROVE  Positions'
<1> USE DEF GoTo, Fail, Over, call
<1>0. session' = session
  BY DEF BNYBegin, ReadHeader, ReadFirst
<1>1. Library.entries \in Seq(LibraryEntry) /\ Library.size \in Nat
      /\ IsLibrary' = IsLibrary /\ Library' = Library /\ Start' = Start
  BY <1>0, LibraryTypes, SameSession DEF InPlace
<1>2. Len(Library.entries) \in Nat /\ DOMAIN Library.entries = 1 .. Len(Library.entries)
      /\ BlockSize \in Nat
  BY <1>1, Sizes
<1>3. CASE BNYBegin
  <2>1. at = "idle" /\ at' \in {"header", "over"} /\ n' = n /\ pos' = pos
    BY <1>3 DEF BNYBegin
  <2>2. n = 0 /\ pos = 0
    BY <2>1 DEF Positions
  <2>3. Start[1] = 0
    BY <1>1, StartFacts
  <2>4. Reached'
    BY <1>1, <2>1, <2>2, <2>3 DEF Reached
  <2>5. n' + 1 \in 1 .. Len(Library.entries) + 1 /\ n' \in 0 .. Len(Library.entries)
    BY <1>2, <2>1, <2>2
  <2> QED BY <1>1, <2>1, <2>2, <2>4, <2>5 DEF Positions, LibraryPlaces
<1>4. CASE ReadHeader
  <2>1. at' \in {"first", "over"} /\ at = "header"
    BY <1>4 DEF ReadHeader
  <2>2. n \in 0 .. Len(Library.entries) /\ pos \in Nat
    BY DEF Positions
  <2>3. CASE at' = "over"
    <3>1. n' = n \/ n' \in DOMAIN Library.entries
      BY <1>4 DEF ReadHeader
    <3>2. n' \in 0 .. Len(Library.entries)
      BY <1>2, <2>2, <3>1
    <3>3. pos' = pos \/ pos' = pos + BlockSize
      BY <1>4 DEF ReadHeader
    <3>4. pos' \in Nat
      BY <1>2, <2>2, <3>3
    <3> QED BY <1>1, <2>3, <3>2, <3>4 DEF Positions, LibraryPlaces
  <2>4. CASE at' = "first"
    <3>1. /\ pos' = pos + BlockSize
          /\ \E i \in DOMAIN Library.entries : Start[i] = pos
          /\ n' = CHOOSE i \in DOMAIN Library.entries : Start[i] = pos
      BY <1>4, <2>4 DEF ReadHeader
    <3>2. n' \in DOMAIN Library.entries /\ Start[n'] = pos
      BY <3>1
    <3>3. n' \in 1 .. Len(Library.entries) /\ n' \in 0 .. Len(Library.entries)
      BY <1>2, <3>2
    <3>4. pos' \in Nat /\ pos' = Start'[n'] + BlockSize
      BY <1>1, <1>2, <2>2, <3>1, <3>2
    <3> QED BY <1>1, <2>4, <3>3, <3>4 DEF Positions, LibraryPlaces
  <2> QED BY <2>1, <2>3, <2>4
<1>5. CASE ReadFirst
  <2>1. at = "first" /\ at' \in {"entry", "over"} /\ n' = n /\ ~consumed'
    BY <1>5 DEF ReadFirst
  <2>2. at \in LibraryPlaces \ {"header"}
    BY <2>1 DEF LibraryPlaces
  <2>3. n \in 1 .. Len(Library.entries) /\ pos \in Nat /\ RealEOF(Entry) \in Nat
        /\ Start[n] \in Nat
    BY <2>2, Here
  <2>4. pos = Start[n] + BlockSize
    BY <2>1 DEF Positions
  <2>5. FirstBlock' = FirstBlock /\ FirstBlock \in Nat
    BY <1>0, <1>2, <2>1, SameEntry DEF FirstBlock
  <2>6. pos' = pos \/ pos' = pos + BlockSize
    BY <1>5 DEF ReadFirst
  <2>7. pos' \in Nat
    BY <1>2, <2>3, <2>6
  <2>8. at' = "entry" => pos' = pos + FirstBlock
    BY <1>2, <1>5, <2>3 DEF ReadFirst, FirstBlock
  <2>9. at' = "entry" => pos' = Start'[n'] + BlockSize + FirstBlock'
    BY <1>1, <1>2, <2>1, <2>3, <2>4, <2>5, <2>8
  <2>10. n' \in 1 .. Len(Library.entries) /\ n' \in 0 .. Len(Library.entries)
    BY <1>2, <2>1, <2>3
  <2> QED BY <1>1, <2>1, <2>7, <2>9, <2>10 DEF Positions, LibraryPlaces
<1> QED BY <1>3, <1>4, <1>5

(* The end of an entry, and what is not extracted byte by byte             *)
LEMMA EntryPositions ==
    ASSUME InPlace, Positions, IsLibrary,
           NextEntry \/ PassOver \/ ListEntry \/ BNYExtractDirectory \/ OpenOutput
    PROVE  Positions'
<1> USE DEF GoTo, Fail, Over, call
<1>1. session' = session /\ n' = n /\ at \in LibraryPlaces \ {"header"} /\ (at = "pass" \/ at = "entry")
  BY DEF NextEntry, PassOver, ListEntry, BNYExtractDirectory, OpenOutput, Extracts, LibraryPlaces
<1>2. /\ n \in 1 .. Len(Library.entries) /\ Len(Library.entries) \in Nat
      /\ pos \in Nat /\ RealEOF(Entry) \in Nat /\ Start[n] \in Nat /\ Start[n+1] \in Nat
      /\ BlockSize * Blocks(RealEOF(Entry)) \in Nat
      /\ Start[n+1] = Start[n] + BlockSize + BlockSize * Blocks(RealEOF(Entry))
  BY <1>1, Here
<1>3. /\ IsLibrary' = IsLibrary /\ Library' = Library /\ Start' = Start
      /\ Entry' = Entry /\ FirstBlock' = FirstBlock
  BY <1>1, SameEntry
<1>4. n' \in 1 .. Len(Library.entries) /\ n' \in 0 .. Len(Library.entries)
      /\ n' + 1 \in 1 .. Len(Library.entries) + 1
  BY <1>1, <1>2
<1>5. BlockSize \in Nat \ {0}
  BY Sizes
<1>6. CASE NextEntry
  <2> DEFINE e == RealEOF(Entry)
             more == (IF consumed \/ e <= BlockSize THEN 0 ELSE Blocks(e) - 1) * BlockSize
  <2>1. /\ at = "pass" /\ at' \in {"header", "over"}
        /\ (at' = "over" /\ pos' = pos) \/ pos' = pos + more
        /\ at' = "header" => pos' = pos + more
    BY <1>6 DEF NextEntry
  <2>2. more = IF consumed \/ e <= BlockSize THEN 0 ELSE BlockSize * Blocks(e) - BlockSize
    <3>1. Blocks(e) \in Nat
      BY <1>2, BlocksFacts
    <3>2. \A x, y \in Nat : 0 * x = 0 /\ (y - 1) * x = x * y - x
      OBVIOUS
    <3> HIDE DEF e
    <3> QED BY <1>5, <3>1, <3>2
  <2>3. e > BlockSize => BlockSize * Blocks(e) >= BlockSize
    <3>1. ASSUME e > BlockSize PROVE BlockSize * Blocks(e) >= BlockSize
      <4>1. BlockSize * Blocks(e) = BlockSize * Blocks(e - BlockSize) + BlockSize
            /\ BlockSize * Blocks(e - BlockSize) \in Nat
        BY <1>2, <3>1, BlockLess
      <4> QED BY <1>5, <4>1
    <3> QED BY <3>1
  <2>4. more \in Nat
    <3> DEFINE p == BlockSize * Blocks(e)
    <3>1. p \in Nat /\ e \in Nat
      BY <1>2
    <3> HIDE DEF p, e, more
    <3> QED BY <1>5, <2>2, <2>3, <3>1 DEF p
  <2>5. pos' \in Nat
    <3> HIDE DEF more
    <3> QED BY <1>2, <2>1, <2>4
  <2>6. ASSUME at' = "header" PROVE Reached'
    <3>1. CASE consumed
      <4>1. more = 0
        BY <2>2, <3>1
      <4>2. pos' = pos
        <5> HIDE DEF more
        <5> QED BY <1>2, <2>1, <2>6, <4>1
      <4>3. Reached
        BY <2>1, <3>1 DEF Positions
      <4> QED BY <1>1, <4>2, <4>3, SameReached
    <3>2. CASE ~consumed
      <4>1. pos = Start[n] + BlockSize + FirstBlock
        BY <2>1, <3>2 DEF Positions
      <4>2. CASE e <= BlockSize
        <5>1. FirstBlock = BlockSize * Blocks(e)
          <6>1. CASE e = 0
            <7>1. Blocks(e) = 0  BY <1>2, <6>1, BlocksFacts
            <7> QED BY <1>5, <6>1, <7>1 DEF FirstBlock
          <6>2. CASE e # 0
            <7>1. Blocks(e) = 1  BY <1>2, <4>2, <6>2, BlocksFacts
            <7> QED BY <1>5, <6>2, <7>1 DEF FirstBlock
          <6> QED BY <6>1, <6>2
        <5>2. pos' = pos
          <6>1. more = 0  BY <2>2, <4>2
          <6> HIDE DEF more
          <6> QED BY <1>2, <2>1, <2>6, <6>1
        <5>3. pos' = Start[n+1]
          BY <1>2, <4>1, <5>1, <5>2
        <5> QED BY <1>1, <1>3, <5>3 DEF Reached
      <4>3. CASE ~(e <= BlockSize)
        <5>1. FirstBlock = BlockSize
          BY <1>2, <1>5, <4>3 DEF FirstBlock
        <5> DEFINE p == BlockSize * Blocks(e)
        <5>2. more = p - BlockSize /\ p \in Nat
          BY <1>2, <2>2, <3>2, <4>3
        <5>3. pos' = pos + more /\ pos = Start[n] + BlockSize + BlockSize
              /\ Start[n+1] = Start[n] + BlockSize + p
          BY <1>2, <2>1, <2>6, <4>1, <5>1
        <5> HIDE DEF p, more
        <5>4. \A x, b, y \in Nat : (x + b + b) + (y - b) = x + b + y
          OBVIOUS
        <5>5. Start[n] \in Nat
          BY <1>2
        <5>6. pos' = Start[n+1]
          BY <1>5, <5>2, <5>3, <5>4, <5>5
        <5> QED BY <1>1, <1>3, <5>6 DEF Reached
      <4> QED BY <4>2, <4>3
    <3> QED BY <3>1, <3>2
  <2> QED BY <1>3, <1>4, <2>1, <2>5, <2>6 DEF Positions, LibraryPlaces
<1>7. CASE ~NextEntry
  <2>1. at = "entry" /\ pos' = pos /\ consumed' = consumed /\ at' \in {"pass", "over", "data"}
    BY <1>7 DEF PassOver, ListEntry, BNYExtractDirectory, OpenOutput, Extracts
  <2>2. pos = Start[n] + BlockSize + FirstBlock /\ ~consumed
    BY <2>1 DEF Positions
  <2> QED BY <1>1, <1>2, <1>3, <1>4, <2>1, <2>2 DEF Positions, LibraryPlaces
<1> QED BY <1>6, <1>7

(* The blocks of a file that is not squeezed                               *)
LEMMA CopyPositions ==
    ASSUME InPlace, Positions, Counters, IsLibrary, ExtractNothing \/ StartCopy \/ CopyBlock
    PROVE  Positions'
<1> USE DEF GoTo, Fail, Over, call
<1>1. session' = session /\ n' = n /\ at \in LibraryPlaces \ {"header"}
  BY DEF ExtractNothing, StartCopy, CopyBlock, LibraryPlaces
<1>2. /\ n \in 1 .. Len(Library.entries) /\ Len(Library.entries) \in Nat /\ Library.size \in Nat
      /\ pos \in Nat /\ RealEOF(Entry) \in Nat /\ Start[n] \in Nat /\ Start[n+1] \in Nat
      /\ BlockSize * Blocks(RealEOF(Entry)) \in Nat
      /\ Start[n+1] = Start[n] + BlockSize + BlockSize * Blocks(RealEOF(Entry))
  BY <1>1, Here
<1>3. /\ IsLibrary' = IsLibrary /\ Library' = Library /\ Start' = Start
      /\ Entry' = Entry /\ FirstBlock' = FirstBlock
  BY <1>1, SameEntry
<1>4. n' \in 1 .. Len(Library.entries) /\ n' \in 0 .. Len(Library.entries)
  BY <1>1, <1>2
<1>5. BlockSize \in Nat \ {0} /\ left \in Nat
  BY Sizes DEF Counters
<1> DEFINE e == RealEOF(Entry)
<1>6. CASE ExtractNothing
  <2>1. at = "data" /\ e = 0 /\ at' = "pass" /\ consumed' /\ pos' = pos
    BY <1>6 DEF ExtractNothing, Complete
  <2>2. pos = Start[n] + BlockSize + FirstBlock
    BY <2>1 DEF Positions
  <2>3. FirstBlock = 0 /\ Blocks(e) = 0
    BY <2>1, BlocksFacts DEF FirstBlock
  <2>4. BlockSize * Blocks(e) = 0
    BY <1>5, <2>3
  <2>5. pos' = Start[n+1]
    BY <1>2, <1>5, <2>1, <2>2, <2>3, <2>4
  <2>6. Reached'
    BY <1>1, <1>3, <2>5 DEF Reached
  <2> QED BY <1>2, <1>3, <1>4, <2>1, <2>6 DEF Positions, LibraryPlaces
<1>7. CASE StartCopy
  <2>1. at = "data" /\ e > 0 /\ at' = "copy" /\ left' = e /\ pos' = pos
    BY <1>7 DEF StartCopy
  <2>2. pos = Start[n] + BlockSize + FirstBlock
    BY <2>1 DEF Positions
  <2>3. FirstBlock = BlockSize
    BY <1>2, <2>1 DEF FirstBlock
  <2>4. pos + BlockSize * Blocks(e) = Start[n+1] + BlockSize
    <3> DEFINE p == BlockSize * Blocks(e)
    <3>1. p \in Nat /\ Start[n] \in Nat /\ Start[n+1] = Start[n] + BlockSize + p
          /\ pos = Start[n] + BlockSize + BlockSize
      BY <1>2, <2>2, <2>3
    <3> HIDE DEF p
    <3>2. pos + p = Start[n+1] + BlockSize
      BY <1>5, <3>1
    <3> QED BY <3>2 DEF p
  <2>5. (BlockSize * Blocks(left))' = BlockSize * Blocks(e)
    BY <2>1 DEF Blocks
  <2>6. (pos + BlockSize * Blocks(left) = Start[n+1] + BlockSize)'
    BY <1>1, <1>3, <2>1, <2>4, <2>5
  <2>7. left' > 0
    BY <2>1
  <2> HIDE DEF e
  <2> QED BY <1>2, <1>3, <1>4, <2>1, <2>6, <2>7 DEF Positions, LibraryPlaces
<1>8. CASE CopyBlock
  <2> DEFINE rest == Max({0, left - BlockSize})
  <2>1. rest = IF left > BlockSize THEN left - BlockSize ELSE 0
    <3>1. 0 \in Int /\ left - BlockSize \in Int
      BY <1>5
    <3>2. rest = IF 0 >= left - BlockSize THEN 0 ELSE left - BlockSize
      BY <3>1, MaxOfTwo
    <3> HIDE DEF rest
    <3> QED BY <1>5, <3>2
  <2>2. at = "copy" /\ left > 0 /\ left' = rest
    BY <1>8 DEF CopyBlock
  <2>3. \/ pos + BlockSize * Blocks(left) = Start[n+1] + BlockSize
        \/ left <= BlockSize /\ pos = Library.size /\ pos < Start[n+1]
    BY <2>2 DEF Positions
  <2>4. CASE left <= BlockSize
    <3>1. rest = 0
      BY <1>5, <2>1, <2>4
    <3>2. at' = "pass" /\ consumed' /\ pos' = pos
      <4> HIDE DEF rest
      <4> QED BY <1>8, <3>1 DEF CopyBlock, Complete, rest
    <3>3. Blocks(left) = 1
      BY <1>5, <2>2, <2>4, BlocksFacts
    <3>4. BlockSize * Blocks(left) = BlockSize
      BY <1>5, <3>3
    <3>5. Reached
      <4>1. ASSUME pos + BlockSize * Blocks(left) = Start[n+1] + BlockSize
            PROVE  pos = Start[n+1]
        BY <1>2, <1>5, <3>4, <4>1
      <4> QED BY <2>3, <4>1 DEF Reached
    <3>6. Reached'
      BY <1>1, <3>2, <3>5, SameReached
    <3> QED BY <1>2, <1>3, <1>4, <3>2, <3>6 DEF Positions, LibraryPlaces
  <2>5. CASE left > BlockSize
    <3>1. rest = left - BlockSize /\ rest > 0 /\ rest \in Nat /\ rest # 0
      <4>1. rest = left - BlockSize
        BY <2>1, <2>5
      <4> HIDE DEF rest
      <4> QED BY <1>5, <2>5, <4>1
    <3> DEFINE p == BlockSize * Blocks(rest)
    <3>2. p \in Nat /\ p >= BlockSize /\ BlockSize * Blocks(left) = p + BlockSize
      <4>1. /\ BlockSize * Blocks(left) = BlockSize * Blocks(left - BlockSize) + BlockSize
            /\ BlockSize * Blocks(left - BlockSize) \in Nat
            /\ BlockSize * Blocks(left - BlockSize) >= BlockSize
        BY <1>5, <2>5, BlockLess
      <4> HIDE DEF rest
      <4> QED BY <3>1, <4>1
    <3>3. pos + p = Start[n+1]
      <4>1. pos + BlockSize * Blocks(left) = Start[n+1] + BlockSize
        BY <1>5, <2>3, <2>5
      <4>2. pos + (p + BlockSize) = Start[n+1] + BlockSize
        BY <3>2, <4>1
      <4>3. p \in Nat
        BY <3>2
      <4> DEFINE s == Start[n+1]
                 b == BlockSize
      <4>4. pos + (p + b) = s + b /\ pos \in Nat /\ s \in Nat /\ b \in Nat
        BY <1>2, <1>5, <4>2
      <4> HIDE DEF p, s, b, rest, e
      <4>5. pos + p = s
        BY <4>3, <4>4
      <4> QED BY <4>5 DEF s
    <3> HIDE DEF p
    <3>4. /\ at' \in {"copy", "over"} /\ consumed' = consumed
          /\ \/ Enough(BlockSize) /\ pos' = pos + BlockSize
             \/ ~Enough(BlockSize) /\ Library.size - pos = rest /\ pos' = Library.size
             \/ at' = "over" /\ pos' = pos
      <4> HIDE DEF rest
      <4> QED BY <1>8, <3>1 DEF CopyBlock, rest
    <3>5. (BlockSize * Blocks(left))' = p
      BY <2>2 DEF Blocks, p
    <3>6. CASE Enough(BlockSize) /\ pos' = pos + BlockSize
      <4>1. pos' \in Nat /\ pos' + p = Start[n+1] + BlockSize
        BY <1>2, <1>5, <3>2, <3>3, <3>6
      <4>2. (pos + BlockSize * Blocks(left) = Start[n+1] + BlockSize)'
        BY <1>1, <1>3, <3>5, <4>1
      <4>3. left' > 0
        BY <2>2, <3>1
      <4> QED BY <1>3, <1>4, <3>4, <4>1, <4>2, <4>3 DEF Positions, LibraryPlaces
    <3>7. CASE ~Enough(BlockSize) /\ Library.size - pos = rest /\ pos' = Library.size
      <4>1. Library.size < pos + BlockSize
        BY <1>2, <1>5, <3>7 DEF Enough
      <4>2. rest <= BlockSize /\ Library.size < Start[n+1]
        <5> HIDE DEF rest
        <5>1. rest \in Nat /\ p \in Nat /\ p >= BlockSize
          BY <3>1, <3>2
        <5>2. Start[n+1] = pos + p /\ Start[n+1] \in Nat /\ pos \in Nat /\ Library.size \in Nat
          BY <1>2, <3>3
        <5>3. Library.size = pos + rest
          BY <3>7, <5>1, <5>2
        <5> QED BY <1>5, <4>1, <5>1, <5>2, <5>3
      <4>3. (left <= BlockSize /\ pos = Library.size /\ pos < Start[n+1])'
        BY <1>1, <1>3, <2>2, <3>7, <4>2
      <4>4. left' > 0 /\ pos' \in Nat
        BY <1>2, <2>2, <3>1, <3>7
      <4> QED BY <1>3, <1>4, <3>4, <4>3, <4>4 DEF Positions, LibraryPlaces
    <3>8. CASE at' = "over" /\ pos' = pos
      BY <1>2, <1>3, <1>4, <3>8 DEF Positions, LibraryPlaces
    <3> QED BY <3>4, <3>6, <3>7, <3>8
  <2> QED BY <1>5, <2>4, <2>5
<1> QED BY <1>6, <1>7, <1>8

(* A squeezed file: what the buffer holds and what is to come              *)
LEMMA SqueezedPositions ==
    ASSUME InPlace, Positions, Counters, IsLibrary,
           StartUnSqueeze \/ Refill \/ DecodeSymbol \/ EndUnSqueeze
    PROVE  Positions' /\ Counters'
<1> USE DEF GoTo, Fail, Over, call
<1>1. session' = session /\ n' = n /\ at \in LibraryPlaces \ {"header"} /\ left' = left
  BY DEF StartUnSqueeze, Refill, DecodeSymbol, EndUnSqueeze, LibraryPlaces
<1>2. /\ n \in 1 .. Len(Library.entries) /\ Len(Library.entries) \in Nat /\ Library.size \in Nat
      /\ pos \in Nat /\ RealEOF(Entry) \in Nat /\ Start[n] \in Nat /\ Start[n+1] \in Nat
      /\ Entry.sq \in Seq(Nat)
      /\ BlockSize * Blocks(RealEOF(Entry)) \in Nat
      /\ Start[n+1] = Start[n] + BlockSize + BlockSize * Blocks(RealEOF(Entry))
  BY <1>1, Here
<1>3. /\ IsLibrary' = IsLibrary /\ Library' = Library /\ Start' = Start
      /\ Entry' = Entry /\ FirstBlock' = FirstBlock
  BY <1>1, SameEntry
<1>4. n' \in 1 .. Len(Library.entries) /\ n' \in 0 .. Len(Library.entries)
  BY <1>1, <1>2
<1>5. /\ BlockSize \in Nat \ {0} /\ SqBufferSize \in Nat \ {0} /\ BlockSize <= SqBufferSize
      /\ left \in Nat /\ inBuf \in 0 .. SqBufferSize /\ comp \in Nat /\ sym \in Nat
  BY Sizes DEF Counters
<1> DEFINE e == RealEOF(Entry)
<1>6. CASE StartUnSqueeze
  <2> DEFINE total == Blocks(e) * BlockSize
             get == Min({total, SqBufferSize})
  <2>1. at = "data" /\ e > 0 /\ Entry.sq # <<>>
    BY <1>6 DEF StartUnSqueeze, IsSqueezed
  <2>2. pos = Start[n] + BlockSize + BlockSize
    <3>1. pos = Start[n] + BlockSize + FirstBlock
      BY <2>1 DEF Positions
    <3>2. FirstBlock = BlockSize
      BY <1>2, <2>1 DEF FirstBlock
    <3> QED BY <3>1, <3>2
  <2>3. total = BlockSize * Blocks(e) /\ total \in Nat /\ total >= BlockSize
    <3>1. Blocks(e) \in Nat /\ Blocks(e) >= 1
      BY <1>2, <2>1, BlocksFacts
    <3>2. \A x, y \in Nat : y >= 1 => y * x = x * y /\ y * x \in Nat /\ y * x >= x
      <4> SUFFICES ASSUME NEW x \in Nat, NEW y \in Nat, y >= 1
                   PROVE  y * x = x * y /\ y * x \in Nat /\ y * x >= x
        OBVIOUS
      <4>1. PICK z \in Nat : y = z + 1
        <5>1. y - 1 \in Nat /\ y = (y - 1) + 1  OBVIOUS
        <5> QED BY <5>1
      <4>2. (z + 1) * x = z * x + x /\ z * x \in Nat
        OBVIOUS
      <4> QED BY <4>1, <4>2
    <3> HIDE DEF e
    <3> QED BY <1>5, <3>1, <3>2
  <2>4. Start[n+1] = Start[n] + BlockSize + total
    BY <1>2, <2>3
  <2> HIDE DEF total
  <2>5. get \in Nat /\ get <= SqBufferSize /\ get <= total /\ get >= BlockSize
    <3>1. get = IF total <= SqBufferSize THEN total ELSE SqBufferSize
      <4>1. total \in Int /\ SqBufferSize \in Int
        BY <1>5, <2>3
      <4> QED BY <4>1, MinOfTwo
    <3> HIDE DEF get
    <3> QED BY <1>5, <2>3, <3>1
  <2> HIDE DEF get
  <2>6. \/ at' = "over" /\ UNCHANGED <<pos, inBuf, comp, sym>>
        \/ /\ at' \in {"over", "unsqueeze"}
           /\ pos' = pos + get - BlockSize /\ comp' = total - get
           /\ \/ at' = "over" /\ UNCHANGED <<inBuf, sym>>
              \/ ~(Entry.sq[1] > get) /\ inBuf' = get - Entry.sq[1] /\ sym' = 1
    BY <1>6 DEF StartUnSqueeze, total, get
  <2>7. CASE at' = "over" /\ UNCHANGED <<pos, inBuf, comp, sym>>
    BY <1>1, <1>2, <1>3, <1>4, <1>5, <2>7 DEF Positions, Counters, LibraryPlaces
  <2>8. CASE /\ at' \in {"over", "unsqueeze"}
             /\ pos' = pos + get - BlockSize /\ comp' = total - get
             /\ \/ at' = "over" /\ UNCHANGED <<inBuf, sym>>
                \/ ~(Entry.sq[1] > get) /\ inBuf' = get - Entry.sq[1] /\ sym' = 1
    <3>1. Entry.sq[1] \in Nat
      BY <1>2, <2>1
    <3>2. inBuf' \in 0 .. SqBufferSize /\ sym' \in Nat
      BY <1>5, <2>5, <2>8, <3>1
    <3>3. comp' \in Nat /\ pos' \in Nat /\ pos' + comp' = Start[n+1]
      <4> DEFINE s == Start[n]
      <4>1. s \in Nat /\ Start[n+1] = s + BlockSize + total /\ pos = s + BlockSize + BlockSize
        BY <1>2, <2>2, <2>4
      <4> HIDE DEF s
      <4> QED BY <1>5, <2>3, <2>5, <2>8, <4>1
    <3>4. (pos + comp = Start[n+1])'
      BY <1>1, <1>3, <3>3
    <3>5. Counters'
      BY <1>1, <1>5, <3>2, <3>3 DEF Counters
    <3> QED BY <1>2, <1>3, <1>4, <2>8, <3>3, <3>4, <3>5 DEF Positions, LibraryPlaces
  <2> QED BY <2>6, <2>7, <2>8
<1>7. CASE Refill
  <2> DEFINE get == Min({SqBufferSize - inBuf, comp})
  <2>1. get \in Nat /\ get <= SqBufferSize - inBuf /\ get <= comp
    <3>1. get = IF SqBufferSize - inBuf <= comp THEN SqBufferSize - inBuf ELSE comp
      <4>1. SqBufferSize - inBuf \in Int /\ comp \in Int
        BY <1>5
      <4> QED BY <4>1, MinOfTwo
    <3> HIDE DEF get
    <3> QED BY <1>5, <3>1
  <2> HIDE DEF get
  <2>2. /\ at = "unsqueeze" /\ sym' = sym
        /\ \/ at' = "unsqueeze" /\ pos' = pos + get /\ inBuf' = inBuf + get /\ comp' = comp - get
           \/ at' = "over" /\ UNCHANGED <<pos, inBuf, comp>>
    BY <1>7 DEF Refill, get
  <2>3. pos + comp = Start[n+1]
    BY <2>2 DEF Positions
  <2>4. pos' \in Nat /\ comp' \in Nat /\ inBuf' \in 0 .. SqBufferSize
    <3> DEFINE p == pos
    <3>1. p \in Nat /\ inBuf \in Nat /\ inBuf <= SqBufferSize /\ comp \in Nat /\ SqBufferSize \in Nat
      BY <1>2, <1>5
    <3>2. \A a, b, c, g, m \in Nat : b <= m /\ g <= m - b /\ g <= c =>
              a + g \in Nat /\ c - g \in Nat /\ b + g \in 0 .. m
      OBVIOUS
    <3>3. p + get \in Nat /\ comp - get \in Nat /\ inBuf + get \in 0 .. SqBufferSize
      BY <2>1, <3>1, <3>2
    <3>4. \/ pos' = p + get /\ inBuf' = inBuf + get /\ comp' = comp - get
          \/ pos' = p /\ inBuf' = inBuf /\ comp' = comp
      BY <2>2
    <3> HIDE DEF p
    <3> QED BY <1>5, <3>1, <3>3, <3>4
  <2>5. at' = "unsqueeze" => pos' + comp' = Start[n+1]
    BY <1>2, <1>5, <2>1, <2>2, <2>3
  <2>6. (at = "unsqueeze" => pos + comp = Start[n+1])'
    BY <1>1, <1>3, <2>5
  <2>7. Counters'
    BY <1>1, <1>5, <2>2, <2>4 DEF Counters
  <2> QED BY <1>2, <1>3, <1>4, <2>2, <2>4, <2>6, <2>7 DEF Positions, LibraryPlaces
<1>8. CASE DecodeSymbol
  <2>1. /\ at = "unsqueeze" /\ UNCHANGED <<pos, comp>> /\ sym < Len(Entry.sq)
        /\ \/ at' = "unsqueeze" /\ ~(Entry.sq[sym+1] > inBuf) /\ inBuf' = inBuf - Entry.sq[sym+1]
              /\ sym' = sym + 1
           \/ at' = "over" /\ UNCHANGED <<inBuf, sym>>
    BY <1>8 DEF DecodeSymbol
  <2>2. Entry.sq[sym+1] \in Nat
    <3> DEFINE q == Entry.sq
    <3>1. q \in Seq(Nat) /\ sym \in Nat /\ sym < Len(q)
      BY <1>2, <1>5, <2>1
    <3> HIDE DEF q
    <3>2. q[sym+1] \in Nat
      BY <3>1
    <3> QED BY <3>2 DEF q
  <2>3. inBuf' \in 0 .. SqBufferSize /\ sym' \in Nat
    BY <1>5, <2>1, <2>2
  <2>4. Counters'
    BY <1>1, <1>5, <2>1, <2>3 DEF Counters
  <2>5. pos + comp = Start[n+1]
    BY <2>1 DEF Positions
  <2>6. (pos + comp = Start[n+1])'
    BY <1>1, <1>3, <2>1, <2>5
  <2> QED BY <1>2, <1>3, <1>4, <2>1, <2>4, <2>6 DEF Positions, LibraryPlaces
<1>9. CASE EndUnSqueeze
  <2>1. /\ at = "unsqueeze" /\ inBuf' = 0 /\ comp' = 0 /\ sym' = 0
        /\ \/ at' = "over" /\ pos' = pos
           \/ at' = "pass" /\ consumed' /\ pos' = pos + comp
    BY <1>9 DEF EndUnSqueeze, Complete
  <2>2. pos + comp = Start[n+1] /\ pos + comp \in Nat
    BY <1>2, <1>5, <2>1 DEF Positions
  <2>3. Counters'
    BY <1>1, <1>5, <2>1 DEF Counters
  <2>4. at' = "pass" => Reached'
    BY <1>1, <1>3, <2>1, <2>2 DEF Reached
  <2>5. pos' \in Nat
    BY <1>2, <2>1, <2>2
  <2> QED BY <1>2, <1>3, <1>4, <2>1, <2>3, <2>4, <2>5 DEF Positions, LibraryPlaces
<1> QED BY <1>6, <1>7, <1>8, <1>9

(* The counters are left alone by the rest.                                *)
LEMMA OtherCounters ==
    ASSUME InPlace, Positions, Counters, IsLibrary,
           \/ BNYBegin \/ ReadHeader \/ ReadFirst \/ NextEntry \/ PassOver \/ ListEntry
           \/ BNYExtractDirectory \/ OpenOutput \/ ExtractNothing \/ StartCopy \/ CopyBlock
    PROVE  Counters'
<1>1. CASE StartCopy
  <2>1. at \in LibraryPlaces \ {"header"}
    BY <1>1 DEF StartCopy, LibraryPlaces
  <2>2. RealEOF(Entry) \in Nat
    BY <2>1, Here
  <2> QED BY <1>1, <2>2 DEF StartCopy, Counters
<1>2. CASE CopyBlock
  <2>1. 0 \in Int /\ left - BlockSize \in Int
    BY Sizes DEF Counters
  <2>2. Max({0, left - BlockSize}) \in Nat
    BY <2>1, MaxOfTwo
  <2> QED BY <1>2, <2>2 DEF CopyBlock, Counters
<1>3. CASE UNCHANGED blocks
  BY <1>3 DEF blocks, Counters
<1> QED
  BY <1>1, <1>2, <1>3
  DEF BNYBegin, ReadHeader, ReadFirst, NextEntry, PassOver, ListEntry, BNYExtractDirectory,
      OpenOutput, ExtractNothing, blocks

LEMMA NextPositions == InPlace /\ Positions /\ Counters /\ [Next]_vars => Positions' /\ Counters'
<1> SUFFICES ASSUME InPlace, Positions, Counters, [Next]_vars PROVE Positions' /\ Counters'
  OBVIOUS
<1>1. CASE BNYNext
  <2>1. IsLibrary
    BY <1>1, LibraryFacts
  <2>2. CASE BNYBegin \/ ReadHeader \/ ReadFirst
    BY <2>1, <2>2, HeaderPositions, OtherCounters
  <2>3. CASE NextEntry \/ PassOver \/ ListEntry \/ BNYExtractDirectory \/ OpenOutput
    BY <2>1, <2>3, EntryPositions, OtherCounters
  <2>4. CASE ExtractNothing \/ StartCopy \/ CopyBlock
    BY <2>1, <2>4, CopyPositions, OtherCounters
  <2>5. CASE StartUnSqueeze \/ Refill \/ DecodeSymbol \/ EndUnSqueeze
    BY <2>1, <2>5, SqueezedPositions
  <2> QED BY <1>1, <2>2, <2>3, <2>4, <2>5 DEF BNYNext
<1>2. CASE ArchiveStep
  <2>1. UNCHANGED blocks /\ session' = session
    BY <1>2 DEF ArchiveStep, NuFXBegin, NextRecord, EndRecords, NextFork, EndForks,
                OutputPathnameFilter, Check, Replace, Keep, Quit, Rename, call
  <2>2. Counters'
    BY <2>1 DEF Counters, blocks
  <2>3. ~IsLibrary
    BY <1>2 DEF ArchiveStep, NuFXBegin, NextRecord, EndRecords, NextFork, EndForks,
                OutputPathnameFilter, Check, Replace, Keep, Quit, Rename, InPlace, ArchivePlaces
  <2> QED BY <2>1, <2>2, <2>3, SameSession DEF Positions
<1>3. CASE Writing
  <2>1. UNCHANGED <<session, at, n, pos, blocks>> /\ at = "over"
    BY <1>3, WritingReads, WritingInPlace DEF readVars, blocks
  <2>2. Library' = Library /\ IsLibrary' = IsLibrary
    BY <2>1, SameSession
  <2> QED BY <2>1, <2>2 DEF Positions, Counters, blocks, LibraryPlaces
<1>4. CASE UNCHANGED vars
  <2>1. UNCHANGED <<session, at, n, pos, consumed, blocks>>
    BY <1>4 DEF vars, bnyVars
  <2>2. /\ IsLibrary' = IsLibrary /\ Library' = Library /\ Start' = Start
        /\ Entry' = Entry /\ FirstBlock' = FirstBlock
    BY <2>1, SameEntry
  <2>3. (BlockSize * Blocks(left))' = BlockSize * Blocks(left)
    BY <2>1 DEF blocks, Blocks
  <2>4. Reached' = Reached
    BY <2>1, <2>2 DEF Reached
  <2>5. Counters'
    BY <2>1 DEF Counters, blocks
  <2> QED BY <2>1, <2>2, <2>3, <2>4, <2>5 DEF Positions, blocks
<1> QED BY <1>1, <1>2, <1>3, <1>4, NextParts

LEMMA AlwaysPositions == Spec => [](Positions /\ Counters)
BY InitPositions, NextPositions, AlwaysInPlace, PTL DEF Spec

(* The header of the next entry is looked for where the one before ends.   *)
THEOREM EntriesAligned == Spec => []HeadersAligned
<1>1. InPlace /\ Positions => HeadersAligned
  <2> SUFFICES ASSUME InPlace, Positions, IsLibrary
               PROVE  /\ at = "header" /\ n < Len(Library.entries)
                         /\ Start[n + 1] <= Library.size => pos = Start[n + 1]
                      /\ at = "unsqueeze" => pos + comp = Start[n + 1]
    BY DEF HeadersAligned
  <2>1. ASSUME at = "header", Start[n + 1] <= Library.size PROVE pos = Start[n + 1]
    <3>1. Reached /\ n + 1 \in 1 .. Len(Library.entries) + 1
      BY <2>1 DEF Positions
    <3>2. Library.size \in Nat /\ Start[n+1] \in Nat
      BY <3>1, LibraryTypes, StartNumbers DEF InPlace
    <3> QED BY <2>1, <3>1, <3>2 DEF Reached
  <2>2. at = "unsqueeze" => pos + comp = Start[n + 1]
    BY DEF Positions
  <2> QED BY <2>1, <2>2
<1> QED BY <1>1, AlwaysInPlace, AlwaysPositions, PTL

-----------------------------------------------------------------------------
(* What is in the directory *)

(* New names in the directory keep it a tree if they come with what is     *)
(* above them and put nothing in the place of a directory.                 *)
LEMMA TreeGrows ==
    ASSUME IsTree(files), NEW p \in Path \ {<<>>}, NEW v, v = Dir \/ v.kind = "file",
           v = Dir \/ ~IsDir(p),
           NEW D, D \subseteq Above(p), \A d \in Above(p) : d \in D \/ IsDir(d),
           DOMAIN files' = DOMAIN files \cup D \cup {p},
           files'[p] = v,
           \A q \in D : q # p => files'[q] = Dir,
           \A q \in DOMAIN files : q # p /\ q \notin D => files'[q] = files[q]
    PROVE  IsTree(files')
<1>1. \A q \in Above(p) : q # p /\ q \in Path \ {<<>>} /\ Above(q) \subseteq Above(p)
  <2> SUFFICES ASSUME NEW q \in Above(p)
               PROVE  q # p /\ q \in Path \ {<<>>} /\ Above(q) \subseteq Above(p)
    OBVIOUS
  <2>1. q \in Path \ {<<>>} /\ Len(q) < Len(p) /\ Above(q) \subseteq Above(p)
    BY AboveFacts
  <2> QED BY <2>1 DEF Path
<1>2. \A d : IsDir(d) => d \in DOMAIN files' /\ files'[d] = Dir
  BY DEF IsDir
<1>3. \A d \in Above(p) : d \in DOMAIN files' /\ files'[d] = Dir
  BY <1>1, <1>2
<1>4. ASSUME NEW path \in DOMAIN files'
      PROVE  /\ path \in Path \ {<<>>}
             /\ files'[path] = Dir \/ files'[path].kind = "file"
             /\ \A d \in Above(path) : d \in DOMAIN files' /\ files'[d] = Dir
  <2>1. CASE path = p
    BY <1>3, <2>1
  <2>2. CASE path # p /\ path \in D
    BY <1>1, <1>3, <2>2
  <2>3. CASE path # p /\ path \notin D
    <3>1. path \in DOMAIN files /\ files'[path] = files[path]
      BY <2>3
    <3>2. /\ path \in Path \ {<<>>}
          /\ files[path] = Dir \/ files[path].kind = "file"
          /\ \A d \in Above(path) : IsDir(d)
      BY <3>1 DEF IsTree, Path, IsDir
    <3> QED BY <1>2, <3>1, <3>2
  <2> QED BY <2>1, <2>2, <2>3
<1> QED BY <1>4 DEF IsTree, Path

(* What has room has its whole way there.                                  *)
LEMMA RoomAbove ==
    ASSUME IsTree(files), NEW p \in Path, HasRoom(p)
    PROVE  \A d \in Above(p) : IsDir(d)
<1> SUFFICES ASSUME NEW d \in Above(p) PROVE IsDir(d)
  OBVIOUS
<1>1. Parent(p) # <<>> /\ Above(p) \subseteq {Parent(p)} \cup Above(Parent(p))
  BY ParentFacts
<1>2. IsDir(Parent(p))
  BY <1>1 DEF HasRoom
<1>3. \A e \in Above(Parent(p)) : IsDir(e)
  BY <1>2 DEF IsDir, IsTree
<1> QED BY <1>1, <1>2, <1>3

LEMMA TreeRoom ==
    ASSUME IsTree(files), NEW p \in DOMAIN files
    PROVE  HasRoom(p) /\ (files[p] = Dir \/ files[p].kind = "file")
<1>1. p \in Path \ {<<>>} /\ (\A d \in Above(p) : IsDir(d))
      /\ (files[p] = Dir \/ files[p].kind = "file")
  BY DEF IsTree, Path, IsDir
<1>2. Parent(p) = <<>> \/ Parent(p) \in Above(p)
  BY <1>1, ParentFacts
<1> QED BY <1>1, <1>2 DEF HasRoom

(* One name is put into a directory that is there.                         *)
LEMMA TreePut ==
    ASSUME IsTree(files), NEW p \in Path, NEW v, v = Dir \/ v.kind = "file",
           v = Dir \/ ~IsDir(p), HasRoom(p), files' = Put(p, v, files)
    PROVE  IsTree(files')
<1>1. PICK D : D = {}
  OBVIOUS
<1>2. DOMAIN files' = DOMAIN files \cup D \cup {p} /\ files'[p] = v
  BY <1>1, FilesPut
<1>3. \A q \in D : q # p => files'[q] = Dir
  BY <1>1
<1>4. \A q \in DOMAIN files : q # p /\ q \notin D => files'[q] = files[q]
  BY FilesPut
<1>5. p \in Path \ {<<>>} /\ D \subseteq Above(p)
  BY <1>1 DEF HasRoom
<1>6. \A d \in Above(p) : d \in D \/ IsDir(d)
  BY RoomAbove
<1> QED BY <1>2, <1>3, <1>4, <1>5, <1>6, TreeGrows

LEMMA TreePutTwo ==
    ASSUME IsTree(files), NEW p \in Path, NEW v, v.kind = "file", p # <<>>, ~IsDir(p),
           \A d \in Above(p) : ~Exists(d),
           files' = Put(p, v, Overlay([d \in Above(p) |-> Dir], files))
    PROVE  IsTree(files')
<1>1. /\ DOMAIN files' = DOMAIN files \cup Above(p) \cup {p}
      /\ files'[p] = v
      /\ \A q \in Above(p) : q # p => files'[q] = Dir
      /\ \A q \in DOMAIN files : q # p /\ q \notin Above(p) => files'[q] = files[q]
  BY DEF Put, Overlay
<1> QED BY <1>1, TreeGrows

(* A file that was begun is completed.                                     *)
LEMMA TreeComplete ==
    ASSUME IsTree(files), Begun, at \in {"data", "copy", "unsqueeze"}, Complete
    PROVE  IsTree(files')
<1>1. CASE out = <<>>
  <2>1. files' = files
    BY <1>1 DEF Complete
  <2> QED BY <2>1
<1>2. CASE out # <<>>
  <2>1. /\ out \in DOMAIN files /\ files[out] = File(<<n, "data">>, FALSE, Now)
        /\ files' = [files EXCEPT ![out].whole = TRUE]
    BY <1>2 DEF Complete, Begun
  <2>2. files[out] = [kind |-> "file", from |-> <<n, "data">>, whole |-> FALSE, age |-> Now]
    BY <2>1 DEF File
  <2>3. files[out] # Dir
    <3>1. files[out].kind = "file" /\ Dir.kind = "dir"
      BY <2>2 DEF Dir
    <3> QED BY <3>1
  <2>4. /\ DOMAIN files' = DOMAIN files /\ files'[out].kind = "file"
        /\ \A q \in DOMAIN files : q # out => files'[q] = files[q]
    <3>1. files'[out] = [files[out] EXCEPT !.whole = TRUE]
      BY <2>1
    <3>2. files'[out].kind = files[out].kind
      BY <2>2, <3>1
    <3>3. DOMAIN files' = DOMAIN files
      BY <2>1
    <3>4. \A q \in DOMAIN files : q # out => files'[q] = files[q]
      BY <2>1
    <3>5. files[out].kind = "file"
      BY <2>2
    <3> QED BY <3>2, <3>3, <3>4, <3>5
  <2>5. \A d : d \in DOMAIN files /\ files[d] = Dir => files'[d] = Dir
    BY <2>3, <2>4
  <2> QED BY <2>4, <2>5 DEF IsTree
<1> QED BY <1>1, <1>2

(* While something is read, the directory is a tree, and what the names    *)
(* that are looked at are taken from is there.                             *)
Tree ==
    /\ IsTree(files)
    /\ at # "over" => out \in Path
    /\ rename # NoRename => rename[2] \in Path
    /\ ~IsLibrary =>
          /\ n \in 0 .. Len(session.source.records)
          /\ at \in {"fork", "path", "check", "ask"} => n \in 1 .. Len(session.source.records)

(* The command says that it failed, and why, only when it is over.         *)
Told ==
    IF at = "over" THEN (status = "ok" /\ why = "") \/ (status = "failed" /\ why # "")
    ELSE why = "" /\ status = (IF at = "idle" THEN "idle" ELSE "busy")

LEMMA InitTree == Init => Tree /\ Told
<1> SUFFICES ASSUME Init PROVE Tree /\ Told
  OBVIOUS
<1>1. session \in Sessions /\ files = session.before /\ at = "idle" /\ status = "idle" /\ why = ""
      /\ n = 0 /\ out = <<>> /\ rename = NoRename
  BY DEF Init, BNYInit
<1>2. IsTree(files)
  BY <1>1, LibraryTypes
<1>3. ASSUME ~IsLibrary PROVE 0 \in 0 .. Len(session.source.records)
  <2>1. session.source.records \in Seq(ArchiveRecord)
    BY <1>1, <1>3, LibraryTypes
  <2>2. Len(session.source.records) \in Nat
    BY <2>1
  <2> QED BY <2>2
<1> QED BY <1>1, <1>2, <1>3, ShortPaths DEF Tree, Told

(* The names that files are given                                          *)
LEMMA OutputNamePath ==
    ASSUME NEW e, e.name \in Path, e.type \in DOMAIN TypeName
    PROVE  OutputName(e) \in Path
<1> DEFINE strip == IsSqueezed(e) /\ Len(e.name) > Len(QQ) /\ IsSuffix(QQ, e.name)
           name == IF strip THEN SubSeq(e.name, 1, Len(e.name) - Len(QQ)) ELSE e.name
<1>1. ASSUME strip PROVE SubSeq(e.name, 1, Len(e.name) - Len(QQ)) \in Path
  <2>1. Len(e.name) \in Nat /\ Len(QQ) = 3
    BY DEF Path, QQ
  <2> DEFINE i == Len(e.name) - 2
  <2>2. i \in 1 .. Len(e.name) /\ i - 1 = Len(e.name) - Len(QQ)
    BY <1>1, <2>1
  <2>3. SubSeq(e.name, 1, i - 1) \in Path
    BY <2>2, CutPath DEF Path
  <2> HIDE DEF i
  <2> QED BY <2>2, <2>3
<1>2. name \in Path
  BY <1>1
<1>3. OutputName(e) = NormalizePath(name, Sep, e.type, "data", Opt)
  BY DEF OutputName
<1> HIDE DEF name
<1> QED BY <1>2, <1>3, LocalPath

LEMMA RecordFacts ==
    ASSUME InPlace, Tree, at \in {"fork", "path", "check", "ask"}
    PROVE  Record \in ArchiveRecord /\ OwnPath \in Path
<1>1. session.source.records \in Seq(ArchiveRecord)
  BY LibraryTypes DEF InPlace, ArchivePlaces
<1>2. n \in 1 .. Len(session.source.records)
  BY DEF Tree, InPlace, ArchivePlaces
<1>3. Record \in ArchiveRecord
  BY <1>1, <1>2 DEF Record
<1>4. Record.name \in Path /\ Record.type \in DOMAIN TypeName
  BY <1>3 DEF ArchiveRecord, Path
<1> QED BY <1>3, <1>4, LocalPath DEF OwnPath

(* A library                                                               *)
LEMMA LibraryTree ==
    ASSUME InPlace, Begun, Positions, Tree, BNYNext, UNCHANGED nufxVars
    PROVE  Tree'
<1>1. session' = session /\ IsLibrary /\ IsLibrary' /\ rename' = rename
  BY LibraryFacts, SameSession DEF nufxVars, askVars
<1>2. SUFFICES IsTree(files') /\ (at' # "over" => out' \in Path)
  BY <1>1 DEF Tree, NoRename
<1>3. at # "over" /\ out \in Path /\ IsTree(files)
  <2>1. at \in LibraryPlaces \cup {"idle"}
    BY DEF BNYNext, BNYBegin, ReadHeader, ReadFirst, NextEntry, PassOver, ListEntry,
           BNYExtractDirectory, OpenOutput, Extracts, ExtractNothing, StartCopy, CopyBlock,
           StartUnSqueeze, Refill, DecodeSymbol, EndUnSqueeze, LibraryPlaces
  <2> QED BY <2>1 DEF Tree, LibraryPlaces
<1>4. CASE BNYExtractDirectory
  <2>1. out' = out
    BY <1>4 DEF BNYExtractDirectory
  <2>2. at \in LibraryPlaces \ {"header"}
    BY <1>4 DEF BNYExtractDirectory, Extracts, LibraryPlaces
  <2>3. Entry.name \in Path
    BY <1>1, <2>2, Here
  <2>4. files' = files \/ (HasRoom(Entry.name) /\ files' = Put(Entry.name, Dir, files))
    BY <1>4 DEF BNYExtractDirectory
  <2>5. IsTree(files')
    BY <1>3, <2>3, <2>4, TreePut
  <2> QED BY <1>3, <2>1, <2>5
<1>5. CASE OpenOutput
  <2>1. at \in LibraryPlaces \ {"header"}
    BY <1>5 DEF OpenOutput, Extracts, LibraryPlaces
  <2>2. OutputName(Entry) \in Path
    BY <1>1, <2>1, Here, OutputNamePath
  <2>3. \/ UNCHANGED <<out, files>>
        \/ /\ out' = OutputName(Entry)
           /\ \/ files' = files
              \/ /\ ~IsDir(OutputName(Entry)) /\ HasRoom(OutputName(Entry))
                 /\ files' = Put(OutputName(Entry), File(<<n, "data">>, FALSE, Now), files)
    BY <1>5 DEF OpenOutput
  <2>4. File(<<n, "data">>, FALSE, Now).kind = "file"
    BY DEF File
  <2>5. ASSUME ~IsDir(OutputName(Entry)), HasRoom(OutputName(Entry)),
               files' = Put(OutputName(Entry), File(<<n, "data">>, FALSE, Now), files)
        PROVE  IsTree(files')
    <3> DEFINE v == File(<<n, "data">>, FALSE, Now)
               p == OutputName(Entry)
    <3>1. p \in Path /\ v.kind = "file" /\ ~IsDir(p) /\ HasRoom(p) /\ files' = Put(p, v, files)
      BY <2>2, <2>4, <2>5
    <3> HIDE DEF v, p
    <3> QED BY <1>3, <3>1, TreePut
  <2> QED BY <1>3, <2>2, <2>3, <2>5
<1>6. CASE NextEntry
  BY <1>3, <1>6, ShortPaths DEF NextEntry
<1>7. CASE ExtractNothing
  BY <1>3, <1>7, TreeComplete DEF ExtractNothing
<1>8. CASE CopyBlock
  <2>1. out' = out /\ at = "copy" /\ (Complete \/ files' = files)
    BY <1>8 DEF CopyBlock
  <2> QED BY <1>3, <2>1, TreeComplete
<1>9. CASE EndUnSqueeze
  <2>1. out' = out /\ at = "unsqueeze" /\ (Complete \/ files' = files)
    BY <1>9 DEF EndUnSqueeze
  <2> QED BY <1>3, <2>1, TreeComplete
<1>10. CASE UNCHANGED <<out, files>>
  BY <1>3, <1>10
<1> QED
  BY <1>4, <1>5, <1>6, <1>7, <1>8, <1>9, <1>10
  DEF BNYNext, BNYBegin, ReadHeader, ReadFirst, PassOver, ListEntry, StartCopy,
      StartUnSqueeze, Refill, DecodeSymbol

(* A fork is written with all that is missing on the way to it.            *)
LEMMA WrittenTree ==
    ASSUME IsTree(files), out \in Path, WriteFork, \A d \in Above(out) : ~Exists(d)
    PROVE  IsTree(files')
<1>1. CASE files' = files
  BY <1>1
<1>2. CASE files' # files
  <2> DEFINE v == File(<<n, Kind>>, TRUE, Record.age)
  <2>1. /\ out # <<>> /\ ~IsDir(out)
        /\ files' = Put(out, v, Overlay([d \in Above(out) |-> Dir], files))
    BY <1>2 DEF WriteFork
  <2>2. v.kind = "file"
    BY DEF File
  <2> HIDE DEF v
  <2> QED BY <2>1, <2>2, TreePutTwo
<1> QED BY <1>1, <1>2

(* An archive                                                              *)
LEMMA ArchiveTree ==
    ASSUME InPlace, Asked, Tree, ArchiveStep
    PROVE  Tree'
<1> USE DEF GoTo, Fail, Over, call, addVars, askVars, nufxVars
<1> DEFINE len == Len(session.source.records)
<1>1. session' = session /\ ~IsLibrary /\ ~IsLibrary' /\ at # "over"
  <2>1. session' = session /\ ~IsLibrary /\ at # "over"
    BY DEF ArchiveStep, NuFXBegin, NextRecord, EndRecords, NextFork, EndForks,
           OutputPathnameFilter, Check, Replace, Keep, Quit, Rename, InPlace, ArchivePlaces
  <2> QED BY <2>1, SameSession
<1>2. len \in Nat
  <2>1. session.source.records \in Seq(ArchiveRecord)
    BY <1>1, LibraryTypes DEF InPlace
  <2> QED BY <2>1
<1>3. IsTree(files) /\ out \in Path /\ (rename # NoRename => rename[2] \in Path)
      /\ n \in 0 .. len /\ (at \in {"fork", "path", "check", "ask"} => n \in 1 .. len)
  BY <1>1 DEF Tree
<1>4. SUFFICES /\ IsTree(files') /\ out' \in Path
               /\ rename' # NoRename => rename'[2] \in Path
               /\ n' \in 0 .. len
               /\ at' \in {"fork", "path", "check", "ask"} => n' \in 1 .. len
  BY <1>1 DEF Tree, NoRename
<1>5. CASE NextRecord
  <2>1. UNCHANGED <<out, files, rename>> /\ n' = n + 1 /\ n < len
    BY <1>5 DEF NextRecord
  <2>2. n' \in 1 .. len /\ n' \in 0 .. len
    BY <1>2, <1>3, <2>1
  <2> HIDE DEF len
  <2> QED BY <1>3, <2>1, <2>2
<1>6. CASE NuFXBegin \/ EndRecords
  <2>1. UNCHANGED <<out, files, rename, n>> /\ at' \in {"record", "over"}
    BY <1>6 DEF NuFXBegin, EndRecords
  <2> QED BY <1>3, <2>1
<1>7. CASE NextFork \/ EndForks
  <2>1. UNCHANGED <<out, files, rename, n>> /\ at = "fork"
    BY <1>7 DEF NextFork, EndForks
  <2> QED BY <1>3, <2>1
<1>8. CASE OutputPathnameFilter
  <2>1. UNCHANGED <<files, n>> /\ at = "path" /\ rename' = NoRename
        /\ out' = IF rename # NoRename /\ rename[1] = n THEN rename[2] ELSE OwnPath
    BY <1>8 DEF OutputPathnameFilter
  <2>2. OwnPath \in Path
    BY <2>1, RecordFacts
  <2> QED BY <1>3, <2>1, <2>2
<1>9. CASE Check
  <2>1. UNCHANGED <<out, rename, n>> /\ at = "check"
    BY <1>9 DEF Check
  <2>2. files' = files \/ (WriteFork /\ \A d \in Above(out) : ~Exists(d))
    BY <1>9 DEF Check, SkipFork
  <2>3. IsTree(files')
    BY <1>3, <2>2, WrittenTree
  <2> QED BY <1>3, <2>1, <2>3
<1>10. CASE Replace
  <2>1. UNCHANGED <<out, rename, n>> /\ at = "ask" /\ WriteFork
    BY <1>10 DEF Replace
  <2>2. IsTree(files')
    BY <1>3, <2>1, WrittenTree DEF Asked
  <2> QED BY <1>3, <2>1, <2>2
<1>11. CASE Keep
  <2>1. UNCHANGED <<out, rename, n, files>> /\ at = "ask"
    BY <1>11 DEF Keep, SkipFork
  <2> QED BY <1>3, <2>1
<1>12. CASE Quit
  <2>1. UNCHANGED <<out, rename, n, files>> /\ at = "ask"
    BY <1>12 DEF Quit
  <2> QED BY <1>3, <2>1
<1>13. CASE Rename
  <2>1. UNCHANGED <<out, n, files>> /\ at = "ask" /\ \E name \in RenameTo : rename' = <<n, name>>
    BY <1>13 DEF Rename
  <2>2. rename'[2] \in Path
    BY <2>1, SessionsAssumption DEF Path
  <2> QED BY <1>3, <2>1, <2>2
<1> QED
  BY <1>5, <1>6, <1>7, <1>8, <1>9, <1>10, <1>11, <1>12, <1>13 DEF ArchiveStep

LEMMA NextTree ==
    InPlace /\ Begun /\ Asked /\ Positions /\ Tree /\ [Next]_vars => Tree'
<1> SUFFICES ASSUME InPlace, Begun, Asked, Positions, Tree, [Next]_vars PROVE Tree'
  OBVIOUS
<1>1. CASE BNYNext /\ UNCHANGED nufxVars
  BY <1>1, LibraryTree
<1>2. CASE ArchiveStep
  BY <1>2, ArchiveTree
<1>3. CASE Writing
  <2>1. UNCHANGED <<session, at, n, files, rename>> /\ at = "over"
    BY <1>3, WritingReads, WritingInPlace DEF readVars
  <2> QED BY <2>1, SameSession DEF Tree, NoRename
<1>4. CASE UNCHANGED vars
  <2>1. UNCHANGED <<session, at, n, files, rename, out>>
    BY <1>4 DEF vars, bnyVars, nufxVars, askVars
  <2> QED BY <2>1, SameSession DEF Tree, NoRename
<1> QED BY <1>1, <1>2, <1>3, <1>4, NextParts

LEMMA AlwaysTree == Spec => []Tree
BY InitTree, NextTree, AlwaysInPlace, AlwaysAsked, AlwaysPositions, PTL DEF Spec

(* How far the first command got                                           *)
LEMMA LibraryTold ==
    ASSUME InPlace, Told, BNYNext
    PROVE  Told'
<1> USE DEF GoTo, Fail, Over, Told
<1>1. CASE BNYBegin
  BY <1>1 DEF BNYBegin
<1>2. CASE ReadHeader
  BY <1>2 DEF ReadHeader
<1>3. CASE ReadFirst
  BY <1>3 DEF ReadFirst
<1>4. CASE NextEntry
  BY <1>4 DEF NextEntry
<1>5. CASE PassOver
  BY <1>5 DEF PassOver
<1>6. CASE ListEntry
  BY <1>6 DEF ListEntry
<1>7. CASE BNYExtractDirectory
  BY <1>7 DEF BNYExtractDirectory, Extracts
<1>8. CASE OpenOutput
  BY <1>8 DEF OpenOutput, Extracts
<1>9. CASE ExtractNothing
  BY <1>9 DEF ExtractNothing, Complete
<1>10. CASE StartCopy
  BY <1>10 DEF StartCopy
<1>11. CASE CopyBlock
  BY <1>11 DEF CopyBlock, Complete
<1>12. CASE StartUnSqueeze
  BY <1>12 DEF StartUnSqueeze
<1>13. CASE Refill
  BY <1>13 DEF Refill
<1>14. CASE DecodeSymbol
  BY <1>14 DEF DecodeSymbol
<1>15. CASE EndUnSqueeze
  BY <1>15 DEF EndUnSqueeze, Complete
<1> QED
  BY <1>1, <1>2, <1>3, <1>4, <1>5, <1>6, <1>7, <1>8, <1>9, <1>10, <1>11, <1>12, <1>13, <1>14,
     <1>15 DEF BNYNext

LEMMA ArchiveTold ==
    ASSUME InPlace, Told, ArchiveStep
    PROVE  Told'
<1> USE DEF GoTo, Fail, Over, Told
<1>1. CASE NuFXBegin
  BY <1>1 DEF NuFXBegin
<1>2. CASE NextRecord
  BY <1>2 DEF NextRecord
<1>3. CASE EndRecords
  BY <1>3 DEF EndRecords
<1>4. CASE NextFork
  BY <1>4 DEF NextFork
<1>5. CASE EndForks
  BY <1>5 DEF EndForks
<1>6. CASE OutputPathnameFilter
  BY <1>6 DEF OutputPathnameFilter
<1>7. CASE Check
  BY <1>7 DEF Check, SkipFork, WriteFork
<1>8. CASE Replace
  BY <1>8 DEF Replace, WriteFork
<1>9. CASE Keep
  BY <1>9 DEF Keep, SkipFork
<1>10. CASE Quit
  BY <1>10 DEF Quit
<1>11. CASE Rename
  BY <1>11 DEF Rename
<1> QED
  BY <1>1, <1>2, <1>3, <1>4, <1>5, <1>6, <1>7, <1>8, <1>9, <1>10, <1>11 DEF ArchiveStep

LEMMA NextTold == InPlace /\ Told /\ [Next]_vars => Told'
<1> SUFFICES ASSUME InPlace, Told, [Next]_vars PROVE Told'
  OBVIOUS
<1>1. CASE Writing
  BY <1>1, WritingReads DEF readVars, Told
<1>2. CASE UNCHANGED vars
  BY <1>2 DEF vars, bnyVars, Told
<1> QED BY <1>1, <1>2, LibraryTold, ArchiveTold, NextParts

LEMMA AlwaysTold == Spec => []Told
BY InitTree, NextTold, AlwaysInPlace, PTL DEF Spec

-----------------------------------------------------------------------------
(* What is added *)

(* A name is in the copy or among the new records.                         *)
Apart == DOMAIN copy \cap DOMAIN new = {}

LEMMA InitApart == Init => Apart
BY DEF Init, Apart

(* A new record takes the place of the one in the copy.                    *)
LEMMA NewRecordApart ==
    ASSUME Apart, NEW path, NEW details, NewRecord(path, details)
    PROVE  Apart'
<1> DEFINE name == details.name
           v == [type |-> details.type, age |-> files[path].age,
                 forks |-> [kind \in {details.kind} |-> files[path].from]]
<1>1. new' = Put(name, v, new) /\ copy' = [x \in DOMAIN copy \ {name} |-> copy[x]]
  BY DEF NewRecord
<1> HIDE DEF name, v
<1>2. DOMAIN new' = DOMAIN new \cup {name}
  BY <1>1 DEF Put, Overlay
<1>3. DOMAIN copy' = DOMAIN copy \ {name}
  BY <1>1
<1> QED BY <1>2, <1>3 DEF Apart

LEMMA NextApart == Apart /\ [Next]_vars => Apart'
<1> SUFFICES ASSUME Apart, [Next]_vars PROVE Apart'
  OBVIOUS
<1>1. CASE UNCHANGED <<copy, new>>
  BY <1>1 DEF Apart
<1>2. ASSUME new' = <<>> PROVE Apart'
  BY <1>2 DEF Apart
<1>3. ASSUME NEW path, NEW details, JoinRecord(path, details) PROVE Apart'
  <2>1. CASE AddFails
    BY <1>2, <2>1 DEF AddFails
  <2>2. CASE ~AddFails
    <3>1. copy' = copy /\ new' = [new EXCEPT ![details.name].forks =
                                     Put(details.kind, files[path].from, @)]
      BY <1>3, <2>2 DEF JoinRecord
    <3>2. DOMAIN new' = DOMAIN new
      BY <3>1
    <3> QED BY <3>1, <3>2 DEF Apart
  <2> QED BY <2>1, <2>2
<1>4. CASE AddFile
  <2>1. \/ UNCHANGED <<copy, new>>
        \/ \E path, details : JoinRecord(path, details) \/ NewRecord(path, details)
    BY <1>4 DEF AddFile, PassFile
  <2> QED BY <1>1, <1>3, <2>1, NewRecordApart
<1>5. CASE AnswerAdd
  <2>1. \/ UNCHANGED <<copy, new>>
        \/ \E path, details : NewRecord(path, details)
        \/ new' = <<>>
    BY <1>5 DEF AnswerAdd, PassFile, AddFails
  <2> QED BY <1>1, <1>2, <2>1, NewRecordApart
<1>6. CASE StartAdd
  BY <1>2, <1>6 DEF StartAdd
<1>7. CASE EndDirectory \/ Descend \/ Flush \/ DoDelete
  BY <1>1, <1>7 DEF EndDirectory, Descend, Flush, DoDelete
<1>8. CASE (BNYNext /\ UNCHANGED nufxVars) \/ ArchiveStep \/ UNCHANGED vars
  BY <1>1, <1>8
  DEF ArchiveStep, NuFXBegin, NextRecord, EndRecords, NextFork, EndForks, OutputPathnameFilter,
      Check, Replace, Keep, Quit, Rename, nufxVars, addVars, vars
<1> QED BY <1>4, <1>5, <1>6, <1>7, <1>8, NextParts DEF Writing

LEMMA AlwaysApart == Spec => []Apart
BY InitApart, NextApart, PTL DEF Spec

(* The type invariant of nulib2                                            *)
THEOREM Lib2Types == Spec => []Lib2TypeOK
<1>1. InPlace /\ Asked /\ Counters /\ Tree /\ Told /\ Apart => Lib2TypeOK
  <2> SUFFICES ASSUME InPlace, Asked, Counters, Tree, Told, Apart PROVE Lib2TypeOK
    OBVIOUS
  <2>1. at \in {"idle", "header", "first", "entry", "data", "copy", "unsqueeze", "pass",
                "record", "fork", "path", "check", "ask", "over"}
    BY DEF InPlace, LibraryPlaces, ArchivePlaces
  <2>2. status \in {"idle", "busy", "ok", "failed"} /\ (status = "failed" <=> why # "")
    BY DEF Told
  <2>3. inBuf \in 0 .. SqBufferSize /\ comp \in Nat /\ left \in Nat
    BY DEF Counters
  <2>4. \A path \in DOMAIN files :
           HasRoom(path) /\ (files[path] = Dir \/ files[path].kind = "file")
    BY TreeRoom DEF Tree
  <2>5. at = "ask" => out \in DOMAIN files
    BY DEF Asked
  <2> QED BY <2>1, <2>2, <2>3, <2>4, <2>5 DEF Lib2TypeOK, InPlace, Apart
<1> QED
  BY <1>1, AlwaysInPlace, AlwaysAsked, AlwaysPositions, AlwaysTree, AlwaysTold, AlwaysApart, PTL

-----------------------------------------------------------------------------
(* All or nothing *)

(* What an add that recurses into directories, or does not, is asked for   *)
InScope(p) == p \in DOMAIN files /\ Exists(p) /\ (Then.recurse \/ Parent(p) = <<>>)
Details(p) == GetFileDetails(p, Then)
PassedIn(ps, p) == \E reason \in {"notnewer", "notfound", "told"} : <<p, reason>> \in ps
HeldIn(records, p) ==
    /\ Details(p).name \in DOMAIN records
    /\ Details(p).kind \in DOMAIN records[Details(p).name].forks
    /\ records[Details(p).name].forks[Details(p).kind] = files[p].from

(* The walk will come to it, or to a directory above it.                   *)
Awaits(w, p) == \E i \in DOMAIN w : \E q \in w[i] : q = p \/ (Then.recurse /\ q \in Above(p))

(* While files are added every one of them is still to come, asked about,  *)
(* passed over, or in a new record; only a name that no new record has is  *)
(* asked about.                                                            *)
Under(w, o, ps, records) ==
    /\ w \in Seq(SUBSET DOMAIN files)
    /\ \A name \in DOMAIN records : "forks" \in DOMAIN records[name]
    /\ o # <<>> => Exists(o) /\ Details(o).name \notin DOMAIN records
    /\ \A p : InScope(p) => Awaits(w, p) \/ p = o \/ PassedIn(ps, p) \/ HeldIn(records, p)

Adding ==
    /\ added \in {"no", "busy", "failed"} => archive = session.archive
    /\ added = "busy" => Under(walk, out, passed, new)
    /\ added \in {"ok", "written"} /\ Then.cmd = "add" =>
          \A p : InScope(p) => PassedIn(passed, p) \/ HeldIn(archive, p)

LEMMA InitAdding == Init => Adding
BY DEF Init, BNYInit, Adding

(* The files, and what is asked for, stay the same.                        *)
LEMMA SameFiles ==
    ASSUME UNCHANGED <<session, files>>
    PROVE  /\ \A p : InScope(p)' = InScope(p)
           /\ \A p : Exists(p)' = Exists(p)
           /\ \A p : Details(p)' = Details(p)
           /\ \A w, p : Awaits(w, p)' = Awaits(w, p)
           /\ \A r, p : HeldIn(r, p)' = HeldIn(r, p)
           /\ \A w, o, ps, r : Under(w, o, ps, r)' = Under(w, o, ps, r)
<1>1. Then' = Then
  BY DEF Then
<1>2. \A p : Exists(p)' = Exists(p)
  BY DEF Exists
<1>3. \A p : Details(p)' = Details(p)
  BY <1>1 DEF Details
<1>4. \A p : InScope(p)' = InScope(p)
  BY <1>1, <1>2 DEF InScope
<1>5. \A w, p : Awaits(w, p)' = Awaits(w, p)
  BY <1>1 DEF Awaits
<1>6. \A r, p : HeldIn(r, p)' = HeldIn(r, p)
  BY <1>3 DEF HeldIn
<1>7. \A w, o, ps, r : Under(w, o, ps, r)' = Under(w, o, ps, r)
  BY <1>2, <1>3, <1>4, <1>5, <1>6 DEF Under, PassedIn
<1> QED BY <1>2, <1>3, <1>4, <1>5, <1>6, <1>7

(* A turn of the walk: some entry is taken from the first directory, and   *)
(* another directory may come before it.                                   *)
Turned(T, w, x, pre, v) ==
    /\ v \in Seq(T)
    /\ \A i \in DOMAIN w : \E j \in DOMAIN v : w[i] \ {x} \subseteq v[j]
    /\ \A i \in DOMAIN pre : \E j \in DOMAIN v : v[j] = pre[i]

LEMMA WalkTurn ==
    ASSUME NEW T, NEW w \in Seq(T), w # <<>>, NEW x, w[1] \ {x} \in T, NEW pre \in Seq(T),
           NEW v, v = pre \o <<w[1] \ {x}>> \o Tail(w)
    PROVE  Turned(T, w, x, pre, v)
<1> DEFINE one == <<w[1] \ {x}>>
<1>0. v = pre \o one \o Tail(w)
  OBVIOUS
<1>1. one \in Seq(T) /\ Len(one) = 1 /\ one[1] = w[1] \ {x}
      /\ Len(w) \in Nat /\ Len(w) >= 1 /\ Len(pre) \in Nat
  OBVIOUS
<1>2. /\ Tail(w) \in Seq(T) /\ Len(Tail(w)) = Len(w) - 1
      /\ \A i \in 1 .. Len(Tail(w)) : Tail(w)[i] = w[i+1]
  BY HeadTailProperties
<1> HIDE DEF one
<1>3. /\ pre \o one \in Seq(T) /\ Len(pre \o one) = Len(pre) + 1
      /\ \A i \in 1 .. Len(pre) : (pre \o one)[i] = pre[i]
      /\ (pre \o one)[Len(pre) + 1] = one[1]
  <2>1. 1 \in 1 .. Len(one)
    BY <1>1
  <2>0. \A s, t \in Seq(T) :
           /\ s \o t \in Seq(T) /\ Len(s \o t) = Len(s) + Len(t)
           /\ \A i \in 1 .. Len(s) : (s \o t)[i] = s[i]
           /\ \A i \in 1 .. Len(t) : (s \o t)[Len(s) + i] = t[i]
    <3> SUFFICES ASSUME NEW s \in Seq(T), NEW t \in Seq(T)
                 PROVE  /\ s \o t \in Seq(T) /\ Len(s \o t) = Len(s) + Len(t)
                        /\ \A i \in 1 .. Len(s) : (s \o t)[i] = s[i]
                        /\ \A i \in 1 .. Len(t) : (s \o t)[Len(s) + i] = t[i]
      OBVIOUS
    <3>1. s \o t \in Seq(T)
      BY ConcatParts
    <3>2. Len(s \o t) = Len(s) + Len(t)
      BY ConcatParts
    <3>3. \A i \in 1 .. Len(s) : (s \o t)[i] = s[i]
      BY ConcatParts
    <3>4. \A i \in 1 .. Len(t) : (s \o t)[Len(s) + i] = t[i]
      BY ConcatParts
    <3> QED BY <3>1, <3>2, <3>3, <3>4
  <2>2. pre \o one \in Seq(T) /\ Len(pre \o one) = Len(pre) + Len(one)
    BY <1>1, <2>0, Zenon
  <2>3. \A i \in 1 .. Len(pre) : (pre \o one)[i] = pre[i]
    BY <1>1, <2>0, Zenon
  <2>4. \A i \in 1 .. Len(one) : (pre \o one)[Len(pre) + i] = one[i]
    BY <1>1, <2>0, Zenon
  <2> QED BY <1>1, <2>1, <2>2, <2>3, <2>4
<1>4. /\ v \in Seq(T) /\ Len(v) = Len(pre) + Len(w)
      /\ \A i \in 1 .. Len(pre) + 1 : v[i] = (pre \o one)[i]
      /\ \A i \in 1 .. Len(w) - 1 : v[Len(pre) + 1 + i] = Tail(w)[i]
  <2>0. PICK a, b : a = pre \o one /\ b = Tail(w)
    OBVIOUS
  <2>1. a \in Seq(T) /\ Len(a) = Len(pre) + 1 /\ b \in Seq(T) /\ Len(b) = Len(w) - 1 /\ b = Tail(w)
    BY <1>2, <1>3, <2>0
  <2>3. v = a \o b
    BY <1>0, <2>0
  <2>2. /\ a \o b \in Seq(T) /\ Len(a \o b) = Len(a) + Len(b)
        /\ \A i \in 1 .. Len(a) : (a \o b)[i] = a[i]
        /\ \A i \in 1 .. Len(b) : (a \o b)[Len(a) + i] = b[i]
    <3>1. a \in Seq(T) /\ b \in Seq(T)
      BY <2>1
    <3>2. a \o b \in Seq(T)
      BY <3>1, ConcatParts
    <3>3. Len(a \o b) = Len(a) + Len(b)
      BY <3>1, ConcatParts
    <3>4. \A i \in 1 .. Len(a) : (a \o b)[i] = a[i]
      BY <3>1, ConcatParts
    <3>5. \A i \in 1 .. Len(b) : (a \o b)[Len(a) + i] = b[i]
      BY <3>1, ConcatParts
    <3> QED BY <3>2, <3>3, <3>4, <3>5
  <2>4. Len(v) = Len(pre) + Len(w)
    BY <1>1, <1>2, <2>1, <2>2, <2>3
  <2>5. \A i \in 1 .. Len(w) - 1 : v[Len(pre) + 1 + i] = Tail(w)[i]
    BY <1>1, <1>2, <2>1, <2>2, <2>3
  <2> QED BY <2>0, <2>1, <2>2, <2>3, <2>4, <2>5
<1>5. DOMAIN v = 1 .. Len(pre) + Len(w) /\ DOMAIN w = 1 .. Len(w) /\ DOMAIN pre = 1 .. Len(pre)
  BY <1>4
<1>6. ASSUME NEW i \in DOMAIN w
      PROVE  \E j \in DOMAIN v : w[i] \ {x} \subseteq v[j]
  <2>1. CASE i = 1
    <3>1. Len(pre) + 1 \in DOMAIN v /\ v[Len(pre) + 1] = w[1] \ {x}
      BY <1>1, <1>3, <1>4, <1>5
    <3> QED BY <2>1, <3>1
  <2>2. CASE i # 1
    <3>1. i - 1 \in 1 .. Len(w) - 1 /\ Len(pre) + i \in 1 .. Len(pre) + Len(w)
          /\ Len(pre) + 1 + (i - 1) = Len(pre) + i /\ (i - 1) + 1 = i
      BY <1>1, <1>5, <2>2
    <3>2. v[Len(pre) + i] = w[i]
      BY <1>2, <1>4, <3>1
    <3> QED BY <1>5, <3>1, <3>2
  <2> QED BY <2>1, <2>2
<1>7. ASSUME NEW i \in DOMAIN pre
      PROVE  \E j \in DOMAIN v : v[j] = pre[i]
  <2>1. i \in DOMAIN v /\ i \in 1 .. Len(pre) + 1 /\ i \in 1 .. Len(pre)
    BY <1>1, <1>5
  <2>2. v[i] = pre[i]
    BY <1>3, <1>4, <2>1
  <2> QED BY <2>1, <2>2
<1> QED BY <1>4, <1>6, <1>7 DEF Turned

LEMMA AwaitsTurn ==
    ASSUME NEW w \in Seq(SUBSET DOMAIN files), w # <<>>, NEW x,
           NEW pre \in Seq(SUBSET DOMAIN files)
    PROVE  LET v == pre \o <<w[1] \ {x}>> \o Tail(w)
           IN  /\ v \in Seq(SUBSET DOMAIN files)
               /\ \A p : Awaits(w, p) =>
                     Awaits(v, p) \/ x = p \/ (Then.recurse /\ x \in Above(p))
               /\ \A p : Awaits(pre, p) => Awaits(v, p)
<1>1. PICK T : T = SUBSET DOMAIN files
  OBVIOUS
<1>2. PICK v : v = pre \o <<w[1] \ {x}>> \o Tail(w)
  OBVIOUS
<1>3. w \in Seq(T) /\ pre \in Seq(T)
  BY <1>1
<1>4. w[1] \ {x} \in T
  BY <1>1
<1>5. /\ v \in Seq(T)
      /\ \A i \in DOMAIN w : \E j \in DOMAIN v : w[i] \ {x} \subseteq v[j]
      /\ \A i \in DOMAIN pre : \E j \in DOMAIN v : v[j] = pre[i]
  <2>1. Turned(T, w, x, pre, v)
    BY <1>2, <1>3, <1>4, WalkTurn
  <2> QED BY <2>1 DEF Turned
<1>6. ASSUME NEW p, Awaits(w, p)
      PROVE  Awaits(v, p) \/ x = p \/ (Then.recurse /\ x \in Above(p))
  <2>1. PICK i \in DOMAIN w : \E q \in w[i] : q = p \/ (Then.recurse /\ q \in Above(p))
    BY <1>6 DEF Awaits
  <2>2. PICK q \in w[i] : q = p \/ (Then.recurse /\ q \in Above(p))
    BY <2>1
  <2>3. q = x \/ \E j \in DOMAIN v : q \in v[j]
    BY <1>5
  <2> QED BY <2>2, <2>3 DEF Awaits
<1>7. ASSUME NEW p, Awaits(pre, p) PROVE Awaits(v, p)
  <2>1. PICK i \in DOMAIN pre : \E q \in pre[i] : q = p \/ (Then.recurse /\ q \in Above(p))
    BY <1>7 DEF Awaits
  <2>2. PICK j \in DOMAIN v : v[j] = pre[i]
    BY <1>5
  <2> QED BY <2>1, <2>2 DEF Awaits
<1>8. v \in Seq(SUBSET DOMAIN files)
  BY <1>1, <1>5
<1> QED BY <1>2, <1>6, <1>7, <1>8

(* The walk without what it has begun with                                 *)
LEMMA AwaitsNext ==
    ASSUME NEW w \in Seq(SUBSET DOMAIN files), w # <<>>, NEW x
    PROVE  LET v == <<w[1] \ {x}>> \o Tail(w)
           IN  /\ v \in Seq(SUBSET DOMAIN files)
               /\ \A p : Awaits(w, p) =>
                     Awaits(v, p) \/ x = p \/ (Then.recurse /\ x \in Above(p))
<1>1. PICK pre : pre = <<>>
  OBVIOUS
<1>2. pre \in Seq(SUBSET DOMAIN files)
  BY <1>1
<1> DEFINE u == pre \o <<w[1] \ {x}>> \o Tail(w)
           v == <<w[1] \ {x}>> \o Tail(w)
<1>3. /\ u \in Seq(SUBSET DOMAIN files)
      /\ \A p : Awaits(w, p) => Awaits(u, p) \/ x = p \/ (Then.recurse /\ x \in Above(p))
  BY <1>2, AwaitsTurn
<1>4. u = v
  <2>1. PICK one : one = <<w[1] \ {x}>>
    OBVIOUS
  <2>2. one \in Seq({w[1] \ {x}})
    BY <2>1
  <2>3. <<>> \o one = one
    BY <2>2, ConcatEmptySeq
  <2> QED BY <1>1, <2>1, <2>3
<1> QED BY <1>3, <1>4

(* A new record holds its file, and what others hold they go on holding.   *)
LEMMA NewRecordHolds ==
    ASSUME NEW path, NewRecord(path, Details(path)), Details(path).name \notin DOMAIN new,
           \A name \in DOMAIN new : "forks" \in DOMAIN new[name]
    PROVE  /\ HeldIn(new', path)
           /\ \A p : HeldIn(new, p) => HeldIn(new', p)
           /\ \A name \in DOMAIN new' : "forks" \in DOMAIN new'[name]
<1> DEFINE name == Details(path).name
           kind == Details(path).kind
           v == [type |-> Details(path).type, age |-> files[path].age,
                 forks |-> [k \in {kind} |-> files[path].from]]
<1>1. new' = Put(name, v, new)
  BY DEF NewRecord
<1>2. v.forks = [k \in {kind} |-> files[path].from] /\ "forks" \in DOMAIN v
  OBVIOUS
<1>3. kind \in DOMAIN v.forks /\ v.forks[kind] = files[path].from
  BY <1>2
<1> HIDE DEF v
<1>4. /\ DOMAIN new' = DOMAIN new \cup {name} /\ new'[name] = v
      /\ \A x \in DOMAIN new : x # name => new'[x] = new[x]
  BY <1>1 DEF Put, Overlay
<1>5. HeldIn(new', path)
  BY <1>3, <1>4 DEF HeldIn
<1>6. ASSUME NEW p, HeldIn(new, p) PROVE HeldIn(new', p)
  <2>1. Details(p).name \in DOMAIN new /\ Details(p).name # name
    BY <1>6 DEF HeldIn
  <2>2. new'[Details(p).name] = new[Details(p).name] /\ Details(p).name \in DOMAIN new'
    BY <1>4, <2>1
  <2> QED BY <1>6, <2>2 DEF HeldIn
<1> QED BY <1>2, <1>4, <1>5, <1>6

LEMMA JoinRecordHolds ==
    ASSUME NEW path, JoinRecord(path, Details(path)), Details(path).name \in DOMAIN new,
           \A name \in DOMAIN new : "forks" \in DOMAIN new[name]
    PROVE  \/ AddFails
           \/ /\ HeldIn(new', path)
              /\ \A p : HeldIn(new, p) => HeldIn(new', p)
              /\ \A name \in DOMAIN new' : "forks" \in DOMAIN new'[name]
              /\ UNCHANGED <<copy, archive, passed, added>>
<1> DEFINE name == Details(path).name
           kind == Details(path).kind
           forks == Put(kind, files[path].from, new[name].forks)
<1>1. CASE AddFails
  BY <1>1
<1>2. CASE ~AddFails
  <2>1. /\ OkayToAdd(new[name].forks, kind) /\ UNCHANGED <<copy, archive, passed, added>>
        /\ new' = [new EXCEPT ![name].forks = Put(kind, files[path].from, @)]
    BY <1>2 DEF JoinRecord
  <2>2. kind \notin DOMAIN new[name].forks
    BY <2>1 DEF OkayToAdd
  <2>3. /\ DOMAIN forks = DOMAIN new[name].forks \cup {kind}
        /\ forks[kind] = files[path].from
        /\ \A k \in DOMAIN new[name].forks : forks[k] = new[name].forks[k]
    BY <2>2 DEF Put, Overlay
  <2>4. new' = [new EXCEPT ![name].forks = forks]
    BY <2>1
  <2> HIDE DEF forks
  <2>5. /\ DOMAIN new' = DOMAIN new /\ new'[name] = [new[name] EXCEPT !.forks = forks]
        /\ \A x \in DOMAIN new : x # name => new'[x] = new[x]
    BY <2>4
  <2>6. new'[name].forks = forks /\ "forks" \in DOMAIN new'[name]
    BY <2>5
  <2>7. HeldIn(new', path)
    BY <2>3, <2>5, <2>6 DEF HeldIn
  <2>8. ASSUME NEW p, HeldIn(new, p) PROVE HeldIn(new', p)
    <3>1. CASE Details(p).name = name
      BY <2>3, <2>5, <2>6, <2>8, <3>1 DEF HeldIn
    <3>2. CASE Details(p).name # name
      BY <2>5, <2>8, <3>2 DEF HeldIn
    <3> QED BY <3>1, <3>2
  <2> QED BY <2>1, <2>5, <2>6, <2>7, <2>8
<1> QED BY <1>1, <1>2

(* What is in scope is a file, under nothing but directories.              *)
LEMMA ScopeFacts ==
    ASSUME IsTree(files), NEW p, InScope(p)
    PROVE  p \in Path \ {<<>>} /\ p \in DOMAIN files /\ ~IsDir(p) /\ \A d \in Above(p) : IsDir(d)
BY DEF InScope, Exists, IsDir, IsTree, Path

(* The walk begins with all that is at the top.                            *)
LEMMA StartUnder ==
    ASSUME IsTree(files)
    PROVE  Under(<<{p \in DOMAIN files : Parent(p) = <<>>}>>, <<>>, passed, <<>>)
<1>1. PICK tops : tops = {p \in DOMAIN files : Parent(p) = <<>>}
  OBVIOUS
<1>2. PICK w : w = <<tops>>
  OBVIOUS
<1>3. w \in Seq(SUBSET DOMAIN files) /\ 1 \in DOMAIN w /\ w[1] = tops
  BY <1>1, <1>2
<1>4. ASSUME NEW p, InScope(p) PROVE Awaits(w, p)
  <2>1. p \in Path /\ p \in DOMAIN files /\ \A d \in Above(p) : IsDir(d)
    BY <1>4, ScopeFacts
  <2>2. CASE ~Then.recurse
    <3>1. p \in tops
      BY <1>1, <1>4, <2>1, <2>2 DEF InScope
    <3> QED BY <1>3, <3>1 DEF Awaits
  <2>3. CASE Then.recurse
    <3>1. PICK c \in {p} \cup Above(p) : Parent(c) = <<>>
      BY <2>1, SomeAtTop
    <3>2. c \in tops
      BY <1>1, <2>1, <3>1 DEF IsDir
    <3> QED BY <1>3, <2>3, <3>1, <3>2 DEF Awaits
  <2> QED BY <2>2, <2>3
<1> QED BY <1>1, <1>2, <1>3, <1>4 DEF Under

(* A directory is left when nothing in it is left.                         *)
LEMMA EndUnder ==
    ASSUME Under(walk, <<>>, passed, new), walk # <<>>, walk[1] = {}
    PROVE  Under(Tail(walk), <<>>, passed, new)
<1>1. PICK T : T = SUBSET DOMAIN files
  OBVIOUS
<1>2. walk \in Seq(T)
  BY <1>1 DEF Under
<1>3. PICK v : v = Tail(walk)
  OBVIOUS
<1>4. v \in Seq(T) /\ Len(v) = Len(walk) - 1 /\ \A i \in 1 .. Len(v) : v[i] = walk[i+1]
  BY <1>2, <1>3, HeadTailProperties
<1>5. ASSUME NEW p, Awaits(walk, p) PROVE Awaits(v, p)
  <2>1. PICK i \in DOMAIN walk : \E q \in walk[i] : q = p \/ (Then.recurse /\ q \in Above(p))
    BY <1>5 DEF Awaits
  <2>2. i # 1 /\ Len(walk) \in Nat /\ i \in 1 .. Len(walk)
    BY <1>2, <2>1
  <2>3. i - 1 \in DOMAIN v /\ i - 1 \in 1 .. Len(v) /\ (i - 1) + 1 = i
    BY <1>4, <2>2
  <2>4. v[i - 1] = walk[i]
    BY <1>4, <2>3
  <2> QED BY <2>1, <2>3, <2>4 DEF Awaits
<1>6. v \in Seq(SUBSET DOMAIN files)
  BY <1>1, <1>4
<1>7. Under(v, <<>>, passed, new)
  BY <1>5, <1>6 DEF Under
<1> QED BY <1>3, <1>7

(* A directory is gone into, or passed over.                               *)
LEMMA DescendUnder ==
    ASSUME IsTree(files), Under(walk, <<>>, passed, new), walk # <<>>, NEW path \in walk[1],
           IsDir(path)
    PROVE  LET pre == IF Then.recurse THEN <<{p \in DOMAIN files : Parent(p) = path}>> ELSE <<>>
           IN  Under(pre \o <<walk[1] \ {path}>> \o Tail(walk), <<>>, passed, new)
<1>1. PICK below : below = {p \in DOMAIN files : Parent(p) = path}
  OBVIOUS
<1>2. PICK pre : pre = IF Then.recurse THEN <<below>> ELSE <<>>
  OBVIOUS
<1>3. pre \in Seq(SUBSET DOMAIN files) /\ walk \in Seq(SUBSET DOMAIN files)
  <2>1. below \in SUBSET DOMAIN files
    BY <1>1
  <2>2. <<below>> \in Seq(SUBSET DOMAIN files) /\ <<>> \in Seq(SUBSET DOMAIN files)
    BY <2>1
  <2>3. pre \in Seq(SUBSET DOMAIN files)
    BY <1>2, <2>2
  <2> QED BY <2>3 DEF Under
<1>4. PICK v : v = pre \o <<walk[1] \ {path}>> \o Tail(walk)
  OBVIOUS
<1>5. /\ v \in Seq(SUBSET DOMAIN files)
      /\ \A p : Awaits(walk, p) =>
            Awaits(v, p) \/ path = p \/ (Then.recurse /\ path \in Above(p))
      /\ \A p : Awaits(pre, p) => Awaits(v, p)
  BY <1>3, <1>4, AwaitsTurn
<1>6. ASSUME NEW p, InScope(p), Awaits(walk, p) PROVE Awaits(v, p)
  <2>1. p \in Path /\ p \in DOMAIN files /\ ~IsDir(p) /\ \A d \in Above(p) : IsDir(d)
    BY <1>6, ScopeFacts
  <2>2. CASE Then.recurse /\ path \in Above(p)
    <3>1. PICK c \in {p} \cup Above(p) : Parent(c) = path
      BY <2>1, <2>2, NextBelow
    <3>2. c \in below
      BY <1>1, <2>1, <3>1 DEF IsDir
    <3>3. 1 \in DOMAIN pre /\ pre[1] = below
      BY <1>2, <2>2
    <3>4. Awaits(pre, p)
      BY <2>2, <3>1, <3>2, <3>3 DEF Awaits
    <3> QED BY <1>5, <3>4
  <2> QED BY <1>5, <1>6, <2>1, <2>2
<1>7. Under(v, <<>>, passed, new)
  BY <1>5, <1>6 DEF Under
<1> QED BY <1>1, <1>2, <1>4, <1>7

(* A file is dealt with or asked about.                                    *)
LEMMA FileUnder ==
    ASSUME IsTree(files), Under(walk, <<>>, passed, new), walk # <<>>, NEW path \in walk[1],
           ~IsDir(path), NEW o, NEW ps, NEW records,
           o = path \/ (o = <<>> /\ (PassedIn(ps, path) \/ HeldIn(records, path))),
           o = path => Details(path).name \notin DOMAIN records,
           passed \subseteq ps,
           \A p : HeldIn(new, p) => HeldIn(records, p),
           \A name \in DOMAIN records : "forks" \in DOMAIN records[name]
    PROVE  Under(<<walk[1] \ {path}>> \o Tail(walk), o, ps, records)
<1>1. walk \in Seq(SUBSET DOMAIN files)
  BY DEF Under
<1>2. PICK v : v = <<walk[1] \ {path}>> \o Tail(walk)
  OBVIOUS
<1>3. /\ v \in Seq(SUBSET DOMAIN files)
      /\ \A p : Awaits(walk, p) =>
            Awaits(v, p) \/ path = p \/ (Then.recurse /\ path \in Above(p))
  BY <1>1, <1>2, AwaitsNext
<1>4. path \in DOMAIN files /\ Exists(path)
  <2>1. walk[1] \in SUBSET DOMAIN files
    BY <1>1
  <2> QED BY <2>1 DEF Exists, IsDir
<1>5. ASSUME NEW p, InScope(p)
      PROVE  Awaits(v, p) \/ p = o \/ PassedIn(ps, p) \/ HeldIn(records, p)
  <2>1. p # <<>> /\ \A d \in Above(p) : IsDir(d)
    BY <1>5, ScopeFacts
  <2>2. Awaits(walk, p) \/ PassedIn(passed, p) \/ HeldIn(new, p)
    BY <1>5, <2>1 DEF Under
  <2>3. PassedIn(passed, p) => PassedIn(ps, p)
    BY DEF PassedIn
  <2>4. CASE Awaits(walk, p)
    <3>1. Awaits(v, p) \/ path = p
      BY <1>3, <2>1, <2>4
    <3> QED BY <3>1
  <2> QED BY <2>2, <2>3, <2>4
<1>6. o # <<>> => Exists(o) /\ Details(o).name \notin DOMAIN records
  BY <1>4
<1>7. Under(v, o, ps, records)
  BY <1>3, <1>5, <1>6 DEF Under
<1> QED BY <1>2, <1>7

(* What was asked about is dealt with.                                     *)
LEMMA AnswerUnder ==
    ASSUME Under(walk, out, passed, new), NEW ps, NEW records,
           PassedIn(ps, out) \/ HeldIn(records, out), passed \subseteq ps,
           \A p : HeldIn(new, p) => HeldIn(records, p),
           \A name \in DOMAIN records : "forks" \in DOMAIN records[name]
    PROVE  Under(walk, <<>>, ps, records)
<1>1. \A p : PassedIn(passed, p) => PassedIn(ps, p)
  BY DEF PassedIn
<1> QED BY <1>1 DEF Under

(* The second command                                                      *)
LEMMA WritingAdding ==
    ASSUME InPlace, Tree, Adding, Writing
    PROVE  Adding'
<1>1. UNCHANGED <<session, files>> /\ IsTree(files)
  BY WritingReads DEF readVars, Tree
<1>2. Then' = Then
  BY <1>1 DEF Then
<1>3. ASSUME added' = "busy", archive' = archive, added \in {"no", "busy"},
             Under(walk', out', passed', new')
      PROVE  Adding'
  <2>1. Under(walk, out, passed, new)'
    BY <1>1, <1>3, SameFiles
  <2> QED BY <1>1, <1>3, <2>1 DEF Adding
<1>4. ASSUME added' = "failed", archive' = archive, added \in {"no", "busy"}
      PROVE  Adding'
  BY <1>1, <1>4 DEF Adding
<1>5. ASSUME added = "busy" PROVE Under(walk, out, passed, new)
  BY <1>5 DEF Adding
<1>6. ASSUME added = "busy", out = <<>> PROVE Under(walk, <<>>, passed, new)
  BY <1>5, <1>6
<1>7. CASE StartAdd
  <2>1. /\ added = "no" /\ added' = "busy" /\ new' = <<>> /\ out' = <<>>
        /\ walk' = <<{p \in DOMAIN files : Parent(p) = <<>>}>> /\ UNCHANGED <<archive, passed>>
    BY <1>7 DEF StartAdd
  <2>2. Under(walk', out', passed', new')
    BY <1>1, <2>1, StartUnder
  <2> QED BY <1>3, <2>1, <2>2
<1>8. CASE EndDirectory
  <2>1. /\ added = "busy" /\ walk # <<>> /\ out = <<>> /\ walk[1] = {}
        /\ walk' = Tail(walk) /\ UNCHANGED <<out, new, archive, passed, added>>
    BY <1>8 DEF EndDirectory
  <2>2. Under(walk', out', passed', new')
    BY <1>6, <2>1, EndUnder
  <2> QED BY <1>3, <2>1, <2>2
<1>9. CASE Descend
  <2>1. /\ added = "busy" /\ walk # <<>> /\ out = <<>>
        /\ UNCHANGED <<out, new, archive, passed, added>>
    BY <1>9 DEF Descend
  <2>2. PICK path \in walk[1] :
           /\ IsDir(path)
           /\ walk' = (IF Then.recurse THEN <<{p \in DOMAIN files : Parent(p) = path}>> ELSE <<>>)
                      \o <<walk[1] \ {path}>> \o Tail(walk)
    BY <1>9 DEF Descend
  <2>3. Under(walk', <<>>, passed, new)
    BY <1>1, <1>6, <2>1, <2>2, DescendUnder
  <2> QED BY <1>3, <2>1, <2>3
<1>10. CASE AddFile
  <2>1. /\ added = "busy" /\ walk # <<>> /\ out = <<>>
    BY <1>10 DEF AddFile
  <2>2. Under(walk, <<>>, passed, new) /\ \A name \in DOMAIN new : "forks" \in DOMAIN new[name]
    BY <1>6, <2>1 DEF Under
  <2>3. PICK path \in walk[1] :
         LET details == Details(path)
         IN
         /\ ~IsDir(path)
         /\ IF details.name \in DOMAIN new
              THEN JoinRecord(path, details) /\ UNCHANGED out
            ELSE IF details.name \notin DOMAIN copy
              THEN /\ IF handle = "must" THEN PassFile(path, "notfound")
                      ELSE NewRecord(path, details)
                   /\ UNCHANGED out
            ELSE IF NotNewer(path, details.name) THEN PassFile(path, "notnewer") /\ UNCHANGED out
            ELSE IF handle = "never" THEN PassFile(path, "told") /\ UNCHANGED out
            ELSE IF handle = "maybe" /\ ~Then.update
              THEN out' = path /\ UNCHANGED <<copy, new, archive, passed, added>>
            ELSE NewRecord(path, details) /\ UNCHANGED out
         /\ IF added' = "failed" THEN walk' = <<>> ELSE Walk(path)
    BY <1>10 DEF AddFile, Details
  <2>4. ASSUME added' = "busy", archive' = archive, passed \subseteq passed',
               \/ out' = path /\ Details(path).name \notin DOMAIN new'
               \/ out' = <<>> /\ out' # path /\ (PassedIn(passed', path) \/ HeldIn(new', path)),
               \A p : HeldIn(new, p) => HeldIn(new', p),
               \A name \in DOMAIN new' : "forks" \in DOMAIN new'[name]
        PROVE  Adding'
    <3>1. walk' = <<walk[1] \ {path}>> \o Tail(walk)
      BY <2>3, <2>4 DEF Walk
    <3>2. Under(walk', out', passed', new')
      BY <1>1, <2>1, <2>2, <2>3, <2>4, <3>1, FileUnder
    <3> QED BY <1>3, <2>1, <2>4, <3>2
  <2>5. path # <<>>
    <3>1. walk \in Seq(SUBSET DOMAIN files)
      BY <2>2 DEF Under
    <3>2. walk[1] \in SUBSET DOMAIN files
      BY <2>1, <3>1
    <3> QED BY <1>1, <3>2 DEF IsTree
  <2>6. ASSUME JoinRecord(path, Details(path)), Details(path).name \in DOMAIN new, out' = out
        PROVE  Adding'
    <3>1. CASE AddFails
      BY <1>4, <2>1, <3>1 DEF AddFails
    <3>2. CASE ~AddFails
      BY <2>1, <2>2, <2>4, <2>5, <2>6, <3>2, JoinRecordHolds
    <3> QED BY <3>1, <3>2
  <2>7. ASSUME NEW reason \in {"notnewer", "notfound", "told"}, PassFile(path, reason), out' = out
        PROVE  Adding'
    <3>1. /\ UNCHANGED <<new, archive, added>> /\ passed \subseteq passed'
          /\ <<path, reason>> \in passed'
      BY <2>7 DEF PassFile
    <3>2. PassedIn(passed', path)
      BY <3>1 DEF PassedIn
    <3> QED BY <2>1, <2>2, <2>4, <2>5, <2>7, <3>1, <3>2
  <2>8. ASSUME NewRecord(path, Details(path)), Details(path).name \notin DOMAIN new, out' = out
        PROVE  Adding'
    <3>1. UNCHANGED <<archive, passed, added>>
      BY <2>8 DEF NewRecord
    <3> QED BY <2>1, <2>2, <2>4, <2>5, <2>8, <3>1, NewRecordHolds
  <2>9. ASSUME Details(path).name \notin DOMAIN new, out' = path,
               UNCHANGED <<copy, new, archive, passed, added>>
        PROVE  Adding'
    BY <2>1, <2>2, <2>4, <2>9
  <2> QED BY <2>3, <2>6, <2>7, <2>8, <2>9
<1>11. CASE AnswerAdd
  <2>1. added = "busy" /\ out # <<>> /\ out' = <<>>
    BY <1>11 DEF AnswerAdd
  <2>2. /\ Under(walk, out, passed, new) /\ Details(out).name \notin DOMAIN new
        /\ \A name \in DOMAIN new : "forks" \in DOMAIN new[name]
    BY <1>5, <2>1 DEF Under
  <2>3. \/ NewRecord(out, Details(out)) /\ walk' = walk
        \/ PassFile(out, "told") /\ walk' = walk
        \/ AddFails
    BY <1>11 DEF AnswerAdd, Details
  <2>4. CASE NewRecord(out, Details(out)) /\ walk' = walk
    <3>1. UNCHANGED <<archive, passed, added>>
      BY <2>4 DEF NewRecord
    <3>2. /\ HeldIn(new', out) /\ \A p : HeldIn(new, p) => HeldIn(new', p)
          /\ \A name \in DOMAIN new' : "forks" \in DOMAIN new'[name]
      BY <2>2, <2>4, NewRecordHolds
    <3>3. Under(walk, <<>>, passed', new')
      BY <2>2, <3>1, <3>2, AnswerUnder
    <3> QED BY <1>3, <2>1, <2>4, <3>1, <3>3
  <2>5. CASE PassFile(out, "told") /\ walk' = walk
    <3>1. /\ UNCHANGED <<new, archive, added>> /\ passed \subseteq passed'
          /\ <<out, "told">> \in passed'
      BY <2>5 DEF PassFile
    <3>2. PassedIn(passed', out)
      BY <3>1 DEF PassedIn
    <3>3. Under(walk, <<>>, passed', new')
      BY <2>2, <3>1, <3>2, AnswerUnder
    <3> QED BY <1>3, <2>1, <2>5, <3>1, <3>3
  <2>6. CASE AddFails
    BY <1>4, <2>1, <2>6 DEF AddFails
  <2> QED BY <2>3, <2>4, <2>5, <2>6
<1>12. CASE Flush
  <2>1. added = "busy" /\ walk = <<>> /\ out = <<>> /\ passed' = passed
    BY <1>12 DEF Flush
  <2>2. CASE archive' = Overlay(new, copy) /\ added' \in {"ok", "written"}
    <3>1. \A name \in DOMAIN new : name \in DOMAIN archive' /\ archive'[name] = new[name]
      BY <2>2 DEF Overlay
    <3>2. \A p : HeldIn(new, p) => HeldIn(archive', p)
      BY <3>1 DEF HeldIn
    <3>3. ASSUME NEW p, InScope(p) PROVE PassedIn(passed', p) \/ HeldIn(archive', p)
      <4>1. ~Awaits(walk, p)
        BY <2>1 DEF Awaits
      <4>2. p # <<>>
        BY <1>1, <3>3, ScopeFacts
      <4> QED BY <1>6, <2>1, <3>2, <3>3, <4>1, <4>2 DEF Under
    <3>4. \A p : InScope(p)' => PassedIn(passed', p) \/ HeldIn(archive, p)'
      <4>1. \A r, p : HeldIn(r, p)' = HeldIn(r, p)
        BY <1>1, SameFiles
      <4>2. \A p : InScope(p)' = InScope(p)
        BY <1>1, SameFiles
      <4>3. \A p : HeldIn(archive, p)' = HeldIn(archive', p)
        BY <1>1, <1>2 DEF HeldIn, Details
      <4> QED BY <3>3, <4>2, <4>3
    <3>5. \A p : PassedIn(passed, p)' = PassedIn(passed', p)
      BY DEF PassedIn
    <3> QED BY <2>2, <3>4, <3>5 DEF Adding
  <2>3. CASE UNCHANGED archive /\ added' = "failed"
    BY <1>4, <2>1, <2>3
  <2> QED BY <1>12, <2>2, <2>3 DEF Flush
<1>13. CASE DoDelete
  BY <1>2, <1>13 DEF DoDelete, Adding
<1> QED BY <1>7, <1>8, <1>9, <1>10, <1>11, <1>12, <1>13 DEF Writing

LEMMA NextAdding == InPlace /\ Tree /\ Adding /\ [Next]_vars => Adding'
<1> SUFFICES ASSUME InPlace, Tree, Adding, [Next]_vars PROVE Adding'
  OBVIOUS
<1>1. CASE (BNYNext /\ UNCHANGED nufxVars) \/ ArchiveStep
  <2>1. UNCHANGED <<session, archive, added>>
    BY <1>1, LibraryFacts
    DEF ArchiveStep, NuFXBegin, NextRecord, EndRecords, NextFork, EndForks, OutputPathnameFilter,
        Check, Replace, Keep, Quit, Rename, nufxVars, addVars, call
  <2>2. at # "over"
    BY <1>1
    DEF BNYNext, BNYBegin, ReadHeader, ReadFirst, NextEntry, PassOver, ListEntry,
        BNYExtractDirectory, OpenOutput, Extracts, ExtractNothing, StartCopy, CopyBlock,
        StartUnSqueeze, Refill, DecodeSymbol, EndUnSqueeze,
        ArchiveStep, NuFXBegin, NextRecord, EndRecords, NextFork, EndForks, OutputPathnameFilter,
        Check, Replace, Keep, Quit, Rename
  <2>3. added = "no"
    BY <2>2 DEF InPlace
  <2> QED BY <2>1, <2>3 DEF Adding
<1>2. CASE Writing
  BY <1>2, WritingAdding
<1>3. CASE UNCHANGED vars
  <2>1. UNCHANGED <<session, files, archive, added, walk, out, passed, new>>
    BY <1>3 DEF vars, bnyVars, nufxVars, addVars
  <2>2. Then' = Then /\ session' = session
    BY <2>1 DEF Then
  <2>3. Under(walk, out, passed, new)' = Under(walk, out, passed, new)
    BY <2>1, SameFiles
  <2>4. \A p : /\ InScope(p)' = InScope(p) /\ PassedIn(passed, p)' = PassedIn(passed, p)
               /\ HeldIn(archive, p)' = HeldIn(archive, p)
    BY <2>1, SameFiles DEF PassedIn
  <2> QED BY <2>1, <2>2, <2>3, <2>4 DEF Adding
<1> QED BY <1>1, <1>2, <1>3, NextParts

(* An add that succeeds has put every file in the archive or passed it     *)
(* over as it was told to; one that fails leaves the archive as it was.    *)
THEOREM AddedAll == Spec => []AddAllOrNothing
<1>1. Adding => AddAllOrNothing
  BY DEF Adding, AddAllOrNothing, InScope, PassedIn, HeldIn, Details
<1> QED BY <1>1, InitAdding, NextAdding, AlwaysInPlace, AlwaysTree, PTL DEF Spec

-----------------------------------------------------------------------------
(* Every item once and in order *)

Kinds == {"data", "rsrc", "disk", "comment"}
Items == Nat \X Kinds
Deals == Items \X {"given", "skipped"}

(* What is asked for of entry or record i, and of all of them              *)
Share(i) ==
    IF IsLibrary
    THEN IF NameIsSpecified(Library.entries[i].name) THEN <<<<i, "data">>>> ELSE <<>>
    ELSE IF NameIsSpecified(session.source.records[i].name)
         THEN [k \in DOMAIN Forks(session.source.records[i]) |->
                  <<i, Forks(session.source.records[i])[k]>>]
         ELSE <<>>
Total == IF IsLibrary THEN Chain ELSE Len(session.source.records)
Shares == [i \in 1 .. Total |-> Share(i)]
ShareEnds == CHOOSE off : Placed(Shares, off)

(* At every place so much has been dealt with: all of the entries before,  *)
(* or all of the records before and the forks before the one in hand.      *)
Dealt ==
    /\ done \in Seq(Deals)
    /\ at = "idle" => done = <<>> /\ n = 0
    /\ at \notin {"idle", "over"} =>
          /\ job = FlattenSeq(Shares) /\ n \in 0 .. Total
          /\ at \notin {"header", "record"} => n \in 1 .. Total
    /\ at \in {"header", "record", "pass"} => Len(done) = ShareEnds[n]
    /\ at = "header" => n < Total \/ n = Len(Library.entries)
    /\ at \in {"first", "entry", "data", "copy", "unsqueeze"} => Len(done) = ShareEnds[n-1]
    /\ at \in {"data", "copy", "unsqueeze"} => NameIsSpecified(Entry.name)
    /\ at \in {"fork", "path", "check", "ask"} =>
          /\ NameIsSpecified(Record.name)
          /\ fork \in 0 .. Len(Forks(Record))
          /\ at = "fork" => Len(done) = ShareEnds[n-1] + fork
          /\ at # "fork" => fork > 0 /\ Len(done) = ShareEnds[n-1] + (fork - 1)

(* What a step is to the reader: one of its own, or none                   *)
ReaderStep == [Reader!Next]_(Reader!vars)

LEMMA InitDealt == Init => Dealt /\ Reader!Init
<1> SUFFICES ASSUME Init PROVE Dealt /\ Reader!Init
  OBVIOUS
<1>1. at = "idle" /\ status = "idle" /\ job = <<>> /\ done = <<>> /\ n = 0
  BY DEF Init, BNYInit
<1>2. done \in Seq(Deals)
  <2> HIDE DEF Deals
  <2>1. <<>> \in Seq(Deals)
    OBVIOUS
  <2> QED BY <1>1, <2>1
<1>3. Dealt
  BY <1>1, <1>2 DEF Dealt
<1> QED BY <1>1, <1>3 DEF Reader!Init

LEMMA SameShares ==
    ASSUME session' = session
    PROVE  /\ IsLibrary' = IsLibrary /\ Library' = Library
           /\ Total' = Total /\ Shares' = Shares /\ ShareEnds' = ShareEnds
           /\ \A name : NameIsSpecified(name)' = NameIsSpecified(name)
<1>1. IsLibrary' = IsLibrary /\ Library' = Library /\ Opt' = Opt
  BY DEF IsLibrary, Library, Opt
<1>2. \A name : NameIsSpecified(name)' = NameIsSpecified(name)
  BY <1>1 DEF NameIsSpecified
<1>3. Chain' = Chain
  BY <1>1 DEF Chain
<1>4. Total' = Total
  BY <1>1, <1>3 DEF Total
<1>5. \A r : Forks(r)' = Forks(r)
  BY <1>1 DEF Forks
<1>6. \A i : Share(i)' = Share(i)
  BY <1>1, <1>2, <1>5 DEF Share
<1>7. Shares' = Shares
  BY <1>4, <1>6 DEF Shares
<1> QED BY <1>1, <1>2, <1>4, <1>7 DEF ShareEnds

(* ... and whether the entry or the record in hand was asked for.           *)
LEMMA SameNamed ==
    ASSUME session' = session, n' = n
    PROVE  /\ NameIsSpecified(Entry.name)' <=> NameIsSpecified(Entry.name)
           /\ NameIsSpecified(Record.name)' <=> NameIsSpecified(Record.name)
<1>1. Opt' = Opt /\ Entry' = Entry /\ Record' = Record
  BY DEF Opt, Entry, Library, Record
<1> QED BY <1>1 DEF NameIsSpecified

(* The headers lead to every entry up to one that says it is the last.     *)
LEMMA ChainFacts ==
    ASSUME Library.entries \in Seq(LibraryEntry)
    PROVE  /\ Len(Library.entries) \in Nat
           /\ Chain \in 0 .. Len(Library.entries)
           /\ Chain = 0 => Len(Library.entries) = 0
           /\ \A i \in 1 .. Chain : Library.entries[i].follow = 0 => i = Chain
           /\ \A i \in 1 .. Chain :
                 Library.entries[i].follow # 0 => i < Chain \/ i = Len(Library.entries)
<1> DEFINE m == Len(Library.entries)
           ends == {i \in DOMAIN Library.entries : Library.entries[i].follow = 0}
<1>1. m \in Nat /\ DOMAIN Library.entries = 1 .. m
  OBVIOUS
<1>2. CASE ends = {}
  <2>1. Chain = m
    BY <1>2 DEF Chain
  <2>2. \A i \in 1 .. m : Library.entries[i].follow # 0
    BY <1>1, <1>2
  <2> QED BY <1>1, <2>1, <2>2
<1>3. CASE ends # {}
  <2>1. ends \subseteq Nat
    BY <1>1
  <2>2. \E x \in ends : \A y \in ends : x <= y
    <3> HIDE DEF ends
    <3> QED BY <1>3, <2>1, LeastNat
  <2>3. Chain = Min(ends)
    BY <1>3 DEF Chain
  <2>4. Chain \in ends /\ \A y \in ends : Chain <= y
    <3> HIDE DEF ends
    <3> QED BY <2>2, <2>3 DEF Min
  <2>5. Chain \in 1 .. m /\ Library.entries[Chain].follow = 0
    BY <1>1, <2>4
  <2>6. \A i \in 1 .. Chain : i \in 1 .. m
    BY <1>1, <2>5
  <2>7. \A i \in 1 .. Chain : Library.entries[i].follow = 0 => i \in ends
    BY <1>1, <2>6
  <2> HIDE DEF ends, m
  <2> QED BY <1>1, <2>4, <2>5, <2>7 DEF m
<1> QED BY <1>2, <1>3

LEMMA ForksFacts ==
    ASSUME NEW r \in ArchiveRecord
    PROVE  Forks(r) \in Seq(Kinds) /\ Len(Forks(r)) \in Nat /\ DOMAIN Forks(r) = 1 .. Len(Forks(r))
<1> DEFINE a == IF Opt.comments /\ r.comment THEN <<"comment">> ELSE <<>>
           b == r.kinds
<1>1. a \in Seq(Kinds)
  <2>1. "comment" \in Kinds
    BY DEF Kinds
  <2>2. <<"comment">> \in Seq(Kinds) /\ <<>> \in Seq(Kinds)
    BY <2>1
  <2> QED BY <2>2
<1>2. b \in Seq(Kinds)
  <2>1. b \in Seq({"data", "rsrc", "disk"})
    BY DEF ArchiveRecord
  <2>2. {"data", "rsrc", "disk"} \subseteq Kinds
    BY DEF Kinds
  <2> HIDE DEF b
  <2> QED BY <2>1, <2>2
<1>3. Forks(r) = a \o b
  BY DEF Forks
<1> HIDE DEF a, b
<1>4. Forks(r) \in Seq(Kinds)
  BY <1>1, <1>2, <1>3, ConcatParts
<1> HIDE DEF Forks
<1> QED BY <1>4

(* What is asked for, one entry or record after the other                  *)
LEMMA ShareFacts ==
    ASSUME session \in Sessions
    PROVE  /\ Total \in Nat
           /\ FlattenSeq(Shares) \in Seq(Items) /\ Len(FlattenSeq(Shares)) \in Nat
           /\ ShareEnds[0] = 0 /\ ShareEnds[Total] = Len(FlattenSeq(Shares))
           /\ \A i \in 0 .. Total : ShareEnds[i] \in Nat
           /\ \A i \in 1 .. Total :
                 /\ Share(i) \in Seq(Items) /\ Len(Share(i)) \in Nat
                 /\ ShareEnds[i] = ShareEnds[i-1] + Len(Share(i))
                 /\ ShareEnds[i] <= Len(FlattenSeq(Shares))
                 /\ \A j \in 1 .. Len(Share(i)) :
                       FlattenSeq(Shares)[ShareEnds[i-1] + j] = Share(i)[j]
<1> DEFINE c == Total
           R == Seq(Items)
           P == Shares
           off == ShareEnds
<1>1. c \in Nat
  <2>1. CASE IsLibrary
    <3>1. Library.entries \in Seq(LibraryEntry)
      BY <2>1, LibraryTypes
    <3> QED BY <2>1, <3>1, ChainFacts DEF Total
  <2>2. CASE ~IsLibrary
    <3>1. session.source.records \in Seq(ArchiveRecord)
      BY <2>2, LibraryTypes
    <3>2. Len(session.source.records) \in Nat
      BY <3>1
    <3> QED BY <2>2, <3>2 DEF Total
  <2> QED BY <2>1, <2>2
<1>2. ASSUME NEW i \in 1 .. c PROVE Share(i) \in R
  <2>1. i \in Nat
    BY <1>1
  <2>2. CASE IsLibrary
    <3>1. <<i, "data">> \in Items
      BY <2>1 DEF Items, Kinds
    <3>2. Share(i) = <<<<i, "data">>>> \/ Share(i) = <<>>
      BY <2>2 DEF Share
    <3>3. \A x \in Items : <<x>> \in Seq(Items)
      OBVIOUS
    <3>4. <<>> \in Seq(Items)
      OBVIOUS
    <3> QED BY <3>1, <3>2, <3>3, <3>4
  <2>3. CASE ~IsLibrary
    <3> DEFINE r == session.source.records[i]
    <3>1. r \in ArchiveRecord
      <4>1. session.source.records \in Seq(ArchiveRecord)
        BY <2>3, LibraryTypes
      <4> DEFINE s == session.source.records
      <4>2. s \in Seq(ArchiveRecord) /\ i \in 1 .. Len(s)
        BY <2>3, <4>1 DEF Total
      <4> HIDE DEF s
      <4>3. s[i] \in ArchiveRecord
        BY <4>2
      <4> QED BY <4>3 DEF s
    <3> DEFINE f == Forks(r)
    <3>2. Share(i) = [k \in DOMAIN f |-> <<i, f[k]>>] \/ Share(i) = <<>>
      BY <2>3 DEF Share
    <3>3. f \in Seq(Kinds) /\ Len(f) \in Nat /\ DOMAIN f = 1 .. Len(f)
      <4> HIDE DEF r
      <4> QED BY <3>1, ForksFacts
    <3> HIDE DEF f, r
    <3>4. [k \in DOMAIN f |-> <<i, f[k]>>] \in Seq(Items)
      <4>1. \A k \in 1 .. Len(f) : <<i, f[k]>> \in Items
        BY <2>1, <3>3 DEF Items
      <4> QED BY <3>3, <4>1
    <3>5. <<>> \in Seq(Items)
      OBVIOUS
    <3> QED BY <3>2, <3>4, <3>5
  <2> QED BY <2>2, <2>3
<1>3. P = [i \in 1 .. c |-> Share(i)]
  BY DEF Shares
<1> HIDE DEF c, R, P, off
<1>5. P \in Seq(R) /\ Len(P) = c
  <2>1. P \in [1 .. c -> R]
    BY <1>2, <1>3
  <2> QED BY <1>1, <2>1
<1>6. P \in Seq(Seq(Items))
  BY <1>5 DEF R
<1>7. FlattenSeq(P) \in Seq(Items) /\ Placed(P, off)
  <2>1. FlattenSeq(P) \in Seq(Items) /\ \E o : Placed(P, o)
    <3> HIDE DEF Items
    <3> QED BY <1>6, FlattenPlaces
  <2> QED BY <2>1 DEF off, ShareEnds, P
<1>8. /\ off \in [0 .. c -> Nat] /\ off[0] = 0 /\ Len(FlattenSeq(P)) = off[c]
      /\ \A i \in 1 .. c : off[i] = off[i-1] + Len(P[i])
      /\ \A i \in 1 .. c : \A j \in 1 .. Len(P[i]) : FlattenSeq(P)[off[i-1] + j] = P[i][j]
  BY <1>5, <1>7 DEF Placed, Offsets
<1>9. \A i \in 1 .. c : off[i] <= off[c]
  <2>1. \A i \in 1 .. c : i \in 0 .. c /\ c \in 0 .. c /\ i <= c
    BY <1>1
  <2>2. Offsets(P, off)
    BY <1>7 DEF Placed
  <2> QED BY <1>5, <1>6, <2>1, <2>2, OffsetsGrow
<1>10. \A i \in 1 .. c : P[i] = Share(i)
  BY <1>3
<1>11. \A i \in 1 .. c : Len(Share(i)) \in Nat
  BY <1>2 DEF R
<1>12. Len(FlattenSeq(P)) \in Nat
  BY <1>1, <1>8
<1>13. \A i \in 0 .. c : off[i] \in Nat
  BY <1>8
<1>14. \A i \in 1 .. c :
          /\ Share(i) \in R /\ Len(Share(i)) \in Nat
          /\ off[i] = off[i-1] + Len(Share(i))
          /\ off[i] <= Len(FlattenSeq(P))
          /\ \A j \in 1 .. Len(Share(i)) : FlattenSeq(P)[off[i-1] + j] = Share(i)[j]
  <2> SUFFICES ASSUME NEW i \in 1 .. c
               PROVE  /\ Share(i) \in R /\ Len(Share(i)) \in Nat
                      /\ off[i] = off[i-1] + Len(Share(i))
                      /\ off[i] <= Len(FlattenSeq(P))
                      /\ \A j \in 1 .. Len(Share(i)) :
                            FlattenSeq(P)[off[i-1] + j] = Share(i)[j]
    OBVIOUS
  <2>1. P[i] = Share(i)
    BY <1>10
  <2>2. Share(i) \in R /\ Len(Share(i)) \in Nat
    BY <1>2, <1>11
  <2>3. off[i] = off[i-1] + Len(Share(i))
    BY <1>8, <2>1
  <2>4. off[i] <= Len(FlattenSeq(P))
    BY <1>8, <1>9
  <2>5. \A j \in 1 .. Len(Share(i)) : FlattenSeq(P)[off[i-1] + j] = Share(i)[j]
    BY <1>8, <2>1
  <2> QED BY <2>2, <2>3, <2>4, <2>5
<1> QED
  BY <1>1, <1>7, <1>8, <1>12, <1>13, <1>14 DEF c, R, P, off

(* Dealing with the next item of the share in hand is the reader's Handle. *)
LEMMA HandsOut ==
    ASSUME session \in Sessions, job = FlattenSeq(Shares), done \in Seq(Deals),
           NEW i \in 1 .. Total, NEW j \in 1 .. Len(Share(i)),
           Len(done) = ShareEnds[i-1] + (j - 1),
           NEW fate \in {"given", "skipped"},
           done' = Append(done, <<Share(i)[j], fate>>),
           job' = job, status = "busy", status' = status
    PROVE  /\ ReaderStep
           /\ done' \in Seq(Deals)
           /\ Len(done') = ShareEnds[i-1] + j
<1>1. /\ Share(i) \in Seq(Items) /\ Len(Share(i)) \in Nat
      /\ ShareEnds[i] = ShareEnds[i-1] + Len(Share(i))
      /\ ShareEnds[i] <= Len(job) /\ Len(job) \in Nat
      /\ job[ShareEnds[i-1] + j] = Share(i)[j]
  BY ShareFacts
<1>2. ShareEnds[i-1] \in Nat
  <2>1. i - 1 \in 0 .. Total
    BY ShareFacts
  <2> QED BY <2>1, ShareFacts
<1>3. Len(done) + 1 = ShareEnds[i-1] + j /\ Len(done) < Len(job)
  <2> DEFINE a == ShareEnds[i-1]   b == Len(Share(i))   c == Len(job)   d == Len(done)
             e == ShareEnds[i]
  <2>1. a \in Nat /\ b \in Nat /\ c \in Nat /\ j \in 1 .. b /\ e = a + b /\ e <= c
        /\ d = a + (j - 1)
    BY <1>1, <1>2
  <2> HIDE DEF a, b, c, d, e
  <2>2. d + 1 = a + j /\ d < c
    BY <2>1
  <2> QED BY <2>2 DEF a, c, d
<1>4. Share(i)[j] \in Items
  <2> DEFINE s == Share(i)
  <2>1. s \in Seq(Items) /\ j \in 1 .. Len(s)
    BY <1>1
  <2> HIDE DEF s
  <2>2. s[j] \in Items
    BY <2>1
  <2> QED BY <2>2 DEF s
<1>5. <<Share(i)[j], fate>> \in Deals
  BY <1>4 DEF Deals
<1>6. done' \in Seq(Deals) /\ Len(done') = Len(done) + 1
  <2> DEFINE x == <<Share(i)[j], fate>>
  <2>1. x \in Deals /\ done' = Append(done, x)
    BY <1>5
  <2> HIDE DEF x
  <2>2. \A s \in Seq(Deals) : Append(s, x) \in Seq(Deals) /\ Len(Append(s, x)) = Len(s) + 1
    BY <2>1, AppendProperties
  <2> QED BY <2>1, <2>2
<1>7. done' = Append(done, <<job[Len(done) + 1], fate>>)
  BY <1>1, <1>3
<1>8. Reader!Handle
  BY <1>3, <1>7 DEF Reader!Handle
<1> QED BY <1>3, <1>6, <1>8 DEF ReaderStep, Reader!Next

(* Later entries begin later.                                              *)
LEMMA StartGrows ==
    ASSUME Library.entries \in Seq(LibraryEntry),
           NEW i \in 1 .. Len(Library.entries) + 1, NEW j \in 1 .. Len(Library.entries) + 1, i < j
    PROVE  Start[i] < Start[j]
<1> DEFINE m == Len(Library.entries)
           T == {k \in 0 .. m : \A x \in 1 .. k : Start[x] < Start[k+1]}
<1>1. m \in Nat /\ DOMAIN Library.entries = 1 .. m /\ \A x \in 1 .. m + 1 : Start[x] \in Nat
  BY StartNumbers
<1>2. 0 \in T
  BY <1>1
<1>3. ASSUME NEW k \in 0 .. m - 1, k \in T PROVE k + 1 \in T
  <2>1. k + 1 \in 1 .. m /\ k + 1 \in 0 .. m /\ k + 1 \in 1 .. m + 1 /\ (k + 1) + 1 \in 1 .. m + 1
    BY <1>1
  <2>2. RealEOF(Library.entries[k+1]) \in Nat
    BY <2>1, EntryFacts
  <2>3. Start[(k+1)+1] = Start[k+1] + BlockSize * (1 + Blocks(RealEOF(Library.entries[k+1])))
    BY <1>1, <2>1, StartFacts
  <2>4. BlockSize * (1 + Blocks(RealEOF(Library.entries[k+1]))) \in Nat \ {0}
    <3>1. Blocks(RealEOF(Library.entries[k+1])) \in Nat /\ BlockSize \in Nat \ {0}
      BY <2>2, BlocksFacts, Sizes
    <3>2. \A b \in Nat \ {0}, y \in Nat : b * (1 + y) \in Nat \ {0}
      <4> SUFFICES ASSUME NEW b \in Nat \ {0}, NEW y \in Nat PROVE b * (1 + y) \in Nat \ {0}
        OBVIOUS
      <4>1. b * (1 + y) = b + b * y /\ b * y \in Nat
        OBVIOUS
      <4> QED BY <4>1
    <3> QED BY <3>1, <3>2
  <2>5. Start[k+1] < Start[(k+1)+1]
    <3> DEFINE s == Start[k+1]   t == Start[(k+1)+1]
               z == BlockSize * (1 + Blocks(RealEOF(Library.entries[k+1])))
    <3>1. s \in Nat /\ z \in Nat \ {0} /\ t = s + z
      BY <1>1, <2>1, <2>3, <2>4
    <3> HIDE DEF s, t, z
    <3>2. s < t
      BY <3>1
    <3> QED BY <3>2 DEF s, t
  <2>6. ASSUME NEW x \in 1 .. k + 1 PROVE Start[x] < Start[(k+1)+1]
    <3>1. CASE x = k + 1
      BY <2>5, <3>1
    <3>2. CASE x # k + 1
      <4>1. x \in 1 .. k /\ x \in 1 .. m + 1
        BY <1>1, <3>2
      <4>2. Start[x] < Start[k+1]
        BY <1>3, <4>1
      <4>3. Start[x] \in Nat /\ Start[k+1] \in Nat /\ Start[(k+1)+1] \in Nat
        BY <1>1, <2>1, <4>1
      <4> QED BY <2>5, <4>2, <4>3
    <3> QED BY <3>1, <3>2
  <2> QED BY <2>1, <2>6
<1>4. \A k \in 0 .. m : k \in T
  <2> HIDE DEF T, m
  <2> QED BY <1>1, <1>2, <1>3, UpTo
<1>5. j - 1 \in 0 .. m /\ (j - 1) + 1 = j /\ i \in 1 .. j - 1
  BY <1>1
<1>6. j - 1 \in T
  BY <1>4, <1>5
<1> HIDE DEF m
<1> QED BY <1>5, <1>6

(* The places of a library at which nothing is dealt with                  *)
Quiet ==
    /\ UNCHANGED <<session, job, done, n>>
    /\ at \in {"first", "entry", "data", "copy", "unsqueeze"}
    /\ \/ at' = "over" /\ status' = "failed"
       \/ /\ status' = status
          /\ \/ at = "first" /\ at' = "entry"
             \/ at = "entry" /\ at' = "pass" /\ ~NameIsSpecified(Entry.name)
             \/ at = "entry" /\ at' = "data" /\ NameIsSpecified(Entry.name)
             \/ at \in {"data", "copy"} /\ at' = "copy"
             \/ at \in {"data", "unsqueeze"} /\ at' = "unsqueeze"

(* An entry is dealt with.                                                 *)
DealsEntry ==
    /\ UNCHANGED <<session, job, n>> /\ status' = status
    /\ at \in {"entry", "data", "copy", "unsqueeze"} /\ at' = "pass"
    /\ at = "entry" => NameIsSpecified(Entry.name)
    /\ \E fate \in {"given", "skipped"} : done' = Append(done, <<<<n, "data">>, fate>>)

LEMMA LibrarySteps ==
    ASSUME BNYNext
    PROVE  BNYBegin \/ ReadHeader \/ NextEntry \/ Quiet \/ DealsEntry
<1> USE DEF GoTo, Fail, Over, call, Deal
<1>1. ASSUME ReadFirst PROVE Quiet
  BY <1>1 DEF ReadFirst, Quiet
<1>2. ASSUME PassOver PROVE Quiet
  BY <1>2 DEF PassOver, Quiet
<1>3. ASSUME ListEntry PROVE DealsEntry
  BY <1>3 DEF ListEntry, DealsEntry
<1>4. ASSUME BNYExtractDirectory PROVE Quiet \/ DealsEntry
  BY <1>4 DEF BNYExtractDirectory, Extracts, Quiet, DealsEntry
<1>5. ASSUME OpenOutput PROVE Quiet
  BY <1>5 DEF OpenOutput, Extracts, Quiet
<1>6. ASSUME ExtractNothing PROVE DealsEntry
  BY <1>6 DEF ExtractNothing, Complete, DealsEntry
<1>7. ASSUME StartCopy PROVE Quiet
  BY <1>7 DEF StartCopy, Quiet
<1>8. ASSUME CopyBlock PROVE Quiet \/ DealsEntry
  BY <1>8 DEF CopyBlock, Complete, Quiet, DealsEntry
<1>9. ASSUME StartUnSqueeze PROVE Quiet
  BY <1>9 DEF StartUnSqueeze, Quiet
<1>10. ASSUME Refill PROVE Quiet
  BY <1>10 DEF Refill, Quiet
<1>11. ASSUME DecodeSymbol PROVE Quiet
  BY <1>11 DEF DecodeSymbol, Quiet
<1>12. ASSUME EndUnSqueeze PROVE Quiet \/ DealsEntry
  BY <1>12 DEF EndUnSqueeze, Complete, Quiet, DealsEntry
<1> QED
  BY <1>1, <1>2, <1>3, <1>4, <1>5, <1>6, <1>7, <1>8, <1>9, <1>10, <1>11, <1>12 DEF BNYNext

(* A command that fails has dealt with what it had.                        *)
LEMMA FailsReading ==
    ASSUME Dealt, UNCHANGED <<job, done>>, at' = "over", status = "busy", status' = "failed"
    PROVE  Dealt' /\ ReaderStep
<1>1. Reader!Fail
  BY DEF Reader!Fail
<1> QED BY <1>1 DEF Dealt, ReaderStep, Reader!Next

(* A step the reader does not see                                          *)
LEMMA SameReading ==
    ASSUME UNCHANGED <<job, done, status>>
    PROVE  ReaderStep
BY DEF ReaderStep, Reader!vars

LEMMA QuietReads ==
    ASSUME Told, Dealt, IsLibrary, session \in Sessions, Quiet
    PROVE  Dealt' /\ ReaderStep
<1>1. session' = session /\ job' = job /\ done' = done /\ n' = n
  BY DEF Quiet
<1>2. status = "busy"
  BY DEF Told, Quiet
<1>3. CASE at' = "over"
  <2>1. status' = "failed"
    BY <1>3 DEF Quiet
  <2> QED BY <1>1, <1>2, <1>3, <2>1, FailsReading
<1>4. CASE at' # "over"
  <2>1. status' = status
    BY <1>4 DEF Quiet
  <2>2. /\ Shares' = Shares /\ ShareEnds' = ShareEnds /\ Total' = Total
        /\ \A name : NameIsSpecified(name)' = NameIsSpecified(name)
        /\ Entry' = Entry
    BY <1>1, SameShares, SameEntry
  <2>3. job = FlattenSeq(Shares) /\ n \in 0 .. Total /\ n \in 1 .. Total
    BY DEF Quiet, Dealt
  <2>4. done \in Seq(Deals) /\ Len(done) = ShareEnds[n-1]
    BY DEF Quiet, Dealt
  <2>5. at' \in {"entry", "pass", "data", "copy", "unsqueeze"}
    BY <1>4 DEF Quiet
  <2>6. at' \in {"data", "copy", "unsqueeze"} => NameIsSpecified(Entry.name)'
    <3>1. at \in {"data", "copy", "unsqueeze"} => NameIsSpecified(Entry.name)
      BY DEF Dealt
    <3>2. at' \in {"data", "copy", "unsqueeze"} =>
             at \in {"data", "copy", "unsqueeze"} \/ NameIsSpecified(Entry.name)
      BY <1>4 DEF Quiet
    <3> QED BY <1>1, <3>1, <3>2, SameNamed
  <2>7. at' = "pass" => Len(done) = ShareEnds[n]
    <3> SUFFICES ASSUME at' = "pass" PROVE Len(done) = ShareEnds[n]
      OBVIOUS
    <3>1. ~NameIsSpecified(Entry.name)
      BY <1>4 DEF Quiet
    <3>2. Share(n) = <<>>
      BY <3>1 DEF Share, Entry
    <3>3. ShareEnds[n] = ShareEnds[n-1] + Len(Share(n)) /\ ShareEnds[n-1] \in Nat
      <4>1. n - 1 \in 0 .. Total
        BY <2>3, ShareFacts
      <4> QED BY <2>3, <4>1, ShareFacts
    <3>4. Len(Share(n)) = 0
      BY <3>2
    <3> QED BY <2>4, <3>3, <3>4
  <2>8. FlattenSeq(Shares)' = FlattenSeq(Shares)
    BY <2>2
  <2>9. Dealt'
    <3>1. /\ done' \in Seq(Deals) /\ job' = FlattenSeq(Shares)' /\ n' \in (0 .. Total)'
          /\ n' \in (1 .. Total)'
      BY <1>1, <2>2, <2>3, <2>4, <2>8
    <3>2. at' = "pass" => Len(done') = (ShareEnds[n])'
      BY <1>1, <2>2, <2>7
    <3>3. Len(done') = (ShareEnds[n-1])'
      BY <1>1, <2>2, <2>4
    <3> QED BY <2>5, <2>6, <3>1, <3>2, <3>3 DEF Dealt
  <2> QED BY <1>1, <2>1, <2>9, SameReading
<1> QED BY <1>3, <1>4

LEMMA EntryReads ==
    ASSUME Told, Dealt, IsLibrary, session \in Sessions, DealsEntry
    PROVE  Dealt' /\ ReaderStep
<1>1. /\ session' = session /\ job' = job /\ n' = n /\ status' = status
      /\ at' = "pass" /\ status = "busy"
  BY DEF DealsEntry, Told
<1>2. /\ job = FlattenSeq(Shares) /\ n \in 1 .. Total /\ n \in 0 .. Total
      /\ done \in Seq(Deals) /\ Len(done) = ShareEnds[n-1]
      /\ NameIsSpecified(Entry.name)
  BY DEF DealsEntry, Dealt
<1>3. Share(n) = <<<<n, "data">>>>
  BY <1>2 DEF Share, Entry
<1>4. Len(Share(n)) = 1 /\ Share(n)[1] = <<n, "data">>
  BY <1>3
<1>5. PICK fate \in {"given", "skipped"} : done' = Append(done, <<Share(n)[1], fate>>)
  BY <1>4 DEF DealsEntry
<1>6. ShareEnds[n-1] \in Nat /\ ShareEnds[n] = ShareEnds[n-1] + Len(Share(n))
  <2>1. n - 1 \in 0 .. Total
    BY <1>2, ShareFacts
  <2> QED BY <1>2, <2>1, ShareFacts
<1>7. 1 \in 1 .. Len(Share(n)) /\ Len(done) = ShareEnds[n-1] + (1 - 1)
  BY <1>2, <1>4, <1>6
<1>8. ReaderStep /\ done' \in Seq(Deals) /\ Len(done') = ShareEnds[n-1] + 1
  BY <1>1, <1>2, <1>5, <1>7, HandsOut
<1>9. /\ Shares' = Shares /\ ShareEnds' = ShareEnds /\ Total' = Total
      /\ FlattenSeq(Shares)' = FlattenSeq(Shares)
  BY <1>1, SameShares
<1>10. Len(done') = ShareEnds[n]
  BY <1>4, <1>6, <1>8
<1>11. Dealt'
  BY <1>1, <1>2, <1>8, <1>9, <1>10 DEF Dealt
<1> QED BY <1>8, <1>11

(* The steps between entries                                               *)
LEMMA BetweenReads ==
    ASSUME InPlace, Told, Positions, Dealt, IsLibrary, BNYBegin \/ ReadHeader \/ NextEntry
    PROVE  Dealt' /\ ReaderStep
<1> USE DEF GoTo, Fail, Over, call
<1>1. session' = session /\ session \in Sessions
  BY DEF BNYBegin, ReadHeader, NextEntry, InPlace
<1>2. /\ Shares' = Shares /\ ShareEnds' = ShareEnds /\ Total' = Total
      /\ FlattenSeq(Shares)' = FlattenSeq(Shares) /\ Library' = Library
  BY <1>1, SameShares
<1>3. /\ Library.entries \in Seq(LibraryEntry) /\ Library.size \in Nat /\ Total = Chain
      /\ DOMAIN Library.entries = 1 .. Len(Library.entries)
  BY <1>1, LibraryTypes DEF Total
<1>4. /\ Len(Library.entries) \in Nat
      /\ Total \in 0 .. Len(Library.entries)
      /\ Total = 0 => Len(Library.entries) = 0
      /\ \A i \in 1 .. Total : Library.entries[i].follow = 0 => i = Total
      /\ \A i \in 1 .. Total :
            Library.entries[i].follow # 0 => i < Total \/ i = Len(Library.entries)
  BY <1>3, ChainFacts
<1>5. CASE BNYBegin
  <2>1. /\ at = "idle" /\ done' = done /\ n' = n
        /\ job' = FlattenSeq([i \in 1 .. Chain |->
               IF NameIsSpecified(Library.entries[i].name) THEN <<<<i, "data">>>> ELSE <<>>])
        /\ (at' = "over" /\ status' = "failed") \/ (at' = "header" /\ status' = "busy")
    BY <1>5 DEF BNYBegin
  <2>2. done = <<>> /\ n = 0 /\ status = "idle" /\ done \in Seq(Deals)
    BY <2>1 DEF Dealt, Told
  <2>3. job' = FlattenSeq(Shares)
    <3>1. \A i \in 1 .. Chain : Share(i) = IF NameIsSpecified(Library.entries[i].name)
                                           THEN <<<<i, "data">>>> ELSE <<>>
      BY DEF Share
    <3>2. Shares = [i \in 1 .. Chain |-> IF NameIsSpecified(Library.entries[i].name)
                                         THEN <<<<i, "data">>>> ELSE <<>>]
      BY <1>3, <3>1 DEF Shares
    <3> QED BY <2>1, <3>2
  <2>4. job' \in Seq(Items)
    BY <1>1, <2>3, ShareFacts
  <2>5. Reader!Begin \/ Reader!Refuse
    BY <2>1, <2>2, <2>4 DEF Reader!Begin, Reader!Refuse, Items, Kinds
  <2>6. ReaderStep
    BY <2>5 DEF ReaderStep, Reader!Next
  <2>7. Len(done) = 0 /\ ShareEnds[0] = 0 /\ 0 \in 0 .. Total /\ (0 < Total \/ Len(Library.entries) = 0)
    BY <1>1, <1>4, <2>2, ShareFacts
  <2>8. Dealt'
    BY <1>2, <2>1, <2>2, <2>3, <2>7 DEF Dealt
  <2> QED BY <2>6, <2>8
<1>6. CASE ReadHeader
  <2>1. at = "header" /\ UNCHANGED <<job, done>> /\ status = "busy"
    BY <1>6 DEF ReadHeader, Told
  <2>2. CASE at' = "over"
    <3>1. status' = "failed"
      BY <1>6, <2>2 DEF ReadHeader
    <3> QED BY <2>1, <2>2, <3>1, FailsReading
  <2>3. CASE at' # "over"
    <3>1. /\ at' = "first" /\ status' = status /\ Enough(BlockSize)
          /\ \E i \in DOMAIN Library.entries : Start[i] = pos
          /\ n' = CHOOSE i \in DOMAIN Library.entries : Start[i] = pos
      BY <1>6, <2>3 DEF ReadHeader
    <3>2. n' \in 1 .. Len(Library.entries) /\ Start[n'] = pos
      BY <1>3, <3>1
    <3>3. Reached /\ n + 1 \in 1 .. Len(Library.entries) + 1 /\ pos \in Nat
          /\ n \in 0 .. Len(Library.entries)
      BY <2>1 DEF Positions
    <3>4. pos = Start[n+1]
      <4>1. pos + BlockSize <= Library.size /\ BlockSize \in Nat \ {0}
        BY <3>1, Sizes DEF Enough
      <4>2. pos # Library.size
        BY <1>3, <3>3, <4>1
      <4> QED BY <3>3, <4>2 DEF Reached
    <3>5. n' = n + 1
      <4> DEFINE k == n'
      <4>1. k \in 1 .. Len(Library.entries) + 1 /\ Start[k] = pos
        BY <1>4, <3>2
      <4> HIDE DEF k
      <4>2. Start[k] \in Nat /\ Start[n+1] \in Nat
        BY <1>3, <3>3, <4>1, StartNumbers
      <4>3. ~(k < n + 1)
        BY <1>3, <3>3, <3>4, <4>1, <4>2, StartGrows
      <4>4. ~(n + 1 < k)
        BY <1>3, <3>3, <3>4, <4>1, <4>2, StartGrows
      <4>5. k = n + 1
        BY <1>4, <3>3, <4>1, <4>3, <4>4
      <4> QED BY <4>5 DEF k
    <3>6. /\ job = FlattenSeq(Shares) /\ n \in 0 .. Total /\ Len(done) = ShareEnds[n]
          /\ done \in Seq(Deals) /\ (n < Total \/ n = Len(Library.entries))
      BY <2>1 DEF Dealt
    <3>7. n' \in 1 .. Total /\ n' \in 0 .. Total /\ n' - 1 = n
      BY <1>4, <3>2, <3>5, <3>6
    <3>8. Dealt'
      BY <1>2, <2>1, <3>1, <3>6, <3>7 DEF Dealt
    <3> QED BY <2>1, <3>1, <3>8, SameReading
  <2> QED BY <2>2, <2>3
<1>7. CASE NextEntry
  <2>1. at = "pass" /\ UNCHANGED <<job, done, n>> /\ status = "busy"
    BY <1>7 DEF NextEntry, Told
  <2>2. /\ job = FlattenSeq(Shares) /\ n \in 0 .. Total /\ n \in 1 .. Total
        /\ Len(done) = ShareEnds[n] /\ done \in Seq(Deals)
    BY <2>1 DEF Dealt
  <2>3. \/ at' = "over" /\ status' = "failed"
        \/ at' = "over" /\ status' = "ok" /\ Entry.follow = 0
        \/ at' = "header" /\ status' = status /\ Entry.follow # 0
    BY <1>7 DEF NextEntry
  <2>4. CASE at' = "over" /\ status' = "failed"
    BY <2>1, <2>4, FailsReading
  <2>5. CASE at' = "over" /\ status' = "ok" /\ Entry.follow = 0
    <3>1. n = Total
      BY <1>4, <2>2, <2>5 DEF Entry
    <3>2. Len(done) = Len(job)
      BY <1>1, <2>2, <3>1, ShareFacts
    <3>3. Reader!Succeed
      BY <2>1, <2>5, <3>2 DEF Reader!Succeed
    <3>4. Dealt'
      BY <2>1, <2>2, <2>5 DEF Dealt
    <3> QED BY <3>3, <3>4 DEF ReaderStep, Reader!Next
  <2>6. CASE at' = "header" /\ status' = status /\ Entry.follow # 0
    <3>1. n < Total \/ n = Len(Library.entries)
      BY <1>4, <2>2, <2>6 DEF Entry
    <3>2. Dealt'
      BY <1>2, <2>1, <2>2, <2>6, <3>1 DEF Dealt
    <3> QED BY <2>1, <2>6, <3>2, SameReading
  <2> QED BY <2>3, <2>4, <2>5, <2>6
<1> QED BY <1>5, <1>6, <1>7

LEMMA LibraryReads ==
    ASSUME InPlace, Told, Positions, Dealt, BNYNext
    PROVE  Dealt' /\ ReaderStep
<1>1. IsLibrary /\ session \in Sessions
  BY LibraryFacts DEF InPlace
<1> QED BY <1>1, LibrarySteps, BetweenReads, QuietReads, EntryReads

(* What a fork of a record is in its share                                 *)
LEMMA RecordShare ==
    ASSUME Dealt, ~IsLibrary, session \in Sessions, at \in {"fork", "path", "check", "ask"}
    PROVE  /\ n \in 1 .. Total /\ n \in 0 .. Total /\ job = FlattenSeq(Shares)
           /\ Len(Share(n)) = Len(Forks(Record)) /\ Len(Forks(Record)) \in Nat
           /\ \A k \in 1 .. Len(Forks(Record)) : Share(n)[k] = <<n, Forks(Record)[k]>>
           /\ ShareEnds[n-1] \in Nat /\ ShareEnds[n] = ShareEnds[n-1] + Len(Forks(Record))
<1>1. n \in 1 .. Total /\ n \in 0 .. Total /\ job = FlattenSeq(Shares) /\ NameIsSpecified(Record.name)
  BY DEF Dealt
<1>2. Record \in ArchiveRecord
  <2> DEFINE s == session.source.records
  <2>1. s \in Seq(ArchiveRecord) /\ n \in 1 .. Len(s)
    BY <1>1, LibraryTypes DEF Total
  <2> HIDE DEF s
  <2>2. s[n] \in ArchiveRecord
    BY <2>1
  <2> QED BY <2>2 DEF s, Record
<1> DEFINE f == Forks(Record)
<1>3. f \in Seq(Kinds) /\ Len(f) \in Nat /\ DOMAIN f = 1 .. Len(f)
  BY <1>2, ForksFacts
<1>4. Share(n) = [k \in DOMAIN f |-> <<n, f[k]>>]
  BY <1>1 DEF Share, Record
<1>5. ShareEnds[n-1] \in Nat /\ ShareEnds[n] = ShareEnds[n-1] + Len(Share(n))
  <2>1. n - 1 \in 0 .. Total
    BY <1>1, ShareFacts
  <2> QED BY <1>1, <2>1, ShareFacts
<1>6. Len(Share(n)) = Len(f) /\ \A k \in 1 .. Len(f) : Share(n)[k] = <<n, f[k]>>
  <2> HIDE DEF f
  <2> QED BY <1>3, <1>4
<1> QED BY <1>1, <1>3, <1>5, <1>6

(* Places of an archive where nothing is dealt with, and where a fork is   *)
QuietFork ==
    /\ UNCHANGED <<session, job, done, n, fork>>
    /\ at \in {"path", "check", "ask"}
    /\ \/ at' = "over" /\ status' = "failed"
       \/ status' = status /\ at' \in {"path", "check", "ask"}

DealsFork ==
    /\ UNCHANGED <<session, job, n, fork>> /\ status' = status
    /\ at \in {"check", "ask"} /\ at' = "fork"
    /\ \E fate \in {"given", "skipped"} : done' = Append(done, <<<<n, Kind>>, fate>>)

LEMMA ArchiveSteps ==
    ASSUME ArchiveStep
    PROVE  \/ NuFXBegin \/ NextRecord \/ EndRecords \/ NextFork \/ EndForks
           \/ QuietFork \/ DealsFork
<1> USE DEF GoTo, Fail, Over, call, DealFork, nufxVars
<1>1. ASSUME OutputPathnameFilter PROVE QuietFork
  BY <1>1 DEF OutputPathnameFilter, QuietFork
<1>2. ASSUME Check PROVE QuietFork \/ DealsFork
  BY <1>2 DEF Check, SkipFork, WriteFork, QuietFork, DealsFork
<1>3. ASSUME Replace PROVE QuietFork \/ DealsFork
  BY <1>3 DEF Replace, WriteFork, QuietFork, DealsFork
<1>4. ASSUME Keep PROVE QuietFork \/ DealsFork
  BY <1>4 DEF Keep, SkipFork, QuietFork, DealsFork
<1>5. ASSUME Quit PROVE QuietFork
  BY <1>5 DEF Quit, QuietFork
<1>6. ASSUME Rename PROVE QuietFork
  BY <1>6 DEF Rename, QuietFork
<1> QED BY <1>1, <1>2, <1>3, <1>4, <1>5, <1>6 DEF ArchiveStep

LEMMA ForkReads ==
    ASSUME Told, Dealt, ~IsLibrary, session \in Sessions, QuietFork \/ DealsFork
    PROVE  Dealt' /\ ReaderStep
<1>1. /\ UNCHANGED <<session, job, n, fork>> /\ at \in {"path", "check", "ask"}
      /\ status = "busy"
  BY DEF QuietFork, DealsFork, Told
<1>2. /\ Shares' = Shares /\ ShareEnds' = ShareEnds /\ Total' = Total
      /\ FlattenSeq(Shares)' = FlattenSeq(Shares)
      /\ \A name : NameIsSpecified(name)' = NameIsSpecified(name)
  BY <1>1, SameShares
<1>3. Record' = Record /\ Forks(Record)' = Forks(Record)
  BY <1>1, SameFork DEF Forks, Opt
<1>4. /\ n \in 1 .. Total /\ n \in 0 .. Total /\ job = FlattenSeq(Shares)
      /\ Len(Share(n)) = Len(Forks(Record)) /\ Len(Forks(Record)) \in Nat
      /\ \A k \in 1 .. Len(Forks(Record)) : Share(n)[k] = <<n, Forks(Record)[k]>>
      /\ ShareEnds[n-1] \in Nat
  BY <1>1, RecordShare
<1>5. /\ NameIsSpecified(Record.name) /\ fork \in 0 .. Len(Forks(Record)) /\ fork > 0
      /\ Len(done) = ShareEnds[n-1] + (fork - 1) /\ done \in Seq(Deals)
  BY <1>1 DEF Dealt
<1>6. CASE QuietFork /\ at' = "over"
  <2>1. status' = "failed" /\ done' = done
    BY <1>6 DEF QuietFork
  <2> QED BY <1>1, <1>6, <2>1, FailsReading
<1>7. CASE QuietFork /\ at' # "over"
  <2>1. status' = status /\ done' = done /\ at' \in {"path", "check", "ask"}
    BY <1>7 DEF QuietFork
  <2>2. Dealt'
    BY <1>1, <1>2, <1>3, <1>4, <1>5, <2>1 DEF Dealt
  <2> QED BY <1>1, <2>1, <2>2, SameReading
<1>8. CASE DealsFork
  <2>1. fork \in 1 .. Len(Forks(Record))
    BY <1>4, <1>5
  <2>2. fork \in 1 .. Len(Share(n)) /\ Share(n)[fork] = <<n, Kind>>
    BY <1>4, <2>1 DEF Kind
  <2>3. PICK fate \in {"given", "skipped"} : done' = Append(done, <<Share(n)[fork], fate>>)
    BY <1>8, <2>2 DEF DealsFork
  <2>4. status' = status /\ at' = "fork"
    BY <1>8 DEF DealsFork
  <2>5. ReaderStep /\ done' \in Seq(Deals) /\ Len(done') = ShareEnds[n-1] + fork
    BY <1>1, <1>4, <1>5, <2>2, <2>3, <2>4, HandsOut
  <2>6. Dealt'
    BY <1>1, <1>2, <1>3, <1>4, <1>5, <2>4, <2>5 DEF Dealt
  <2> QED BY <2>5, <2>6
<1> QED BY <1>6, <1>7, <1>8

(* The steps from record to record and from fork to fork                   *)
LEMMA RecordReads ==
    ASSUME Told, Dealt, ~IsLibrary, session \in Sessions,
           NuFXBegin \/ NextRecord \/ EndRecords \/ NextFork \/ EndForks
    PROVE  Dealt' /\ ReaderStep
<1> USE DEF GoTo, Fail, Over, call, nufxVars
<1>1. session' = session
  BY DEF NuFXBegin, NextRecord, EndRecords, NextFork, EndForks
<1>2. /\ Shares' = Shares /\ ShareEnds' = ShareEnds /\ Total' = Total
      /\ FlattenSeq(Shares)' = FlattenSeq(Shares)
      /\ \A name : NameIsSpecified(name)' = NameIsSpecified(name)
  BY <1>1, SameShares
<1>3. /\ Total = Len(session.source.records) /\ Total \in Nat
  BY ShareFacts DEF Total
<1>4. CASE NuFXBegin
  <2> DEFINE records == session.source.records
  <2>1. /\ at = "idle" /\ done' = done /\ n' = n
        /\ job' = FlattenSeq([i \in DOMAIN records |->
                    IF NameIsSpecified(records[i].name)
                    THEN [k \in DOMAIN Forks(records[i]) |-> <<i, Forks(records[i])[k]>>]
                    ELSE <<>>])
        /\ (at' = "over" /\ status' = "failed") \/ (at' = "record" /\ status' = "busy")
    BY <1>4 DEF NuFXBegin
  <2>2. done = <<>> /\ n = 0 /\ status = "idle" /\ done \in Seq(Deals)
    BY <2>1 DEF Dealt, Told
  <2>3. job' = FlattenSeq(Shares)
    <3>1. \A i \in DOMAIN records :
             Share(i) = IF NameIsSpecified(records[i].name)
                        THEN [k \in DOMAIN Forks(records[i]) |-> <<i, Forks(records[i])[k]>>]
                        ELSE <<>>
      BY DEF Share
    <3>2. DOMAIN records = 1 .. Total
      <4>1. records \in Seq(ArchiveRecord)
        BY LibraryTypes
      <4>2. DOMAIN records = 1 .. Len(records)
        <5> HIDE DEF records
        <5> QED BY <4>1
      <4> QED BY <1>3, <4>2
    <3>3. Shares = [i \in DOMAIN records |-> Share(i)]
      BY <3>2 DEF Shares
    <3> HIDE DEF records
    <3>4. Shares = [i \in DOMAIN records |->
                      IF NameIsSpecified(records[i].name)
                      THEN [k \in DOMAIN Forks(records[i]) |-> <<i, Forks(records[i])[k]>>]
                      ELSE <<>>]
      BY <3>1, <3>3
    <3> QED BY <2>1, <3>4
  <2>4. job' \in Seq(Items)
    BY <2>3, ShareFacts
  <2>5. Reader!Begin \/ Reader!Refuse
    <3> HIDE DEF records
    <3> QED BY <2>1, <2>2, <2>4 DEF Reader!Begin, Reader!Refuse, Items, Kinds
  <2>6. ReaderStep
    BY <2>5 DEF ReaderStep, Reader!Next
  <2>7. Len(done) = 0 /\ ShareEnds[0] = 0 /\ 0 \in 0 .. Total
    BY <1>3, <2>2, ShareFacts
  <2>8. Dealt'
    <3> HIDE DEF records
    <3> QED BY <1>2, <2>1, <2>2, <2>3, <2>7 DEF Dealt
  <2> QED BY <2>6, <2>8
<1>5. CASE NextRecord
  <2>1. /\ at = "record" /\ n < Total /\ n' = n + 1 /\ fork' = 0
        /\ UNCHANGED <<job, done, status>>
        /\ at' = IF NameIsSpecified(session.source.records[n'].name) THEN "fork" ELSE "record"
    BY <1>3, <1>5 DEF NextRecord
  <2>2. /\ job = FlattenSeq(Shares) /\ n \in 0 .. Total /\ Len(done) = ShareEnds[n]
        /\ done \in Seq(Deals)
    BY <2>1 DEF Dealt
  <2>3. n' \in 1 .. Total /\ n' \in 0 .. Total /\ n' - 1 = n
    BY <1>3, <2>1, <2>2
  <2>4. Record' = session.source.records[n']
    BY <1>1 DEF Record
  <2>5. CASE at' = "record"
    <3>1. Share(n') = <<>>
      BY <2>1, <2>5 DEF Share
    <3>2. ShareEnds[n'] = ShareEnds[n' - 1] + Len(Share(n')) /\ ShareEnds[n] \in Nat
      BY <2>2, <2>3, ShareFacts
    <3>3. Len(Share(n')) = 0
      BY <3>1
    <3>4. ShareEnds[n'] = Len(done)
      <4> DEFINE a == ShareEnds[n' - 1]   b == Len(Share(n'))   c == ShareEnds[n']
      <4>1. a = ShareEnds[n] /\ a \in Nat /\ b = 0 /\ c = a + b
        BY <2>3, <3>2, <3>3
      <4> HIDE DEF a, b, c
      <4>2. c = a
        BY <4>1
      <4> QED BY <2>2, <4>1, <4>2 DEF c
    <3>5. Len(done') = (ShareEnds[n])'
      BY <1>2, <2>1, <3>4
    <3>6. /\ done' \in Seq(Deals) /\ job' = FlattenSeq(Shares)' /\ n' \in (0 .. Total)'
      BY <1>2, <2>1, <2>2, <2>3
    <3>7. Dealt'
      BY <2>5, <3>5, <3>6 DEF Dealt
    <3> QED BY <2>1, <3>7, SameReading
  <2>6. CASE at' = "fork"
    <3>1. NameIsSpecified(Record.name)'
      <4>1. NameIsSpecified(session.source.records[n'].name)
        BY <2>1, <2>6
      <4>2. Opt' = Opt
        BY <1>1 DEF Opt
      <4> QED BY <2>4, <4>1, <4>2 DEF NameIsSpecified
    <3>2. Len(Forks(Record))' \in Nat
      <4> DEFINE s == session.source.records
                 k == n'
      <4>1. s \in Seq(ArchiveRecord) /\ k \in 1 .. Len(s)
        BY <1>3, <2>3, LibraryTypes
      <4> HIDE DEF s, k
      <4>2. s[k] \in ArchiveRecord
        BY <4>1
      <4>3. Len(Forks(s[k])) \in Nat
        BY <4>2, ForksFacts
      <4>4. Forks(Record)' = Forks(s[k])
        BY <1>1, <2>4 DEF Forks, Opt, s, k
      <4> QED BY <4>3, <4>4
    <3>3. ShareEnds[n] \in Nat
      BY <2>2, ShareFacts
    <3>4. fork' \in 0 .. Len(Forks(Record))' /\ Len(done) = ShareEnds[n' - 1] + fork'
      BY <2>1, <2>2, <2>3, <3>2, <3>3
    <3>5. fork' \in (0 .. Len(Forks(Record)))' /\ Len(done') = (ShareEnds[n-1])' + fork'
      BY <1>2, <2>1, <3>4
    <3>6. /\ done' \in Seq(Deals) /\ job' = FlattenSeq(Shares)'
          /\ n' \in (0 .. Total)' /\ n' \in (1 .. Total)'
      BY <1>2, <2>1, <2>2, <2>3
    <3>7. Dealt'
      BY <2>6, <3>1, <3>5, <3>6 DEF Dealt
    <3> QED BY <2>1, <3>7, SameReading
  <2> QED BY <2>1, <2>5, <2>6
<1>6. CASE EndRecords
  <2>1. at = "record" /\ n = Total /\ UNCHANGED <<job, done, n>> /\ at' = "over" /\ status' = "ok"
        /\ status = "busy"
    BY <1>3, <1>6 DEF EndRecords, Told
  <2>2. job = FlattenSeq(Shares) /\ Len(done) = ShareEnds[n] /\ done \in Seq(Deals)
    BY <2>1 DEF Dealt
  <2>3. Len(done) = Len(job)
    BY <2>1, <2>2, ShareFacts
  <2>4. Reader!Succeed
    BY <2>1, <2>3 DEF Reader!Succeed
  <2>5. Dealt'
    BY <2>1, <2>2 DEF Dealt
  <2> QED BY <2>4, <2>5 DEF ReaderStep, Reader!Next
<1>7. ASSUME NextFork \/ EndForks PROVE Dealt' /\ ReaderStep
  <2>1. at = "fork" /\ job' = job /\ n' = n /\ status' = status /\ status = "busy"
    BY <1>7 DEF NextFork, EndForks, Told
  <2>2. /\ n \in 1 .. Total /\ n \in 0 .. Total /\ job = FlattenSeq(Shares)
        /\ Len(Share(n)) = Len(Forks(Record)) /\ Len(Forks(Record)) \in Nat
        /\ \A k \in 1 .. Len(Forks(Record)) : Share(n)[k] = <<n, Forks(Record)[k]>>
        /\ ShareEnds[n-1] \in Nat /\ ShareEnds[n] = ShareEnds[n-1] + Len(Forks(Record))
    BY <2>1, RecordShare
  <2>3. /\ NameIsSpecified(Record.name) /\ fork \in 0 .. Len(Forks(Record))
        /\ Len(done) = ShareEnds[n-1] + fork /\ done \in Seq(Deals)
    BY <2>1 DEF Dealt
  <2>4. Record' = Record /\ Forks(Record)' = Forks(Record)
    BY <1>1, <2>1 DEF Record, Forks, Opt
  <2>5. CASE EndForks
    <3>1. fork = Len(Forks(Record)) /\ at' = "record" /\ done' = done
      BY <2>5 DEF EndForks
    <3>2. Len(done) = ShareEnds[n]
      BY <2>2, <2>3, <3>1
    <3>3. Dealt'
      BY <1>2, <2>1, <2>2, <2>3, <3>1, <3>2 DEF Dealt
    <3> QED BY <2>1, <3>1, <3>3, SameReading
  <2>6. CASE NextFork
    <3>1. /\ fork < Len(Forks(Record)) /\ fork' = fork + 1
          /\ \/ at' = "path" /\ done' = done
             \/ /\ at' = "fork"
                /\ done' = Append(done, <<<<n, Forks(Record)[fork + 1]>>, "given">>)
      BY <2>1, <2>6 DEF NextFork
    <3>2. /\ fork + 1 \in 1 .. Len(Forks(Record)) /\ fork + 1 \in 0 .. Len(Forks(Record))
          /\ (fork + 1) - 1 = fork /\ fork + 1 > 0
      BY <2>2, <2>3, <3>1
    <3>3. CASE at' = "path"
      <4>1. done' = done
        BY <3>1, <3>3
      <4>2. Dealt'
        BY <1>2, <2>1, <2>2, <2>3, <2>4, <3>1, <3>2, <3>3, <4>1 DEF Dealt
      <4> QED BY <2>1, <4>1, <4>2, SameReading
    <3>4. CASE at' = "fork"
      <4> DEFINE j == fork + 1
      <4>1. j \in 1 .. Len(Share(n)) /\ Share(n)[j] = <<n, Forks(Record)[j]>>
            /\ Len(done) = ShareEnds[n-1] + (j - 1) /\ fork' = j /\ j \in 0 .. Len(Forks(Record))
        BY <2>2, <2>3, <3>1, <3>2
      <4>2. done' = Append(done, <<Share(n)[j], "given">>)
        BY <3>1, <3>4, <4>1
      <4> HIDE DEF j
      <4>3. ReaderStep /\ done' \in Seq(Deals) /\ Len(done') = ShareEnds[n-1] + j
        BY <2>1, <2>2, <2>3, <4>1, <4>2, HandsOut
      <4>4. Dealt'
        BY <1>2, <2>1, <2>2, <2>3, <2>4, <3>4, <4>1, <4>3 DEF Dealt
      <4> QED BY <4>3, <4>4
    <3> QED BY <3>1, <3>3, <3>4
  <2> QED BY <1>7, <2>5, <2>6
<1> QED BY <1>4, <1>5, <1>6, <1>7

LEMMA NextReads ==
    InPlace /\ Told /\ Positions /\ Dealt /\ [Next]_vars => Dealt' /\ ReaderStep
<1> SUFFICES ASSUME InPlace, Told, Positions, Dealt, [Next]_vars PROVE Dealt' /\ ReaderStep
  OBVIOUS
<1>1. CASE BNYNext
  BY <1>1, LibraryReads
<1>2. CASE ArchiveStep
  <2>1. ~IsLibrary /\ session \in Sessions
    BY <1>2 DEF ArchiveStep, NuFXBegin, NextRecord, EndRecords, NextFork, EndForks,
                OutputPathnameFilter, Check, Replace, Keep, Quit, Rename, InPlace, ArchivePlaces
  <2> QED BY <1>2, <2>1, ArchiveSteps, ForkReads, RecordReads
<1>3. CASE Writing
  <2>1. UNCHANGED <<at, job, done, status>> /\ at = "over"
    BY <1>3, WritingReads, WritingInPlace DEF readVars
  <2> QED BY <2>1, SameReading DEF Dealt
<1>4. CASE UNCHANGED vars
  <2>1. UNCHANGED <<session, at, status, job, done, n, fork>>
    BY <1>4 DEF vars, bnyVars, nufxVars
  <2>2. /\ Shares' = Shares /\ ShareEnds' = ShareEnds /\ Total' = Total /\ Library' = Library
        /\ FlattenSeq(Shares)' = FlattenSeq(Shares)
        /\ \A name : NameIsSpecified(name)' = NameIsSpecified(name)
    BY <2>1, SameShares
  <2>3. Entry' = Entry /\ Record' = Record /\ Forks(Record)' = Forks(Record)
    BY <2>1, SameEntry DEF Record, Forks, Opt
  <2>4. Dealt'
    BY <2>1, <2>2, <2>3 DEF Dealt
  <2> QED BY <2>1, <2>4, SameReading
<1> QED BY <1>1, <1>2, <1>3, <1>4, NextParts

(* Whatever is read, with every option and whatever the user answers: what *)
(* was asked for is dealt with item by item, once and in order, and the    *)
(* command succeeds only after the last one.                               *)
THEOREM AllDealtWith == Spec => ReadsInOrder
<1>1. Init => Dealt /\ Reader!Init
  BY InitDealt
<1>2. InPlace /\ Told /\ Positions /\ Dealt /\ [Next]_vars => Dealt' /\ [Reader!Next]_(Reader!vars)
  BY NextReads DEF ReaderStep
<1> QED
  BY <1>1, <1>2, AlwaysInPlace, AlwaysTold, AlwaysPositions, PTL
  DEF Spec, ReadsInOrder, Reader!Spec

-----------------------------------------------------------------------------
(* A library with nothing wrong with it *)

(* What the symbols take is counted up.                                    *)
LEMMA TakenFacts ==
    ASSUME NEW e, e.sq \in Seq(Nat)
    PROVE  /\ Taken(e)[1] = 0
           /\ \A i \in 1 .. Len(e.sq) : Taken(e)[i+1] = Taken(e)[i] + e.sq[i]
           /\ \A i \in 1 .. Len(e.sq) + 1 : Taken(e)[i] \in Nat
<1> DEFINE q == e.sq
           m == Len(q)
           S == CHOOSE g : g = [i \in 1 .. m + 1 |-> IF i = 1 THEN 0 ELSE g[i-1] + q[i-1]]
<1>1. m \in Nat /\ \A i \in 1 .. m : q[i] \in Nat
  OBVIOUS
<1>2. Taken(e) = S
  BY DEF Taken
<1>3. \E g : g = [i \in 1 .. m + 1 |-> IF i = 1 THEN 0 ELSE g[i-1] + q[i-1]]
  <2> HIDE DEF m, q
  <2>1. PICK g : IsSums(q, m, g)
    BY <1>1, SumsExist
  <2> QED BY <2>1, Zenon DEF IsSums
<1>4. S = [i \in 1 .. m + 1 |-> IF i = 1 THEN 0 ELSE S[i-1] + q[i-1]]
  <2> HIDE DEF m, q
  <2> QED BY <1>3
<1> HIDE DEF S, q, m
<1>5. S[1] = 0
  BY <1>1, <1>4
<1>6. ASSUME NEW i \in 1 .. m PROVE S[i+1] = S[i] + q[i]
  <2>1. i + 1 \in 1 .. m + 1 /\ i + 1 # 1 /\ (i + 1) - 1 = i
    BY <1>1
  <2>2. S[i+1] = IF i + 1 = 1 THEN 0 ELSE S[(i+1)-1] + q[(i+1)-1]
    BY <1>4, <2>1, Zenon
  <2> QED BY <2>1, <2>2
<1> DEFINE T == {k \in 0 .. m : S[k+1] \in Nat}
<1>7. 0 \in T
  BY <1>1, <1>5
<1>8. ASSUME NEW k \in 0 .. m - 1, k \in T PROVE k + 1 \in T
  <2>1. k + 1 \in 1 .. m /\ k + 1 \in 0 .. m
    BY <1>1
  <2>2. S[(k+1)+1] = S[k+1] + q[k+1] /\ q[k+1] \in Nat /\ S[k+1] \in Nat
    BY <1>1, <1>6, <1>8, <2>1
  <2> QED BY <2>1, <2>2
<1>9. \A k \in 0 .. m : k \in T
  <2> HIDE DEF T
  <2> QED BY <1>1, <1>7, <1>8, UpTo
<1>10. ASSUME NEW i \in 1 .. m + 1 PROVE S[i] \in Nat
  <2>1. i - 1 \in 0 .. m /\ (i - 1) + 1 = i
    BY <1>1
  <2> QED BY <1>9, <2>1
<1> QED BY <1>2, <1>5, <1>6, <1>10 DEF m, q

(* What was taken is never more than what will be.                         *)
LEMMA TakenGrows ==
    ASSUME NEW e, e.sq \in Seq(Nat), NEW i \in 1 .. Len(e.sq) + 1
    PROVE  Taken(e)[i] <= Taken(e)[Len(e.sq) + 1]
<1> DEFINE m == Len(e.sq)
           T == {k \in 0 .. m : \A j \in 1 .. k + 1 : Taken(e)[j] <= Taken(e)[k+1]}
<1>1. /\ m \in Nat
      /\ \A j \in 1 .. m : Taken(e)[j+1] = Taken(e)[j] + e.sq[j] /\ e.sq[j] \in Nat
      /\ \A j \in 1 .. m + 1 : Taken(e)[j] \in Nat
  BY TakenFacts
<1> HIDE DEF m
<1>2. 0 \in T
  BY <1>1
<1>3. ASSUME NEW k \in 0 .. m - 1, k \in T PROVE k + 1 \in T
  <2>1. k + 1 \in 1 .. m /\ k + 1 \in 1 .. m + 1 /\ k + 1 \in 0 .. m /\ (k + 1) + 1 \in 1 .. m + 1
    BY <1>1
  <2>2. /\ Taken(e)[(k+1)+1] = Taken(e)[k+1] + e.sq[k+1] /\ e.sq[k+1] \in Nat
        /\ Taken(e)[k+1] \in Nat
    BY <1>1, <2>1
  <2>3. ASSUME NEW j \in 1 .. (k + 1) + 1 PROVE Taken(e)[j] <= Taken(e)[(k+1)+1]
    <3>1. j \in 1 .. k + 1 \/ j = (k + 1) + 1
      BY <2>1
    <3>2. j \in 1 .. m + 1
      BY <1>1, <2>1
    <3>3. Taken(e)[j] \in Nat
      BY <1>1, <3>2
    <3>4. CASE j \in 1 .. k + 1
      <4> DEFINE a == Taken(e)[j]   b == Taken(e)[k+1]   c == Taken(e)[(k+1)+1]   d == e.sq[k+1]
      <4>1. a <= b
        BY <1>3, <3>4
      <4>2. c = b + d /\ a \in Nat /\ b \in Nat /\ d \in Nat
        BY <2>2, <3>3
      <4> HIDE DEF a, b, c, d
      <4>3. a <= c
        BY <4>1, <4>2
      <4> QED BY <4>3 DEF a, c
    <3>5. CASE j = (k + 1) + 1
      BY <2>2, <3>5
    <3> QED BY <3>1, <3>4, <3>5
  <2> QED BY <2>1, <2>3
<1>4. \A k \in 0 .. m : k \in T
  <2> HIDE DEF T
  <2> QED BY <1>1, <1>2, <1>3, UpTo
<1>5. m \in T
  BY <1>1, <1>4
<1> QED BY <1>5 DEF m

(* How long such a library is, entry by entry                              *)
LEMMA IntactLength ==
    ASSUME Library.entries \in Seq(LibraryEntry), Library.size \in Nat, Intact,
           NEW i \in 1 .. Len(Library.entries)
    PROVE  LET e == Library.entries[i]
           IN  /\ Start[i] + BlockSize <= Library.size
               /\ RealEOF(e) > 0 => Start[i] + BlockSize + BlockSize <= Library.size
               /\ \/ Library.size >= Start[i+1]
                  \/ /\ i = Len(Library.entries) /\ ToleratesShortEnd
                     /\ Library.size = Start[i] + BlockSize + RealEOF(e)
<1> DEFINE m == Len(Library.entries)
           r == RealEOF(Library.entries[i])
           p == BlockSize * Blocks(r)
<1>1. /\ m \in Nat /\ i \in 1 .. m /\ i \in 1 .. m + 1 /\ i + 1 \in 1 .. m + 1 /\ m + 1 \in 1 .. m + 1
      /\ m \in 1 .. m + 1 /\ i \in DOMAIN Library.entries
  OBVIOUS
<1>2. r \in Nat /\ BlockSize \in Nat \ {0} /\ Blocks(r) \in Nat /\ p \in Nat
  <2>1. r \in Nat
    BY EntryFacts
  <2> QED BY <2>1, BlocksFacts, Sizes
<1>3. r > 0 => p >= BlockSize
  <2>1. r > 0 => Blocks(r) >= 1
    BY <1>2, BlocksFacts
  <2>2. \A x, y \in Nat : y >= 1 => x * y >= x
    <3> SUFFICES ASSUME NEW x \in Nat, NEW y \in Nat, y >= 1 PROVE x * y >= x
      OBVIOUS
    <3>1. PICK z \in Nat : y = z + 1
      <4>1. y - 1 \in Nat /\ y = (y - 1) + 1  OBVIOUS
      <4> QED BY <4>1
    <3>2. x * (z + 1) = x * z + x /\ x * z \in Nat
      OBVIOUS
    <3> QED BY <3>1, <3>2
  <2> HIDE DEF r
  <2> QED BY <1>2, <2>1, <2>2
<1>4. Start[i+1] = Start[i] + BlockSize + p /\ Start[i] \in Nat
  <2>1. Start[i+1] = Start[i] + BlockSize * (1 + Blocks(r)) /\ Start[i] \in Nat
    BY <1>1, StartFacts, StartNumbers
  <2>2. BlockSize * (1 + Blocks(r)) = BlockSize + p
    <3>1. \A x, y \in Nat : x * (1 + y) = x + x * y
      OBVIOUS
    <3> QED BY <1>2, <3>1
  <2> HIDE DEF p, r
  <2>3. Start[i] + (BlockSize + p) = Start[i] + BlockSize + p
    BY <1>2, <2>1
  <2> QED BY <2>1, <2>2, <2>3
<1>5. \/ Library.size >= Start[m + 1]
      \/ /\ ToleratesShortEnd /\ RealEOF(Library.entries[m]) > BlockSize
         /\ Library.size = Start[m] + BlockSize + RealEOF(Library.entries[m])
  BY DEF Intact, ToleratesShortEnd
<1>6. Start[m + 1] \in Nat /\ Start[m] \in Nat /\ Start[i+1] \in Nat
  BY <1>1, StartNumbers
<1>7. CASE i = m
  <2>1. Library.size >= Start[i+1]
        \/ (ToleratesShortEnd /\ r > BlockSize /\ Library.size = Start[i] + BlockSize + r)
    BY <1>5, <1>7
  <2> HIDE DEF p, r, m
  <2>2. Start[i] + BlockSize <= Library.size
        /\ (r > 0 => Start[i] + BlockSize + BlockSize <= Library.size)
    BY <1>2, <1>3, <1>4, <2>1
  <2> QED BY <1>7, <2>1, <2>2 DEF r, m
<1>8. CASE i # m
  <2>1. Start[i+1] <= Start[m]
    <3>1. CASE i + 1 = m
      BY <1>6, <3>1
    <3>2. CASE i + 1 # m
      <4>1. i + 1 < m
        BY <1>1, <1>8, <3>2
      <4>2. Start[i+1] < Start[m]
        BY <1>1, <4>1, StartGrows
      <4> QED BY <1>6, <4>2
    <3> QED BY <3>1, <3>2
  <2>2. Start[m] <= Library.size
    <3>1. CASE Library.size >= Start[m + 1]
      <4>1. m < m + 1  BY <1>1
      <4>2. Start[m] < Start[m + 1]
        BY <1>1, <4>1, StartGrows
      <4> QED BY <1>6, <3>1, <4>2
    <3>2. CASE Library.size = Start[m] + BlockSize + RealEOF(Library.entries[m])
      <4>1. RealEOF(Library.entries[m]) \in Nat
        <5>1. m \in 1 .. Len(Library.entries)  BY <1>1
        <5> QED BY <5>1, EntryFacts
      <4> QED BY <1>2, <1>6, <3>2, <4>1
    <3> QED BY <1>5, <3>1, <3>2
  <2> HIDE DEF p, r, m
  <2>3. Library.size >= Start[i+1]
    BY <1>6, <2>1, <2>2
  <2>4. Start[i] + BlockSize <= Library.size
        /\ (r > 0 => Start[i] + BlockSize + BlockSize <= Library.size)
    BY <1>2, <1>3, <1>4, <2>3
  <2> QED BY <2>3, <2>4 DEF r
<1> QED BY <1>7, <1>8

(* How far the reading of such a library is.  A squeezed entry is in the   *)
(* buffer, to come, or decoded, and nothing else; a file that is copied    *)
(* has read a block more than it has written; what is passed over is not   *)
(* what may end short.                                                     *)
WellRead ==
    IsLibrary /\ Intact =>
        /\ status = "failed" => why \in {"syntax", "exists", "open"}
        /\ at = "header" => n < Len(Library.entries) /\ pos = Start[n+1]
        /\ at = "copy" =>
              left <= BlockSize \/ pos + left = Start[n] + BlockSize + BlockSize + RealEOF(Entry)
        /\ at = "unsqueeze" =>
              /\ IsSqueezed(Entry) /\ sym \in 1 .. Len(Entry.sq)
              /\ inBuf + comp + Taken(Entry)[sym + 1] = BlockSize * Blocks(RealEOF(Entry))
        /\ at = "pass" =>
              consumed \/ ~NameIsSpecified(Entry.name) \/ session.cmd = "t" \/ RealEOF(Entry) = 0
        /\ at \in {"copy", "unsqueeze", "pass"} => pos <= Library.size

(* The library is no other in the next state.                              *)
LEMMA SameIntact ==
    ASSUME session' = session
    PROVE  Intact' = Intact
<1>1. Library' = Library /\ Start' = Start  BY SameSession
<1>2. ToleratesShortEnd' = ToleratesShortEnd
  BY <1>1 DEF ToleratesShortEnd, IsSqueezed, RealEOF, NameIsSpecified, Opt
<1>3. ASSUME NEW i \in Int
      PROVE  Sound(Library.entries[i])' = Sound(Library.entries[i])
  BY <1>1 DEF Sound, IsSqueezed, Taken, Blocks
<1>4. (\A i \in 1 .. Len(Library.entries) :
          /\ Sound(Library.entries[i])
          /\ Library.entries[i].follow > 0 <=> i < Len(Library.entries))'
      = \A i \in 1 .. Len(Library.entries) :
          /\ Sound(Library.entries[i])
          /\ Library.entries[i].follow > 0 <=> i < Len(Library.entries)
  BY <1>1, <1>3
<1>5. RealEOF(Library.entries[Len(Library.entries)])' = RealEOF(Library.entries[Len(Library.entries)])
  BY <1>1 DEF RealEOF
<1> QED BY <1>1, <1>2, <1>4, <1>5 DEF Intact

(* Nor is the entry it is at.                                              *)
LEMMA SameTaken ==
    ASSUME session' = session, n' = n
    PROVE  /\ Taken(Entry)' = Taken(Entry) /\ IsSqueezed(Entry)' = IsSqueezed(Entry)
           /\ RealEOF(Entry)' = RealEOF(Entry) /\ (BlockSize * Blocks(RealEOF(Entry)))' = BlockSize * Blocks(RealEOF(Entry))
           /\ NameIsSpecified(Entry.name)' = NameIsSpecified(Entry.name)
BY SameEntry DEF Taken, IsSqueezed, RealEOF, Blocks, NameIsSpecified, Opt

(* Nothing was read yet.                                                   *)
LEMMA InitWellRead == Init => WellRead
BY DEF Init, BNYInit, WellRead

(* A step that does not fail and goes where nothing is said                *)
LEMMA QuietWellRead ==
    ASSUME WellRead, session' = session, UNCHANGED <<status, why>>,
           at' \notin {"header", "copy", "unsqueeze", "pass"}
    PROVE  WellRead'
<1>1. IsLibrary' = IsLibrary /\ Intact' = Intact
  BY SameSession, SameIntact
<1> QED BY <1>1 DEF WellRead

(* The command begins, and a header and the first block are read.          *)
LEMMA HeaderWellRead ==
    ASSUME InPlace, Positions, WellRead, IsLibrary, BNYBegin \/ ReadHeader \/ ReadFirst
    PROVE  WellRead'
<1> USE DEF GoTo, Fail, Over, call
<1>1. session' = session
  BY DEF BNYBegin, ReadHeader, ReadFirst
<1>2. Library.entries \in Seq(LibraryEntry) /\ Library.size \in Nat
  BY LibraryTypes DEF InPlace
<1>3. /\ IsLibrary' = IsLibrary /\ Library' = Library /\ Start' = Start /\ Intact' = Intact
  BY <1>1, SameSession, SameIntact
<1>4. SUFFICES ASSUME Intact PROVE WellRead'
  BY <1>3 DEF WellRead
<1>5. Len(Library.entries) \in Nat /\ Len(Library.entries) > 0
  BY <1>2, <1>4 DEF Intact
<1>6. CASE BNYBegin
  <2>1. /\ at = "idle" /\ n' = n /\ pos' = pos
        /\ \/ at' = "over" /\ status' = "failed" /\ why' = "syntax"
           \/ at' = "header" /\ status' = "busy"
    BY <1>6 DEF BNYBegin
  <2>2. n = 0 /\ pos = 0 /\ Start[1] = 0
    BY <1>2, <2>1, StartFacts DEF Positions
  <2>3. n' < Len(Library.entries) /\ pos' = Start[n'+1]
    BY <1>5, <2>1, <2>2
  <2> QED BY <1>3, <2>1, <2>3 DEF WellRead
<1>7. CASE ReadHeader
  <2>1. at = "header" /\ n \in 0 .. Len(Library.entries)
    BY <1>7 DEF ReadHeader, Positions
  <2>2. n < Len(Library.entries) /\ pos = Start[n+1]
    BY <1>4, <2>1 DEF WellRead
  <2>3. n + 1 \in 1 .. Len(Library.entries) /\ n + 1 \in DOMAIN Library.entries
    BY <1>2, <1>5, <2>1, <2>2
  <2>4. Enough(BlockSize)
    BY <1>2, <1>4, <2>2, <2>3, IntactLength DEF Enough
  <2>5. at' = "first" /\ UNCHANGED <<status, why>>
    BY <1>7, <2>2, <2>3, <2>4 DEF ReadHeader
  <2> QED BY <1>1, <2>5, QuietWellRead
<1>8. CASE ReadFirst
  <2>1. at = "first" /\ at \in LibraryPlaces \ {"header"}
    BY <1>8 DEF ReadFirst, LibraryPlaces
  <2>2. /\ n \in 1 .. Len(Library.entries) /\ RealEOF(Entry) \in Nat /\ pos = Start[n] + BlockSize
    BY <2>1, Here DEF Positions
  <2>3. RealEOF(Entry) > 0 => Enough(BlockSize)
    BY <1>2, <1>4, <2>2, IntactLength DEF Enough, Entry
  <2>4. at' = "entry" /\ UNCHANGED <<status, why>>
    BY <1>8, <2>2, <2>3 DEF ReadFirst
  <2> QED BY <1>1, <2>4, QuietWellRead
<1> QED BY <1>6, <1>7, <1>8

(* The blocks of the entry it is at are there, but for a short end.        *)
LEMMA Room ==
    ASSUME InPlace, Positions, IsLibrary, Intact, at \in LibraryPlaces \ {"header"}
    PROVE  \/ Start[n+1] <= Library.size
           \/ /\ session.cmd \in {"x", "p", "i"} /\ NameIsSpecified(Entry.name)
              /\ ~IsSqueezed(Entry) /\ RealEOF(Entry) > BlockSize
              /\ n = Len(Library.entries)
              /\ Library.size = Start[n] + BlockSize + RealEOF(Entry)
<1>1. Library.entries \in Seq(LibraryEntry) /\ Library.size \in Nat
  BY LibraryTypes DEF InPlace
<1>2. n \in 1 .. Len(Library.entries) /\ Start[n+1] \in Nat
  BY Here
<1>3. \/ Library.size >= Start[n+1]
      \/ /\ n = Len(Library.entries) /\ ToleratesShortEnd
         /\ Library.size = Start[n] + BlockSize + RealEOF(Entry)
  BY <1>1, <1>2, IntactLength DEF Entry
<1> QED BY <1>1, <1>2, <1>3 DEF ToleratesShortEnd, Entry

(* The first block of an entry is there when the entry is looked at.       *)
LEMMA EntryRead ==
    ASSUME InPlace, Positions, IsLibrary, Intact, at \in {"entry", "data"}
    PROVE  pos <= Library.size
<1>1. Library.entries \in Seq(LibraryEntry) /\ Library.size \in Nat
  BY LibraryTypes DEF InPlace
<1>2. /\ n \in 1 .. Len(Library.entries) /\ RealEOF(Entry) \in Nat /\ Start[n] \in Nat
      /\ pos = Start[n] + BlockSize + FirstBlock
  BY Here DEF Positions, LibraryPlaces
<1>3. BlockSize \in Nat /\ FirstBlock \in {0, BlockSize} /\ (RealEOF(Entry) = 0 => FirstBlock = 0)
  BY Sizes DEF FirstBlock
<1>4. /\ Start[n] + BlockSize <= Library.size
      /\ RealEOF(Entry) > 0 => Start[n] + BlockSize + BlockSize <= Library.size
  BY <1>1, <1>2, IntactLength DEF Entry
<1> QED BY <1>1, <1>2, <1>3, <1>4

(* An entry is passed over, listed, or its output made.                    *)
LEMMA EntryWellRead ==
    ASSUME InPlace, Positions, WellRead, IsLibrary,
           PassOver \/ ListEntry \/ BNYExtractDirectory \/ OpenOutput
    PROVE  WellRead'
<1> USE DEF GoTo, Fail, Over, call
<1>1. session' = session /\ n' = n /\ at \in LibraryPlaces \ {"header"} /\ at = "entry"
  BY DEF PassOver, ListEntry, BNYExtractDirectory, OpenOutput, Extracts, LibraryPlaces
<1>2. IsLibrary' = IsLibrary /\ Intact' = Intact
  BY <1>1, SameSession, SameIntact
<1>3. RealEOF(Entry)' = RealEOF(Entry) /\ NameIsSpecified(Entry.name)' = NameIsSpecified(Entry.name)
  BY <1>1, SameTaken
<1>8. Intact => (pos <= Library.size)'
  <2>1. Intact => pos <= Library.size
    BY <1>1, EntryRead
  <2>2. pos' = pos /\ Library' = Library
    BY <1>1, SameSession DEF PassOver, ListEntry, BNYExtractDirectory, OpenOutput
  <2> QED BY <2>1, <2>2
<1>4. CASE PassOver
  <2>1. at' = "pass" /\ UNCHANGED <<status, why>> /\ ~NameIsSpecified(Entry.name)
    BY <1>4 DEF PassOver
  <2> QED BY <1>2, <1>3, <1>8, <2>1 DEF WellRead
<1>5. CASE ListEntry
  <2>1. at' = "pass" /\ UNCHANGED <<status, why, session>> /\ session.cmd = "t"
    BY <1>5 DEF ListEntry
  <2> QED BY <1>2, <1>8, <2>1 DEF WellRead
<1>6. CASE BNYExtractDirectory
  <2>1. \/ at' = "pass" /\ UNCHANGED <<status, why>>
        \/ at' = "over" /\ status' = "failed" /\ why' = "exists"
    BY <1>6 DEF BNYExtractDirectory
  <2>2. RealEOF(Entry) = 0
    BY <1>6 DEF BNYExtractDirectory, RealEOF
  <2> QED BY <1>2, <1>3, <1>8, <2>1, <2>2 DEF WellRead
<1>7. CASE OpenOutput
  <2>1. \/ at' = "data" /\ UNCHANGED <<status, why>>
        \/ at' = "over" /\ status' = "failed" /\ why' \in {"exists", "open"}
    BY <1>7 DEF OpenOutput
  <2> QED BY <1>2, <1>8, <2>1 DEF WellRead
<1> QED BY <1>4, <1>5, <1>6, <1>7

(* The end of an entry: the next header is there, and read from its start. *)
LEMMA PassWellRead ==
    ASSUME InPlace, Positions, WellRead, IsLibrary, NextEntry
    PROVE  WellRead'
<1> USE DEF GoTo, Fail, Over, call
<1>1. session' = session /\ n' = n /\ at \in LibraryPlaces \ {"header"} /\ at = "pass"
  BY DEF NextEntry, LibraryPlaces
<1>2. /\ Library.entries \in Seq(LibraryEntry)
      /\ n \in 1 .. Len(Library.entries) /\ Len(Library.entries) \in Nat /\ Library.size \in Nat
      /\ pos \in Nat /\ RealEOF(Entry) \in Nat /\ Start[n] \in Nat /\ Start[n+1] \in Nat
      /\ BlockSize * Blocks(RealEOF(Entry)) \in Nat
      /\ Start[n+1] = Start[n] + BlockSize + BlockSize * Blocks(RealEOF(Entry))
  BY <1>1, Here, LibraryTypes DEF InPlace
<1>3. /\ IsLibrary' = IsLibrary /\ Library' = Library /\ Start' = Start /\ Intact' = Intact
  BY <1>1, SameSession, SameIntact
<1>4. SUFFICES ASSUME Intact PROVE WellRead'
  BY <1>3 DEF WellRead
<1>5. BlockSize \in Nat \ {0} /\ Blocks(RealEOF(Entry)) \in Nat
  BY <1>2, Sizes, BlocksFacts
<1> DEFINE e == RealEOF(Entry)
           p == BlockSize * Blocks(e)
           more == (IF consumed \/ e <= BlockSize THEN 0 ELSE Blocks(e) - 1) * BlockSize
<1>6. more = IF consumed \/ e <= BlockSize THEN 0 ELSE p - BlockSize
  <2>1. \A x, y \in Nat : 0 * x = 0 /\ (y - 1) * x = x * y - x
    OBVIOUS
  <2>2. BlockSize \in Nat /\ Blocks(e) \in Nat
    BY <1>5
  <2> HIDE DEF e
  <2>3. 0 * BlockSize = 0 /\ (Blocks(e) - 1) * BlockSize = BlockSize * Blocks(e) - BlockSize
    BY <2>1, <2>2
  <2> QED BY <2>3
<1>7. e > BlockSize => p >= BlockSize
  <2>1. ASSUME e > BlockSize PROVE p >= BlockSize
    <3>1. p = BlockSize * Blocks(e - BlockSize) + BlockSize /\ BlockSize * Blocks(e - BlockSize) \in Nat
      BY <1>2, <2>1, BlockLess
    <3> QED BY <1>5, <3>1
  <2> QED BY <2>1
<1>8. ~consumed => pos = Start[n] + BlockSize + FirstBlock
  BY <1>1 DEF Positions
(* What is passed over was not cut off.                                    *)
<1>9. ~consumed /\ e > BlockSize => Start[n+1] <= Library.size
  <2>1. ~consumed => ~NameIsSpecified(Entry.name) \/ session.cmd = "t" \/ e = 0
    BY <1>1, <1>4 DEF WellRead
  <2>2. \/ Start[n+1] <= Library.size
        \/ session.cmd \in {"x", "p", "i"} /\ NameIsSpecified(Entry.name) /\ e > BlockSize
    BY <1>1, <1>4, Room
  <2>3. e > BlockSize => e # 0
    BY <1>5
  <2> QED BY <2>1, <2>2, <2>3
<1>10. Library.stdin => more = 0 \/ Enough(more)
  <2>1. CASE consumed \/ e <= BlockSize
    BY <1>6, <2>1
  <2>2. CASE ~consumed /\ e > BlockSize
    <3>1. FirstBlock = BlockSize
      BY <1>5, <2>2 DEF FirstBlock
    <3>2. pos = Start[n] + BlockSize + BlockSize
      BY <1>8, <2>2, <3>1
    <3>3. more = p - BlockSize /\ p >= BlockSize /\ p \in Nat
      <4>1. ~(e <= BlockSize)
        BY <1>2, <1>5, <2>2
      <4> HIDE DEF more
      <4> QED BY <1>2, <1>6, <1>7, <2>2, <4>1
    <3>4. Start[n+1] = Start[n] + BlockSize + p /\ Start[n+1] <= Library.size
      BY <1>2, <1>9, <2>2
    <3> DEFINE s == Start[n]
    <3>5. s \in Nat /\ pos = s + BlockSize + BlockSize /\ s + BlockSize + p <= Library.size
      BY <1>2, <3>2, <3>4
    <3> HIDE DEF p, e, more, s
    <3>6. pos + more <= Library.size
      BY <1>2, <1>5, <3>3, <3>5
    <3> QED BY <3>6 DEF Enough
  <2> HIDE DEF e, more
  <2> QED BY <1>2, <1>5, <2>1, <2>2 DEF e
<1>11. Library.stdin => Enough(more)
  <2>1. Enough(0)
    BY <1>1, <1>2, <1>4 DEF WellRead, Enough
  <2> HIDE DEF more
  <2> QED BY <1>10, <2>1
<1>12. CASE Entry.follow = 0
  <2>1. at' = "over" /\ status' = "ok"
    BY <1>11, <1>12 DEF NextEntry, e, more
  <2> QED BY <2>1 DEF WellRead
<1>13. CASE Entry.follow # 0
  <2>1. at' = "header" /\ UNCHANGED <<status, why>>
    BY <1>11, <1>13 DEF NextEntry, e, more
  <2>2. n < Len(Library.entries)
    <3>1. Entry.follow \in Nat
      BY <1>1, Here DEF LibraryEntry
    <3> QED BY <1>2, <1>4, <1>13, <3>1 DEF Intact, Entry
  (* The positions say where; it is not the end of the file.               *)
  <2>3. Reached'
    <3>1. Positions'
      BY EntryPositions
    <3> QED BY <1>3, <2>1, <3>1 DEF Positions
  <2>4. Start[n+1] <= Library.size
    <3>1. ~(n = Len(Library.entries))
      BY <1>2, <2>2
    <3> QED BY <1>1, <1>4, <3>1, Room
  <2>5. pos' = Start[n+1]
    <3>1. pos' = Start[n+1] \/ (pos' = Library.size /\ pos' < Start[n+1])
      BY <1>1, <1>3, <2>3 DEF Reached
    <3> QED BY <1>2, <2>4, <3>1
  <2>6. (n < Len(Library.entries) /\ pos = Start[n+1])'
    BY <1>1, <1>3, <2>2, <2>5
  <2>7. ~(at' \in {"copy", "unsqueeze", "pass"}) /\ at' = "header"
    BY <2>1
  <2> QED BY <1>3, <1>4, <2>1, <2>6, <2>7 DEF WellRead
<1> QED BY <1>12, <1>13

(* A file that is copied: a block that cannot be read whole is the short   *)
(* end of the last entry.                                                  *)
LEMMA CopyWellRead ==
    ASSUME InPlace, Positions, Counters, WellRead, IsLibrary,
           ExtractNothing \/ StartCopy \/ CopyBlock
    PROVE  WellRead'
<1> USE DEF GoTo, Fail, Over, call
<1>1. session' = session /\ n' = n /\ at \in LibraryPlaces \ {"header"} /\ at \in {"data", "copy"}
  BY DEF ExtractNothing, StartCopy, CopyBlock, LibraryPlaces
<1>2. /\ n \in 1 .. Len(Library.entries) /\ Library.size \in Nat
      /\ pos \in Nat /\ RealEOF(Entry) \in Nat /\ Start[n] \in Nat /\ Start[n+1] \in Nat
      /\ BlockSize * Blocks(RealEOF(Entry)) \in Nat
      /\ Start[n+1] = Start[n] + BlockSize + BlockSize * Blocks(RealEOF(Entry))
  BY <1>1, Here
<1>3. /\ IsLibrary' = IsLibrary /\ Library' = Library /\ Start' = Start /\ Intact' = Intact
      /\ RealEOF(Entry)' = RealEOF(Entry)
  BY <1>1, SameSession, SameIntact, SameTaken
<1>4. SUFFICES ASSUME Intact PROVE WellRead'
  BY <1>3 DEF WellRead
<1>5. BlockSize \in Nat \ {0} /\ left \in Nat
  BY Sizes DEF Counters
<1> DEFINE e == RealEOF(Entry)
<1>6. CASE ExtractNothing
  <2>1. at = "data" /\ at' = "pass" /\ consumed' /\ UNCHANGED <<pos, status, why>>
    BY <1>6 DEF ExtractNothing, Complete
  <2>2. pos' <= Library'.size
    BY <1>3, <1>4, <2>1, EntryRead
  <2> QED BY <1>3, <1>4, <2>1, <2>2 DEF WellRead
<1>7. CASE StartCopy
  <2>1. at = "data" /\ e > 0 /\ at' = "copy" /\ left' = e /\ UNCHANGED <<pos, status, why>>
    BY <1>7 DEF StartCopy
  <2>2. pos = Start[n] + BlockSize + BlockSize
    <3>1. pos = Start[n] + BlockSize + FirstBlock
      BY <2>1 DEF Positions
    <3>2. FirstBlock = BlockSize
      BY <1>2, <2>1 DEF FirstBlock
    <3> QED BY <3>1, <3>2
  <2>3. pos' <= Library'.size
    BY <1>3, <1>4, <2>1, EntryRead
  <2>4. (pos + left = Start[n] + BlockSize + BlockSize + RealEOF(Entry))'
    BY <1>1, <1>3, <2>1, <2>2
  <2> QED BY <1>3, <1>4, <2>1, <2>3, <2>4 DEF WellRead
<1>8. CASE CopyBlock
  <2> DEFINE rest == Max({0, left - BlockSize})
  <2>1. rest = IF left > BlockSize THEN left - BlockSize ELSE 0
    <3>1. 0 \in Int /\ left - BlockSize \in Int
      BY <1>5
    <3>2. rest = IF 0 >= left - BlockSize THEN 0 ELSE left - BlockSize
      BY <3>1, MaxOfTwo
    <3> HIDE DEF rest
    <3> QED BY <1>5, <3>2
  <2>2. at = "copy" /\ left > 0 /\ left' = rest
    BY <1>8 DEF CopyBlock
  <2>3. /\ left <= BlockSize \/ pos + left = Start[n] + BlockSize + BlockSize + e
        /\ pos <= Library.size
    BY <1>4, <2>2 DEF WellRead
  <2>4. CASE left <= BlockSize
    <3>1. rest = 0
      BY <1>5, <2>1, <2>4
    <3>2. at' = "pass" /\ consumed' /\ UNCHANGED <<pos, status, why>>
      <4> HIDE DEF rest
      <4> QED BY <1>8, <3>1 DEF CopyBlock, Complete, rest
    <3>3. pos' <= Library'.size
      BY <1>3, <2>3, <3>2
    <3> QED BY <1>3, <1>4, <3>2, <3>3 DEF WellRead
  <2>5. CASE left > BlockSize
    <3>1. rest = left - BlockSize /\ rest # 0 /\ rest \in Nat
      <4>1. rest = left - BlockSize
        BY <2>1, <2>5
      <4> HIDE DEF rest
      <4> QED BY <1>5, <2>5, <4>1
    <3>2. pos + left = Start[n] + BlockSize + BlockSize + e
      BY <1>5, <2>3, <2>5
    <3>3. \/ Enough(BlockSize) /\ pos' = pos + BlockSize /\ at' = "copy" /\ UNCHANGED <<status, why>>
          \/ /\ ~Enough(BlockSize) /\ Library.size - pos = rest /\ pos' = Library.size
             /\ at' = "copy" /\ UNCHANGED <<status, why>>
          \/ ~Enough(BlockSize) /\ Library.size - pos # rest
      <4> HIDE DEF rest
      <4> QED BY <1>8, <3>1 DEF CopyBlock, rest
    (* Where the blocks are all there, so is the next one.                 *)
    <3>4. Start[n+1] <= Library.size => Enough(BlockSize)
      <4> DEFINE b == BlockSize * Blocks(left)
      <4>1. pos + b = Start[n+1] + BlockSize
        BY <1>5, <2>2, <2>5 DEF Positions
      <4>2. b >= BlockSize + BlockSize /\ b \in Nat
        <5>1. /\ b = BlockSize * Blocks(left - BlockSize) + BlockSize
              /\ BlockSize * Blocks(left - BlockSize) \in Nat
              /\ BlockSize * Blocks(left - BlockSize) >= BlockSize
          BY <1>5, <2>5, BlockLess
        <5> DEFINE c == BlockSize * Blocks(left - BlockSize)
        <5>2. b = c + BlockSize /\ c \in Nat /\ c >= BlockSize
          BY <5>1
        <5> HIDE DEF b, c
        <5> QED BY <1>5, <5>2
      <4> HIDE DEF b, rest, e
      <4> QED BY <1>2, <1>5, <4>1, <4>2 DEF Enough
    <3>5. Library.size = Start[n] + BlockSize + e => Library.size - pos = rest
      <4> SUFFICES ASSUME Library.size = Start[n] + BlockSize + e
                   PROVE  Library.size - pos = rest
        OBVIOUS
      <4> DEFINE s == Start[n]
                 z == Library.size
      <4>1. s \in Nat /\ e \in Nat /\ pos \in Nat /\ left \in Nat /\ BlockSize \in Nat
        BY <1>2, <1>5
      <4>2. pos + left = s + BlockSize + BlockSize + e /\ z = s + BlockSize + e
        BY <3>2
      <4>3. rest = left - BlockSize
        BY <3>1
      <4> HIDE DEF s, e, rest, z
      <4>4. z - pos = rest
        BY <4>1, <4>2, <4>3
      <4> QED BY <4>4 DEF z
    <3>6. Start[n+1] <= Library.size \/ Library.size = Start[n] + BlockSize + e
      BY <1>1, <1>4, Room
    <3>7. /\ at' = "copy" /\ UNCHANGED <<status, why>>
          /\ (Enough(BlockSize) /\ pos' = pos + BlockSize)
                \/ (~Enough(BlockSize) /\ Library.size - pos = rest /\ pos' = Library.size)
      <4> HIDE DEF rest, e
      <4> QED BY <3>3, <3>4, <3>5, <3>6
    <3>8. pos' <= Library.size
      BY <1>2, <3>7 DEF Enough
    <3>9. left' <= BlockSize \/ pos' + left' = Start[n] + BlockSize + BlockSize + e
      <4>1. CASE Enough(BlockSize) /\ pos' = pos + BlockSize
        <5>1. pos' + left' = pos + left
          <6> HIDE DEF rest
          <6> QED BY <1>2, <1>5, <2>2, <3>1, <4>1
        <5> QED BY <3>2, <5>1
      <4>2. CASE ~Enough(BlockSize) /\ Library.size - pos = rest
        <5>1. rest <= BlockSize
          <6> HIDE DEF rest
          <6> QED BY <1>2, <1>5, <3>1, <4>2 DEF Enough
        <5> QED BY <2>2, <5>1
      <4> QED BY <3>7, <4>1, <4>2
    <3>10. (left <= BlockSize \/ pos + left = Start[n] + BlockSize + BlockSize + RealEOF(Entry))'
           /\ (pos <= Library.size)'
      BY <1>1, <1>3, <3>8, <3>9
    <3> QED BY <1>3, <1>4, <3>7, <3>10 DEF WellRead
  <2> QED BY <1>5, <2>4, <2>5
<1> QED BY <1>6, <1>7, <1>8

(* So many bytes are in their blocks, and the last block is needed.        *)
LEMMA BlocksHold ==
    ASSUME NEW x \in Nat
    PROVE  x <= BlockSize * Blocks(x) /\ BlockSize * Blocks(x) < x + BlockSize
<1> DEFINE b == BlockSize
           y == x + b - 1
           q == y \div b
<1>1. b \in Nat \ {0} /\ y \in Nat /\ Blocks(x) = q
  BY Sizes DEF Blocks
<1>2. b * q <= y /\ y < b * q + b /\ b * q \in Nat
  <2> HIDE DEF b, y
  <2>1. q \in Nat /\ b * q <= y /\ y < b * q + b
    BY <1>1
  <2>2. \A i, j \in Nat : i * j \in Nat
    OBVIOUS
  <2> QED BY <1>1, <2>1, <2>2
<1> DEFINE p == b * q
<1>3. p \in Nat /\ p <= x + b - 1 /\ x + b - 1 < p + b
  BY <1>2
<1> HIDE DEF p
<1>4. x <= p /\ p < x + b
  BY <1>1, <1>3
<1> QED BY <1>1, <1>4 DEF p, b

(* The squeezed entry it is at                                             *)
LEMMA SqueezedHere ==
    ASSUME InPlace, Positions, IsLibrary, Intact, at \in LibraryPlaces \ {"header"},
           IsSqueezed(Entry)
    PROVE  LET p == BlockSize * Blocks(RealEOF(Entry))
               total == Taken(Entry)[Len(Entry.sq) + 1]
           IN  /\ Start[n+1] <= Library.size
               /\ Entry.good /\ RealEOF(Entry) >= MinSqueezed
               /\ Len(Entry.sq) \in Nat \ {0} /\ Entry.sq[1] <= BlockSize
               /\ total \in Nat /\ total <= p /\ p < total + BlockSize
               /\ \A i \in 2 .. Len(Entry.sq) : Entry.sq[i] <= MinFill
<1>1. /\ n \in 1 .. Len(Library.entries) /\ Entry.sq \in Seq(Nat) /\ RealEOF(Entry) \in Nat
      /\ Entry \in LibraryEntry
  BY Here
<1>2. Start[n+1] <= Library.size
  BY Room
<1>3. Sound(Entry)
  BY <1>1 DEF Intact, Entry
<1>4. Entry.eof = RealEOF(Entry) /\ Entry.sq # <<>>
  BY DEF IsSqueezed, RealEOF
<1>5. /\ Entry.good /\ Entry.eof >= MinSqueezed /\ Entry.sq[1] <= BlockSize
      /\ Blocks(Taken(Entry)[Len(Entry.sq) + 1]) = Blocks(Entry.eof)
      /\ \A i \in 2 .. Len(Entry.sq) : Entry.sq[i] <= MinFill
  BY <1>3 DEF Sound
<1>6. Len(Entry.sq) \in Nat \ {0}
  <2> DEFINE q == Entry.sq
  <2>1. q \in Seq(Nat) /\ q # <<>>
    BY <1>1, <1>4
  <2> HIDE DEF q
  <2>2. Len(q) \in Nat \ {0}
    BY <2>1
  <2> QED BY <2>2 DEF q
<1> DEFINE total == Taken(Entry)[Len(Entry.sq) + 1]
<1>7. total \in Nat
  <2>1. Len(Entry.sq) + 1 \in 1 .. Len(Entry.sq) + 1
    BY <1>6
  <2> QED BY <1>1, <2>1, TakenFacts
<1>8. Blocks(total) = Blocks(RealEOF(Entry))
  BY <1>4, <1>5
<1> HIDE DEF total
<1>9. total <= BlockSize * Blocks(total) /\ BlockSize * Blocks(total) < total + BlockSize
  BY <1>7, BlocksHold
<1> QED BY <1>2, <1>4, <1>5, <1>6, <1>7, <1>8, <1>9 DEF total

(* The buffer is filled for the first time.                                *)
LEMMA StartWellRead ==
    ASSUME InPlace, Positions, WellRead, IsLibrary, StartUnSqueeze
    PROVE  WellRead'
<1> USE DEF GoTo, Fail, Over, call
<1>1. session' = session /\ n' = n /\ at \in LibraryPlaces \ {"header"} /\ at = "data"
      /\ IsSqueezed(Entry)
  BY DEF StartUnSqueeze, LibraryPlaces
<1>2. /\ n \in 1 .. Len(Library.entries) /\ Library.size \in Nat
      /\ pos \in Nat /\ RealEOF(Entry) \in Nat /\ Start[n] \in Nat /\ Start[n+1] \in Nat
      /\ Entry.sq \in Seq(Nat)
      /\ BlockSize * Blocks(RealEOF(Entry)) \in Nat
      /\ Start[n+1] = Start[n] + BlockSize + BlockSize * Blocks(RealEOF(Entry))
  BY <1>1, Here
<1>3. /\ IsLibrary' = IsLibrary /\ Library' = Library /\ Intact' = Intact
      /\ IsSqueezed(Entry)' = IsSqueezed(Entry) /\ Entry' = Entry /\ Taken(Entry)' = Taken(Entry)
      /\ (BlockSize * Blocks(RealEOF(Entry)))' = BlockSize * Blocks(RealEOF(Entry))
  BY <1>1, SameSession, SameIntact, SameTaken, SameEntry
<1>4. SUFFICES ASSUME Intact PROVE WellRead'
  BY <1>3 DEF WellRead
<1>5. /\ BlockSize \in Nat \ {0} /\ SqBufferSize \in Nat \ {0} /\ BlockSize <= SqBufferSize
  BY Sizes
<1> DEFINE e == RealEOF(Entry)
           p == BlockSize * Blocks(e)
           total == Blocks(e) * BlockSize
           get == Min({total, SqBufferSize})
<1>6. /\ Start[n+1] <= Library.size /\ e >= MinSqueezed /\ Len(Entry.sq) \in Nat \ {0}
      /\ Entry.sq[1] <= BlockSize
  BY <1>1, <1>4, SqueezedHere
<1>7. pos = Start[n] + BlockSize + BlockSize
  <2>1. pos = Start[n] + BlockSize + FirstBlock
    BY <1>1 DEF Positions
  <2>2. FirstBlock = BlockSize
    BY <1>1, <1>2 DEF FirstBlock, IsSqueezed
  <2> QED BY <2>1, <2>2
<1>8. total = p /\ total \in Nat /\ total >= BlockSize
  <2>1. Blocks(e) \in Nat /\ Blocks(e) >= 1
    BY <1>1, <1>2, BlocksFacts DEF IsSqueezed
  <2>2. \A x, y \in Nat : y >= 1 => y * x = x * y /\ y * x \in Nat /\ y * x >= x
    <3> SUFFICES ASSUME NEW x \in Nat, NEW y \in Nat, y >= 1
                 PROVE  y * x = x * y /\ y * x \in Nat /\ y * x >= x
      OBVIOUS
    <3>1. PICK z \in Nat : y = z + 1
      <4>1. y - 1 \in Nat /\ y = (y - 1) + 1  OBVIOUS
      <4> QED BY <4>1
    <3>2. (z + 1) * x = z * x + x /\ z * x \in Nat
      OBVIOUS
    <3> QED BY <3>1, <3>2
  <2> HIDE DEF e
  <2> QED BY <1>5, <2>1, <2>2
<1>9. Start[n+1] = Start[n] + BlockSize + total
  BY <1>2, <1>8
<1> HIDE DEF total
<1>10. get \in Nat /\ get <= SqBufferSize /\ get <= total /\ get >= BlockSize
  <2>1. get = IF total <= SqBufferSize THEN total ELSE SqBufferSize
    <3>1. total \in Int /\ SqBufferSize \in Int
      BY <1>5, <1>8
    <3> QED BY <3>1, MinOfTwo
  <2> HIDE DEF get
  <2> QED BY <1>5, <1>8, <2>1
<1> HIDE DEF get
<1>11. pos + get - BlockSize <= Library.size /\ pos + (get - BlockSize) <= Library.size
  <2> DEFINE s == Start[n]
             z == Library.size
  <2>1. s \in Nat /\ z \in Nat /\ pos = s + BlockSize + BlockSize /\ s + BlockSize + total <= z
    BY <1>2, <1>6, <1>7, <1>9
  <2> HIDE DEF s, z
  <2>2. pos + get - BlockSize <= z /\ pos + (get - BlockSize) <= z
    BY <1>5, <1>8, <1>10, <2>1
  <2> QED BY <2>2 DEF z
<1>12. Entry.sq[1] \in Nat /\ ~(Entry.sq[1] > get)
  <2>1. 1 \in 1 .. Len(Entry.sq)
    BY <1>6
  <2>2. Entry.sq[1] \in Nat
    BY <1>2, <2>1
  <2> QED BY <1>5, <1>6, <1>10, <2>2
<1>13. /\ at' = "unsqueeze" /\ UNCHANGED <<status, why>>
       /\ pos' = pos + get - BlockSize /\ comp' = total - get
       /\ inBuf' = get - Entry.sq[1] /\ sym' = 1
  <2>1. ~(e < MinSqueezed)
    <3>1. MinSqueezed \in Nat
      BY Binary2Assumption
    <3> QED BY <1>2, <1>6, <3>1
  <2>2. Enough(get - BlockSize)
    BY <1>11 DEF Enough
  <2> QED BY <1>12, <2>1, <2>2 DEF StartUnSqueeze, total, get
<1>14. sym' \in 1 .. Len(Entry.sq)
  BY <1>6, <1>13
<1>15. inBuf' + comp' + Taken(Entry)[sym' + 1] = p
  <2>1. Taken(Entry)[1] = 0 /\ Taken(Entry)[1+1] = Taken(Entry)[1] + Entry.sq[1]
    <3>1. 1 \in 1 .. Len(Entry.sq)
      BY <1>6
    <3> QED BY <1>2, <3>1, TakenFacts
  <2> DEFINE x == Entry.sq[1]
  <2>2. Taken(Entry)[sym' + 1] = x
    BY <1>12, <1>13, <2>1
  <2>3. x \in Nat /\ inBuf' = get - x /\ comp' = total - get
    BY <1>12, <1>13
  <2> HIDE DEF x, p
  <2>4. (get - x) + (total - get) + x = total
    BY <1>8, <1>10, <2>3
  <2> QED BY <1>8, <2>2, <2>3, <2>4
<1>16. (/\ IsSqueezed(Entry) /\ sym \in 1 .. Len(Entry.sq)
        /\ inBuf + comp + Taken(Entry)[sym + 1] = BlockSize * Blocks(RealEOF(Entry)))'
  BY <1>1, <1>3, <1>14, <1>15
<1>17. (pos <= Library.size)'
  BY <1>3, <1>11, <1>13
<1> QED BY <1>3, <1>4, <1>13, <1>16, <1>17 DEF WellRead

(* The buffer is filled again, a symbol decoded, or the entry ended: with  *)
(* MinFill bytes there, or all of the rest, no code is cut off.            *)
LEMMA UnSqueezeWellRead ==
    ASSUME InPlace, Positions, Counters, WellRead, IsLibrary,
           Refill \/ DecodeSymbol \/ EndUnSqueeze
    PROVE  WellRead'
<1> USE DEF GoTo, Fail, Over, call
<1>1. session' = session /\ n' = n /\ at \in LibraryPlaces \ {"header"} /\ at = "unsqueeze"
  BY DEF Refill, DecodeSymbol, EndUnSqueeze, LibraryPlaces
<1>2. /\ Library.size \in Nat /\ pos \in Nat /\ Start[n+1] \in Nat /\ Entry.sq \in Seq(Nat)
      /\ BlockSize * Blocks(RealEOF(Entry)) \in Nat
  BY <1>1, Here
<1>3. /\ IsLibrary' = IsLibrary /\ Library' = Library /\ Intact' = Intact
      /\ IsSqueezed(Entry)' = IsSqueezed(Entry) /\ Entry' = Entry /\ Taken(Entry)' = Taken(Entry)
      /\ (BlockSize * Blocks(RealEOF(Entry)))' = BlockSize * Blocks(RealEOF(Entry))
  BY <1>1, SameSession, SameIntact, SameTaken, SameEntry
<1>4. SUFFICES ASSUME Intact PROVE WellRead'
  BY <1>3 DEF WellRead
<1>5. /\ BlockSize \in Nat \ {0} /\ SqBufferSize \in Nat \ {0} /\ BlockSize <= SqBufferSize
      /\ MinFill \in Nat /\ inBuf \in 0 .. SqBufferSize /\ comp \in Nat
  BY Sizes DEF Counters
<1> DEFINE p == BlockSize * Blocks(RealEOF(Entry))
           m == Len(Entry.sq)
           taken == Taken(Entry)
<1>6. IsSqueezed(Entry) /\ sym \in 1 .. m /\ inBuf + comp + taken[sym + 1] = p
  BY <1>1, <1>4 DEF WellRead
<1>7. /\ Start[n+1] <= Library.size /\ Entry.good /\ m \in Nat \ {0}
      /\ taken[m + 1] \in Nat /\ taken[m + 1] <= p /\ p < taken[m + 1] + BlockSize
      /\ \A i \in 2 .. m : Entry.sq[i] <= MinFill
  BY <1>1, <1>4, <1>6, SqueezedHere
<1>8. pos + comp = Start[n+1]
  BY <1>1 DEF Positions
<1>9. ASSUME NEW g \in Nat, g <= comp PROVE Enough(g) /\ pos + g <= Library.size
  <2> DEFINE s == Start[n+1]
             z == Library.size
  <2>1. s \in Nat /\ z \in Nat /\ pos + comp = s /\ s <= z /\ pos \in Nat /\ comp \in Nat
    BY <1>2, <1>5, <1>7, <1>8
  <2> HIDE DEF s, z
  <2>2. pos + g <= z
    BY <1>9, <2>1
  <2> QED BY <2>2 DEF z, Enough
<1>10. sym + 1 \in 1 .. m + 1 /\ taken[sym + 1] \in Nat
  <2>1. sym + 1 \in 1 .. m + 1
    BY <1>6, <1>7
  <2> QED BY <1>2, <2>1, TakenFacts
<1>11. CASE Refill
  <2> DEFINE get == Min({SqBufferSize - inBuf, comp})
  <2>1. get \in Nat /\ get <= comp
    <3>1. get = IF SqBufferSize - inBuf <= comp THEN SqBufferSize - inBuf ELSE comp
      <4>1. SqBufferSize - inBuf \in Int /\ comp \in Int
        BY <1>5
      <4> QED BY <4>1, MinOfTwo
    <3> HIDE DEF get
    <3> QED BY <1>5, <3>1
  <2> HIDE DEF get
  <2>2. Enough(get) /\ pos + get <= Library.size
    BY <1>9, <2>1
  <2>3. /\ at' = "unsqueeze" /\ UNCHANGED <<status, why, sym>>
        /\ pos' = pos + get /\ inBuf' = inBuf + get /\ comp' = comp - get
    BY <1>1, <1>11, <2>2 DEF Refill, get
  <2>4. inBuf' + comp' + taken[sym + 1] = p
    <3> DEFINE x == taken[sym + 1]
    <3>1. x \in Nat /\ inBuf + comp + x = p /\ p \in Nat /\ inBuf \in Nat
      BY <1>2, <1>5, <1>6, <1>10
    <3> HIDE DEF x, p
    <3>2. inBuf' + comp' + x = p
      BY <1>5, <2>1, <2>3, <3>1
    <3> QED BY <3>2 DEF x
  <2>5. (/\ IsSqueezed(Entry) /\ sym \in 1 .. Len(Entry.sq)
         /\ inBuf + comp + Taken(Entry)[sym + 1] = BlockSize * Blocks(RealEOF(Entry)))'
    BY <1>3, <1>6, <2>3, <2>4
  <2>6. (pos <= Library.size)'
    BY <1>3, <2>2, <2>3
  <2> QED BY <1>3, <1>4, <2>3, <2>5, <2>6 DEF WellRead
<1>12. CASE DecodeSymbol
  <2> DEFINE bytes == Entry.sq[sym + 1]
  <2>1. sym < m /\ ~(inBuf < MinFill /\ comp > 0)
    BY <1>12 DEF DecodeSymbol, Runs
  <2>2. sym + 1 \in 2 .. m /\ sym + 1 \in 1 .. m /\ (sym + 1) + 1 \in 1 .. m + 1
    BY <1>6, <1>7, <2>1
  <2>3. bytes \in Nat /\ bytes <= MinFill
    <3> DEFINE codes == Entry.sq
               k == sym + 1
    <3>1. codes[k] \in Nat
      <4>1. codes \in Seq(Nat) /\ k \in 1 .. Len(codes)
        BY <1>2, <2>2
      <4> HIDE DEF codes, k
      <4> QED BY <4>1
    <3>2. Entry.sq[sym + 1] <= MinFill
      BY <1>7, <2>2
    <3> QED BY <3>1, <3>2
  <2>4. taken[(sym + 1) + 1] = taken[sym + 1] + bytes /\ taken[(sym + 1) + 1] <= taken[m + 1]
        /\ taken[(sym + 1) + 1] \in Nat
    BY <1>2, <2>2, TakenFacts, TakenGrows
  (* With nothing to come, all the symbols left are in the buffer.         *)
  <2>5. ~(bytes > inBuf)
    <3>1. CASE inBuf >= MinFill
      BY <1>5, <2>3, <3>1
    <3>2. CASE comp = 0
      <4> DEFINE x == taken[sym + 1]
                 y == taken[m + 1]
      <4>1. x \in Nat /\ y \in Nat /\ x + bytes <= y /\ y <= p /\ inBuf + comp + x = p /\ p \in Nat
        BY <1>2, <1>6, <1>7, <1>10, <2>4
      <4> HIDE DEF x, y, p, bytes
      <4> QED BY <1>5, <2>3, <3>2, <4>1
    <3> QED BY <1>5, <2>1, <3>1, <3>2
  <2>6. /\ at' = "unsqueeze" /\ UNCHANGED <<status, why, pos, comp>>
        /\ inBuf' = inBuf - bytes /\ sym' = sym + 1
    BY <1>1, <1>12, <2>5 DEF DecodeSymbol
  <2>7. inBuf' + comp' + taken[sym' + 1] = p
    <3> DEFINE x == taken[sym + 1]
    <3>1. x \in Nat /\ inBuf + comp + x = p /\ p \in Nat /\ inBuf \in Nat
      BY <1>2, <1>5, <1>6, <1>10
    <3>2. taken[sym' + 1] = x + bytes
      BY <2>4, <2>6
    <3> HIDE DEF x, p, bytes
    <3> QED BY <1>5, <2>3, <2>6, <3>1, <3>2
  <2>8. (/\ IsSqueezed(Entry) /\ sym \in 1 .. Len(Entry.sq)
         /\ inBuf + comp + Taken(Entry)[sym + 1] = BlockSize * Blocks(RealEOF(Entry)))'
    BY <1>3, <1>6, <2>2, <2>6, <2>7
  <2>9. (pos <= Library.size)'
    <3>1. 0 \in Nat /\ 0 <= comp /\ pos + 0 = pos
      BY <1>2, <1>5
    <3>2. pos <= Library.size
      BY <1>9, <3>1
    <3> QED BY <1>3, <2>6, <3>2
  <2> QED BY <1>3, <1>4, <2>6, <2>8, <2>9 DEF WellRead
<1>13. CASE EndUnSqueeze
  <2>1. sym = m
    BY <1>13 DEF EndUnSqueeze
  <2>2. ~(comp > SqBufferSize)
    <3> DEFINE y == taken[m + 1]
    <3>1. y \in Nat /\ inBuf + comp + y = p /\ p < y + BlockSize /\ p \in Nat
      BY <1>2, <1>6, <1>7, <2>1
    <3> HIDE DEF y, p
    <3> QED BY <1>5, <3>1
  <2>3. Enough(comp) /\ pos + comp <= Library.size
    <3>1. comp \in Nat /\ comp <= comp
      BY <1>5
    <3> QED BY <1>9, <3>1
  <2>4. at' = "pass" /\ consumed' /\ UNCHANGED <<status, why>> /\ pos' = pos + comp
    BY <1>7, <1>13, <2>2, <2>3 DEF EndUnSqueeze, Complete
  <2>5. (pos <= Library.size)'
    BY <1>3, <2>3, <2>4
  <2> QED BY <1>3, <1>4, <2>4, <2>5 DEF WellRead
<1> QED BY <1>11, <1>12, <1>13

(* The step of everything that can happen                                  *)
LEMMA NextWellRead == InPlace /\ Positions /\ Counters /\ WellRead /\ [Next]_vars => WellRead'
<1> SUFFICES ASSUME InPlace, Positions, Counters, WellRead, [Next]_vars PROVE WellRead'
  OBVIOUS
<1>1. CASE BNYNext
  <2>1. IsLibrary
    BY <1>1, LibraryFacts
  <2> QED
    BY <1>1, <2>1, HeaderWellRead, EntryWellRead, PassWellRead, CopyWellRead, StartWellRead,
       UnSqueezeWellRead DEF BNYNext
<1>2. CASE ArchiveStep
  <2>1. session' = session
    BY <1>2 DEF ArchiveStep, NuFXBegin, NextRecord, EndRecords, NextFork, EndForks,
                OutputPathnameFilter, Check, Replace, Keep, Quit, Rename, call
  <2>2. ~IsLibrary
    BY <1>2 DEF ArchiveStep, NuFXBegin, NextRecord, EndRecords, NextFork, EndForks,
                OutputPathnameFilter, Check, Replace, Keep, Quit, Rename, InPlace, ArchivePlaces
  <2> QED BY <2>1, <2>2, SameSession DEF WellRead
<1>3. CASE Writing
  <2>1. UNCHANGED <<session, at, status, why>> /\ at = "over"
    BY <1>3, WritingReads, WritingInPlace DEF readVars
  <2> QED BY <2>1, QuietWellRead
<1>4. CASE UNCHANGED vars
  <2>1. UNCHANGED <<session, at, status, why, n, pos, consumed, blocks>>
    BY <1>4 DEF vars, bnyVars
  <2>2. /\ IsLibrary' = IsLibrary /\ Library' = Library /\ Start' = Start /\ Intact' = Intact
        /\ Entry' = Entry
    BY <2>1, SameEntry, SameIntact
  <2>3. /\ Taken(Entry)' = Taken(Entry) /\ IsSqueezed(Entry)' = IsSqueezed(Entry)
        /\ RealEOF(Entry)' = RealEOF(Entry)
        /\ (BlockSize * Blocks(RealEOF(Entry)))' = BlockSize * Blocks(RealEOF(Entry))
        /\ NameIsSpecified(Entry.name)' = NameIsSpecified(Entry.name)
    BY <2>1, SameTaken
  <2>4. UNCHANGED <<left, inBuf, comp, sym>>
    BY <2>1 DEF blocks
  <2> QED BY <2>1, <2>2, <2>3, <2>4 DEF WellRead
<1> QED BY <1>1, <1>2, <1>3, <1>4, NextParts

(* A library with nothing wrong with it is read to its end, whatever the   *)
(* command and however long its entries and their codes are.               *)
THEOREM IntactIsRead == Spec => []IntactReads
<1>1. WellRead => IntactReads
  BY DEF WellRead, IntactReads
<1>2. Spec => []WellRead
  BY InitWellRead, NextWellRead, AlwaysInPlace, AlwaysPositions, PTL DEF Spec
<1> QED BY <1>1, <1>2, PTL
=============================================================================
