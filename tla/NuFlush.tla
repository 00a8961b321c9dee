------------------------------ MODULE NuFlush ------------------------------
(***************************************************************************)
(* Nu_Flush taken apart: the twelve steps of Deferred.c:2122-2534 with the *)
(* archive file and the temp file, every point where the system can fail,  *)
(* the user can skip or the process can die, and the two ways out of a     *)
(* failure: abort, or lock the archive read-only.                          *)
(*                                                                         *)
(* A file is a function from position to cell.  A cell is a wrapper        *)
(* (leading junk, Binary II or SEA header), a master header, or a record   *)
(* with its threads; each takes one position.  What byte lengths do to the *)
(* layout is left out; what positions do (headerOffset, mhMasterEOF,       *)
(* fileOffset) is kept.  A write is one step and reaches the file: what    *)
(* stdio still buffers when the process dies is left out.  ftruncate is    *)
(* taken to work.  Values are set between calls, not from callbacks.       *)
(***************************************************************************)
EXTENDS NuArchive

CONSTANTS
    Wrappers,       \* SUBSET {0, 1}: positions a wrapper may take up
    Discards        \* settings of DiscardWrapper

ASSUME FlushAssumption ==
    /\ Wrappers \subseteq {0, 1}
    /\ Discards \subseteq BOOLEAN

VARIABLES
    pc,             \* where Nu_Flush is, "idle" outside of it
    fl,             \* its locals, and what was pending when it began
    flags,          \* the kNuFlush* status flags, if the last call was a flush
    arch,           \* the file at archivePathname
    temp,           \* the file at tmpPathname
    fp,             \* archiveFp and tmpFp, and whether the paths are known
    hoff,           \* headerOffset
    mh,             \* masterHeader: count of records, and EOF
    offs,           \* fileOffset of the records of orig
    created,        \* newlyCreated
    stale           \* a failed flush left memory and file at odds (a history
                    \* variable, for the properties: see Abort and Lock)

fileVars  == <<arch, temp, fp, hoff, mh, offs, created, stale>>
flushVars == <<pc, fl, flags, fileVars>>
allVars   == <<vars, flushVars>>

-----------------------------------------------------------------------------
(* Files *)

Wrap        == [kind |-> "wrap"]
Hole        == [kind |-> "hole"]
Torn        == [kind |-> "torn"]
Head(n, e)  == [kind |-> "head", count |-> n, eof |-> e]
RecCell(r)  == [kind |-> "rec", rec |-> Stored(r)]

NoFile      == [p \in {0} |-> [kind |-> "none"]]
EmptyFile   == [p \in {} |-> Hole]

Put(f, p, cell) == [q \in DOMAIN f \cup {p} |-> IF q = p THEN cell ELSE f[q]]
Truncate(f, n)  == Restrict(f, {p \in DOMAIN f : p < n})
Length(f)       == Cardinality(DOMAIN f)

(* What orig becomes once a flush is through: copy, or else orig, and new  *)
Merged == [i \in DOMAIN Cur \cup DOMAIN new |->
              IF i \in DOMAIN new THEN new[i] ELSE Cur[i]]

(* Position of a record in the list it is in *)
Rank(i, S) == Cardinality({j \in DOMAIN S : j <= i})

(* Opening the file would find exactly the records of S. *)
Holds(f, S) ==
    LET h == IF 0 \in DOMAIN f /\ f[0] = Wrap THEN 1 ELSE 0
        n == Cardinality(DOMAIN S)
    IN  /\ h \in DOMAIN f /\ f[h] = Head(n, n + 1)
        /\ \A i \in DOMAIN S : /\ h + Rank(i, S) \in DOMAIN f
                               /\ f[h + Rank(i, S)] = RecCell(S[i])

FileOf(S, w) ==
    [p \in 0 .. (w + Cardinality(DOMAIN S)) |->
        IF p < w THEN Wrap
        ELSE IF p = w THEN Head(Cardinality(DOMAIN S), Cardinality(DOMAIN S) + 1)
        ELSE RecCell(S[CHOOSE i \in DOMAIN S : w + Rank(i, S) = p])]

-----------------------------------------------------------------------------
(* Between flushes *)

Idle    == pc = "idle"
InFlush == pc \notin {"idle", "closed", "crashed", "abend"}

NoFlush == [toTemp |-> FALSE]

(* Nu_OpenRW: an empty archive is a file just created *)
FInit ==
    /\ Init
    /\ pc = "idle" /\ fl = NoFlush /\ flags = {}
    /\ created = (DOMAIN orig = {})
    /\ hoff \in IF created THEN {0} ELSE Wrappers
    /\ arch = IF created THEN EmptyFile ELSE FileOf(orig, hoff)
    /\ temp = EmptyFile
    /\ fp = [arch |-> TRUE, tmp |-> TRUE, known |-> TRUE]
    /\ mh = [count |-> Cardinality(DOMAIN orig),
             eof   |-> Cardinality(DOMAIN orig) + 1]
    /\ offs = [i \in DOMAIN orig |-> hoff + Rank(i, orig)]
    /\ stale = FALSE

EditStep ==
    /\ Idle
    /\ EditCall
    /\ flags' = {}
    /\ UNCHANGED <<pc, fl, fileVars>>

(* The copy and new sets thrown out *)
DropSets == copy' = EmptyMap /\ copyLoaded' = FALSE /\ new' = EmptyMap

(* Nu_Abort, and a flush that cannot measure the archive file *)
GiveUp ==
    /\ Idle /\ mode = "RW"
    /\ DropSets
    /\ temp' = EmptyFile
    /\ result' = "aborted"
    /\ flags' \in {{}, {"Aborted"}}
    /\ UNCHANGED <<orig, nextIdx, mode, edits, pc, fl, arch, fp, hoff, mh, offs,
                   created, stale>>

(* Nu_Close after its flush, which found nothing to do or succeeded;       *)
(* Nu_CloseAndFree.  Entry.c lets no call through while a file whose name  *)
(* is known is not open.                                                   *)
Close ==
    /\ Idle
    /\ mode = "RO" \/ result = "flushed"
    /\ fp.known => fp.arch /\ fp.tmp
    /\ pc' = "closed"
    /\ temp' = IF fp.tmp THEN NoFile ELSE temp
    /\ arch' = IF created /\ DOMAIN orig = {} /\ fp.known THEN NoFile ELSE arch
    /\ fp' = [fp EXCEPT !.arch = FALSE, !.tmp = FALSE]
    /\ UNCHANGED <<vars, fl, flags, hoff, mh, offs, created, stale>>

-----------------------------------------------------------------------------
(* The flush *)

(* Steps 1 and 2 finding nothing to do: straight to step 12 *)
BeginNothing ==
    /\ Idle /\ mode = "RW" /\ ~Pending
    /\ pc' = "reset"
    /\ fl' = [toTemp |-> TRUE, deleteAll |-> FALSE,
              before |-> [orig |-> orig, copy |-> copy, loaded |-> copyLoaded,
                          new |-> new, nextIdx |-> nextIdx, result |-> result]]
    /\ flags' = {}
    /\ UNCHANGED <<vars, fileVars>>

(* Steps 1 to 4: drop an untouched copy set, purge empty records, add the  *)
(* comment GS/ShrinkIt would, and choose between the temp file and the     *)
(* archive itself.  With a temp file, the discarded wrapper is forgotten   *)
(* at once.                                                                *)
Begin ==
    /\ Idle /\ mode = "RW" /\ Pending
    /\ \E modifyOrig \in Styles, discard \in Discards, mimic \in Mimics :
          LET toTemp == ~(modifyOrig /\ NoHeavyUpdates)
              fresh  == Fresh(mimic)
              newOff == IF toTemp /\ discard THEN 0 ELSE hoff
          IN  /\ new' = fresh
              /\ nextIdx' = IF fresh = NewRecords THEN nextIdx ELSE nextIdx + 1
              /\ hoff' = newOff
              /\ temp' = IF toTemp THEN [p \in 0 .. newOff |-> Hole] ELSE temp
              /\ fl' = [toTemp    |-> toTemp,
                        discard   |-> toTemp /\ discard,
                        canAbort  |-> toTemp \/ ~Touched,
                        deleteAll |-> AllDeleted,
                        todo      |-> IF toTemp THEN DOMAIN OldRecords
                                      ELSE {i \in DOMAIN OldRecords :
                                                Modified(OldRecords[i])},
                        at        |-> newOff + 1,
                        len0      |-> Length(arch),
                        head      |-> mh,
                        off       |-> Restrict(offs, DOMAIN OldRecords),
                        before    |-> [orig |-> orig, copy |-> copy,
                                       loaded |-> copyLoaded, new |-> new,
                                       nextIdx |-> nextIdx, result |-> result,
                                       hoff |-> hoff, offs |-> offs]]
    /\ copyLoaded' = Touched
    /\ copy' = IF Touched THEN OldRecords ELSE EmptyMap
    /\ pc' = "old"
    /\ flags' = {}
    /\ UNCHANGED <<orig, mode, result, edits, arch, fp, mh, offs, created, stale>>

(* The record the walk over copy, orig or new has come to *)
AtRecord(i) == IsFirst(i, fl.todo)

(* What a rebuilt or updated record looks like in the file.  Threads that  *)
(* were not replaced are carried over from where fileOffset says they are. *)
Carry(i, after) ==
    IF offs[i] \in DOMAIN arch /\ arch[offs[i]] = RecCell(orig[i])
      THEN RecCell(after) ELSE Torn

(* Record i written to position fl.at of the temp file *)
WriteTemp(i, cell) ==
    /\ temp' = Put(temp, fl.at, cell)
    /\ fl' = [fl EXCEPT !.todo = @ \ {i}, !.at = @ + 1,
                        !.off = With(@, i, fl.at)]

(* Mutant of CopyOld: reads from the position it is about to write. *)
CopyOldUnmoved(i) ==
    /\ pc = "old" /\ fl.toTemp /\ AtRecord(i)
    /\ ~Modified(Cur[i])
    /\ fl.at \in DOMAIN arch
    /\ WriteTemp(i, arch[fl.at])
    /\ offs' = IF copyLoaded THEN offs ELSE [offs EXCEPT ![i] = fl.at]
    /\ UNCHANGED <<vars, pc, flags, arch, fp, hoff, mh, created, stale>>

(* Step 5b, Nu_CopyArchiveRecord: an unmodified record.  When there is no  *)
(* copy set the record walked over is the one in orig.                     *)
CopyOld(i) ==
    /\ pc = "old" /\ fl.toTemp /\ AtRecord(i)
    /\ ~Modified(Cur[i])
    /\ fl.off[i] \in DOMAIN arch
    /\ WriteTemp(i, arch[fl.off[i]])
    /\ offs' = IF copyLoaded THEN offs ELSE [offs EXCEPT ![i] = fl.at]
    /\ UNCHANGED <<vars, pc, flags, arch, fp, hoff, mh, created, stale>>

(* Step 5b, Nu_ConstructArchiveRecord *)
BuildOld(i) ==
    /\ pc = "old" /\ fl.toTemp /\ AtRecord(i)
    /\ Modified(Cur[i]) /\ OneFilename(Cur[i])
    /\ copy' = [copy EXCEPT ![i] = Applied(@, @.mods)]
    /\ WriteTemp(i, Carry(i, copy'[i]))
    /\ UNCHANGED <<orig, copyLoaded, new, nextIdx, mode, result, edits, pc,
                   flags, arch, fp, hoff, mh, offs, created, stale>>

(* Mutant of SkipOld: the record stays in the copy set as it was. *)
SkipOldUnreplaced(i) ==
    /\ pc = "old" /\ fl.toTemp /\ AtRecord(i)
    /\ \E m \in Cur[i].mods : m.kind = "add" /\ m.src = "file"
    /\ offs[i] \in DOMAIN arch
    /\ WriteTemp(i, arch[offs[i]])
    /\ UNCHANGED <<vars, pc, flags, arch, fp, hoff, mh, offs, created, stale>>

(* An add that cannot open its file and is skipped: the temp file is wound *)
(* back and the original record copied (Nu_RecordSet_ReplaceRecord).       *)
SkipOld(i) ==
    /\ pc = "old" /\ fl.toTemp /\ AtRecord(i)
    /\ \E m \in Cur[i].mods : m.kind = "add" /\ m.src = "file"
    /\ copy' = [copy EXCEPT ![i] = orig[i]]
    /\ offs[i] \in DOMAIN arch
    /\ WriteTemp(i, arch[offs[i]])
    /\ UNCHANGED <<orig, copyLoaded, new, nextIdx, mode, result, edits, pc,
                   flags, arch, fp, hoff, mh, offs, created, stale>>

(* Step 5a, Nu_UpdateRecordInOriginal.  An update whose file cannot be     *)
(* opened and is skipped leaves its thread alone and the others go ahead.  *)
UpdateOld(i) ==
    /\ pc = "old" /\ ~fl.toTemp /\ AtRecord(i)
    /\ \E skip \in SUBSET FileMods(Restrict(copy, {i})) :
          copy' = [copy EXCEPT ![i] = Applied(@, @.mods \ skip)]
    /\ arch' = Put(arch, offs[i], Carry(i, copy'[i]))
    /\ fl' = [fl EXCEPT !.todo = @ \ {i}]
    /\ UNCHANGED <<orig, copyLoaded, new, nextIdx, mode, result, edits, pc,
                   flags, temp, fp, hoff, mh, offs, created, stale>>

(* Assertions that fail while records are rebuilt into the temp file: two  *)
(* filename threads (Deferred.c:723, 1166), and a skipped update, which    *)
(* leaves the file short of where the thread headers put its end           *)
(* (Deferred.c:1179-1186).                                                 *)
Abend(i) ==
    /\ pc = "old" /\ fl.toTemp /\ AtRecord(i)
    /\ \/ ~OneFilename(Cur[i])
       \/ \E m \in Cur[i].mods : m.kind = "update" /\ m.src = "file"
    /\ pc' = "abend"
    /\ UNCHANGED <<vars, fl, flags, fileVars>>

(* Mutant of OldDone: the walk has no exit for a set without records. *)
OldDoneNotEmpty ==
    /\ pc = "old" /\ fl.todo = {} /\ DOMAIN Cur # {}
    /\ fl' = [fl EXCEPT !.todo = DOMAIN new,
                        !.at = IF fl.toTemp THEN @ ELSE hoff + mh.eof]
    /\ pc' = "new"
    /\ UNCHANGED <<vars, flags, fileVars>>

(* End of step 5, leaving the file at its end: in place, that is where the *)
(* master header in memory says the archive ends.                          *)
OldDone ==
    /\ pc = "old" /\ fl.todo = {}
    /\ fl' = [fl EXCEPT !.todo = DOMAIN new,
                        !.at = IF fl.toTemp THEN @ ELSE hoff + mh.eof]
    /\ pc' = "new"
    /\ UNCHANGED <<vars, flags, fileVars>>

(* A cell written to whichever file the flush is writing *)
Write(p, cell) ==
    IF fl.toTemp THEN temp' = Put(temp, p, cell) /\ UNCHANGED arch
                 ELSE arch' = Put(arch, p, cell) /\ UNCHANGED temp

(* Step 6, Nu_ConstructNewRecord *)
BuildNew(i) ==
    /\ pc = "new" /\ AtRecord(i)
    /\ new' = [new EXCEPT ![i] = Constructed(@, i)]
    /\ Write(fl.at, RecCell(new'[i]))
    /\ fl' = [fl EXCEPT !.todo = @ \ {i}, !.at = @ + 1,
                        !.off = With(@, i, fl.at)]
    /\ UNCHANGED <<orig, copy, copyLoaded, nextIdx, mode, result, edits, pc,
                   flags, fp, hoff, mh, offs, created, stale>>

(* A skipped new record leaves the new set, and junk where it started.     *)
SkipNew(i) ==
    /\ pc = "new" /\ AtRecord(i)
    /\ \E m \in new[i].mods : m.src = "file"
    /\ new' = Without(new, {i})
    /\ Write(fl.at, Torn)
    /\ fl' = [fl EXCEPT !.todo = @ \ {i}]
    /\ UNCHANGED <<orig, copy, copyLoaded, nextIdx, mode, result, edits, pc,
                   flags, fp, hoff, mh, offs, created, stale>>

(* Mutant of WriteHeader: the wrapper counts towards mhMasterEOF. *)
WriteHeaderFromZero ==
    /\ pc = "new" /\ fl.todo = {}
    /\ LET n == Cardinality(DOMAIN Cur) + Cardinality(DOMAIN new)
       IN  /\ fl' = [fl EXCEPT !.head = [count |-> n, eof |-> fl.at]]
           /\ IF fl.toTemp
                THEN /\ temp' = Put(Truncate(temp, fl.at), hoff, Head(n, fl.at))
                     /\ UNCHANGED arch
                ELSE /\ arch' = Put(Truncate(arch, fl.at), hoff, Head(n, fl.at))
                     /\ UNCHANGED temp
    /\ pc' = "wrap"
    /\ UNCHANGED <<vars, flags, fp, hoff, mh, offs, created, stale>>

(* Mutant of WriteHeader: the header goes to the archive in either case. *)
WriteHeaderInPlace ==
    /\ pc = "new" /\ fl.todo = {}
    /\ LET n == Cardinality(DOMAIN Cur) + Cardinality(DOMAIN new)
           e == fl.at - hoff
       IN  /\ fl' = [fl EXCEPT !.head = [count |-> n, eof |-> e]]
           /\ arch' = Put(Truncate(arch, fl.at), hoff, Head(n, e))
    /\ pc' = "wrap"
    /\ UNCHANGED <<vars, flags, temp, fp, hoff, mh, offs, created, stale>>

(* Steps 7 and 8: truncate, and write the master header over the hole or   *)
(* over the old one (Nu_UpdateMasterHeader).                               *)
WriteHeader ==
    /\ pc = "new" /\ fl.todo = {}
    /\ LET n == Cardinality(DOMAIN Cur) + Cardinality(DOMAIN new)
           e == fl.at - hoff
       IN  /\ fl' = [fl EXCEPT !.head = [count |-> n, eof |-> e]]
           /\ IF fl.toTemp
                THEN /\ temp' = Put(Truncate(temp, fl.at), hoff, Head(n, e))
                     /\ UNCHANGED arch
                ELSE /\ arch' = Put(Truncate(arch, fl.at), hoff, Head(n, e))
                     /\ UNCHANGED temp
    /\ pc' = "wrap"
    /\ UNCHANGED <<vars, flags, fp, hoff, mh, offs, created, stale>>

(* Step 9: carry the wrapper over to the temp file.  (In place it stays    *)
(* where it is; its length fields are not modelled.)                       *)
CarryWrapper ==
    /\ pc = "wrap"
    /\ temp' = IF fl.toTemp /\ hoff > 0 /\ ~fl.discard
                 THEN Put(temp, 0, arch[0]) ELSE temp
    /\ pc' = IF fl.toTemp THEN "delete" ELSE "sync"
    /\ UNCHANGED <<vars, fl, flags, arch, fp, hoff, mh, offs, created, stale>>

(* Step 10, in place: the last buffers out *)
Sync ==
    /\ pc = "sync"
    /\ fl' = [fl EXCEPT !.canAbort = FALSE]
    /\ flags' = flags \cup {"Succeeded"}
    /\ pc' = "commit"
    /\ UNCHANGED <<vars, fileVars>>

(* Step 10, through the temp file: the archive closed and unlinked, the    *)
(* temp file closed, renamed, and opened again as the archive.             *)
DeleteArchive ==
    /\ pc = "delete"
    /\ fl' = [fl EXCEPT !.canAbort = FALSE]
    /\ flags' = flags \cup {"Succeeded"}
    /\ fp' = [fp EXCEPT !.arch = FALSE]
    /\ arch' = NoFile
    /\ pc' = "closetmp"
    /\ UNCHANGED <<vars, temp, hoff, mh, offs, created, stale>>

CloseTemp ==
    /\ pc = "closetmp"
    /\ fp' = [fp EXCEPT !.tmp = FALSE]
    /\ pc' = "rename"
    /\ UNCHANGED <<vars, fl, flags, arch, temp, hoff, mh, offs, created, stale>>

RenameTemp ==
    /\ pc = "rename"
    /\ arch' = temp
    /\ temp' = NoFile
    /\ pc' = "reopen"
    /\ UNCHANGED <<vars, fl, flags, fp, hoff, mh, offs, created, stale>>

Reopen ==
    /\ pc = "reopen"
    /\ fp' = [fp EXCEPT !.arch = TRUE]
    /\ pc' = "commit"
    /\ UNCHANGED <<vars, fl, flags, arch, temp, hoff, mh, offs, created, stale>>

(* Mutant of Commit: the records keep the offsets they had. *)
CommitOldOffsets ==
    /\ pc = "commit"
    /\ mh' = fl.head
    /\ orig' = Merged
    /\ DropSets
    /\ pc' = "reset"
    /\ UNCHANGED <<nextIdx, mode, result, edits, fl, flags, arch, temp, fp,
                   hoff, offs, created, stale>>

(* Step 11: copy, or else orig, and new become the new orig.               *)
Commit ==
    /\ pc = "commit"
    /\ mh' = fl.head
    /\ orig' = Merged
    /\ offs' = fl.off
    /\ DropSets
    /\ pc' = "reset"
    /\ UNCHANGED <<nextIdx, mode, result, edits, fl, flags, arch, temp, fp,
                   hoff, created, stale>>

(* Mutant of Reset: the renamed temp file is not replaced by a new one. *)
ResetNoTemp ==
    /\ pc = "reset"
    /\ DropSets
    /\ temp' = EmptyFile
    /\ created' = (created \/ fl.deleteAll)
    /\ result' = "flushed"
    /\ pc' = "idle" /\ fl' = NoFlush
    /\ UNCHANGED <<orig, nextIdx, mode, edits, flags, arch, fp, hoff, mh, offs,
                   stale>>

(* Step 12: nothing pending, and an empty temp file.  An archive that was  *)
(* emptied counts as just created from here on.                            *)
Reset ==
    /\ pc = "reset"
    /\ DropSets
    /\ temp' = EmptyFile
    /\ fp' = [fp EXCEPT !.tmp = TRUE]
    /\ created' = (created \/ fl.deleteAll)
    /\ result' = "flushed"
    /\ pc' = "idle" /\ fl' = NoFlush
    /\ UNCHANGED <<orig, nextIdx, mode, edits, flags, arch, hoff, mh, offs, stale>>

-----------------------------------------------------------------------------
(* The ways out of a failure *)

(* The failure of a write in place may damage the cell it was for; anyone  *)
(* else's write goes to a temp file about to be emptied.                   *)
Damage(p) ==
    arch' \in IF fl.toTemp THEN {arch} ELSE {arch, Put(arch, p, Torn)}

(* bail, canAbort set: Nu_Abort, and the archive cut back to its old       *)
(* length.  headerOffset, the offsets in orig and an already written       *)
(* master header are not put back; stale remembers when that matters.      *)
Abort(damaged) ==
    /\ DropSets
    /\ temp' = EmptyFile
    /\ arch' = IF fl.toTemp THEN damaged ELSE Truncate(damaged, fl.len0)
    /\ flags' = flags \cup {"Aborted"}
    /\ result' = "aborted"
    /\ pc' = "idle" /\ fl' = NoFlush
    /\ stale' = \/ stale
                \/ hoff # fl.before.hoff
                \/ offs # fl.before.offs
                \/ ~fl.toTemp /\ Truncate(damaged, fl.len0) # FileOf(orig, hoff)
                              /\ fl.len0 > 0
    /\ UNCHANGED <<orig, nextIdx, mode, edits, fp, hoff, mh, offs, created>>

(* bail, canAbort clear: the archive is read-only from now on.             *)
Lock(reported) ==
    /\ mode' = "RO"
    /\ flags' = flags \cup {"ReadOnly"} \cup reported
    /\ result' = "locked"
    /\ pc' = "idle" /\ fl' = NoFlush
    /\ stale' = (stale \/ ~fl.toTemp)
    /\ UNCHANGED <<orig, copy, copyLoaded, new, nextIdx, edits, hoff, mh, offs,
                   created>>

(* Steps 5 to 9 failing: a read or a write fails, an update does not fit,  *)
(* or the error handler or progress updater says abort.                    *)
FailOld ==
    /\ pc = "old" /\ fl.todo # {}
    /\ \E i \in fl.todo : /\ AtRecord(i)
          /\ IF fl.canAbort THEN Abort(arch)
             ELSE Damage(offs[i]) /\ Lock({}) /\ UNCHANGED <<temp, fp>>

FailNew ==
    /\ pc = "new"
    /\ \E torn \in BOOLEAN :
          LET p   == IF fl.todo = {} THEN hoff ELSE fl.at
              hit == IF torn /\ ~fl.toTemp THEN Put(arch, p, Torn) ELSE arch
          IN  IF fl.canAbort THEN Abort(hit)
              ELSE arch' = hit /\ Lock({}) /\ UNCHANGED <<temp, fp>>

FailWrapper ==
    /\ pc = "wrap" /\ hoff > 0
    /\ IF fl.canAbort THEN Abort(arch)
       ELSE Lock({}) /\ UNCHANGED <<arch, temp, fp>>

(* Step 10 in place: ferror after the last fflush *)
FailSync ==
    /\ pc = "sync"
    /\ IF fl.canAbort THEN Abort(arch)
       ELSE Lock({"Corrupted"}) /\ UNCHANGED <<arch, temp, fp>>

(* Step 10: the archive cannot be unlinked, and is opened again if it can  *)
(* be.  The temp file stays open.                                          *)
FailDelete ==
    /\ pc = "delete"
    /\ Lock({"Succeeded", "Inaccessible"})
    /\ fp' \in {fp, [fp EXCEPT !.arch = FALSE]}
    /\ UNCHANGED <<arch, temp>>

(* Mutant of FailRename: the temp file is cleaned up. *)
FailRenameRemove ==
    /\ pc = "rename"
    /\ Lock({})
    /\ temp' = NoFile
    /\ UNCHANGED <<arch, fp>>

(* Step 10: the rename fails, and both path names are forgotten.           *)
FailRename ==
    /\ pc = "rename"
    /\ Lock({})
    /\ fp' = [fp EXCEPT !.known = FALSE]
    /\ UNCHANGED <<arch, temp>>

FailReopen ==
    /\ pc = "reopen"
    /\ Lock({"Inaccessible"})
    /\ UNCHANGED <<arch, temp, fp>>

(* Step 12: the temp file cannot be opened or emptied.                     *)
FailReset ==
    /\ pc = "reset"
    /\ DropSets
    /\ mode' = "RO"
    /\ flags' = flags \cup {"ReadOnly"}
    /\ result' = "locked"
    /\ pc' = "idle" /\ fl' = NoFlush
    /\ fp' \in {fp, [fp EXCEPT !.tmp = FALSE]}
    /\ UNCHANGED <<orig, nextIdx, edits, arch, temp, hoff, mh, offs, created, stale>>

(* The process dies. *)
Crash ==
    /\ InFlush
    /\ pc' = "crashed"
    /\ UNCHANGED <<vars, fl, flags, fileVars>>

-----------------------------------------------------------------------------

WalkOld(i) == CopyOld(i) \/ BuildOld(i) \/ SkipOld(i) \/ UpdateOld(i) \/ Abend(i)
WalkNew(i) == BuildNew(i) \/ SkipNew(i)

FlushStep ==
    \/ \E i \in DOMAIN Cur : WalkOld(i)
    \/ OldDone
    \/ \E i \in DOMAIN new : WalkNew(i)
    \/ WriteHeader \/ CarryWrapper \/ Sync
    \/ DeleteArchive \/ CloseTemp \/ RenameTemp \/ Reopen
    \/ Commit \/ Reset
    \/ FailOld \/ FailNew \/ FailWrapper \/ FailSync
    \/ FailDelete \/ FailRename \/ FailReopen \/ FailReset

FNext == \/ EditStep \/ GiveUp \/ BeginNothing \/ Begin
         \/ FlushStep \/ Crash \/ Close

(* Nu_Flush runs to its end once called, provided the calls it makes       *)
(* return; nothing obliges the application to call anything, or the        *)
(* process to die.                                                         *)
FSpec == FInit /\ [][FNext]_allVars /\ WF_allVars(FlushStep)
-----------------------------------------------------------------------------
(* Properties *)

FlushTypeOK ==
    /\ TypeOK
    /\ pc \in {"idle", "old", "new", "wrap", "sync", "delete", "closetmp", "rename",
               "reopen", "commit", "reset", "closed", "crashed", "abend"}
    /\ fl = NoFlush <=> pc \in {"idle", "closed"}
    /\ flags \subseteq {"Succeeded", "Aborted", "Corrupted", "ReadOnly",
                        "Inaccessible"}
    /\ \A f \in {arch, temp} : \A p \in DOMAIN f : f[p].kind \in
          {"none", "hole", "torn", "wrap", "head", "rec"}
    /\ fp \in [{"arch", "tmp", "known"} -> BOOLEAN]
    /\ hoff \in {0, 1}
    /\ mh.count \in Nat /\ mh.eof \in Nat
    /\ DOMAIN offs = DOMAIN orig
    /\ created \in BOOLEAN /\ stale \in BOOLEAN

(* A flush is one step of NuArchive, or none if the process dies: until it *)
(* returns, what was there when it began counts.  Nothing pending can be   *)
(* reached in an archive that was locked.                                  *)
Midway == InFlush \/ pc \in {"crashed", "abend"}
Gone   == mode = "RO"

Before == IF Midway THEN fl.before.orig ELSE orig

absCopy   == IF Midway THEN fl.before.copy ELSE IF Gone THEN EmptyMap ELSE copy
absLoaded == IF Midway THEN fl.before.loaded ELSE ~Gone /\ copyLoaded
absNew    == IF Midway THEN fl.before.new ELSE IF Gone THEN EmptyMap ELSE new
absNext   == IF Midway THEN fl.before.nextIdx ELSE nextIdx
absResult == IF Midway THEN fl.before.result ELSE result

Abstract == INSTANCE NuArchive WITH
    orig <- Before, copy <- absCopy, copyLoaded <- absLoaded, new <- absNew,
    nextIdx <- absNext, result <- absResult

(* Nu_Flush is the transaction it should be: whatever fails or is skipped, *)
(* its effect on the record sets is a commit of the pending changes, an    *)
(* abort that drops them all, or a lock.                                   *)
ImplementsNuArchive == Abstract!Spec

(* Between calls, what is known of the archive is what is in it: each      *)
(* record where its fileOffset says, counted by the master header, the     *)
(* archive ending where mhMasterEOF says - so that a later flush and a     *)
(* reader that opens the file find the records of orig.                    *)
TocMatchesFile ==
    Idle /\ mode = "RW" /\ ~stale =>
        \/ created /\ DOMAIN orig = {} /\ arch = EmptyFile
        \/ /\ arch = FileOf(orig, hoff)
           /\ arch[hoff] = Head(mh.count, mh.eof)
           /\ offs = [i \in DOMAIN orig |-> hoff + Rank(i, orig)]

InPlaceUpdate == Midway /\ ~fl.toTemp /\ fl.before.loaded

(* At every moment, a crash or the return of a failed flush included, one  *)
(* of the two files on disk is a whole archive with the old or the new     *)
(* contents.  Existing records updated in place are the exception.         *)
NothingLost ==
    stale \/ InPlaceUpdate \/ DOMAIN Before = {} \/
        \E f \in {arch, temp} : Holds(f, Before) \/ Holds(f, Merged)

(* The archive file is not written to while a temp file takes the changes; *)
(* it is removed once the temp file is complete, and replaced by it.       *)
ArchiveUntouchedUntilSwap ==
    [][InFlush /\ fl.toTemp /\ arch' # arch =>
          \/ arch' = NoFile /\ (Holds(temp, Merged) \/ stale)
          \/ arch = NoFile /\ arch' = temp]_allVars

(* What Entry.c:68-92 asserts at the start of the next call, of an archive *)
(* still open for writing: both files open, and as many records in orig as *)
(* the master header counts.                                               *)
EntryChecks ==
    Idle /\ mode = "RW" => /\ fp.arch /\ fp.tmp
                           /\ mh.count = Cardinality(DOMAIN orig)

(* What the status flags tell the application when the flush returns:      *)
(* Aborted, that nothing has happened to an archive rebuilt through the    *)
(* temp file; Succeeded, that the changes are whole in a file, and in the  *)
(* archive itself unless Inaccessible or ReadOnly is said as well.         *)
FlagsTellTheTruth ==
    [][InFlush /\ pc' = "idle" =>
          /\ ~("Aborted" \in flags' /\ "Succeeded" \in flags')
          /\ "Aborted" \in flags' /\ fl.toTemp =>
                arch' = arch /\ orig' = fl.before.orig
          /\ "Succeeded" \in flags' /\ ~stale' =>
                \/ Holds(arch', orig')
                \/ "ReadOnly" \in flags' /\ \E f \in {arch', temp'} :
                                                Holds(f, Merged')]_allVars

(* Nu_Flush comes back. *)
FlushReturns == InFlush ~> ~InFlush

-----------------------------------------------------------------------------
(* What is said of the code and is not so *)

(* "Adding a filename thread to a record that already has one isn't        *)
(* allowed; nufxlib restricts you to a single filename thread per record"  *)
(* (NOTES.md:148-150): no flush then meets two of them and trips the       *)
(* assertion of Deferred.c:723.                                            *)
NoAssertFailure == pc # "abend"

(* "Aborting the flush causes a complete rollback" (NOTES.md:169): the     *)
(* archive that is left is the one the flush found.                        *)
RollbackComplete ==
    [][InFlush /\ pc' = "idle" /\ "Aborted" \in flags' =>
          /\ fl.before.orig = orig'
          /\ DOMAIN orig' # {} => arch' = FileOf(orig', fl.before.hoff)]_allVars

(* "orig" list "is not disturbed until the changes are committed"          *)
(* (NOTES.md:96-97): after an aborted flush the place of every record is   *)
(* still known.                                                            *)
OffsetsSurviveAbort ==
    [][InFlush /\ pc' = "idle" /\ "Aborted" \in flags' =>
          /\ hoff' = fl.before.hoff
          /\ offs' = fl.before.offs]_allVars

(* "temp file is fully valid" (Deferred.c:2391), and "New data is in" it   *)
(* (Deferred.c:2399): what a flush said it wrote can still be found once   *)
(* the application has closed the archive.                                 *)
SucceededMeansSaved ==
    [][pc' = "closed" /\ "Succeeded" \in flags /\ ~stale /\ DOMAIN Merged # {} =>
          \E f \in {arch', temp'} : Holds(f, Merged)]_allVars
=============================================================================
