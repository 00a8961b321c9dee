----------------------------- MODULE NuArchive -----------------------------
(***************************************************************************)
(* An archive opened read-write, as the application sees it: deferred      *)
(* edits pile up in the copy and new record sets, and a flush carries them *)
(* out or loses them in one step.  The edit calls are those of Record.c    *)
(* and Thread.c.  The flush is the transaction Nu_Flush should amount to;  *)
(* module NuFlush takes it apart and is shown to implement this module.    *)
(*                                                                         *)
(* The table of contents has been read (Nu_GetTOCIfNeeded), as it has      *)
(* after the first edit.  Calls rejected before they touch anything (bad   *)
(* arguments, a read-only archive, an index that does not exist) change    *)
(* nothing and are not actions.  A call rejected later may still have      *)
(* cloned orig into copy; that is part of its action.                      *)
(***************************************************************************)
EXTENDS NuRecord

CONSTANTS
    Archives,       \* the possible initial contents, as record sets
    FirstIdx,       \* next free index once the contents are read
    NewAttr,        \* header fields of the records being added
    Sources,        \* kinds of data source the application uses
    DupModes,       \* settings of AllowDuplicates / HandleExisting
    Mimics,         \* settings of MimicSHK
    Styles,         \* settings of ModifyOrig
    MaxIdx,         \* bound: indices handed out
    MaxEdits        \* bound: edit calls made on the archive

ASSUME ArchiveAssumption ==
    /\ \A S \in Archives :
          /\ IsRecordSet(S)
          /\ \A i \in DOMAIN S :
                /\ i < FirstIdx
                /\ S[i].mods = {} /\ ~S[i].dirty
                /\ \A t \in DOMAIN S[i].threads : t < FirstIdx
          /\ \A i, j \in DOMAIN S :
                i # j => DOMAIN S[i].threads \cap DOMAIN S[j].threads = {}
    /\ FirstIdx \in Nat /\ MaxIdx \in Nat /\ MaxEdits \in Nat
    /\ NewAttr \in Attrs
    /\ Sources \subseteq {"file", "buffer"}
    /\ DupModes \subseteq {"allow", "overwrite", "never", "must"}
    /\ Mimics \subseteq BOOLEAN
    /\ Styles \subseteq BOOLEAN

(* Threads one record may have side by side (Nu_OkayToAddThread): a disk   *)
(* image or forks, data or control, and at most one of each fork or image. *)
ThreadsCompatible(ts) ==
    LET ids == {ts[t].id : t \in DOMAIN ts}
    IN  /\ "disk" \in ids => ids \cap {"data", "rsrc"} = {}
        /\ ids \cap {"data", "rsrc", "disk"} # {} => "control" \notin ids
        /\ \A t, u \in DOMAIN ts :
              ts[t].id = ts[u].id /\ ts[t].id \in {"data", "rsrc", "disk"} => t = u

(* The contents of an archive are such as NufxLib itself would write, with *)
(* the name it would give each record (Nu_ReadRecordHeader,                *)
(* Nu_ScanThreads).  Reading does not check the rest: an archive of some   *)
(* other program may break it from the start.                              *)
ASSUME WellFormedArchives ==
    \A S \in Archives : \A i \in DOMAIN S :
        /\ S[i].name = ReadName(Stored(S[i]))
        /\ ThreadsCompatible(S[i].threads)
        /\ \A t, u \in FilenameThreads(S[i].threads) : t = u

VARIABLES
    orig,           \* origRecordSet: what was last read or flushed
    copy,           \* copyRecordSet: orig with the pending changes
    copyLoaded,     \* whether copy exists at all
    new,            \* newRecordSet: records to be added
    nextIdx,        \* the shared record and thread index counter
    mode,           \* openMode: "RW" or "RO"
    result,         \* what the last call did: see TypeOK
    edits           \* edit calls made so far

recordSets == <<orig, copy, copyLoaded, new>>
vars == <<orig, copy, copyLoaded, new, nextIdx, mode, result, edits>>

(* The set edits are looked up in and applied to: copy, or orig on the     *)
(* way to being cloned.                                                    *)
Cur == IF copyLoaded THEN copy ELSE orig

Init ==
    /\ orig \in Archives
    /\ copy = EmptyMap
    /\ copyLoaded = FALSE
    /\ new = EmptyMap
    /\ nextIdx = FirstIdx
    /\ mode = "RW"
    /\ result = "opened"
    /\ edits = 0

-----------------------------------------------------------------------------
(* Edit calls *)

(* Common to every edit call: the archive must be writable; "used" new     *)
(* indices are drawn.                                                      *)
Edit(used) ==
    /\ mode = "RW"
    /\ edits < MaxEdits
    /\ nextIdx + used <= MaxIdx
    /\ edits' = edits + 1
    /\ nextIdx' = nextIdx + used
    /\ result' = "edited"
    /\ UNCHANGED <<orig, mode>>

(* The outcome on copy of an edit of existing records: the clone, if one   *)
(* had to be made, edited to be S.                                         *)
SetCopy(S) == copyLoaded' = TRUE /\ copy' = S

Named(S, n) == {i \in DOMAIN S : S[i].name = n}

IsFirst(i, I) == i \in I /\ \A j \in I : i <= j
IsLast(i, I) == i \in I /\ \A j \in I : j <= i

Without(S, I) == Restrict(S, DOMAIN S \ I)

With(S, i, r) == [j \in DOMAIN S \cup {i} |-> IF j = i THEN r ELSE S[j]]

(* Nu_HandleAddDuplicateRecord, on the settings that let the add go ahead: *)
(* the first record of that name leaves the copy set.                      *)
HandleAddDuplicateRecord(n) ==
    \E i \in Named(Cur, n) :
        /\ IsFirst(i, Named(Cur, n))
        /\ SetCopy(Without(Cur, {i}))

(* Nu_AddRecord: r is the record it would add.  An existing record of the  *)
(* same name may be overwritten or stop the call; it is already gone when  *)
(* a clash with the new set is found.                                      *)
AddRecordThen(r, dups, used) ==
    \/ /\ dups = "allow"
       /\ new' = With(new, nextIdx, r)
       /\ Edit(used)
       /\ UNCHANGED <<copy, copyLoaded>>
    \/ /\ dups \in {"overwrite", "never"}
       /\ Named(Cur, r.name) = {}
       /\ Named(new, r.name) = {}
       /\ new' = With(new, nextIdx, r)
       /\ Edit(used)
       /\ UNCHANGED <<copy, copyLoaded>>
    \/ /\ dups \in {"overwrite", "must"}
       /\ Named(new, r.name) = {}
       /\ HandleAddDuplicateRecord(r.name)
       /\ new' = With(new, nextIdx, r)
       /\ Edit(used)
    \/ /\ dups \in {"overwrite", "must"}         \* kNuErrRecordExists
       /\ Named(new, r.name) # {}
       /\ HandleAddDuplicateRecord(r.name)
       /\ UNCHANGED new
       /\ Edit(0)

AddRecord(n, dups) == AddRecordThen(NewRecord(n, NewAttr), dups, 1)

(* Nu_AddFile: joins the other fork of the same file if that was just      *)
(* added, and otherwise starts a record.                                   *)
AddFile(n, id, v, dups) ==
    LET same == Named(new, n)
        fits == \E i \in same : IsLast(i, same) /\ OkayToAddThread(new[i], id)
    IN  \/ \E i \in same :
              /\ IsLast(i, same)
              /\ OkayToAddThread(new[i], id)
              /\ new' = [new EXCEPT ![i] =
                            AddMod(@, NewMod("add", nextIdx, id, v, "file"))]
              /\ Edit(1)
              /\ UNCHANGED <<copy, copyLoaded>>
        \/ /\ ~fits
           /\ same = {} \/ dups = "allow"
           /\ AddRecordThen(
                 AddMod(NewRecord(n, NewAttr),
                        NewMod("add", nextIdx + 1, id, v, "file")), dups, 2)

(* Mutant of ThreadAdded: every new thread gets the first free index. *)
ThreadAddedUnnumbered(r, id, v, src) ==
    [AddMod(r, NewMod("add", FirstIdx, id, v, src)) EXCEPT
        !.drop = @ \/ (id = "filename" /\ r.hname # NoName)]

(* The record as Nu_AddThread leaves it: adding a filename thread condemns *)
(* the name in the header.                                                 *)
ThreadAdded(r, id, v, src) ==
    [AddMod(r, NewMod("add", nextIdx, id, v, src)) EXCEPT
        !.drop = @ \/ (id = "filename" /\ r.hname # NoName)]

(* Nu_AddThread, to a record of the copy set or failing that of new *)
AddThread(i, id, v, src) ==
    \/ /\ i \in DOMAIN Cur
       /\ OkayToAddThread(Cur[i], id)
       /\ SetCopy([Cur EXCEPT ![i] = ThreadAdded(@, id, v, src)])
       /\ Edit(1)
       /\ UNCHANGED new
    \/ /\ i \in DOMAIN Cur
       /\ ~OkayToAddThread(Cur[i], id)
       /\ SetCopy(Cur)
       /\ Edit(0)
       /\ UNCHANGED new
    \/ /\ i \in DOMAIN new \ DOMAIN Cur
       /\ OkayToAddThread(new[i], id)
       /\ new' = [new EXCEPT ![i] = ThreadAdded(@, id, v, src)]
       /\ Edit(1)
       /\ UNCHANGED <<copy, copyLoaded>>

(* Nu_UpdatePresizedThread: only threads with a fixed buffer, and only one *)
(* modification to a thread.  The clone stays when the call is rejected.   *)
UpdatePresizedThread(i, t, v, src) ==
    /\ i \in DOMAIN Cur
    /\ t \in DOMAIN Cur[i].threads
    /\ LET id == Cur[i].threads[t].id
       IN  \/ /\ Presized(id)
              /\ ModsOfThread(Cur[i], t) = {}
              /\ SetCopy([Cur EXCEPT ![i] =
                            AddMod(@, NewMod("update", t, id, v, src))])
           \/ /\ ~Presized(id) \/ ModsOfThread(Cur[i], t) # {}
              /\ SetCopy(Cur)
    /\ Edit(0)
    /\ UNCHANGED new

(* Mutant of DeleteThread: an updated thread may be deleted. *)
DeleteThreadUnchecked(i, t) ==
    /\ i \in DOMAIN Cur
    /\ t \in DOMAIN Cur[i].threads
    /\ SetCopy([Cur EXCEPT ![i] =
          AddMod(@, NewMod("delete", t, Cur[i].threads[t].id, NoData, "buffer"))])
    /\ Edit(0)
    /\ UNCHANGED new

(* Nu_DeleteThread *)
DeleteThread(i, t) ==
    /\ i \in DOMAIN Cur
    /\ t \in DOMAIN Cur[i].threads
    /\ \/ /\ ModsOfThread(Cur[i], t) = {}
          /\ SetCopy([Cur EXCEPT ![i] =
                AddMod(@, NewMod("delete", t, Cur[i].threads[t].id,
                                 NoData, "buffer"))])
       \/ /\ ModsOfThread(Cur[i], t) # {}
          /\ SetCopy(Cur)
    /\ Edit(0)
    /\ UNCHANGED new

(* Nu_DeleteRecord: not of a modified record *)
DeleteRecord(i) ==
    /\ i \in DOMAIN Cur
    /\ \/ /\ ~Modified(Cur[i])
          /\ SetCopy(Without(Cur, {i}))
       \/ /\ Modified(Cur[i])
          /\ SetCopy(Cur)
    /\ Edit(0)
    /\ UNCHANGED new

(* Nu_Delete: the selection filter picks "chosen" among the records with   *)
(* no thread modifications; the walk stops at the first chosen record with *)
(* a dirty header, and whatever it deleted by then stays deleted.  (The    *)
(* filter stopping the walk is the filter choosing nothing further.)       *)
Delete(chosen) ==
    LET offered == {i \in chosen \cap DOMAIN Cur : Cur[i].mods = {}}
        stops   == {i \in offered : Cur[i].dirty}
    IN  /\ SetCopy(Without(Cur, {i \in offered : \A j \in stops : i < j}))
        /\ Edit(0)
        /\ UNCHANGED new

(* Nu_Rename.  "fits" is whether the new name fits the buffer of the       *)
(* existing filename thread.  The search for a filename thread looks at    *)
(* threads, not at pending adds.                                           *)
Rename(i, n, fits) ==
    /\ i \in DOMAIN Cur
    /\ LET r   == Cur[i]
           fns == FilenameThreads(r.threads)
           add == NewMod("add", nextIdx, "filename", n, "buffer")
       IN  \/ \E t \in fns :                         \* (1) it has room
                 /\ IsFirst(t, fns) /\ ModsOfThread(r, t) = {} /\ fits
                 /\ SetCopy([Cur EXCEPT ![i] = AddMod(@,
                       NewMod("update", t, "filename", n, "buffer"))])
                 /\ Edit(0)
           \/ \E t \in fns :                         \* (2) it has not
                 /\ IsFirst(t, fns) /\ ModsOfThread(r, t) = {} /\ ~fits
                 /\ SetCopy([Cur EXCEPT ![i] = AddMod(AddMod(@,
                       NewMod("delete", t, "filename", NoData, "buffer")), add)])
                 /\ Edit(1)
           \/ /\ fns = {}                            \* (3) name in header
              /\ SetCopy([Cur EXCEPT ![i] = [AddMod(r, add) EXCEPT
                                                !.drop = TRUE]])
              /\ Edit(1)
           \/ \E t \in fns :                         \* kNuErrModThreadChange
                 /\ IsFirst(t, fns) /\ ModsOfThread(r, t) # {}
                 /\ SetCopy(Cur)
                 /\ Edit(0)
    /\ UNCHANGED new

(* Mutant of SetRecordAttr: dirtyHeader is not set. *)
SetRecordAttrClean(i, a) ==
    /\ i \in DOMAIN Cur
    /\ SetCopy([Cur EXCEPT ![i] = [@ EXCEPT !.attr = a]])
    /\ Edit(0)
    /\ UNCHANGED new

(* Nu_SetRecordAttr *)
SetRecordAttr(i, a) ==
    /\ i \in DOMAIN Cur
    /\ SetCopy([Cur EXCEPT ![i] = [@ EXCEPT !.attr = a, !.dirty = TRUE]])
    /\ Edit(0)
    /\ UNCHANGED new

-----------------------------------------------------------------------------
(* Flush and abort *)

(* Nu_ResetCopySetIfUntouched keeps the copy set when a record is missing  *)
(* from it or modified.                                                    *)
Touched ==
    /\ copyLoaded
    /\ \/ Cardinality(DOMAIN copy) # Cardinality(DOMAIN orig)
       \/ \E i \in DOMAIN copy : Modified(copy[i])

(* Mutant of Purged: as many modifications as threads counts as empty. *)
PurgedByCount(S) ==
    Restrict(S, {i \in DOMAIN S :
                    Cardinality(S[i].mods) # Cardinality(DOMAIN S[i].threads)})

(* Nu_PurgeEmptyRecords *)
Purged(S) == Restrict(S, {i \in DOMAIN S : ~RecordIsEmpty(S[i])})

AllDeleted == Touched /\ DOMAIN copy = {} /\ DOMAIN new = {}

(* What steps 1 and 2 of Nu_Flush leave to do: the existing records, and   *)
(* the new ones.                                                           *)
OldRecords == IF Touched THEN Purged(copy) ELSE orig
NewRecords == Purged(new)

Pending == \/ AllDeleted
           \/ Touched /\ DOMAIN OldRecords # {}
           \/ DOMAIN NewRecords # {}

(* Nu_NoHeavyUpdates: nothing deleted, and no modification but updates     *)
NoHeavyUpdates ==
    ~Touched \/ /\ Cardinality(DOMAIN OldRecords) = Cardinality(DOMAIN orig)
                /\ \A i \in DOMAIN OldRecords :
                      OldRecords[i].mods = ModsOfKind(OldRecords[i], "update")

(* Nu_AddCommentToFirstNewRecord *)
CommentAdded(S) ==
    [i \in DOMAIN S |->
        IF IsFirst(i, DOMAIN S) /\ \A m \in S[i].mods : m.id # "comment"
          THEN AddMod(S[i], NewMod("add", nextIdx, "comment", NoData, "buffer"))
          ELSE S[i]]

(* More than one filename thread at the end trips an assertion in          *)
(* Nu_HandleAddThreadMods or Nu_ConstructArchiveRecord.                    *)
OneFilename(r) ==
    \A t, u \in FilenameThreads(ThreadsAfter(r.threads, r.mods)) : t = u

(* Modifications the user may skip: their file cannot be opened and the    *)
(* error handler answers kNuSkip.                                          *)
FileMods(S) == UNION {{m \in S[i].mods : m.src = "file"} : i \in DOMAIN S}

(* An existing record after the flush.  In place, a skipped update is left *)
(* out; in the temp file, a skipped add brings back the original record.   *)
OldAfter(i, inPlace, skip) ==
    LET r == OldRecords[i]
    IN  IF ~Modified(r) THEN r
        ELSE IF inPlace THEN Applied(r, r.mods \ skip)
        ELSE IF r.mods \cap skip = {} THEN Applied(r, r.mods)
        ELSE orig[i]

(* The records that are new, with the comment if GS/ShrinkIt is mimicked *)
Fresh(mimic) == IF mimic THEN CommentAdded(NewRecords) ELSE NewRecords

(* The archive after a flush; a new record with a skipped add is not added *)
Outcome(inPlace, fresh, skip) ==
    LET added == {i \in DOMAIN fresh : fresh[i].mods \cap skip = {}}
    IN  [i \in DOMAIN OldRecords \cup added |->
            IF i \in added THEN Constructed(fresh[i], i)
            ELSE OldAfter(i, inPlace, skip)]

(* The flush carried the changes out.  (A skipped update while rebuilding  *)
(* into the temp file, and a second filename in a record, are not          *)
(* survived: see Abend in NuFlush.)                                        *)
Carried ==
    \E modifyOrig \in Styles, mimic \in Mimics :
       LET inPlace == modifyOrig /\ NoHeavyUpdates
       IN  \E skip \in SUBSET (FileMods(OldRecords) \cup FileMods(Fresh(mimic))) :
              /\ inPlace \/ \A m \in skip : m.kind = "add"
              /\ \A i \in DOMAIN OldRecords :
                    OldRecords[i].mods \cap skip = {} => OneFilename(OldRecords[i])
              /\ nextIdx' = IF Fresh(mimic) = NewRecords THEN nextIdx
                                                        ELSE nextIdx + 1
              /\ orig' = Outcome(inPlace, Fresh(mimic), skip)

(* Everything pending is forgotten; a flush may have drawn an index for    *)
(* the comment of the first new record.                                    *)
Forget ==
    /\ copy' = EmptyMap /\ copyLoaded' = FALSE /\ new' = EmptyMap
    /\ \/ nextIdx' = nextIdx
       \/ TRUE \in Mimics /\ DOMAIN NewRecords # {} /\ nextIdx' = nextIdx + 1
    /\ UNCHANGED edits

(* Nu_Flush finding nothing to do, or nothing left after the purge *)
FlushNothing ==
    /\ mode = "RW" /\ ~Pending
    /\ Forget
    /\ nextIdx' = nextIdx
    /\ result' = "flushed"
    /\ UNCHANGED <<orig, mode>>

(* Nu_Flush with no error *)
FlushCommit ==
    /\ mode = "RW" /\ Pending
    /\ Forget
    /\ Carried
    /\ result' = "flushed"
    /\ UNCHANGED mode

(* Nu_Flush failing with nothing changed (kNuFlushAborted), and Nu_Abort *)
FlushAbort ==
    /\ mode = "RW"
    /\ Forget
    /\ result' = "aborted"
    /\ UNCHANGED <<orig, mode>>

(* Nu_Flush failing when it cannot go back: no edits are accepted from     *)
(* here on, and the pending ones can no longer be reached.  The changes    *)
(* may have been carried out.                                              *)
FlushLock ==
    /\ mode = "RW"
    /\ Forget
    /\ UNCHANGED orig \/ (Pending /\ Carried)
    /\ mode' = "RO"
    /\ result' = "locked"

-----------------------------------------------------------------------------

EditCall ==
    \/ \E n \in Names, dups \in DupModes : AddRecord(n, dups)
    \/ \E n \in Names, id \in ThreadIDs \ {"filename"}, v \in Data,
          dups \in DupModes : AddFile(n, id, v, dups)
    \/ \E i \in DOMAIN Cur \cup DOMAIN new, id \in ThreadIDs,
          v \in Contents, src \in Sources :
          /\ id = "filename" <=> v \in Names
          /\ v \in Names \cup Data
          /\ AddThread(i, id, v, src)
    \/ \E i \in DOMAIN Cur, v \in Names \cup Data, src \in Sources :
          \E t \in DOMAIN Cur[i].threads :
             /\ Cur[i].threads[t].id = "filename" <=> v \in Names
             /\ UpdatePresizedThread(i, t, v, src)
    \/ \E i \in DOMAIN Cur : \E t \in DOMAIN Cur[i].threads : DeleteThread(i, t)
    \/ \E i \in DOMAIN Cur : DeleteRecord(i)
    \/ \E chosen \in SUBSET DOMAIN Cur : Delete(chosen)
    \/ \E i \in DOMAIN Cur, n \in Names, fits \in BOOLEAN : Rename(i, n, fits)
    \/ \E i \in DOMAIN Cur, a \in Attrs : SetRecordAttr(i, a)

Next == EditCall \/ FlushNothing \/ FlushCommit \/ FlushAbort \/ FlushLock

Spec == Init /\ [][Next]_vars
-----------------------------------------------------------------------------
(* Properties *)

TypeOK ==
    /\ IsRecordSet(orig)
    /\ IsRecordSet(copy)
    /\ IsRecordSet(new)
    /\ copyLoaded \in BOOLEAN
    /\ nextIdx \in Nat
    /\ mode \in {"RW", "RO"}
    /\ result \in {"opened", "edited", "flushed", "aborted", "locked"}
    /\ edits \in Nat

(* The modification list of an existing record never holds two entries for *)
(* one thread, changes only threads the record has, and adds only threads  *)
(* it has not.                                                             *)
OneModPerThread(r) ==
    /\ \A m \in r.mods : (m.kind = "add") <=> m.tidx \notin DOMAIN r.threads
    /\ \A m \in r.mods : m.kind # "add" => m.id = r.threads[m.tidx].id
    /\ \A m, o \in r.mods : m.tidx = o.tidx => m = o

(* Every sequence of edit calls leaves modification lists the flush can    *)
(* carry out: NOTES.md:136-143 (no delete of a modified thread, no         *)
(* modification of a deleted one), relied on by Nu_RecordIsEmpty,          *)
(* Nu_CountEventualThreads and Nu_VerifyAllTouched; new records only add.  *)
ModsWellFormed ==
    /\ \A i \in DOMAIN orig : orig[i].mods = {} /\ ~orig[i].dirty
    /\ \A i \in DOMAIN copy : OneModPerThread(copy[i])
    /\ \A i \in DOMAIN new : /\ OneModPerThread(new[i])
                              /\ DOMAIN new[i].threads = {}

(* r is o with changes pending: all of them are in mods, drop and dirty.   *)
Derived(r, o) ==
    /\ r.threads = o.threads
    /\ r.name = o.name
    /\ r.hname = o.hname
    /\ r.attr # o.attr => r.dirty
    /\ r.drop # o.drop => r.mods # {}

(* The copy set is orig less the deleted records, with the same threads    *)
(* and names, and the same header wherever it is not marked dirty: what a  *)
(* flush has to write is known from mods, drop and dirty alone             *)
(* (Nu_ResetCopySetIfUntouched, Nu_NoHeavyUpdates).                        *)
CopyOfOrig ==
    /\ copyLoaded => DOMAIN copy \subseteq DOMAIN orig
    /\ ~copyLoaded => DOMAIN copy = {}
    /\ \A i \in DOMAIN copy : Derived(copy[i], orig[i])

(* The thread indices of a record, pending threads included *)
Numbers(r) == DOMAIN r.threads \cup {m.tidx : m \in ModsOfKind(r, "add")}

NumbersApart(S, T) ==
    \A i \in DOMAIN S, j \in DOMAIN T : i # j => Numbers(S[i]) \cap Numbers(T[j]) = {}

NumbersBelow(S, n) == \A i \in DOMAIN S : i < n /\ \A t \in Numbers(S[i]) : t < n

(* An index the application holds names one thing: records share no thread *)
(* index, pending threads included; a record to be added has a number      *)
(* nothing else has, so that its filename thread can still be given one;   *)
(* and all that was handed out is behind the counter                       *)
(* (Nu_GetNextRecordIdx, Nu_GetNextThreadIdx).                             *)
IndicesUnique ==
    /\ DOMAIN new \cap DOMAIN orig = {}
    /\ \A S, T \in {orig, copy, new} : NumbersApart(S, T)
    /\ \A i \in DOMAIN new : \A S \in {orig, copy, new} :
          \A j \in DOMAIN S : i \notin Numbers(S[j])
    /\ \A S \in {orig, copy, new} : NumbersBelow(S, nextIdx)

(* No record ever holds, and no pending change would leave it with, a disk *)
(* image next to a fork, a control thread next to data, or two of a kind:  *)
(* Thread.c:1098-1110, "the first and last place we do this sort of        *)
(* checking".                                                              *)
NoConflictingThreads ==
    \A S \in {orig, copy, new} : \A i \in DOMAIN S :
        ThreadsCompatible(ThreadsAfter(S[i].threads, S[i].mods))

(* The name NufxLib shows for a record is the one a reader of the file     *)
(* would find (NOTES.md, "Updating Filenames").                            *)
NameMatchesFile ==
    \A i \in DOMAIN orig : orig[i].name = ReadName(Stored(orig[i]))

(* A record is left alone by a flush unless it was modified, and goes only *)
(* if it was deleted or lost all its threads.                              *)
OnlyPendingChanges ==
    [][\A i \in DOMAIN orig :
          /\ i \notin DOMAIN orig' => \/ i \notin DOMAIN copy
                                      \/ RecordIsEmpty(copy[i])
          /\ i \in DOMAIN orig' /\ orig'[i] # orig[i] =>
                copyLoaded /\ Modified(copy[i])]_vars

(* "Deleting all threads from a record results in the record being         *)
(* deleted, but not until the NuFlush call is issued" (NOTES.md:131-132):  *)
(* after a flush that reports no error, emptied records are gone.          *)
EmptiedRecordsDeleted ==
    [][result' = "flushed" /\ copyLoaded =>
          \A i \in DOMAIN copy :
             RecordIsEmpty(copy[i]) => i \notin DOMAIN orig']_vars
=============================================================================
