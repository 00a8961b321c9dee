--------------------------- MODULE NuFlush_proofs ---------------------------
(***************************************************************************)
(* The twelve steps of Nu_Flush, with every failure, skip and crash in     *)
(* between, amount to one step of NuArchive on the record sets: the edits  *)
(* are carried out, or dropped, or out of reach in a locked archive.       *)
(***************************************************************************)
EXTENDS NuFlush, FiniteSetTheorems, TLAPS

(* The archive as NuArchive would have it, with all that is proved of it *)
A == INSTANCE NuArchive_proofs WITH
    orig <- Before, copy <- absCopy, copyLoaded <- absLoaded, new <- absNew,
    nextIdx <- absNext, result <- absResult

-----------------------------------------------------------------------------
(* Both levels read records alike *)

LEMMA SameRecords ==
    /\ A!EmptyMap = EmptyMap
    /\ \A S : A!IsRecordSet(S) <=> IsRecordSet(S)
    /\ \A r : A!Modified(r) <=> Modified(r)
    /\ \A id : A!Presized(id) <=> Presized(id)
    /\ \A r, m : A!AddMod(r, m) = AddMod(r, m)
    /\ \A k, t, id, v, src : A!NewMod(k, t, id, v, src) = NewMod(k, t, id, v, src)
    /\ \A n, a : A!NewRecord(n, a) = NewRecord(n, a)
    /\ \A r, id : A!OkayToAddThread(r, id) <=> OkayToAddThread(r, id)
    /\ \A r, k : A!ModsOfKind(r, k) = ModsOfKind(r, k)
    /\ \A r, t : A!ModsOfThread(r, t) = ModsOfThread(r, t)
    /\ \A ts : A!FilenameThreads(ts) = FilenameThreads(ts)
    /\ \A r : A!RecordIsEmpty(r) <=> RecordIsEmpty(r)
    /\ \A r, m : A!Applied(r, m) = Applied(r, m)
    /\ \A r, i : A!Constructed(r, i) = Constructed(r, i)
    /\ \A r : A!OneFilename(r) <=> OneFilename(r)
    /\ \A S : A!FileMods(S) = FileMods(S)
    /\ \A S : A!Purged(S) = Purged(S)
    /\ \A S, n : A!Named(S, n) = Named(S, n)
    /\ \A i, I : A!IsFirst(i, I) <=> IsFirst(i, I)
    /\ \A i, I : A!IsLast(i, I) <=> IsLast(i, I)
    /\ \A S, I : A!Without(S, I) = Without(S, I)
    /\ \A S, i, r : A!With(S, i, r) = With(S, i, r)
    /\ \A S : A!Cardinality(S) = Cardinality(S)
<1>1. A!EmptyMap = EmptyMap
  BY DEF A!EmptyMap, EmptyMap
<1>2. \A S : A!IsRecordSet(S) <=> IsRecordSet(S)
  BY DEF A!Contents, Contents, A!Thread, Thread, A!Mod, Mod, A!IsThreadMap,
         IsThreadMap, A!IsRecord, IsRecord, A!IsRecordSet, IsRecordSet
<1>3. \A r : A!Modified(r) <=> Modified(r)
  BY DEF A!Modified, Modified
<1>4. \A id : A!Presized(id) <=> Presized(id)
  BY DEF A!Presized, Presized
<1>5. \A r, m : A!AddMod(r, m) = AddMod(r, m)
  BY DEF A!AddMod, AddMod
<1>6. \A k, t, id, v, src : A!NewMod(k, t, id, v, src) = NewMod(k, t, id, v, src)
  BY DEF A!NewMod, NewMod
<1>7. \A n, a : A!NewRecord(n, a) = NewRecord(n, a)
  BY DEF A!EmptyMap, EmptyMap, A!NewRecord, NewRecord
<1>8. \A r, id : A!OkayToAddThread(r, id) <=> OkayToAddThread(r, id)
  BY DEF A!ThreadClass, ThreadClass, A!ModsOfKind, ModsOfKind, A!Deleted,
         Deleted, A!FutureIDs, FutureIDs, A!Clashes, Clashes,
         A!OkayToAddThread, OkayToAddThread
<1>9. \A r, k : A!ModsOfKind(r, k) = ModsOfKind(r, k)
  BY DEF A!ModsOfKind, ModsOfKind
<1>10. \A r, t : A!ModsOfThread(r, t) = ModsOfThread(r, t)
  BY DEF A!ModsOfThread, ModsOfThread
<1>11. \A ts : A!FilenameThreads(ts) = FilenameThreads(ts)
  BY DEF A!FilenameThreads, FilenameThreads
<1>12. \A r : A!RecordIsEmpty(r) <=> RecordIsEmpty(r)
  BY DEF A!ModsOfKind, ModsOfKind, A!Deleted, Deleted, A!RecordIsEmpty,
         RecordIsEmpty
<1>13. \A r, m : A!Applied(r, m) = Applied(r, m)
  BY DEF A!FilenameThreads, FilenameThreads, A!HeaderName, HeaderName,
         A!ThreadsAfter, ThreadsAfter, A!NameAfter, NameAfter, A!Applied,
         Applied
<1>14. \A r, i : A!Constructed(r, i) = Constructed(r, i)
  BY DEF A!AddMod, AddMod, A!NewMod, NewMod, A!FilenameThreads,
         FilenameThreads, A!HeaderName, HeaderName, A!ThreadsAfter,
         ThreadsAfter, A!NameAfter, NameAfter, A!Applied, Applied,
         A!WithFilename, WithFilename, A!Constructed, Constructed
<1>15. \A r : A!OneFilename(r) <=> OneFilename(r)
  BY DEF A!FilenameThreads, FilenameThreads, A!ThreadsAfter, ThreadsAfter,
         A!OneFilename, OneFilename
<1>16. \A S : A!FileMods(S) = FileMods(S)
  BY DEF A!FileMods, FileMods
<1>17. \A S : A!Purged(S) = Purged(S)
  BY DEF A!Restrict, Restrict, A!ModsOfKind, ModsOfKind, A!Deleted, Deleted,
         A!RecordIsEmpty, RecordIsEmpty, A!Purged, Purged
<1>18. \A S, n : A!Named(S, n) = Named(S, n)
  BY DEF A!Named, Named
<1>19. \A i, I : A!IsFirst(i, I) <=> IsFirst(i, I)
  BY DEF A!IsFirst, IsFirst
<1>20. \A i, I : A!IsLast(i, I) <=> IsLast(i, I)
  BY DEF A!IsLast, IsLast
<1>21. \A S, I : A!Without(S, I) = Without(S, I)
  BY DEF A!Restrict, Restrict, A!Without, Without
<1>22. \A S, i, r : A!With(S, i, r) = With(S, i, r)
  BY DEF A!With, With
<1>23. \A S : A!Cardinality(S) = Cardinality(S)
  BY DEF A!Cardinality, Cardinality
<1> QED
  BY <1>23, <1>1, <1>2, <1>3, <1>4, <1>5, <1>6, <1>7, <1>8, <1>9, <1>10, <1>11, <1>12, <1>13, <1>14, <1>15, <1>16, <1>17, <1>18, <1>19, <1>20, <1>21, <1>22

-----------------------------------------------------------------------------
(* Edits between flushes *)

(* Between flushes of an archive open for writing, nothing is hidden. *)
Plain == /\ Before = orig /\ absCopy = copy /\ absLoaded = copyLoaded
         /\ absNew = new /\ absNext = nextIdx /\ absResult = result

LEMMA OpenIsPlain ==
    ASSUME Idle, mode = "RW", copyLoaded \in BOOLEAN
    PROVE  Plain
BY DEF Plain, Idle, Midway, InFlush, Gone, Before, absCopy, absLoaded, absNew,
       absNext, absResult

LEMMA SameCur == Plain => A!Cur = Cur
BY DEF Plain, A!Cur, Cur

LEMMA SameEdit ==
    ASSUME Plain, Plain', NEW used
    PROVE  A!Edit(used) <=> Edit(used)
BY DEF Plain, A!Edit, Edit

LEMMA SameSetCopy ==
    ASSUME Plain, Plain', NEW S
    PROVE  A!SetCopy(S) <=> SetCopy(S)
BY DEF Plain, A!SetCopy, SetCopy

LEMMA SameAddRecordThen ==
    ASSUME Plain, Plain', NEW r, NEW dups, NEW used, AddRecordThen(r, dups, used)
    PROVE  A!AddRecordThen(r, dups, used)
<1>1. \A n : HandleAddDuplicateRecord(n) => A!HandleAddDuplicateRecord(n)
  BY SameCur, SameSetCopy, SameRecords
     DEF HandleAddDuplicateRecord, A!HandleAddDuplicateRecord
<1> QED
  BY <1>1, SameCur, SameEdit, SameRecords
     DEF Plain, AddRecordThen, A!AddRecordThen

LEMMA SameAddFile ==
    ASSUME Plain, Plain', NEW n, NEW id, NEW v, NEW dups, AddFile(n, id, v, dups)
    PROVE  A!AddFile(n, id, v, dups)
BY SameAddRecordThen, SameEdit, SameRecords DEF Plain, AddFile, A!AddFile

LEMMA SameAddThread ==
    ASSUME Plain, Plain', NEW i, NEW id, NEW v, NEW src, AddThread(i, id, v, src)
    PROVE  A!AddThread(i, id, v, src)
<1>1. \A r : A!ThreadAdded(r, id, v, src) = ThreadAdded(r, id, v, src)
  BY SameRecords DEF Plain, ThreadAdded, A!ThreadAdded
<1> QED
  BY <1>1, SameCur, SameEdit, SameSetCopy, SameRecords
     DEF Plain, AddThread, A!AddThread

LEMMA SameUpdatePresizedThread ==
    ASSUME Plain, Plain', NEW i, NEW t, NEW v, NEW src,
           UpdatePresizedThread(i, t, v, src)
    PROVE  A!UpdatePresizedThread(i, t, v, src)
BY SameCur, SameEdit, SameSetCopy, SameRecords
   DEF Plain, UpdatePresizedThread, A!UpdatePresizedThread

LEMMA SameDeleteThread ==
    ASSUME Plain, Plain', NEW i, NEW t, DeleteThread(i, t)
    PROVE  A!DeleteThread(i, t)
BY SameCur, SameEdit, SameSetCopy, SameRecords
   DEF Plain, DeleteThread, A!DeleteThread

LEMMA SameDeleteRecord ==
    ASSUME Plain, Plain', NEW i, DeleteRecord(i)
    PROVE  A!DeleteRecord(i)
BY SameCur, SameEdit, SameSetCopy, SameRecords
   DEF Plain, DeleteRecord, A!DeleteRecord

LEMMA SameDelete ==
    ASSUME Plain, Plain', NEW chosen, Delete(chosen)
    PROVE  A!Delete(chosen)
BY SameCur, SameEdit, SameSetCopy, SameRecords DEF Plain, Delete, A!Delete

LEMMA SameRename ==
    ASSUME Plain, Plain', NEW i, NEW n, NEW fits, Rename(i, n, fits)
    PROVE  A!Rename(i, n, fits)
BY SameCur, SameEdit, SameSetCopy, SameRecords DEF Plain, Rename, A!Rename

LEMMA SameSetRecordAttr ==
    ASSUME Plain, Plain', NEW i, NEW a, SetRecordAttr(i, a)
    PROVE  A!SetRecordAttr(i, a)
BY SameCur, SameEdit, SameSetCopy, SameRecords
   DEF Plain, SetRecordAttr, A!SetRecordAttr

-----------------------------------------------------------------------------
(* Flushes *)

(* While a flush runs, the archive is the one it found. *)
LEMMA Frozen ==
    ASSUME UNCHANGED <<Before, absCopy, absLoaded, absNew, absNext>>
    PROVE  /\ A!Pending' <=> A!Pending
           /\ A!NoHeavyUpdates' <=> A!NoHeavyUpdates
           /\ A!OldRecords' = A!OldRecords
           /\ A!NewRecords' = A!NewRecords
           /\ \A mimic : A!Fresh(mimic)' = A!Fresh(mimic)
           /\ \A r, i, inPlace :
                 A!OldComesOut(r, i, inPlace)' <=> A!OldComesOut(r, i, inPlace)
           /\ \A S, inPlace, mimic :
                 A!SkipsTo(S, inPlace, mimic)' <=> A!SkipsTo(S, inPlace, mimic)
<1>1. A!Touched' <=> A!Touched
  BY DEF A!Touched
<1>2. A!OldRecords' = A!OldRecords
  BY <1>1 DEF A!OldRecords
<1>3. A!NewRecords' = A!NewRecords
  BY DEF A!NewRecords
<1>4. A!Pending' <=> A!Pending
  BY <1>1, <1>2, <1>3 DEF A!Pending, A!AllDeleted
<1>5. A!NoHeavyUpdates' <=> A!NoHeavyUpdates
  BY <1>1, <1>2 DEF A!NoHeavyUpdates
<1>6. \A mimic : A!Fresh(mimic)' = A!Fresh(mimic)
  BY <1>3 DEF A!Fresh, A!CommentAdded
<1>7. ASSUME NEW r, NEW i, NEW inPlace
      PROVE  A!OldComesOut(r, i, inPlace)' <=> A!OldComesOut(r, i, inPlace)
  BY <1>2 DEF A!OldComesOut, A!OldAfter
<1>8. ASSUME NEW S, NEW inPlace, NEW mimic
      PROVE  A!SkipsTo(S, inPlace, mimic)' <=> A!SkipsTo(S, inPlace, mimic)
  <2>1. \A fresh, skip : A!Outcome(inPlace, fresh, skip)' = A!Outcome(inPlace, fresh, skip)
    BY <1>2 DEF A!Outcome, A!OldAfter
  <2>2. A!Fresh(mimic)' = A!Fresh(mimic)
    BY <1>6
  <2> QED
    BY <1>2, <2>1, <2>2 DEF A!SkipsTo
<1> QED
  BY <1>2, <1>3, <1>4, <1>5, <1>6, <1>7, <1>8

LEMMA SamePending ==
    ASSUME Plain
    PROVE  /\ A!Touched <=> Touched
           /\ A!Pending <=> Pending
           /\ A!NoHeavyUpdates <=> NoHeavyUpdates
           /\ A!OldRecords = OldRecords
           /\ A!NewRecords = NewRecords
           /\ \A mimic : A!Fresh(mimic) = Fresh(mimic)
<1>1. A!Touched <=> Touched
  BY SameRecords DEF Plain, A!Touched, Touched
<1>2. A!OldRecords = OldRecords
  BY <1>1, SameRecords DEF Plain, A!OldRecords, OldRecords
<1>3. A!NewRecords = NewRecords
  BY SameRecords DEF Plain, A!NewRecords, NewRecords
<1>4. A!Pending <=> Pending
  BY <1>1, <1>2, <1>3 DEF Plain, A!Pending, Pending, A!AllDeleted, AllDeleted
<1>5. A!NoHeavyUpdates <=> NoHeavyUpdates
  BY <1>1, <1>2, SameRecords DEF Plain, A!NoHeavyUpdates, NoHeavyUpdates
<1>6. ASSUME NEW mimic PROVE A!Fresh(mimic) = Fresh(mimic)
  BY <1>3, SameRecords DEF Plain, A!Fresh, Fresh, A!CommentAdded, CommentAdded
<1> QED
  BY <1>1, <1>2, <1>3, <1>4, <1>5, <1>6

FlFields == {"toTemp", "discard", "canAbort", "deleteAll", "todo", "at", "len0",
             "head", "off", "before"}

(* The records still as Begin found them *)
OldTodo == IF pc = "old" THEN fl.todo ELSE {}
NewTodo == IF pc = "old" THEN DOMAIN new ELSE IF pc = "new" THEN fl.todo ELSE {}

(* What steps 1 to 4 settled *)
Decided(modifyOrig, mimic) ==
    /\ fl.toTemp = ~(modifyOrig /\ A!NoHeavyUpdates)
    /\ nextIdx = IF A!Fresh(mimic) = A!NewRecords THEN absNext ELSE absNext + 1

OldWell ==
    /\ DOMAIN Cur = DOMAIN A!OldRecords
    /\ \A i \in DOMAIN Cur :
          IF i \in OldTodo THEN Cur[i] = A!OldRecords[i]
                           ELSE A!OldComesOut(Cur[i], i, ~fl.toTemp)
    /\ OldTodo \subseteq DOMAIN Cur
    /\ ~fl.toTemp => \A i \in OldTodo : Modified(Cur[i])

NewWell(mimic) ==
    LET F == A!Fresh(mimic)
    IN  /\ DOMAIN new \subseteq DOMAIN F
        /\ \A i \in DOMAIN new :
              new[i] = IF i \in NewTodo THEN F[i] ELSE A!Constructed(F[i], i)
        /\ \A i \in DOMAIN F \ DOMAIN new : \E m \in F[i].mods : m.src = "file"

Walking ==
    /\ orig = Before /\ A!Pending /\ DOMAIN fl = FlFields
    /\ \E modifyOrig \in Styles, mimic \in Mimics :
          Decided(modifyOrig, mimic) /\ NewWell(mimic)
    /\ OldWell

(* Step 12 has come, with something done or nothing to do. *)
Through(modifyOrig, mimic) ==
    LET inPlace == modifyOrig /\ A!NoHeavyUpdates
    IN  /\ nextIdx = IF A!Fresh(mimic) = A!NewRecords THEN absNext ELSE absNext + 1
        /\ A!SkipsTo(orig, inPlace, mimic)

AtEnd ==
    \/ ~A!Pending /\ orig = Before /\ nextIdx = absNext
    \/ A!Pending /\ \E modifyOrig \in Styles, mimic \in Mimics : Through(modifyOrig, mimic)

FlushInv ==
    /\ A!Whole
    /\ copyLoaded \in BOOLEAN
    /\ InFlush => mode = "RW"
    /\ InFlush /\ pc # "reset" => Walking
    /\ pc = "reset" => AtEnd

LEMMA Assumptions == A!RecordAssumption /\ A!ArchiveAssumption /\ A!WellFormedArchives
<1>1. A!AllThreadIDs = AllThreadIDs
  BY DEF A!AllThreadIDs, AllThreadIDs
<1>2. A!RecordAssumption
  BY <1>1, RecordAssumption
<1>3. A!ArchiveAssumption
  BY ArchiveAssumption, SameRecords
<1>4. \A ts : A!ThreadsCompatible(ts) <=> ThreadsCompatible(ts)
  BY DEF A!ThreadsCompatible, ThreadsCompatible
<1>5. \A r : A!ReadName(A!Stored(r)) = ReadName(Stored(r))
  BY DEF A!FilenameThreads, FilenameThreads, A!ReadName, ReadName,
         A!Stored, Stored, A!HeaderName, HeaderName
<1>6. A!WellFormedArchives
  BY <1>4, <1>5, SameRecords, WellFormedArchives
<1> QED
  BY <1>2, <1>3, <1>6

LEMMA InitFlush == FInit => FlushInv /\ A!Init
<1> SUFFICES ASSUME FInit PROVE FlushInv /\ A!Init
  OBVIOUS
<1>1. Plain /\ ~InFlush /\ pc = "idle" /\ copyLoaded \in BOOLEAN
  BY OpenIsPlain DEF FInit, Init, Idle, InFlush
<1>2. A!Init
  BY <1>1, SameRecords DEF FInit, Init, A!Init, Plain
<1>3. A!Whole
  BY <1>2, A!InitWhole, Assumptions
<1> QED
  BY <1>1, <1>2, <1>3 DEF FlushInv

LEMMA WholeGoesOn ==
    ASSUME A!Whole, [A!Next]_A!vars
    PROVE  A!Whole'
BY A!WholeKept, Assumptions

(* A step within a flush is no step of the archive. *)
LEMMA Within ==
    ASSUME A!Whole, Midway, Midway', fl'.before = fl.before, UNCHANGED <<mode, edits>>
    PROVE  /\ UNCHANGED A!vars
           /\ UNCHANGED <<Before, absCopy, absLoaded, absNew, absNext>>
           /\ A!Whole'
<1>1. UNCHANGED <<Before, absCopy, absLoaded, absNew, absNext, absResult>>
  BY DEF Before, absCopy, absLoaded, absNew, absNext, absResult
<1>2. UNCHANGED A!vars
  BY <1>1 DEF A!vars
<1> QED
  BY <1>1, <1>2, WholeGoesOn

(* Common to the edit calls *)
LEMMA EditCallIs ==
    ASSUME EditCall
    PROVE  /\ mode = "RW" /\ mode' = mode /\ orig' = orig /\ result' = "edited"
           /\ copyLoaded' = TRUE \/ copyLoaded' = copyLoaded
<1> DEFINE Shape == /\ mode = "RW" /\ mode' = mode /\ orig' = orig
                    /\ result' = "edited"
                    /\ copyLoaded' = TRUE \/ copyLoaded' = copyLoaded
<1>0. \A r, dups, used : AddRecordThen(r, dups, used) => Shape
  BY DEF AddRecordThen, HandleAddDuplicateRecord, SetCopy, Edit
<1>1. \A n, dups : AddRecord(n, dups) => Shape
  BY <1>0 DEF AddRecord
<1>2. \A n, id, v, dups : AddFile(n, id, v, dups) => Shape
  <2>1. Edit(1) /\ UNCHANGED <<copy, copyLoaded>> => Shape
    BY DEF Edit
  <2> HIDE DEF Shape
  <2> QED
    BY <1>0, <2>1 DEF AddFile
<1>3. \A i, id, v, src : AddThread(i, id, v, src) => Shape
  BY DEF AddThread, SetCopy, Edit
<1>4. \A i, t, v, src : UpdatePresizedThread(i, t, v, src) => Shape
  BY DEF UpdatePresizedThread, SetCopy, Edit
<1>5. \A i, t : DeleteThread(i, t) => Shape
  BY DEF DeleteThread, SetCopy, Edit
<1>6. \A i, n, fits : Rename(i, n, fits) => Shape
  BY DEF Rename, SetCopy, Edit
<1>7. \A i, a : DeleteRecord(i) \/ Delete(i) \/ SetRecordAttr(i, a) => Shape
  BY DEF DeleteRecord, Delete, SetRecordAttr, SetCopy, Edit
<1> HIDE DEF Shape
<1>8. Shape
  BY <1>1, <1>2, <1>3, <1>4, <1>5, <1>6, <1>7 DEF EditCall
<1> QED
  BY <1>8 DEF Shape

LEMMA EditStepRefines ==
    ASSUME FlushInv, EditStep
    PROVE  A!EditCall /\ FlushInv'
<1>1. /\ mode = "RW" /\ mode' = mode
      /\ copyLoaded' = TRUE \/ copyLoaded' = copyLoaded
  BY EditCallIs DEF EditStep
<1>2. Idle /\ Idle' /\ copyLoaded \in BOOLEAN /\ copyLoaded' \in BOOLEAN
  BY <1>1 DEF EditStep, Idle, FlushInv
<1>3. Plain /\ Plain'
  <2>1. Plain
    BY <1>1, <1>2, OpenIsPlain
  <2>2. Plain'
    BY <1>1, <1>2 DEF Plain, Idle, Midway, InFlush, Gone, Before, absCopy,
                      absLoaded, absNew, absNext, absResult
  <2> QED
    BY <2>1, <2>2
<1>4. A!EditCall
  <2>1. EditCall /\ A!Cur = Cur
    BY <1>3, SameCur DEF EditStep
  <2>2. ASSUME NEW n \in Names, NEW dups \in DupModes, AddRecord(n, dups)
        PROVE  A!EditCall
    BY <1>3, <2>2, SameAddRecordThen, SameRecords
       DEF AddRecord, A!AddRecord, A!EditCall
  <2>3. ASSUME NEW n \in Names, NEW id \in ThreadIDs \ {"filename"}, NEW v \in Data,
               NEW dups \in DupModes, AddFile(n, id, v, dups)
        PROVE  A!EditCall
    BY <1>3, <2>3, SameAddFile DEF A!EditCall
  <2>4. ASSUME NEW i \in DOMAIN Cur \cup DOMAIN new, NEW id \in ThreadIDs,
               NEW v \in Contents, NEW src \in Sources,
               id = "filename" <=> v \in Names, v \in Names \cup Data,
               AddThread(i, id, v, src)
        PROVE  A!EditCall
    <3>1. v \in A!Contents
      BY DEF Contents, A!Contents
    <3>2. i \in DOMAIN A!Cur \cup DOMAIN absNew
      BY <1>3, <2>1 DEF Plain
    <3> QED
      BY <1>3, <2>4, <3>1, <3>2, SameAddThread DEF A!EditCall
  <2>5. ASSUME NEW i \in DOMAIN Cur, NEW v \in Names \cup Data, NEW src \in Sources,
               NEW t \in DOMAIN Cur[i].threads,
               Cur[i].threads[t].id = "filename" <=> v \in Names,
               UpdatePresizedThread(i, t, v, src)
        PROVE  A!EditCall
    BY <1>3, <2>1, <2>5, SameUpdatePresizedThread DEF A!EditCall
  <2>6. ASSUME NEW i \in DOMAIN Cur, NEW t \in DOMAIN Cur[i].threads, DeleteThread(i, t)
        PROVE  A!EditCall
    BY <1>3, <2>1, <2>6, SameDeleteThread DEF A!EditCall
  <2>7. ASSUME NEW i \in DOMAIN Cur, DeleteRecord(i)
        PROVE  A!EditCall
    BY <1>3, <2>1, <2>7, SameDeleteRecord DEF A!EditCall
  <2>8. ASSUME NEW chosen \in SUBSET DOMAIN Cur, Delete(chosen)
        PROVE  A!EditCall
    BY <1>3, <2>1, <2>8, SameDelete DEF A!EditCall
  <2>9. ASSUME NEW i \in DOMAIN Cur, NEW n \in Names, NEW fits \in BOOLEAN,
               Rename(i, n, fits)
        PROVE  A!EditCall
    BY <1>3, <2>1, <2>9, SameRename DEF A!EditCall
  <2>10. ASSUME NEW i \in DOMAIN Cur, NEW a \in Attrs, SetRecordAttr(i, a)
         PROVE  A!EditCall
    BY <1>3, <2>1, <2>10, SameSetRecordAttr DEF A!EditCall
  <2> QED
    BY <2>1, <2>2, <2>3, <2>4, <2>5, <2>6, <2>7, <2>8, <2>9, <2>10 DEF EditCall
<1>5. A!Whole'
  BY <1>4, WholeGoesOn DEF FlushInv, A!Next
<1> QED
  BY <1>2, <1>4, <1>5 DEF FlushInv, Idle, InFlush

(* Everything pending dropped, with the index a comment may have taken *)
LEMMA Forgets ==
    ASSUME FlushInv, ~Midway', mode' = "RO" \/ DropSets, UNCHANGED <<nextIdx, edits>>,
           mode = "RW", Idle \/ InFlush
    PROVE  A!Forget
<1>1. /\ absCopy' = A!EmptyMap /\ absNew' = A!EmptyMap /\ absLoaded' = FALSE
      /\ absNext' = nextIdx
  BY SameRecords DEF Gone, DropSets, absCopy, absLoaded, absNew, absNext
<1>2. CASE Idle
  <2>1. absNext = nextIdx
    BY <1>2 DEF absNext, Midway, Idle, InFlush
  <2> QED
    BY <1>1, <2>1 DEF A!Forget
<1>3. CASE InFlush
  <2>1. \/ nextIdx = absNext
        \/ \E mimic \in Mimics : /\ A!Fresh(mimic) # A!NewRecords
                                 /\ nextIdx = absNext + 1
    BY <1>3 DEF FlushInv, Walking, Decided, AtEnd, Through
  <2>2. \A mimic \in Mimics : A!Fresh(mimic) # A!NewRecords =>
           TRUE \in Mimics /\ DOMAIN A!NewRecords # {}
    BY A!FreshIs, Assumptions, ArchiveAssumption DEF FlushInv
  <2> QED
    BY <1>1, <2>1, <2>2 DEF A!Forget
<1> QED
  BY <1>2, <1>3
LEMMA GiveUpRefines ==
    ASSUME FlushInv, GiveUp
    PROVE  A!FlushAbort /\ FlushInv'
<1>1. Idle /\ Idle' /\ mode = "RW" /\ mode' = mode /\ DropSets
      /\ UNCHANGED <<orig, nextIdx, edits>> /\ result' = "aborted"
  BY DEF GiveUp, Idle
<1>2. ~Midway /\ ~Midway'
  BY <1>1 DEF Idle, Midway, InFlush
<1>3. A!Forget
  BY <1>1, <1>2, Forgets
<1>4. Before' = Before /\ absResult' = "aborted"
  BY <1>1, <1>2 DEF Before, absResult
<1>5. A!FlushAbort
  BY <1>1, <1>3, <1>4 DEF A!FlushAbort
<1>6. A!Whole'
  BY <1>5, WholeGoesOn DEF FlushInv, A!Next
<1> QED
  BY <1>1, <1>5, <1>6 DEF FlushInv, Idle, InFlush, DropSets

LEMMA CloseStutters ==
    ASSUME FlushInv, Close
    PROVE  UNCHANGED A!vars /\ FlushInv'
<1>1. /\ ~Midway /\ ~Midway' /\ ~InFlush /\ ~InFlush' /\ UNCHANGED vars
      /\ pc' = "closed"
  BY DEF Close, Idle, Midway, InFlush
<1>2. UNCHANGED A!vars
  BY <1>1 DEF vars, A!vars, Before, absCopy, absLoaded, absNew, absNext, absResult, Gone
<1>3. A!Whole'
  BY <1>2, WholeGoesOn DEF FlushInv
<1> QED
  BY <1>1, <1>2, <1>3 DEF FlushInv, vars

(* What was there when the flush began is kept in fl.before. *)
LEMMA Starts ==
    ASSUME FlushInv, Idle, mode = "RW", InFlush', UNCHANGED <<mode, edits>>,
           fl'.before.orig = orig, fl'.before.copy = copy, fl'.before.loaded = copyLoaded,
           fl'.before.new = new, fl'.before.nextIdx = nextIdx, fl'.before.result = result
    PROVE  /\ Plain
           /\ UNCHANGED A!vars
           /\ UNCHANGED <<Before, absCopy, absLoaded, absNew, absNext>>
           /\ A!Whole'
<1>1. Plain
  BY OpenIsPlain DEF FlushInv
<1>2. UNCHANGED <<Before, absCopy, absLoaded, absNew, absNext, absResult>>
  BY <1>1 DEF Plain, Midway, Before, absCopy, absLoaded, absNew, absNext, absResult
<1>3. UNCHANGED A!vars
  BY <1>2 DEF A!vars
<1> QED
  BY <1>1, <1>2, <1>3, WholeGoesOn DEF FlushInv

LEMMA BeginNothingStutters ==
    ASSUME FlushInv, BeginNothing
    PROVE  UNCHANGED A!vars /\ FlushInv'
<1>1. /\ Idle /\ mode = "RW" /\ ~Pending /\ InFlush' /\ pc' = "reset" /\ UNCHANGED vars
      /\ fl'.before = [orig |-> orig, copy |-> copy, loaded |-> copyLoaded,
                       new |-> new, nextIdx |-> nextIdx, result |-> result]
  BY DEF BeginNothing, InFlush
<1>2. /\ Plain /\ UNCHANGED A!vars /\ A!Whole'
      /\ UNCHANGED <<Before, absCopy, absLoaded, absNew, absNext>>
  BY <1>1, Starts DEF vars
<1>3. ~A!Pending'
  BY <1>1, <1>2, Frozen, SamePending
<1>4. AtEnd'
  BY <1>1, <1>2, <1>3 DEF AtEnd, Plain, vars
<1> QED
  BY <1>1, <1>2, <1>4 DEF FlushInv, vars

(* A record nobody changed comes out as it is. *)
LEMMA UntouchedComesOut ==
    ASSUME FlushInv, NEW i \in DOMAIN A!OldRecords, ~Modified(A!OldRecords[i]), NEW inPlace
    PROVE  A!OldComesOut(A!OldRecords[i], i, inPlace)
<1>1. A!OldRecords[i].mods = {}
  BY DEF Modified
<1>2. A!OneFilename(A!OldRecords[i])
  BY <1>1, A!UpdatedOneFilename, Assumptions DEF FlushInv
<1>3. A!OldAfter(i, inPlace, {}) = A!OldRecords[i]
  BY SameRecords DEF A!OldAfter
<1> QED
  BY <1>2, <1>3 DEF A!OldComesOut

LEMMA BeginStutters ==
    ASSUME FlushInv, Begin
    PROVE  UNCHANGED A!vars /\ FlushInv'
<1>1. PICK modifyOrig \in Styles, discard \in Discards, mimic \in Mimics :
         LET toTemp == ~(modifyOrig /\ NoHeavyUpdates)
             fresh  == Fresh(mimic)
             newOff == IF toTemp /\ discard THEN 0 ELSE hoff
         IN  /\ new' = fresh
             /\ nextIdx' = IF fresh = NewRecords THEN nextIdx ELSE nextIdx + 1
             /\ fl' = [toTemp    |-> toTemp,
                       discard   |-> toTemp /\ discard,
                       canAbort  |-> toTemp \/ ~Touched,
                       deleteAll |-> AllDeleted,
                       todo      |-> IF toTemp THEN DOMAIN OldRecords
                                     ELSE {i \in DOMAIN OldRecords :
                                               Modified(OldRecords[i])},
                       at        |-> newOff + 1,
                       len0      |-> Length(arch),
                       head      |-> mh,
                       off       |-> Restrict(offs, DOMAIN OldRecords),
                       before    |-> [orig |-> orig, copy |-> copy,
                                      loaded |-> copyLoaded, new |-> new,
                                      nextIdx |-> nextIdx, result |-> result,
                                      hoff |-> hoff, offs |-> offs]]
  BY ZenonT(60) DEF Begin
<1>2. /\ Idle /\ mode = "RW" /\ Pending /\ pc' = "old"
      /\ UNCHANGED <<orig, mode, edits>>
      /\ copyLoaded' = Touched
      /\ copy' = IF Touched THEN OldRecords ELSE EmptyMap
  BY DEF Begin
<1>3. /\ fl'.before.orig = orig /\ fl'.before.copy = copy
      /\ fl'.before.loaded = copyLoaded /\ fl'.before.new = new
      /\ fl'.before.nextIdx = nextIdx /\ fl'.before.result = result
      /\ fl'.toTemp = ~(modifyOrig /\ NoHeavyUpdates)
      /\ fl'.todo = IF fl'.toTemp THEN DOMAIN OldRecords
                    ELSE {i \in DOMAIN OldRecords : Modified(OldRecords[i])}
      /\ DOMAIN fl' = FlFields
  BY <1>1 DEF FlFields
<1>4. InFlush'
  BY <1>2 DEF InFlush
<1>5. /\ Plain /\ UNCHANGED A!vars /\ A!Whole'
      /\ UNCHANGED <<Before, absCopy, absLoaded, absNew, absNext>>
  BY <1>2, <1>3, <1>4, Starts
<1>6. /\ A!Pending' /\ A!OldRecords' = OldRecords /\ A!OldRecords = OldRecords
      /\ A!NewRecords' = NewRecords
      /\ (A!NoHeavyUpdates' <=> NoHeavyUpdates) /\ (A!NoHeavyUpdates <=> NoHeavyUpdates)
      /\ A!Fresh(mimic)' = Fresh(mimic)
  BY <1>2, <1>5, Frozen, SamePending
<1>7. Cur' = OldRecords
  BY <1>2 DEF Cur, OldRecords
<1>8. orig' = Before' /\ absNext' = nextIdx
  BY <1>2, <1>5 DEF Plain
<1>9. OldWell'
  <2>1. ASSUME NEW i \in DOMAIN OldRecords, i \notin fl'.todo
        PROVE  A!OldComesOut(Cur[i], i, ~fl.toTemp)'
    <3>1. ~Modified(OldRecords[i])
      BY <1>3, <2>1
    <3>2. A!OldComesOut(Cur'[i], i, ~fl'.toTemp)
      BY <1>6, <1>7, <3>1, UntouchedComesOut
    <3> QED
      BY <1>5, <3>2, Frozen
  <2>2. OldTodo' = fl'.todo
    BY <1>2 DEF OldTodo
  <2>3. OldTodo' \subseteq DOMAIN Cur' /\ (~fl'.toTemp => \A i \in OldTodo' : Modified(Cur'[i]))
    BY <1>3, <1>7, <2>2
  <2> QED
    BY <1>6, <1>7, <2>1, <2>2, <2>3 DEF OldWell, Modified
<1>10. Decided(modifyOrig, mimic)'
  BY <1>1, <1>3, <1>6, <1>8 DEF Decided
<1>11. NewWell(mimic)'
  <2>1. new' = A!Fresh(mimic)' /\ NewTodo' = DOMAIN new'
    BY <1>1, <1>2, <1>6 DEF NewTodo
  <2> QED
    BY <2>1 DEF NewWell
<1>12. Walking'
  BY <1>3, <1>6, <1>8, <1>9, <1>10, <1>11 DEF Walking
<1>13. copyLoaded' \in BOOLEAN
  BY <1>2 DEF Touched, FlushInv
<1> QED
  BY <1>2, <1>5, <1>12, <1>13 DEF FlushInv
(* Step 5, done with record i *)
LEMMA OldStep ==
    ASSUME FlushInv, pc = "old", pc' = "old", NEW i \in DOMAIN Cur, i \in fl.todo,
           UNCHANGED <<orig, copyLoaded, new, nextIdx, mode, edits>>,
           fl'.toTemp = fl.toTemp, fl'.before = fl.before, fl'.todo = fl.todo \ {i},
           DOMAIN fl' = DOMAIN fl, DOMAIN Cur' = DOMAIN Cur,
           \A j \in DOMAIN Cur : j # i => Cur'[j] = Cur[j],
           A!OldComesOut(Cur'[i], i, ~fl.toTemp)
    PROVE  UNCHANGED A!vars /\ FlushInv'
<1>1. Walking /\ InFlush /\ InFlush' /\ mode = "RW" /\ Midway /\ Midway'
  BY DEF FlushInv, InFlush, Midway
<1>2. /\ UNCHANGED A!vars /\ A!Whole'
      /\ UNCHANGED <<Before, absCopy, absLoaded, absNew, absNext>>
  BY <1>1, Within DEF FlushInv
<1>3. OldTodo = fl.todo /\ OldTodo' = fl.todo \ {i}
  BY DEF OldTodo
<1>4. OldWell'
  <2>1. A!OldRecords' = A!OldRecords
    BY <1>2, Frozen
  <2>2. ASSUME NEW j \in DOMAIN Cur, j \notin OldTodo'
        PROVE  A!OldComesOut(Cur[j], j, ~fl.toTemp)'
    <3>1. A!OldComesOut(Cur'[j], j, ~fl'.toTemp)
      BY <1>1, <1>3, <2>2 DEF Walking, OldWell
    <3> QED
      BY <1>2, <3>1, Frozen
  <2>3. ASSUME NEW j \in DOMAIN Cur, j \in OldTodo'
        PROVE  Cur'[j] = A!OldRecords[j]
    BY <1>1, <1>3, <2>3 DEF Walking, OldWell
  <2>4. ~fl'.toTemp => \A j \in OldTodo' : Modified(Cur'[j])
    <3> SUFFICES ASSUME ~fl.toTemp, NEW j \in OldTodo' PROVE Modified(Cur'[j])
      OBVIOUS
    <3>1. j \in OldTodo /\ j # i /\ Modified(Cur[j])
      BY <1>1, <1>3 DEF Walking, OldWell
    <3> QED
      BY <1>1, <3>1 DEF Walking, OldWell
  <2> QED
    BY <1>1, <1>3, <2>1, <2>2, <2>3, <2>4 DEF Walking, OldWell, Modified
<1>5. \A modifyOrig, mimic : Decided(modifyOrig, mimic) => Decided(modifyOrig, mimic)'
  BY <1>2, Frozen DEF Decided
<1>6. \A mimic : NewWell(mimic) => NewWell(mimic)'
  <2>1. NewTodo = DOMAIN new /\ NewTodo' = DOMAIN new
    BY DEF NewTodo
  <2> QED
    BY <1>2, <2>1, Frozen DEF NewWell
<1>7. Walking'
  BY <1>1, <1>2, <1>4, <1>5, <1>6, Frozen DEF Walking
<1> QED
  BY <1>1, <1>2, <1>7 DEF FlushInv

(* The record the walk has come to is as Begin found it; if it was         *)
(* modified there is a copy set, and it is in it.                          *)
LEMMA OldFacts ==
    ASSUME FlushInv, pc = "old", NEW i \in DOMAIN Cur, AtRecord(i)
    PROVE  /\ Walking /\ i \in fl.todo /\ DOMAIN fl = FlFields
           /\ i \in DOMAIN A!OldRecords /\ Cur[i] = A!OldRecords[i]
           /\ Modified(Cur[i]) => copyLoaded /\ Cur = copy
           /\ ~fl.toTemp => Modified(Cur[i]) /\ A!NoHeavyUpdates
<1>1. Walking /\ i \in fl.todo
  BY DEF FlushInv, InFlush, AtRecord, IsFirst
<1>2. /\ i \in DOMAIN A!OldRecords /\ Cur[i] = A!OldRecords[i] /\ DOMAIN fl = FlFields
      /\ ~fl.toTemp => Modified(Cur[i]) /\ A!NoHeavyUpdates
  BY <1>1 DEF Walking, OldWell, OldTodo, Decided
<1>3. Modified(Cur[i]) => copyLoaded
  <2>1. \A j \in DOMAIN Before : ~Modified(Before[j])
    BY DEF FlushInv, A!Whole, A!Full, A!Inv, A!OrigClean, Modified
  <2> QED
    BY <1>1, <2>1 DEF Walking, Cur
<1> QED
  BY <1>1, <1>2, <1>3 DEF Cur

LEMMA WriteTempIs ==
    ASSUME NEW i, NEW cell, WriteTemp(i, cell), DOMAIN fl = FlFields
    PROVE  /\ fl'.toTemp = fl.toTemp /\ fl'.before = fl.before
           /\ fl'.todo = fl.todo \ {i} /\ DOMAIN fl' = DOMAIN fl
BY DEF WriteTemp, FlFields

LEMMA CopyOldStutters ==
    ASSUME FlushInv, NEW i \in DOMAIN Cur, CopyOld(i)
    PROVE  UNCHANGED A!vars /\ FlushInv'
<1>1. /\ pc = "old" /\ pc' = "old" /\ AtRecord(i) /\ ~Modified(Cur[i])
      /\ UNCHANGED vars /\ WriteTemp(i, arch[fl.off[i]])
  BY DEF CopyOld
<1>2. /\ i \in fl.todo /\ DOMAIN fl = FlFields /\ i \in DOMAIN A!OldRecords
      /\ Cur[i] = A!OldRecords[i]
  BY <1>1, OldFacts
<1>3. A!OldComesOut(Cur[i], i, ~fl.toTemp)
  BY <1>1, <1>2, UntouchedComesOut
<1>4. Cur' = Cur
  BY <1>1 DEF Cur, vars
<1> QED
  BY <1>1, <1>2, <1>3, <1>4, WriteTempIs, OldStep DEF vars

(* A change to record i of the copy set *)
LEMMA CopySetIs ==
    ASSUME copyLoaded, copyLoaded' = copyLoaded, NEW i \in DOMAIN copy, NEW r,
           copy' = [copy EXCEPT ![i] = r]
    PROVE  /\ Cur' = copy' /\ DOMAIN Cur' = DOMAIN Cur /\ Cur'[i] = r
           /\ \A j \in DOMAIN Cur : j # i => Cur'[j] = Cur[j]
BY DEF Cur

LEMMA BuildOldStutters ==
    ASSUME FlushInv, NEW i \in DOMAIN Cur, BuildOld(i)
    PROVE  UNCHANGED A!vars /\ FlushInv'
<1> DEFINE r == A!OldRecords[i]
<1>1. /\ pc = "old" /\ pc' = "old" /\ AtRecord(i) /\ Modified(Cur[i])
      /\ OneFilename(Cur[i]) /\ fl.toTemp
      /\ copy' = [copy EXCEPT ![i] = Applied(copy[i], copy[i].mods)]
      /\ WriteTemp(i, Carry(i, copy'[i]))
      /\ UNCHANGED <<orig, copyLoaded, new, nextIdx, mode, edits>>
  BY DEF BuildOld
<1>2. /\ i \in fl.todo /\ DOMAIN fl = FlFields /\ i \in DOMAIN A!OldRecords
      /\ Cur[i] = r /\ copyLoaded /\ Cur = copy
  BY <1>1, OldFacts
<1>3. A!OldComesOut(Applied(r, r.mods), i, FALSE)
  <2>1. A!OldAfter(i, FALSE, {}) = Applied(r, r.mods)
    BY <1>1, <1>2, SameRecords DEF A!OldAfter
  <2>2. A!OneFilename(r)
    BY <1>1, <1>2, SameRecords
  <2> QED
    BY <2>1, <2>2 DEF A!OldComesOut
<1>4. /\ DOMAIN Cur' = DOMAIN Cur /\ Cur'[i] = Applied(r, r.mods)
      /\ \A j \in DOMAIN Cur : j # i => Cur'[j] = Cur[j]
  BY <1>1, <1>2, CopySetIs
<1>5. A!OldComesOut(Cur'[i], i, ~fl.toTemp)
  BY <1>1, <1>3, <1>4
<1> QED
  BY <1>1, <1>2, <1>4, <1>5, WriteTempIs, OldStep

LEMMA SkipOldStutters ==
    ASSUME FlushInv, NEW i \in DOMAIN Cur, SkipOld(i)
    PROVE  UNCHANGED A!vars /\ FlushInv'
<1> DEFINE r    == A!OldRecords[i]
           skip == {m \in r.mods : m.kind = "add" /\ m.src = "file"}
<1>1. /\ pc = "old" /\ pc' = "old" /\ AtRecord(i) /\ fl.toTemp
      /\ \E m \in Cur[i].mods : m.kind = "add" /\ m.src = "file"
      /\ copy' = [copy EXCEPT ![i] = orig[i]]
      /\ WriteTemp(i, arch[offs[i]])
      /\ UNCHANGED <<orig, copyLoaded, new, nextIdx, mode, edits>>
  BY DEF SkipOld
<1>2. Modified(Cur[i])
  BY <1>1 DEF Modified
<1>3. /\ i \in fl.todo /\ DOMAIN fl = FlFields /\ i \in DOMAIN A!OldRecords
      /\ Cur[i] = r /\ copyLoaded /\ Cur = copy /\ Walking
  BY <1>1, <1>2, OldFacts
<1>4. skip # {} /\ r.mods \cap skip # {}
  BY <1>1, <1>3
<1>5. A!OldAfter(i, FALSE, skip) = orig[i]
  BY <1>2, <1>3, <1>4, SameRecords DEF A!OldAfter, Walking
<1>6. A!OldComesOut(orig[i], i, FALSE)
  BY <1>4, <1>5 DEF A!OldComesOut
<1>7. /\ DOMAIN Cur' = DOMAIN Cur /\ Cur'[i] = orig[i]
      /\ \A j \in DOMAIN Cur : j # i => Cur'[j] = Cur[j]
  BY <1>1, <1>3, CopySetIs
<1>8. A!OldComesOut(Cur'[i], i, ~fl.toTemp)
  BY <1>1, <1>6, <1>7
<1> QED
  BY <1>1, <1>3, <1>7, <1>8, WriteTempIs, OldStep

LEMMA UpdateOldStutters ==
    ASSUME FlushInv, NEW i \in DOMAIN Cur, UpdateOld(i)
    PROVE  UNCHANGED A!vars /\ FlushInv'
<1> DEFINE r == A!OldRecords[i]
<1>1. PICK skip \in SUBSET FileMods(Restrict(copy, {i})) :
         copy' = [copy EXCEPT ![i] = Applied(copy[i], copy[i].mods \ skip)]
  BY DEF UpdateOld
<1>2. /\ pc = "old" /\ pc' = "old" /\ AtRecord(i) /\ ~fl.toTemp
      /\ fl' = [fl EXCEPT !.todo = fl.todo \ {i}]
      /\ UNCHANGED <<orig, copyLoaded, new, nextIdx, mode, edits>>
  BY DEF UpdateOld
<1>3. /\ i \in fl.todo /\ DOMAIN fl = FlFields /\ i \in DOMAIN A!OldRecords
      /\ Cur[i] = r /\ copyLoaded /\ Cur = copy /\ Modified(r) /\ A!NoHeavyUpdates
  BY <1>2, OldFacts
<1>4. /\ fl'.toTemp = fl.toTemp /\ fl'.before = fl.before
      /\ fl'.todo = fl.todo \ {i} /\ DOMAIN fl' = DOMAIN fl
  BY <1>2, <1>3 DEF FlFields
<1>5. skip \in SUBSET r.mods /\ \A m \in skip : m.src = "file"
  BY <1>1, <1>3 DEF FileMods, Restrict
<1>6. A!OneFilename(r)
  BY <1>3, A!LightMods, A!UpdatedOneFilename, Assumptions DEF FlushInv
<1>7. A!OldAfter(i, TRUE, skip) = Applied(r, r.mods \ skip)
  BY <1>3, SameRecords DEF A!OldAfter
<1>8. A!OldComesOut(Applied(r, r.mods \ skip), i, TRUE)
  BY <1>5, <1>6, <1>7 DEF A!OldComesOut
<1>9. /\ DOMAIN Cur' = DOMAIN Cur /\ Cur'[i] = Applied(r, r.mods \ skip)
      /\ \A j \in DOMAIN Cur : j # i => Cur'[j] = Cur[j]
  BY <1>1, <1>2, <1>3, CopySetIs
<1>10. A!OldComesOut(Cur'[i], i, ~fl.toTemp)
  BY <1>2, <1>8, <1>9
<1> QED
  BY <1>2, <1>3, <1>4, <1>9, <1>10, OldStep
LEMMA OldDoneStutters ==
    ASSUME FlushInv, OldDone
    PROVE  UNCHANGED A!vars /\ FlushInv'
<1>1. /\ pc = "old" /\ pc' = "new" /\ fl.todo = {} /\ UNCHANGED vars
      /\ fl' = [fl EXCEPT !.todo = DOMAIN new,
                          !.at = IF fl.toTemp THEN @ ELSE hoff + mh.eof]
  BY DEF OldDone
<1>2. Walking /\ InFlush /\ InFlush' /\ mode = "RW" /\ Midway /\ Midway'
  BY <1>1 DEF FlushInv, InFlush, Midway
<1>3. /\ fl'.toTemp = fl.toTemp /\ fl'.before = fl.before
      /\ fl'.todo = DOMAIN new /\ DOMAIN fl' = DOMAIN fl
  BY <1>1, <1>2 DEF Walking, FlFields
<1>4. /\ UNCHANGED A!vars /\ A!Whole'
      /\ UNCHANGED <<Before, absCopy, absLoaded, absNew, absNext>>
  BY <1>1, <1>2, <1>3, Within DEF FlushInv, vars
<1>5. OldWell'
  <2>1. OldTodo = {} /\ OldTodo' = {} /\ Cur' = Cur /\ A!OldRecords' = A!OldRecords
    BY <1>1, <1>4, Frozen DEF OldTodo, Cur, vars
  <2>2. ASSUME NEW j \in DOMAIN Cur
        PROVE  A!OldComesOut(Cur[j], j, ~fl.toTemp)'
    <3>1. A!OldComesOut(Cur'[j], j, ~fl'.toTemp)
      BY <1>2, <1>3, <2>1 DEF Walking, OldWell
    <3> QED
      BY <1>4, <3>1, Frozen
  <2> QED
    BY <1>2, <2>1, <2>2 DEF Walking, OldWell
<1>6. \A modifyOrig, mimic : Decided(modifyOrig, mimic) => Decided(modifyOrig, mimic)'
  BY <1>1, <1>3, <1>4, Frozen DEF Decided, vars
<1>7. \A mimic : NewWell(mimic) => NewWell(mimic)'
  <2>1. NewTodo = DOMAIN new /\ NewTodo' = DOMAIN new /\ new' = new
    BY <1>1, <1>3 DEF NewTodo, vars
  <2> QED
    BY <1>4, <2>1, Frozen DEF NewWell
<1>8. Walking'
  BY <1>1, <1>2, <1>3, <1>4, <1>5, <1>6, <1>7, Frozen DEF Walking, vars
<1> QED
  BY <1>1, <1>2, <1>4, <1>8 DEF FlushInv, vars

(* Past step 5, the existing records are what they will be. *)
LEMMA OldWellStays ==
    ASSUME FlushInv, Walking, pc # "old", pc' # "old", UNCHANGED <<orig, copy, copyLoaded>>,
           UNCHANGED <<Before, absCopy, absLoaded, absNew, absNext>>, fl'.toTemp = fl.toTemp
    PROVE  OldWell'
<1>1. OldTodo = {} /\ OldTodo' = {} /\ Cur' = Cur /\ A!OldRecords' = A!OldRecords
  BY Frozen DEF OldTodo, Cur
<1>2. ASSUME NEW j \in DOMAIN Cur
      PROVE  A!OldComesOut(Cur[j], j, ~fl.toTemp)'
  <2>1. A!OldComesOut(Cur'[j], j, ~fl'.toTemp)
    BY <1>1 DEF Walking, OldWell
  <2> QED
    BY <2>1, Frozen
<1> QED
  BY <1>1, <1>2 DEF Walking, OldWell

(* Step 6, done with record i *)
LEMMA NewStep ==
    ASSUME FlushInv, pc = "new", pc' = "new", NEW i \in DOMAIN new, i \in fl.todo,
           UNCHANGED <<orig, copy, copyLoaded, nextIdx, mode, edits>>,
           fl'.toTemp = fl.toTemp, fl'.before = fl.before, fl'.todo = fl.todo \ {i},
           DOMAIN fl' = DOMAIN fl, DOMAIN new' \subseteq DOMAIN new,
           \A j \in DOMAIN new : j # i => j \in DOMAIN new' /\ new'[j] = new[j],
           i \in DOMAIN new' => new'[i] = Constructed(new[i], i),
           i \notin DOMAIN new' => \E m \in new[i].mods : m.src = "file"
    PROVE  UNCHANGED A!vars /\ FlushInv'
<1>1. Walking /\ InFlush /\ InFlush' /\ mode = "RW" /\ Midway /\ Midway'
  BY DEF FlushInv, InFlush, Midway
<1>2. /\ UNCHANGED A!vars /\ A!Whole'
      /\ UNCHANGED <<Before, absCopy, absLoaded, absNew, absNext>>
  BY <1>1, Within DEF FlushInv
<1>3. OldWell'
  BY <1>1, <1>2, OldWellStays
<1>4. \A modifyOrig, mimic : Decided(modifyOrig, mimic) => Decided(modifyOrig, mimic)'
  BY <1>2, Frozen DEF Decided
<1>5. ASSUME NEW mimic, NewWell(mimic) PROVE NewWell(mimic)'
  <2> DEFINE F == A!Fresh(mimic)
  <2>1. NewTodo = fl.todo /\ NewTodo' = fl.todo \ {i}
    BY DEF NewTodo
  <2>2. F' = F
    BY <1>2, Frozen
  <2>3. DOMAIN new' \subseteq DOMAIN F /\ new[i] = F[i]
    BY <1>5, <2>1 DEF NewWell
  <2>4. ASSUME NEW j \in DOMAIN new'
        PROVE  new'[j] = IF j \in NewTodo' THEN F[j] ELSE A!Constructed(F[j], j)
    <3>1. CASE j = i
      BY <2>1, <2>3, <3>1, SameRecords
    <3>2. CASE j # i
      BY <1>5, <2>1, <3>2 DEF NewWell
    <3> QED
      BY <3>1, <3>2
  <2>5. ASSUME NEW j \in DOMAIN F \ DOMAIN new'
        PROVE  \E m \in F[j].mods : m.src = "file"
    <3>1. CASE j = i
      BY <2>3, <2>5, <3>1
    <3>2. CASE j # i
      BY <1>5, <2>5, <3>2 DEF NewWell
    <3> QED
      BY <3>1, <3>2
  <2> HIDE DEF F
  <2>6. /\ DOMAIN new' \subseteq DOMAIN F'
        /\ \A j \in DOMAIN new' :
              new'[j] = IF j \in NewTodo' THEN F'[j] ELSE A!Constructed(F'[j], j)
        /\ \A j \in DOMAIN F' \ DOMAIN new' : \E m \in F'[j].mods : m.src = "file"
    BY <2>2, <2>3, <2>4, <2>5
  <2> QED
    BY <2>6, SameRecords DEF NewWell, F
<1>6. Walking'
  BY <1>1, <1>2, <1>3, <1>4, <1>5, Frozen DEF Walking
<1> QED
  BY <1>1, <1>2, <1>6 DEF FlushInv

LEMMA WalkNewStutters ==
    ASSUME FlushInv, NEW i \in DOMAIN new, WalkNew(i)
    PROVE  UNCHANGED A!vars /\ FlushInv'
<1>1. /\ pc = "new" /\ pc' = "new" /\ i \in fl.todo
      /\ UNCHANGED <<orig, copy, copyLoaded, nextIdx, mode, edits>>
  BY DEF WalkNew, BuildNew, SkipNew, AtRecord, IsFirst
<1>2. DOMAIN fl = FlFields
  BY <1>1 DEF FlushInv, InFlush, Walking
<1>3. /\ fl'.toTemp = fl.toTemp /\ fl'.before = fl.before
      /\ fl'.todo = fl.todo \ {i} /\ DOMAIN fl' = DOMAIN fl
  <2>1. CASE BuildNew(i)
    BY <1>2, <2>1 DEF BuildNew, FlFields
  <2>2. CASE SkipNew(i)
    BY <1>2, <2>2 DEF SkipNew, FlFields
  <2> QED
    BY <2>1, <2>2 DEF WalkNew
<1>4. /\ DOMAIN new' \subseteq DOMAIN new
      /\ \A j \in DOMAIN new : j # i => j \in DOMAIN new' /\ new'[j] = new[j]
      /\ i \in DOMAIN new' => new'[i] = Constructed(new[i], i)
      /\ i \notin DOMAIN new' => \E m \in new[i].mods : m.src = "file"
  <2>1. CASE BuildNew(i)
    BY <2>1 DEF BuildNew
  <2>2. CASE SkipNew(i)
    BY <2>2 DEF SkipNew, Without, Restrict
  <2> QED
    BY <2>1, <2>2 DEF WalkNew
<1> QED
  BY <1>1, <1>3, <1>4, NewStep

(* Steps 6 to 10, the records written *)
LEMMA QuietStep ==
    ASSUME FlushInv, InFlush, InFlush', pc # "old", pc' \notin {"old", "new", "reset"},
           pc # "reset", UNCHANGED vars, pc = "new" => fl.todo = {},
           fl'.toTemp = fl.toTemp, fl'.before = fl.before, DOMAIN fl' = DOMAIN fl
    PROVE  UNCHANGED A!vars /\ FlushInv'
<1>1. Walking /\ mode = "RW" /\ Midway /\ Midway'
  BY DEF FlushInv, Midway
<1>2. /\ UNCHANGED A!vars /\ A!Whole'
      /\ UNCHANGED <<Before, absCopy, absLoaded, absNew, absNext>>
  BY <1>1, Within DEF FlushInv, vars
<1>3. OldWell'
  BY <1>1, <1>2, OldWellStays DEF vars
<1>4. \A modifyOrig, mimic : Decided(modifyOrig, mimic) => Decided(modifyOrig, mimic)'
  BY <1>2, Frozen DEF Decided, vars
<1>5. \A mimic : NewWell(mimic) => NewWell(mimic)'
  <2>1. NewTodo = {} /\ NewTodo' = {} /\ new' = new
    BY DEF NewTodo, vars
  <2> QED
    BY <1>2, <2>1, Frozen DEF NewWell
<1>6. Walking'
  BY <1>1, <1>2, <1>3, <1>4, <1>5, Frozen DEF Walking, vars
<1> QED
  BY <1>1, <1>2, <1>6 DEF FlushInv, vars

LEMMA WrittenStutters ==
    ASSUME FlushInv, \/ WriteHeader \/ CarryWrapper \/ Sync
                     \/ DeleteArchive \/ CloseTemp \/ RenameTemp \/ Reopen
    PROVE  UNCHANGED A!vars /\ FlushInv'
<1>1. /\ InFlush /\ InFlush' /\ UNCHANGED vars
      /\ pc \in {"new", "wrap", "sync", "delete", "closetmp", "rename", "reopen"}
      /\ pc' \in {"wrap", "sync", "delete", "closetmp", "rename", "reopen", "commit"}
      /\ pc = "new" => fl.todo = {}
  BY DEF WriteHeader, CarryWrapper, Sync, DeleteArchive, CloseTemp, RenameTemp,
         Reopen, InFlush
<1>2. DOMAIN fl = FlFields
  BY <1>1 DEF FlushInv, Walking
<1>3. \/ fl' = fl
      \/ \E h : fl' = [fl EXCEPT !.head = h]
      \/ fl' = [fl EXCEPT !.canAbort = FALSE]
  BY DEF WriteHeader, CarryWrapper, Sync, DeleteArchive, CloseTemp, RenameTemp, Reopen
<1>4. fl'.toTemp = fl.toTemp /\ fl'.before = fl.before /\ DOMAIN fl' = DOMAIN fl
  BY <1>2, <1>3 DEF FlFields
<1> QED
  BY <1>1, <1>4, QuietStep

(* What step 11 makes of the record sets is what Carried says. *)
LEMMA CommitStutters ==
    ASSUME FlushInv, Commit
    PROVE  UNCHANGED A!vars /\ FlushInv'
<1>1. /\ pc = "commit" /\ pc' = "reset" /\ orig' = Merged /\ DropSets
      /\ UNCHANGED <<nextIdx, mode, result, edits, fl>>
  BY DEF Commit
<1>2. Walking /\ InFlush /\ InFlush' /\ mode = "RW" /\ Midway /\ Midway'
  BY <1>1 DEF FlushInv, InFlush, Midway
<1>3. /\ UNCHANGED A!vars /\ A!Whole'
      /\ UNCHANGED <<Before, absCopy, absLoaded, absNew, absNext>>
  BY <1>1, <1>2, Within DEF FlushInv
<1>4. PICK modifyOrig \in Styles, mimic \in Mimics :
         Decided(modifyOrig, mimic) /\ NewWell(mimic)
  BY <1>2 DEF Walking
<1> DEFINE F       == A!Fresh(mimic)
           inPlace == modifyOrig /\ A!NoHeavyUpdates
<1>5. inPlace \in BOOLEAN /\ (~fl.toTemp) = inPlace
  BY <1>4 DEF Decided
<1>6. /\ DOMAIN Cur = DOMAIN A!OldRecords
      /\ \A i \in DOMAIN Cur : A!OldComesOut(Cur[i], i, inPlace)
  BY <1>1, <1>2, <1>5 DEF Walking, OldWell, OldTodo
<1>7. /\ DOMAIN new \subseteq DOMAIN F
      /\ \A i \in DOMAIN new : new[i] = A!Constructed(F[i], i)
      /\ \A i \in DOMAIN F \ DOMAIN new : \E m \in F[i].mods : m.src = "file"
  BY <1>1, <1>4 DEF NewWell, NewTodo
<1> HIDE DEF inPlace
<1>8. A!SkipsTo(Merged, inPlace, mimic)
  <2>1. A!RecordsComeOut(Merged, Cur, new, inPlace, mimic)
    BY <1>6, <1>7 DEF A!RecordsComeOut, Merged
  <2> QED
    BY <1>5, <2>1, A!SkipsTogether, Assumptions DEF FlushInv
<1>9. Through(modifyOrig, mimic)'
  <2>1. /\ F' = F /\ A!NewRecords' = A!NewRecords
        /\ (A!NoHeavyUpdates' <=> A!NoHeavyUpdates)
    BY <1>3, Frozen
  <2>2. nextIdx' = IF F' = A!NewRecords' THEN absNext' ELSE absNext' + 1
    BY <1>1, <1>3, <1>4, <2>1 DEF Decided
  <2>3. A!SkipsTo(orig, inPlace, mimic)'
    BY <1>1, <1>3, <1>8, Frozen DEF inPlace
  <2> QED
    BY <2>2, <2>3 DEF Through, inPlace
<1>10. AtEnd'
  <2>1. A!Pending'
    BY <1>2, <1>3, Frozen DEF Walking
  <2> QED
    BY <1>9, <2>1 DEF AtEnd
<1> QED
  BY <1>1, <1>2, <1>3, <1>10 DEF FlushInv, DropSets

LEMMA ThroughIsCarried ==
    ASSUME NEW modifyOrig \in Styles, NEW mimic \in Mimics, Through(modifyOrig, mimic),
           Before' = orig, absNext' = nextIdx
    PROVE  A!Carried
<1> DEFINE inPlace == modifyOrig /\ A!NoHeavyUpdates
<1>1. A!SkipsTo(orig, inPlace, mimic)
  BY DEF Through
<1>2. nextIdx = IF A!Fresh(mimic) = A!NewRecords THEN absNext ELSE absNext + 1
  BY DEF Through
<1>3. PICK skip \in SUBSET (A!FileMods(A!OldRecords) \cup A!FileMods(A!Fresh(mimic))) :
         /\ inPlace \/ \A m \in skip : m.kind = "add"
         /\ \A i \in DOMAIN A!OldRecords :
               A!OldRecords[i].mods \cap skip = {} => A!OneFilename(A!OldRecords[i])
         /\ orig = A!Outcome(inPlace, A!Fresh(mimic), skip)
  BY <1>1 DEF A!SkipsTo
<1> QED
  BY <1>2, <1>3 DEF A!Carried

(* Step 12 and its failure: the end of a flush that went through *)
LEMMA EndRefines ==
    ASSUME FlushInv, Reset \/ FailReset
    PROVE  A!Next /\ FlushInv'
<1>1. /\ pc = "reset" /\ pc' = "idle" /\ DropSets
      /\ UNCHANGED <<orig, nextIdx, edits>>
      /\ \/ mode' = mode /\ result' = "flushed"
         \/ mode' = "RO" /\ result' = "locked"
  BY DEF Reset, FailReset
<1>2. InFlush /\ mode = "RW" /\ AtEnd /\ ~Midway' /\ ~InFlush'
  BY <1>1 DEF FlushInv, InFlush, Midway
<1>3. A!Forget
  BY <1>1, <1>2, Forgets
<1>4. Before' = orig /\ absNext' = nextIdx /\ absResult' = result'
  BY <1>1, <1>2 DEF Before, absNext, absResult
<1>5. A!Next
  <2>1. CASE A!Pending
    <3>1. A!Carried
      BY <1>2, <1>4, <2>1, ThroughIsCarried DEF AtEnd
    <3> QED
      BY <1>1, <1>2, <1>3, <1>4, <2>1, <3>1 DEF A!Next, A!FlushCommit, A!FlushLock
  <2>2. CASE ~A!Pending
    <3>1. orig = Before /\ nextIdx = absNext
      BY <1>2, <2>2 DEF AtEnd
    <3> QED
      BY <1>1, <1>2, <1>3, <1>4, <2>2, <3>1 DEF A!Next, A!FlushNothing, A!FlushLock
  <2> QED
    BY <2>1, <2>2
<1>6. A!Whole'
  BY <1>5, WholeGoesOn DEF FlushInv
<1> QED
  BY <1>1, <1>2, <1>5, <1>6 DEF FlushInv, DropSets

(* The ways out of a failure before step 11 *)
LEMMA AbortRefines ==
    ASSUME FlushInv, InFlush, pc # "reset", NEW damaged, Abort(damaged)
    PROVE  A!FlushAbort /\ FlushInv'
<1>1. /\ DropSets /\ UNCHANGED <<orig, nextIdx, mode, edits>> /\ result' = "aborted"
      /\ pc' = "idle"
  BY DEF Abort
<1>2. mode = "RW" /\ orig = Before /\ ~Midway' /\ ~InFlush'
  BY <1>1 DEF FlushInv, Walking, InFlush, Midway
<1>3. A!Forget
  BY <1>1, <1>2, Forgets
<1>4. Before' = Before /\ absResult' = "aborted"
  BY <1>1, <1>2 DEF Before, absResult
<1>5. A!FlushAbort
  BY <1>1, <1>2, <1>3, <1>4 DEF A!FlushAbort
<1>6. A!Whole'
  BY <1>5, WholeGoesOn DEF FlushInv, A!Next
<1> QED
  BY <1>1, <1>2, <1>5, <1>6 DEF FlushInv, DropSets

LEMMA LockRefines ==
    ASSUME FlushInv, InFlush, pc # "reset", NEW reported, Lock(reported)
    PROVE  A!FlushLock /\ FlushInv'
<1>1. /\ UNCHANGED <<orig, copyLoaded, nextIdx, edits>> /\ result' = "locked"
      /\ mode' = "RO" /\ pc' = "idle"
  BY DEF Lock
<1>2. mode = "RW" /\ orig = Before /\ ~Midway' /\ ~InFlush'
  BY <1>1 DEF FlushInv, Walking, InFlush, Midway
<1>3. A!Forget
  BY <1>1, <1>2, Forgets
<1>4. Before' = Before /\ absResult' = "locked"
  BY <1>1, <1>2 DEF Before, absResult
<1>5. A!FlushLock
  BY <1>1, <1>2, <1>3, <1>4 DEF A!FlushLock
<1>6. A!Whole'
  BY <1>5, WholeGoesOn DEF FlushInv, A!Next
<1> QED
  BY <1>1, <1>2, <1>5, <1>6 DEF FlushInv

LEMMA FailureRefines ==
    ASSUME FlushInv, \/ FailOld \/ FailNew \/ FailWrapper \/ FailSync
                     \/ FailDelete \/ FailRename \/ FailReopen
    PROVE  A!Next /\ FlushInv'
<1>1. InFlush /\ pc # "reset"
  BY DEF FailOld, FailNew, FailWrapper, FailSync, FailDelete, FailRename,
         FailReopen, InFlush
<1>2. (\E damaged : Abort(damaged)) \/ (\E reported : Lock(reported))
  BY DEF FailOld, FailNew, FailWrapper, FailSync, FailDelete, FailRename, FailReopen
<1> QED
  BY <1>1, <1>2, AbortRefines, LockRefines DEF A!Next

LEMMA DeathStutters ==
    ASSUME FlushInv, Crash \/ \E i : Abend(i)
    PROVE  UNCHANGED A!vars /\ FlushInv'
<1>1. /\ InFlush /\ pc' \in {"crashed", "abend"} /\ UNCHANGED vars /\ fl' = fl
  BY DEF Crash, Abend, InFlush
<1>2. Midway /\ Midway' /\ ~InFlush'
  BY <1>1 DEF Midway, InFlush
<1>3. UNCHANGED A!vars /\ A!Whole'
  BY <1>1, <1>2, Within DEF FlushInv, vars
<1> QED
  BY <1>1, <1>2, <1>3 DEF FlushInv, vars

LEMMA NothingStutters ==
    ASSUME FlushInv, UNCHANGED allVars
    PROVE  UNCHANGED A!vars /\ FlushInv'
<1>1. UNCHANGED vars /\ UNCHANGED <<pc, fl>>
  BY DEF allVars, flushVars
<1>2. /\ UNCHANGED <<Before, absCopy, absLoaded, absNew, absNext, absResult>>
      /\ (InFlush' <=> InFlush) /\ Cur' = Cur /\ OldTodo' = OldTodo /\ NewTodo' = NewTodo
  BY <1>1 DEF vars, Before, absCopy, absLoaded, absNew, absNext, absResult,
              Midway, InFlush, Gone, Cur, OldTodo, NewTodo
<1>3. UNCHANGED A!vars /\ A!Whole'
  BY <1>1, <1>2, WholeGoesOn DEF A!vars, vars, FlushInv
<1>4. Walking => Walking'
  <2>1. OldWell => OldWell'
    <3> SUFFICES ASSUME OldWell PROVE OldWell'
      OBVIOUS
    <3>1. ASSUME NEW j \in DOMAIN Cur, j \notin OldTodo
          PROVE  A!OldComesOut(Cur[j], j, ~fl.toTemp)'
      <4>1. A!OldComesOut(Cur'[j], j, ~fl'.toTemp)
        BY <1>1, <1>2, <3>1 DEF OldWell
      <4> QED
        BY <1>2, <4>1, Frozen
    <3> QED
      BY <1>1, <1>2, <3>1, Frozen DEF OldWell, Modified
  <2>2. \A mimic : NewWell(mimic) => NewWell(mimic)'
    BY <1>1, <1>2, Frozen DEF NewWell, vars
  <2>3. \A modifyOrig, mimic : Decided(modifyOrig, mimic) => Decided(modifyOrig, mimic)'
    BY <1>1, <1>2, Frozen DEF Decided, vars
  <2> QED
    BY <1>1, <1>2, <2>1, <2>2, <2>3, Frozen DEF Walking, vars
<1>5. AtEnd => AtEnd'
  <2>1. \A modifyOrig, mimic : Through(modifyOrig, mimic) => Through(modifyOrig, mimic)'
    <3> SUFFICES ASSUME NEW modifyOrig, NEW mimic, Through(modifyOrig, mimic)
                 PROVE  Through(modifyOrig, mimic)'
      OBVIOUS
    <3>1. A!SkipsTo(orig, modifyOrig /\ A!NoHeavyUpdates, mimic)'
      BY <1>1, <1>2, Frozen DEF Through, vars
    <3> QED
      BY <1>1, <1>2, <3>1, Frozen DEF Through, vars
  <2> QED
    BY <1>1, <1>2, <2>1, Frozen DEF AtEnd, vars
<1> QED
  BY <1>1, <1>2, <1>3, <1>4, <1>5 DEF FlushInv, vars

LEMMA StepRefines ==
    ASSUME FlushInv, [FNext]_allVars
    PROVE  [A!Next]_A!vars /\ FlushInv'
<1>1. CASE EditStep
  BY <1>1, EditStepRefines DEF A!Next
<1>2. CASE GiveUp
  BY <1>2, GiveUpRefines DEF A!Next
<1>3. CASE BeginNothing
  BY <1>3, BeginNothingStutters
<1>4. CASE Begin
  BY <1>4, BeginStutters
<1>5. CASE FlushStep
  <2>1. ASSUME NEW i \in DOMAIN Cur, WalkOld(i)
        PROVE  [A!Next]_A!vars /\ FlushInv'
    BY <2>1, CopyOldStutters, BuildOldStutters, SkipOldStutters,
       UpdateOldStutters, DeathStutters DEF WalkOld
  <2>2. CASE OldDone
    BY <2>2, OldDoneStutters
  <2>3. ASSUME NEW i \in DOMAIN new, WalkNew(i)
        PROVE  [A!Next]_A!vars /\ FlushInv'
    BY <2>3, WalkNewStutters
  <2>4. CASE \/ WriteHeader \/ CarryWrapper \/ Sync
             \/ DeleteArchive \/ CloseTemp \/ RenameTemp \/ Reopen
    BY <2>4, WrittenStutters
  <2>5. CASE Commit
    BY <2>5, CommitStutters
  <2>6. CASE Reset \/ FailReset
    BY <2>6, EndRefines
  <2>7. CASE \/ FailOld \/ FailNew \/ FailWrapper \/ FailSync
             \/ FailDelete \/ FailRename \/ FailReopen
    BY <2>7, FailureRefines
  <2> QED
    BY <1>5, <2>1, <2>2, <2>3, <2>4, <2>5, <2>6, <2>7 DEF FlushStep
<1>6. CASE Crash
  BY <1>6, DeathStutters
<1>7. CASE Close
  BY <1>7, CloseStutters
<1>8. CASE UNCHANGED allVars
  BY <1>8, NothingStutters
<1> QED
  BY <1>1, <1>2, <1>3, <1>4, <1>5, <1>6, <1>7, <1>8 DEF FNext

-----------------------------------------------------------------------------
(* The refinement *)

(* What there is for a flush to do is the same in both instances. *)
LEMMA SameToDo ==
    /\ A!Touched <=> Abstract!Touched
    /\ A!OldRecords = Abstract!OldRecords
    /\ A!NewRecords = Abstract!NewRecords
    /\ A!Pending <=> Abstract!Pending
<1>1. A!Touched <=> Abstract!Touched
  BY DEF A!Touched, Abstract!Touched, A!Modified, Abstract!Modified,
         A!Cardinality, Abstract!Cardinality
<1>2. \A S : A!Purged(S) = Abstract!Purged(S)
  <2>1. \A r : A!RecordIsEmpty(r) <=> Abstract!RecordIsEmpty(r)
    BY DEF A!RecordIsEmpty, Abstract!RecordIsEmpty, A!Deleted,
           Abstract!Deleted, A!ModsOfKind, Abstract!ModsOfKind
  <2> QED
    BY <2>1 DEF A!Purged, Abstract!Purged, A!Restrict, Abstract!Restrict
<1>3. A!OldRecords = Abstract!OldRecords /\ A!NewRecords = Abstract!NewRecords
  BY <1>1, <1>2 DEF A!OldRecords, Abstract!OldRecords, A!NewRecords,
                    Abstract!NewRecords
<1>4. A!AllDeleted <=> Abstract!AllDeleted
  BY <1>1 DEF A!AllDeleted, Abstract!AllDeleted
<1> QED
  BY <1>1, <1>3, <1>4 DEF A!Pending, Abstract!Pending

(* What a flush may do to orig is the same in both instances. *)
LEMMA SameCarried == A!Carried => Abstract!Carried
<1>1. /\ A!OldRecords = Abstract!OldRecords
      /\ A!NewRecords = Abstract!NewRecords
  BY SameToDo
<1>2. A!NoHeavyUpdates <=> Abstract!NoHeavyUpdates
  BY <1>1 DEF A!NoHeavyUpdates, Abstract!NoHeavyUpdates, A!Touched,
         Abstract!Touched, A!Modified, Abstract!Modified, A!ModsOfKind,
         Abstract!ModsOfKind, A!Cardinality, Abstract!Cardinality
<1>3. \A mimic : A!Fresh(mimic) = Abstract!Fresh(mimic)
  BY <1>1 DEF A!Fresh, Abstract!Fresh, A!CommentAdded, Abstract!CommentAdded,
         A!IsFirst, Abstract!IsFirst, A!AddMod, Abstract!AddMod, A!NewMod,
         Abstract!NewMod
<1>4. \A S : A!FileMods(S) = Abstract!FileMods(S)
  BY DEF A!FileMods, Abstract!FileMods
<1>5. \A r : A!OneFilename(r) <=> Abstract!OneFilename(r)
  BY DEF A!OneFilename, Abstract!OneFilename, A!FilenameThreads,
         Abstract!FilenameThreads, A!ThreadsAfter, Abstract!ThreadsAfter,
         A!ModsOfKind, Abstract!ModsOfKind, A!ModsOfThread,
         Abstract!ModsOfThread, A!Deleted, Abstract!Deleted
<1>6. \A i, inPlace, skip :
         A!OldAfter(i, inPlace, skip) = Abstract!OldAfter(i, inPlace, skip)
  BY <1>1 DEF A!OldAfter, Abstract!OldAfter, A!Applied, Abstract!Applied,
         A!Modified, Abstract!Modified, A!ThreadsAfter, Abstract!ThreadsAfter,
         A!NameAfter, Abstract!NameAfter, A!ModsOfKind, Abstract!ModsOfKind,
         A!ModsOfThread, Abstract!ModsOfThread, A!Deleted, Abstract!Deleted,
         A!FilenameThreads, Abstract!FilenameThreads, A!HeaderName,
         Abstract!HeaderName
<1>7. \A r, i : A!Constructed(r, i) = Abstract!Constructed(r, i)
  BY DEF A!Constructed, Abstract!Constructed, A!WithFilename,
         Abstract!WithFilename, A!AddMod, Abstract!AddMod, A!NewMod,
         Abstract!NewMod, A!Applied, Abstract!Applied, A!Modified,
         Abstract!Modified, A!ThreadsAfter, Abstract!ThreadsAfter,
         A!NameAfter, Abstract!NameAfter, A!ModsOfKind, Abstract!ModsOfKind,
         A!ModsOfThread, Abstract!ModsOfThread, A!Deleted, Abstract!Deleted,
         A!FilenameThreads, Abstract!FilenameThreads, A!HeaderName,
         Abstract!HeaderName
<1>8. \A inPlace, fresh, skip :
         A!Outcome(inPlace, fresh, skip) = Abstract!Outcome(inPlace, fresh, skip)
  BY <1>1, <1>6, <1>7 DEF A!Outcome, Abstract!Outcome
<1> QED
  BY <1>1, <1>2, <1>3, <1>4, <1>5, <1>8 DEF A!Carried, Abstract!Carried

(* What edit calls are made of is the same in both instances. *)
LEMMA SameParts ==
    /\ A!Cur = Abstract!Cur
    /\ \A S, n : A!Named(S, n) = Abstract!Named(S, n)
    /\ \A i, I : A!IsFirst(i, I) <=> Abstract!IsFirst(i, I)
    /\ \A i, I : A!IsLast(i, I) <=> Abstract!IsLast(i, I)
    /\ \A S, I : A!Without(S, I) = Abstract!Without(S, I)
    /\ \A S, i, r : A!With(S, i, r) = Abstract!With(S, i, r)
    /\ \A r, m : A!AddMod(r, m) = Abstract!AddMod(r, m)
    /\ \A kind, t, id, v, src :
          A!NewMod(kind, t, id, v, src) = Abstract!NewMod(kind, t, id, v, src)
    /\ \A n, a : A!NewRecord(n, a) = Abstract!NewRecord(n, a)
    /\ \A r, t : A!ModsOfThread(r, t) = Abstract!ModsOfThread(r, t)
    /\ \A ts : A!FilenameThreads(ts) = Abstract!FilenameThreads(ts)
    /\ \A id : A!Presized(id) <=> Abstract!Presized(id)
    /\ \A r : A!Modified(r) <=> Abstract!Modified(r)
<1>1. A!Cur = Abstract!Cur
  BY DEF A!Cur, Abstract!Cur
<1>2. \A S, n : A!Named(S, n) = Abstract!Named(S, n)
  BY DEF A!Named, Abstract!Named
<1>3. \A i, I : A!IsFirst(i, I) <=> Abstract!IsFirst(i, I)
  BY DEF A!IsFirst, Abstract!IsFirst
<1>4. \A i, I : A!IsLast(i, I) <=> Abstract!IsLast(i, I)
  BY DEF A!IsLast, Abstract!IsLast
<1>5. \A S, I : A!Without(S, I) = Abstract!Without(S, I)
  BY DEF A!Without, Abstract!Without, A!Restrict, Abstract!Restrict
<1>6. \A S, i, r : A!With(S, i, r) = Abstract!With(S, i, r)
  BY DEF A!With, Abstract!With
<1>7. \A r, m : A!AddMod(r, m) = Abstract!AddMod(r, m)
  BY DEF A!AddMod, Abstract!AddMod
<1>8. \A kind, t, id, v, src :
         A!NewMod(kind, t, id, v, src) = Abstract!NewMod(kind, t, id, v, src)
  BY DEF A!NewMod, Abstract!NewMod
<1>9. \A n, a : A!NewRecord(n, a) = Abstract!NewRecord(n, a)
  BY DEF A!NewRecord, Abstract!NewRecord, A!EmptyMap, Abstract!EmptyMap
<1>10. \A r, t : A!ModsOfThread(r, t) = Abstract!ModsOfThread(r, t)
  BY DEF A!ModsOfThread, Abstract!ModsOfThread
<1>11. \A ts : A!FilenameThreads(ts) = Abstract!FilenameThreads(ts)
  BY DEF A!FilenameThreads, Abstract!FilenameThreads
<1>12. \A id : A!Presized(id) <=> Abstract!Presized(id)
  BY DEF A!Presized, Abstract!Presized
<1>13. \A r : A!Modified(r) <=> Abstract!Modified(r)
  BY DEF A!Modified, Abstract!Modified
<1> QED
  BY <1>1, <1>2, <1>3, <1>4, <1>5, <1>6, <1>7, <1>8, <1>9, <1>10, <1>11, <1>12, <1>13

LEMMA SameChecks ==
    /\ \A r, id : A!OkayToAddThread(r, id) <=> Abstract!OkayToAddThread(r, id)
    /\ \A r, id, v, src : A!ThreadAdded(r, id, v, src) = Abstract!ThreadAdded(r, id, v, src)
    /\ \A used : A!Edit(used) <=> Abstract!Edit(used)
    /\ \A S : A!SetCopy(S) <=> Abstract!SetCopy(S)
    /\ \A r, dups, used :
          A!AddRecordThen(r, dups, used) <=> Abstract!AddRecordThen(r, dups, used)
<1>1. \A r, id : A!OkayToAddThread(r, id) <=> Abstract!OkayToAddThread(r, id)
  <2>1. \A r : A!FutureIDs(r) = Abstract!FutureIDs(r)
    BY DEF A!FutureIDs, Abstract!FutureIDs, A!Deleted, Abstract!Deleted,
           A!ModsOfKind, Abstract!ModsOfKind
  <2>2. \A id : A!ThreadClass(id) = Abstract!ThreadClass(id) /\ A!Clashes(id) = Abstract!Clashes(id)
    BY DEF A!ThreadClass, Abstract!ThreadClass, A!Clashes, Abstract!Clashes
  <2> QED
    BY <2>1, <2>2 DEF A!OkayToAddThread, Abstract!OkayToAddThread
<1>2. \A r, id, v, src : A!ThreadAdded(r, id, v, src) = Abstract!ThreadAdded(r, id, v, src)
  BY SameParts DEF A!ThreadAdded, Abstract!ThreadAdded
<1>3. \A used : A!Edit(used) <=> Abstract!Edit(used)
  BY DEF A!Edit, Abstract!Edit
<1>4. \A S : A!SetCopy(S) <=> Abstract!SetCopy(S)
  BY DEF A!SetCopy, Abstract!SetCopy
<1>5. \A n : A!HandleAddDuplicateRecord(n) <=> Abstract!HandleAddDuplicateRecord(n)
  BY SameParts, <1>4 DEF A!HandleAddDuplicateRecord, Abstract!HandleAddDuplicateRecord
<1>6. \A r, dups, used :
         A!AddRecordThen(r, dups, used) <=> Abstract!AddRecordThen(r, dups, used)
  BY SameParts, <1>3, <1>5 DEF A!AddRecordThen, Abstract!AddRecordThen
<1> QED
  BY <1>1, <1>2, <1>3, <1>4, <1>6

(* A and Abstract are the same archive. *)
LEMMA SameArchive ==
    /\ A!Init => Abstract!Init
    /\ [A!Next]_A!vars => [Abstract!Next]_Abstract!vars
<1>1. A!Carried => Abstract!Carried
  BY SameCarried
<1>2. A!Forget => Abstract!Forget
  BY SameToDo DEF A!Forget, Abstract!Forget, A!EmptyMap, Abstract!EmptyMap
<1>3. A!FlushNothing => Abstract!FlushNothing
  BY <1>2, SameToDo DEF A!FlushNothing, Abstract!FlushNothing
<1>4. /\ A!FlushCommit => Abstract!FlushCommit
      /\ A!FlushAbort => Abstract!FlushAbort
      /\ A!FlushLock => Abstract!FlushLock
  <2>1. A!FlushCommit => Abstract!FlushCommit
    BY <1>1, <1>2, SameToDo DEF A!FlushCommit, Abstract!FlushCommit
  <2>2. A!FlushAbort => Abstract!FlushAbort
    BY <1>2 DEF A!FlushAbort, Abstract!FlushAbort
  <2>3. A!FlushLock => Abstract!FlushLock
    BY <1>1, <1>2, SameToDo DEF A!FlushLock, Abstract!FlushLock
  <2> QED BY <2>1, <2>2, <2>3
<1>5. A!EditCall => Abstract!EditCall
  <2>1. ASSUME NEW n, NEW dups, A!AddRecord(n, dups)
        PROVE  Abstract!AddRecord(n, dups)
    BY <2>1, SameParts, SameChecks DEF A!AddRecord, Abstract!AddRecord
  <2>2. ASSUME NEW n, NEW id, NEW v, NEW dups, A!AddFile(n, id, v, dups)
        PROVE  Abstract!AddFile(n, id, v, dups)
    BY <2>2, SameParts, SameChecks DEF A!AddFile, Abstract!AddFile
  <2>3. ASSUME NEW i, NEW id, NEW v, NEW src, A!AddThread(i, id, v, src)
        PROVE  Abstract!AddThread(i, id, v, src)
    BY <2>3, SameParts, SameChecks DEF A!AddThread, Abstract!AddThread
  <2>4. ASSUME NEW i, NEW t, NEW v, NEW src, A!UpdatePresizedThread(i, t, v, src)
        PROVE  Abstract!UpdatePresizedThread(i, t, v, src)
    BY <2>4, SameParts, SameChecks DEF A!UpdatePresizedThread, Abstract!UpdatePresizedThread
  <2>5. ASSUME NEW i, NEW t, A!DeleteThread(i, t)
        PROVE  Abstract!DeleteThread(i, t)
    BY <2>5, SameParts, SameChecks DEF A!DeleteThread, Abstract!DeleteThread
  <2>6. ASSUME NEW i, A!DeleteRecord(i)
        PROVE  Abstract!DeleteRecord(i)
    BY <2>6, SameParts, SameChecks DEF A!DeleteRecord, Abstract!DeleteRecord
  <2>7. ASSUME NEW chosen, A!Delete(chosen)
        PROVE  Abstract!Delete(chosen)
    BY <2>7, SameParts, SameChecks DEF A!Delete, Abstract!Delete
  <2>8. ASSUME NEW i, NEW n, NEW fits, A!Rename(i, n, fits)
        PROVE  Abstract!Rename(i, n, fits)
    BY <2>8, SameParts, SameChecks DEF A!Rename, Abstract!Rename
  <2>9. ASSUME NEW i, NEW a, A!SetRecordAttr(i, a)
        PROVE  Abstract!SetRecordAttr(i, a)
    BY <2>9, SameParts, SameChecks DEF A!SetRecordAttr, Abstract!SetRecordAttr
  <2> QED
    BY <2>1, <2>2, <2>3, <2>4, <2>5, <2>6, <2>7, <2>8, <2>9
       DEF A!EditCall, Abstract!EditCall, A!Cur, Abstract!Cur, A!Contents, Abstract!Contents
<1>6. A!Next => Abstract!Next
  BY <1>3, <1>4, <1>5 DEF A!Next, Abstract!Next
<1>7. A!vars = Abstract!vars /\ A!vars' = Abstract!vars'
  BY DEF A!vars, Abstract!vars
<1>8. A!Init => Abstract!Init
  BY DEF A!Init, Abstract!Init, A!EmptyMap, Abstract!EmptyMap
<1> QED
  BY <1>6, <1>7, <1>8

(* Whatever Nu_Flush goes through, what it keeps of the call it belongs to *)
(* (its locals, the sets it has begun to rewrite) stays in step with what  *)
(* was pending when it began, and the edit calls keep the archive whole.   *)
THEOREM FlushInvariance == FSpec => []FlushInv
<1>1. FInit => FlushInv
  BY InitFlush
<1>2. FlushInv /\ [FNext]_allVars => FlushInv'
  BY StepRefines
<1> QED
  BY <1>1, <1>2, PTL DEF FSpec

(* Nu_Flush is the transaction it should be (ImplementsNuArchive): a step  *)
(* of the detailed system is an edit call, one flush seen as a whole, or   *)
(* nothing at all, whatever fails, is skipped, or is cut short.            *)
THEOREM FlushImplements == FSpec => ImplementsNuArchive
<1>1. FInit => FlushInv /\ Abstract!Init
  BY InitFlush, SameArchive
<1>2. FlushInv /\ [FNext]_allVars => FlushInv' /\ [Abstract!Next]_Abstract!vars
  BY StepRefines, SameArchive
<1> QED
  BY <1>1, <1>2, PTL DEF FSpec, ImplementsNuArchive, Abstract!Spec

-----------------------------------------------------------------------------
(***************************************************************************)
(* What holds of a flush whatever went wrong in the ones before it: the    *)
(* types, the two files being open when a call may come, the master header *)
(* counting the records, and what the locals of Nu_Flush and the status    *)
(* flags may be at each of its steps.                                      *)
(***************************************************************************)
Count(S) == Cardinality(DOMAIN S)

-----------------------------------------------------------------------------
(* The record sets of a flush *)

LEMMA FiniteBelow ==
    ASSUME NEW D \in SUBSET Nat, NEW n \in Nat, \A d \in D : d < n
    PROVE  IsFiniteSet(D) /\ Cardinality(D) \in Nat
BY FS_BoundedSetOfNaturals, FS_CardinalityType

(* The steps of Nu_Flush at which the record sets and the file are being   *)
(* rewritten: the walks of steps 5 and 6, and from the master header to    *)
(* the swap of the files                                                   *)
Places == {"idle", "old", "new", "wrap", "sync", "delete", "closetmp", "rename",
           "reopen", "commit", "reset", "closed", "crashed", "abend"}
Headed == {"wrap", "sync", "delete", "closetmp", "rename", "reopen", "commit"}
Rewriting == {"old", "new"} \cup Headed

LEMMA RecordSets ==
    ASSUME A!Whole
    PROVE  \A S \in {Before, absCopy, absNew} :
              /\ DOMAIN S \subseteq Nat /\ IsFiniteSet(DOMAIN S)
              /\ Cardinality(DOMAIN S) \in Nat
BY A!SetsBelow, FiniteBelow, Assumptions

WaySets ==
    /\ Walking /\ orig = Before /\ DOMAIN fl = FlFields
    /\ DOMAIN Cur = DOMAIN A!OldRecords /\ DOMAIN Cur \subseteq DOMAIN orig
    /\ DOMAIN new \subseteq DOMAIN absNew
    /\ \A S \in {orig, Cur, new} : DOMAIN S \subseteq Nat /\ IsFiniteSet(DOMAIN S)
    /\ \A i \in DOMAIN orig, j \in DOMAIN new : i < j

LEMMA SetsOnTheWay == FlushInv /\ A!OldBeforeNew /\ pc \in Rewriting => WaySets
<1> SUFFICES ASSUME FlushInv, A!OldBeforeNew, pc \in Rewriting PROVE WaySets
  OBVIOUS
<1>1. Walking /\ orig = Before /\ DOMAIN fl = FlFields
  BY DEF FlushInv, Walking, InFlush, Rewriting, Headed
<1>2. DOMAIN Cur = DOMAIN A!OldRecords /\ DOMAIN A!OldRecords \subseteq DOMAIN Before
  <2>1. A!Inv
    BY DEF FlushInv, A!Whole, A!Full
  <2>2. DOMAIN A!OldRecords \subseteq DOMAIN Before
    BY <2>1, A!OldRecordsDerived, Assumptions
  <2> QED
    BY <1>1, <2>2 DEF Walking, OldWell
<1>3. DOMAIN new \subseteq DOMAIN absNew
  <2>1. A!Inv
    BY DEF FlushInv, A!Whole, A!Full
  <2>2. \A mimic : DOMAIN A!Fresh(mimic) \subseteq DOMAIN absNew
    BY <2>1, A!FreshType, Assumptions
  <2> QED
    BY <1>1, <2>2 DEF Walking, NewWell
<1>4. \A S \in {orig, Cur, new} : DOMAIN S \subseteq Nat /\ IsFiniteSet(DOMAIN S)
  BY <1>1, <1>2, <1>3, RecordSets, FS_Subset DEF FlushInv
<1> QED
  BY <1>1, <1>2, <1>3, <1>4 DEF A!OldBeforeNew, WaySets

LEMMA SetsOnTheWayNext == (FlushInv /\ A!OldBeforeNew /\ pc \in Rewriting => WaySets)'
BY SetsOnTheWay, PTL

LEMMA SameType ==
    /\ \A r : A!IsRecord(r) <=> IsRecord(r)
    /\ A!Mod = Mod
<1>1. A!Contents = Contents
  BY DEF A!Contents, Contents
<1>2. A!Mod = Mod
  BY <1>1 DEF A!Mod, Mod
<1>3. \A ts : A!IsThreadMap(ts) <=> IsThreadMap(ts)
  BY <1>1 DEF A!IsThreadMap, IsThreadMap, A!Thread, Thread
<1> QED
  BY <1>2, <1>3 DEF A!IsRecord, IsRecord

(* Rebuilt, updated and new records are records. *)
LEMMA RecordTypes ==
    /\ \A r, mods : IsRecord(r) /\ mods \subseteq r.mods => IsRecord(Applied(r, mods))
    /\ \A r, i : IsRecord(r) /\ i \in Nat => IsRecord(Constructed(r, i))
BY A!AppliedType, A!ConstructedType, Assumptions, SameType, SameRecords

LEMMA SetTypes ==
    ASSUME A!Whole
    PROVE  /\ IsRecordSet(Before) /\ IsRecordSet(absCopy) /\ IsRecordSet(absNew)
           /\ IsRecordSet(A!OldRecords)
           /\ \A mimic : IsRecordSet(A!Fresh(mimic))
           /\ absNext \in Nat /\ mode \in {"RW", "RO"} /\ edits \in Nat
           /\ absResult \in {"opened", "edited", "flushed", "aborted", "locked"}
<1>1. A!Inv
  BY DEF A!Whole, A!Full
<1> QED
  BY <1>1, A!OldRecordsDerived, A!FreshType, Assumptions, SameRecords DEF A!Inv, A!TypeOK

-----------------------------------------------------------------------------
(* The invariant *)

Flags == {"Succeeded", "Aborted", "Corrupted", "ReadOnly", "Inaccessible"}
Kinds == {"none", "hole", "torn", "wrap", "head", "rec"}
Cells(f) == \A p \in DOMAIN f : f[p].kind \in Kinds

Memory ==
    /\ TypeOK
    /\ pc \in Places /\ flags \subseteq Flags
    /\ fp \in [{"arch", "tmp", "known"} -> BOOLEAN]
    /\ created \in BOOLEAN /\ stale \in BOOLEAN
    /\ IsFiniteSet(DOMAIN orig)
    /\ mh.count = Count(orig) /\ mh.eof \in Nat
    /\ DOMAIN offs = DOMAIN orig

Disk ==
    /\ Cells(arch) /\ IsFiniteSet(DOMAIN arch)
    /\ Cells(temp) /\ IsFiniteSet(DOMAIN temp)
    /\ hoff \in {0, 1} /\ (hoff = 1 => 0 \in DOMAIN arch)

(* Outside of the flush, and at its last step *)
Around ==
    /\ pc \in {"idle", "closed"} => fl = NoFlush
    /\ pc \notin {"idle", "closed"} => "before" \in DOMAIN fl
    /\ Idle /\ mode = "RW" => fp.arch /\ fp.tmp
    /\ pc = "reset" => fp.arch /\ flags \subseteq {"Succeeded"} /\ fl.deleteAll \in BOOLEAN

Sizes ==
    /\ fl.toTemp \in BOOLEAN /\ fl.deleteAll \in BOOLEAN
    /\ fl.len0 \in Nat /\ (hoff = 1 => fl.len0 > 0)
    /\ pc \in {"old", "new"} => fl.at \in Nat /\ fl.at >= hoff
    /\ DOMAIN fl.off = DOMAIN Merged \ NewTodo
    /\ pc \in Headed => fl.head.count = Count(Merged) /\ fl.head.eof \in Nat
    /\ pc \in {"old", "new", "wrap", "delete", "closetmp", "rename"} /\ fl.toTemp =>
          0 \in DOMAIN temp

Phase ==
    /\ fl.toTemp /\ pc \in {"old", "new", "wrap"} => fl.canAbort
    /\ pc = "sync" => ~fl.toTemp
    /\ pc \in {"delete", "closetmp", "rename", "reopen"} => fl.toTemp
    /\ flags = IF pc \in {"old", "new", "wrap", "sync", "delete"} THEN {}
                                                              ELSE {"Succeeded"}
    /\ fp.arch <=> pc \notin {"closetmp", "rename", "reopen"}
    /\ fp.tmp <=> pc \notin {"rename", "reopen"} /\ (pc = "commit" => ~fl.toTemp)
    /\ ~fl.before.loaded => ~copyLoaded

Locals == pc \in Rewriting => Sizes /\ Phase

Shape == Memory /\ Disk /\ Around /\ Locals

Sound == FlushInv /\ A!OldBeforeNew /\ Shape

-----------------------------------------------------------------------------
(* Files *)

LEMMA CellKinds ==
    /\ Wrap.kind \in Kinds /\ Hole.kind \in Kinds /\ Torn.kind \in Kinds
    /\ \A n, e : Head(n, e).kind \in Kinds
    /\ \A r : RecCell(r).kind \in Kinds
BY DEF Wrap, Hole, Torn, Head, RecCell, Kinds

LEMMA FileKinds ==
    /\ Cells(NoFile) /\ IsFiniteSet(DOMAIN NoFile) /\ 0 \in DOMAIN NoFile
    /\ Cells(EmptyFile) /\ IsFiniteSet(DOMAIN EmptyFile)
BY FS_EmptySet, FS_Singleton DEF Cells, Kinds, NoFile, EmptyFile

LEMMA PutKinds ==
    ASSUME NEW f, NEW p, NEW c, c.kind \in Kinds, Cells(f), IsFiniteSet(DOMAIN f)
    PROVE  /\ Cells(Put(f, p, c)) /\ IsFiniteSet(DOMAIN Put(f, p, c))
           /\ DOMAIN Put(f, p, c) = DOMAIN f \cup {p}
<1>1. DOMAIN Put(f, p, c) = DOMAIN f \cup {p}
  BY DEF Put
<1>2. IsFiniteSet(DOMAIN f \cup {p})
  BY FS_AddElement
<1> QED
  BY <1>1, <1>2 DEF Cells, Put

LEMMA TruncateKinds ==
    ASSUME NEW f, NEW n, Cells(f), IsFiniteSet(DOMAIN f)
    PROVE  /\ Cells(Truncate(f, n)) /\ IsFiniteSet(DOMAIN Truncate(f, n))
           /\ DOMAIN Truncate(f, n) = {p \in DOMAIN f : p < n}
<1>1. DOMAIN Truncate(f, n) = {p \in DOMAIN f : p < n}
  BY DEF Truncate, Restrict
<1>2. IsFiniteSet({p \in DOMAIN f : p < n})
  BY FS_Subset
<1> QED
  BY <1>1, <1>2 DEF Cells, Truncate, Restrict

LEMMA FileOfKinds ==
    ASSUME NEW S, NEW w \in Nat, Count(S) \in Nat
    PROVE  /\ Cells(FileOf(S, w)) /\ IsFiniteSet(DOMAIN FileOf(S, w))
           /\ 0 \in DOMAIN FileOf(S, w)
<1>1. DOMAIN FileOf(S, w) = 0 .. (w + Count(S))
  BY DEF FileOf, Count
<1>2. IsFiniteSet(0 .. (w + Count(S)))
  BY FS_Interval
<1>3. Cells(FileOf(S, w))
  BY <1>1, CellKinds DEF Cells, FileOf, Count
<1> QED
  BY <1>1, <1>2, <1>3

LEMMA TempPut ==
    ASSUME Disk, NEW p, NEW c, c.kind \in Kinds, temp' = Put(temp, p, c),
           UNCHANGED <<arch, hoff>>
    PROVE  Disk' /\ DOMAIN temp' = DOMAIN temp \cup {p}
<1>1. Cells(temp) /\ IsFiniteSet(DOMAIN temp)
  BY DEF Disk
<1>2. /\ Cells(Put(temp, p, c)) /\ IsFiniteSet(DOMAIN Put(temp, p, c))
      /\ DOMAIN Put(temp, p, c) = DOMAIN temp \cup {p}
  BY <1>1, PutKinds
<1> QED
  BY <1>2 DEF Disk, Cells

LEMMA ArchPut ==
    ASSUME Disk, NEW p, NEW c, c.kind \in Kinds, arch' = Put(arch, p, c),
           UNCHANGED <<temp, hoff>>
    PROVE  Disk' /\ DOMAIN arch' = DOMAIN arch \cup {p}
<1>1. Cells(arch) /\ IsFiniteSet(DOMAIN arch)
  BY DEF Disk
<1>2. /\ Cells(Put(arch, p, c)) /\ IsFiniteSet(DOMAIN Put(arch, p, c))
      /\ DOMAIN Put(arch, p, c) = DOMAIN arch \cup {p}
  BY <1>1, PutKinds
<1> QED
  BY <1>2 DEF Disk, Cells

-----------------------------------------------------------------------------
(* Between flushes *)

OpenSets == /\ Plain /\ TypeOK
            /\ \A S \in {orig, copy, new} : DOMAIN S \subseteq Nat /\ IsFiniteSet(DOMAIN S)

LEMMA OpenTypes == FlushInv /\ Idle /\ mode = "RW" => OpenSets
<1> SUFFICES ASSUME FlushInv, Idle, mode = "RW" PROVE OpenSets
  OBVIOUS
<1>1. Plain /\ copyLoaded \in BOOLEAN
  BY OpenIsPlain DEF FlushInv
<1> QED
  BY <1>1, SetTypes, RecordSets DEF FlushInv, Plain, TypeOK, OpenSets

LEMMA OpenTypesNext == (FlushInv /\ Idle /\ mode = "RW" => OpenSets)'
BY OpenTypes, PTL

LEMMA InitShape == FInit => Sound
<1> SUFFICES ASSUME FInit PROVE Sound
  OBVIOUS
<1>1. /\ FlushInv /\ Idle /\ mode = "RW" /\ new = EmptyMap
      /\ fl = NoFlush /\ flags = {} /\ pc = "idle" /\ temp = EmptyFile
      /\ created = (DOMAIN orig = {}) /\ stale = FALSE
      /\ fp = [arch |-> TRUE, tmp |-> TRUE, known |-> TRUE]
      /\ mh = [count |-> Count(orig), eof |-> Count(orig) + 1]
      /\ offs = [i \in DOMAIN orig |-> hoff + Rank(i, orig)]
  BY InitFlush DEF FInit, Init, Idle, Count
<1>2. Plain /\ TypeOK /\ IsFiniteSet(DOMAIN orig)
  BY <1>1, OpenTypes DEF OpenSets
<1>3. A!OldBeforeNew
  BY <1>1, <1>2 DEF A!OldBeforeNew, Plain, EmptyMap
<1>4. Count(orig) \in Nat
  BY <1>2, FS_CardinalityType DEF Count
<1>5. hoff \in {0, 1}
  BY FlushAssumption DEF FInit
<1>6. Memory
  <2>1. fp \in [{"arch", "tmp", "known"} -> BOOLEAN]
    <3>1. fp \in [arch : BOOLEAN, tmp : BOOLEAN, known : BOOLEAN]
      BY <1>1
    <3> QED
      BY <3>1
  <2>2. mh.count = Count(orig) /\ mh.eof \in Nat /\ DOMAIN offs = DOMAIN orig
    BY <1>1, <1>4
  <2> QED
    BY <1>1, <1>2, <2>1, <2>2 DEF Memory, Places, Flags
<1>7. Disk
  <2>1. CASE created
    BY <1>1, <2>1, FileKinds DEF FInit, Disk
  <2>2. CASE ~created
    BY <1>1, <1>4, <1>5, <2>2, FileKinds, FileOfKinds DEF FInit, Disk
  <2> QED
    BY <2>1, <2>2 DEF FInit
<1>8. Around /\ Locals
  BY <1>1 DEF Around, Locals, Rewriting, Headed
<1> QED
  BY <1>1, <1>3, <1>6, <1>7, <1>8 DEF Sound, Shape

LEMMA EditShape ==
    ASSUME Sound, EditStep
    PROVE  Shape'
<1>1. /\ FlushInv /\ FlushInv' /\ Shape
      /\ mode = "RW" /\ mode' = mode /\ orig' = orig /\ Idle /\ Idle'
      /\ UNCHANGED <<pc, fl, fileVars>> /\ flags' = {}
  BY EditStepRefines, EditCallIs DEF Sound, EditStep, Idle
<1>2. TypeOK'
  BY <1>1, OpenTypesNext DEF OpenSets
<1>3. Memory'
  BY <1>1, <1>2 DEF Shape, Memory, fileVars
<1>4. Disk'
  BY <1>1 DEF Shape, Disk, fileVars
<1> QED
  BY <1>1, <1>3, <1>4 DEF Shape, Around, Locals, Idle, fileVars, Rewriting, Headed

LEMMA OrderGoesOn ==
    ASSUME FlushInv, A!OldBeforeNew, [FNext]_allVars
    PROVE  FlushInv' /\ A!OldBeforeNew'
<1>1. [A!Next]_A!vars /\ FlushInv' /\ A!Whole
  BY StepRefines DEF FlushInv
<1> QED
  BY <1>1, A!OldBeforeNewKept, Assumptions

LEMMA GiveUpShape ==
    ASSUME Sound, GiveUp
    PROVE  Shape'
<1>1. /\ FlushInv /\ FlushInv' /\ Shape /\ Idle /\ Idle' /\ mode = "RW"
      /\ UNCHANGED <<orig, mode, pc, fl, arch, fp, hoff, mh, offs, created, stale>>
      /\ temp' = EmptyFile /\ flags' \in {{}, {"Aborted"}}
  BY GiveUpRefines DEF Sound, GiveUp, Idle
<1>2. TypeOK'
  BY <1>1, OpenTypesNext DEF OpenSets
<1>3. Memory'
  BY <1>1, <1>2 DEF Shape, Memory, Flags
<1>4. Disk'
  BY <1>1, FileKinds DEF Shape, Disk
<1> QED
  BY <1>1, <1>3, <1>4 DEF Shape, Around, Locals, Idle, Rewriting, Headed

LEMMA CloseShape ==
    ASSUME Sound, Close
    PROVE  Shape'
<1>1. /\ Shape /\ Idle /\ pc' = "closed" /\ UNCHANGED <<vars, fl, flags, hoff, mh,
                                                     offs, created, stale>>
      /\ temp' \in {temp, NoFile} /\ arch' \in {arch, NoFile}
      /\ fp' = [fp EXCEPT !.arch = FALSE, !.tmp = FALSE]
  BY DEF Sound, Close, Idle
<1>2. Memory'
  <2>1. TypeOK'
    BY <1>1 DEF Shape, Memory, TypeOK, vars
  <2>2. fp' \in [{"arch", "tmp", "known"} -> BOOLEAN]
    BY <1>1 DEF Shape, Memory
  <2> QED
    BY <1>1, <2>1, <2>2 DEF Shape, Memory, Places, vars
<1>3. Disk'
  BY <1>1, FileKinds DEF Shape, Disk
<1> QED
  BY <1>1, <1>2, <1>3 DEF Shape, Around, Locals, Idle, Rewriting, Headed

LEMMA BeginNothingShape ==
    ASSUME Sound, BeginNothing
    PROVE  Shape'
<1>1. /\ Shape /\ Idle /\ mode = "RW" /\ pc' = "reset" /\ UNCHANGED <<vars, fileVars>>
      /\ flags' = {} /\ "before" \in DOMAIN fl' /\ fl'.deleteAll = FALSE
  BY DEF Sound, BeginNothing
<1>2. Memory'
  <2>1. TypeOK'
    BY <1>1 DEF Shape, Memory, TypeOK, vars
  <2> QED
    BY <1>1, <2>1 DEF Shape, Memory, Places, Flags, vars, fileVars
<1>3. Disk'
  BY <1>1 DEF Shape, Disk, fileVars
<1> QED
  BY <1>1, <1>2, <1>3 DEF Shape, Around, Locals, Idle, Rewriting, Headed, fileVars

(* What steps 1 to 4 leave in the locals *)
LEMMA BeginIs ==
    ASSUME Begin
    PROVE  /\ \E mimic \in Mimics : new' = Fresh(mimic)
           /\ nextIdx' \in {nextIdx, nextIdx + 1}
           /\ fl'.toTemp \in BOOLEAN /\ fl'.discard \in BOOLEAN
           /\ fl'.discard => fl'.toTemp
           /\ ~fl'.toTemp => NoHeavyUpdates
           /\ hoff' = IF fl'.discard THEN 0 ELSE hoff
           /\ temp' = IF fl'.toTemp THEN [p \in 0 .. hoff' |-> Hole] ELSE temp
           /\ fl'.canAbort = (fl'.toTemp \/ ~Touched) /\ fl'.deleteAll = AllDeleted
           /\ fl'.todo = IF fl'.toTemp THEN DOMAIN OldRecords
                         ELSE {i \in DOMAIN OldRecords : Modified(OldRecords[i])}
           /\ fl'.at = hoff' + 1 /\ fl'.len0 = Length(arch)
           /\ fl'.off = Restrict(offs, DOMAIN OldRecords)
           /\ fl'.before = [orig |-> orig, copy |-> copy, loaded |-> copyLoaded,
                            new |-> new, nextIdx |-> nextIdx, result |-> result,
                            hoff |-> hoff, offs |-> offs]
           /\ DOMAIN fl' = FlFields
<1>1. PICK modifyOrig \in Styles, discard \in Discards, mimic \in Mimics :
         LET toTemp == ~(modifyOrig /\ NoHeavyUpdates)
             fresh  == Fresh(mimic)
             newOff == IF toTemp /\ discard THEN 0 ELSE hoff
         IN  /\ new' = fresh
             /\ hoff' = newOff
             /\ temp' = IF toTemp THEN [p \in 0 .. newOff |-> Hole] ELSE temp
             /\ nextIdx' = IF fresh = NewRecords THEN nextIdx ELSE nextIdx + 1
             /\ fl' = [toTemp    |-> toTemp,
                       discard   |-> toTemp /\ discard,
                       canAbort  |-> toTemp \/ ~Touched,
                       deleteAll |-> AllDeleted,
                       todo      |-> IF toTemp THEN DOMAIN OldRecords
                                     ELSE {i \in DOMAIN OldRecords :
                                               Modified(OldRecords[i])},
                       at        |-> newOff + 1,
                       len0      |-> Length(arch),
                       head      |-> mh,
                       off       |-> Restrict(offs, DOMAIN OldRecords),
                       before    |-> [orig |-> orig, copy |-> copy,
                                      loaded |-> copyLoaded, new |-> new,
                                      nextIdx |-> nextIdx, result |-> result,
                                      hoff |-> hoff, offs |-> offs]]
  BY ZenonT(60) DEF Begin
<1>2. /\ fl'.toTemp = ~(modifyOrig /\ NoHeavyUpdates)
      /\ fl'.discard = (fl'.toTemp /\ discard)
  BY <1>1
<1>3. /\ fl'.toTemp \in BOOLEAN /\ fl'.discard \in BOOLEAN
      /\ fl'.discard => fl'.toTemp
      /\ ~fl'.toTemp => NoHeavyUpdates
  BY <1>2
<1>4. /\ new' = Fresh(mimic) /\ nextIdx' \in {nextIdx, nextIdx + 1}
      /\ hoff' = IF fl'.discard THEN 0 ELSE hoff
  BY <1>1, <1>2
<1>5. temp' = IF fl'.toTemp THEN [p \in 0 .. hoff' |-> Hole] ELSE temp
  BY <1>1, <1>2
<1>6. /\ fl'.canAbort = (fl'.toTemp \/ ~Touched) /\ fl'.deleteAll = AllDeleted
      /\ fl'.todo = IF fl'.toTemp THEN DOMAIN OldRecords
                    ELSE {i \in DOMAIN OldRecords : Modified(OldRecords[i])}
  BY <1>1, <1>2
<1>7. fl'.at = hoff' + 1 /\ fl'.len0 = Length(arch)
  BY <1>1, <1>2
<1>8. /\ fl'.off = Restrict(offs, DOMAIN OldRecords)
      /\ fl'.before = [orig |-> orig, copy |-> copy, loaded |-> copyLoaded,
                       new |-> new, nextIdx |-> nextIdx, result |-> result,
                       hoff |-> hoff, offs |-> offs]
      /\ DOMAIN fl' = FlFields
  BY <1>1 DEF FlFields
<1> QED
  BY <1>3, <1>4, <1>5, <1>6, <1>7, <1>8

LEMMA BeginShape ==
    ASSUME Sound, Begin
    PROVE  Shape'
<1>1. /\ FlushInv /\ A!OldBeforeNew /\ Shape /\ Idle /\ mode = "RW" /\ pc' = "old"
      /\ flags' = {} /\ copyLoaded' = Touched
      /\ copy' = IF Touched THEN OldRecords ELSE EmptyMap
      /\ UNCHANGED <<orig, mode, result, edits, arch, fp, mh, offs, created, stale>>
  BY DEF Sound, Begin
<1>2. /\ fl'.toTemp \in BOOLEAN /\ hoff' \in {0, hoff}
      /\ temp' = IF fl'.toTemp THEN [p \in 0 .. hoff' |-> Hole] ELSE temp
      /\ fl'.canAbort = (fl'.toTemp \/ ~Touched) /\ fl'.deleteAll = AllDeleted
      /\ fl'.at = hoff' + 1 /\ fl'.len0 = Length(arch)
      /\ fl'.off = Restrict(offs, DOMAIN OldRecords)
      /\ fl'.before.loaded = copyLoaded /\ "before" \in DOMAIN fl'
      /\ \E mimic : new' = Fresh(mimic)
      /\ nextIdx' \in {nextIdx, nextIdx + 1}
  BY BeginIs DEF FlFields
<1>3. FlushInv' /\ A!OldBeforeNew'
  BY <1>1, OrderGoesOn DEF FNext
<1>4. WaySets'
  BY <1>1, <1>3, SetsOnTheWayNext DEF Rewriting
<1>5. /\ copyLoaded \in BOOLEAN /\ (Touched => copyLoaded) /\ Touched \in BOOLEAN
      /\ AllDeleted \in BOOLEAN /\ DOMAIN Cur' = DOMAIN OldRecords
  BY <1>1 DEF FlushInv, Touched, AllDeleted, Cur, OldRecords
<1>6. TypeOK'
  <2>1. IsRecordSet(new') /\ nextIdx' \in Nat
    <3>1. \A mimic : IsRecordSet(Fresh(mimic))
      BY <1>1, SetTypes, SamePending, OpenTypes DEF FlushInv, OpenSets
    <3> QED
      BY <1>1, <1>2, <3>1 DEF Shape, Memory, TypeOK
  <2>2. IsRecordSet(copy')
    <3>1. IsRecordSet(OldRecords) /\ IsRecordSet(EmptyMap)
      BY <1>1, SetTypes, SamePending, OpenTypes
         DEF FlushInv, OpenSets, IsRecordSet, EmptyMap
    <3> QED
      BY <1>1, <3>1
  <2> QED
    BY <1>1, <1>5, <2>1, <2>2 DEF Shape, Memory, TypeOK
<1>7. Memory'
  BY <1>1, <1>6 DEF Shape, Memory, Places, Flags
<1>8. Disk'
  <2>1. ASSUME NEW w \in {0, 1}
        PROVE  /\ Cells([p \in 0 .. w |-> Hole])
               /\ IsFiniteSet(DOMAIN [p \in 0 .. w |-> Hole])
    <3>1. IsFiniteSet(0 .. w)
      BY FS_Interval
    <3> QED
      BY <3>1, CellKinds DEF Cells
  <2> QED
    BY <1>1, <1>2, <2>1 DEF Shape, Disk
<1>9. Sizes'
  <2>1. fl'.len0 \in Nat /\ (hoff' = 1 => fl'.len0 > 0)
    <3>1. Length(arch) \in Nat /\ (Length(arch) = 0 => DOMAIN arch = {})
      BY <1>1, FS_CardinalityType, FS_EmptySet DEF Length, Shape, Disk
    <3> QED
      BY <1>1, <1>2, <3>1 DEF Shape, Disk
  <2>2. fl'.at \in Nat /\ fl'.at >= hoff'
    <3>1. hoff' \in Nat /\ fl'.at = hoff' + 1
      BY <1>1, <1>2 DEF Shape, Disk
    <3>2. \A a, h : h \in Nat /\ a = h + 1 => a \in Nat /\ a >= h
      OBVIOUS
    <3> QED
      BY <3>1, <3>2
  <2>3. DOMAIN fl'.off = DOMAIN Merged' \ NewTodo'
    <3>1. DOMAIN fl'.off = DOMAIN Cur' /\ NewTodo' = DOMAIN new'
      BY <1>1, <1>2, <1>5 DEF Restrict, NewTodo
    <3>2. DOMAIN Merged' = DOMAIN Cur' \cup DOMAIN new'
      BY DEF Merged
    <3>3. DOMAIN Cur' \cap DOMAIN new' = {}
      BY <1>4 DEF WaySets
    <3> QED
      BY <3>1, <3>2, <3>3
  <2>4. fl'.toTemp => 0 \in DOMAIN temp'
    BY <1>1, <1>2 DEF Shape, Disk
  <2> QED
    BY <1>1, <1>2, <1>5, <2>1, <2>2, <2>3, <2>4 DEF Sizes, Headed
<1>10. Phase'
  BY <1>1, <1>2, <1>5 DEF Phase, Shape, Around
<1> QED
  BY <1>1, <1>2, <1>7, <1>8, <1>9, <1>10 DEF Shape, Around, Locals, Idle

-----------------------------------------------------------------------------
(* Step 5 *)

(* The locals a step of the walks leaves alone *)
SameLocals ==
    /\ DOMAIN fl' = DOMAIN fl /\ fl'.toTemp = fl.toTemp /\ fl'.discard = fl.discard
    /\ fl'.canAbort = fl.canAbort /\ fl'.deleteAll = fl.deleteAll
    /\ fl'.len0 = fl.len0 /\ fl'.head = fl.head /\ fl'.before = fl.before

LEMMA WriteTempDoes ==
    ASSUME NEW i, NEW cell, WriteTemp(i, cell), DOMAIN fl = FlFields
    PROVE  /\ temp' = Put(temp, fl.at, cell) /\ SameLocals
           /\ fl'.todo = fl.todo \ {i} /\ fl'.at = fl.at + 1
           /\ fl'.off = With(fl.off, i, fl.at) /\ DOMAIN fl'.off = DOMAIN fl.off \cup {i}
BY DEF WriteTemp, SameLocals, FlFields, With

LEMMA OldWalkShape ==
    ASSUME Sound, pc = "old", NEW i \in DOMAIN Cur,
           UNCHANGED <<orig, copyLoaded, new, nextIdx, mode, result, edits, pc,
                       flags, fp, hoff, mh, created, stale>>,
           IsRecordSet(copy'), DOMAIN Cur' = DOMAIN Cur, DOMAIN offs' = DOMAIN offs,
           SameLocals, fl'.at \in {fl.at, fl.at + 1},
           DOMAIN fl'.off \in {DOMAIN fl.off, DOMAIN fl.off \cup {i}},
           DOMAIN temp \subseteq DOMAIN temp', Disk'
    PROVE  Shape'
<1>1. /\ Shape /\ WaySets /\ Sizes /\ Phase
  BY SetsOnTheWay DEF Sound, Shape, Locals, Rewriting
<1>2. Memory'
  <2>1. TypeOK'
    BY <1>1 DEF Shape, Memory, TypeOK
  <2> QED
    BY <1>1, <2>1 DEF Shape, Memory
<1>3. DOMAIN fl'.off = DOMAIN Merged' \ NewTodo'
  <2>1. DOMAIN Merged' = DOMAIN Merged /\ NewTodo' = NewTodo /\ NewTodo = DOMAIN new
    BY DEF Merged, NewTodo
  <2>2. i \in DOMAIN Merged \ NewTodo
    BY <1>1, <2>1 DEF Merged, WaySets
  <2> QED
    BY <1>1, <2>1, <2>2 DEF Sizes
<1>4. fl'.at \in Nat /\ fl'.at >= hoff'
  <2>1. hoff \in Nat /\ fl.at \in Nat /\ fl.at >= hoff
    BY <1>1 DEF Sizes, Shape, Disk
  <2> QED
    BY <2>1
<1>5. Sizes'
  BY <1>1, <1>3, <1>4 DEF Sizes, SameLocals, Headed
<1>6. Phase'
  BY <1>1 DEF Phase, SameLocals
<1> QED
  BY <1>1, <1>2, <1>5, <1>6 DEF Shape, Around, Locals, SameLocals, Idle

LEMMA ExceptIsRecordSet ==
    ASSUME NEW S, IsRecordSet(S), NEW i \in DOMAIN S, NEW r, IsRecord(r)
    PROVE  IsRecordSet([S EXCEPT ![i] = r])
BY DEF IsRecordSet

LEMMA CarryKinds == \A i, r : Carry(i, r).kind \in Kinds
BY CellKinds DEF Carry

LEMMA CopyOldShape ==
    ASSUME Sound, NEW i \in DOMAIN Cur, CopyOld(i)
    PROVE  Shape'
<1>1. /\ pc = "old" /\ fl.off[i] \in DOMAIN arch /\ WriteTemp(i, arch[fl.off[i]])
      /\ offs' = (IF copyLoaded THEN offs ELSE [offs EXCEPT ![i] = fl.at])
      /\ UNCHANGED <<vars, pc, flags, arch, fp, hoff, mh, created, stale>>
  BY DEF CopyOld
<1>2. Shape /\ WaySets
  BY <1>1, SetsOnTheWay DEF Sound, Rewriting
<1>3. arch[fl.off[i]].kind \in Kinds
  BY <1>1, <1>2 DEF Shape, Disk, Cells
<1>4. /\ temp' = Put(temp, fl.at, arch[fl.off[i]]) /\ SameLocals /\ fl'.at = fl.at + 1
      /\ DOMAIN fl'.off = DOMAIN fl.off \cup {i}
  BY <1>1, <1>2, WriteTempDoes DEF WaySets
<1>5. DOMAIN temp \subseteq DOMAIN temp' /\ Disk'
  BY <1>1, <1>2, <1>3, <1>4, TempPut DEF Shape
<1>6. Cur' = Cur /\ DOMAIN offs' = DOMAIN offs /\ IsRecordSet(copy')
  BY <1>1, <1>2 DEF Cur, vars, Shape, Memory, TypeOK
<1> QED
  BY <1>1, <1>4, <1>5, <1>6, OldWalkShape DEF vars

LEMMA BuildOldShape ==
    ASSUME Sound, NEW i \in DOMAIN Cur, BuildOld(i) \/ SkipOld(i)
    PROVE  Shape'
<1>1. /\ pc = "old" /\ AtRecord(i) /\ Modified(Cur[i])
      /\ \E cell : WriteTemp(i, cell) /\ cell.kind \in Kinds
      /\ \E r : copy' = [copy EXCEPT ![i] = r] /\ r \in {Applied(copy[i], copy[i].mods), orig[i]}
      /\ UNCHANGED <<orig, copyLoaded, new, nextIdx, mode, result, edits, pc,
                      flags, arch, fp, hoff, mh, offs, created, stale>>
  <2>1. CASE BuildOld(i)
    BY <2>1, CarryKinds DEF BuildOld
  <2>2. CASE SkipOld(i)
    BY <2>2 DEF SkipOld, Modified, Sound, Shape, Disk, Cells
  <2> QED
    BY <2>1, <2>2
<1>2. Shape /\ WaySets /\ copyLoaded /\ Cur = copy
  BY <1>1, SetsOnTheWay, OldFacts DEF Sound, Rewriting
<1>3. PICK r : copy' = [copy EXCEPT ![i] = r] /\ r \in {Applied(copy[i], copy[i].mods), orig[i]}
  BY <1>1
<1>4. IsRecordSet(copy') /\ DOMAIN copy' = DOMAIN copy
  <2>1. IsRecordSet(copy) /\ IsRecord(copy[i]) /\ IsRecord(orig[i])
    BY <1>2 DEF Shape, Memory, TypeOK, IsRecordSet, WaySets
  <2>2. IsRecord(r)
    BY <1>3, <2>1, RecordTypes
  <2> QED
    BY <1>2, <1>3, <2>1, <2>2, ExceptIsRecordSet
<1>5. PICK cell : WriteTemp(i, cell) /\ cell.kind \in Kinds
  BY <1>1
<1>6. /\ temp' = Put(temp, fl.at, cell) /\ SameLocals /\ fl'.at = fl.at + 1
      /\ DOMAIN fl'.off = DOMAIN fl.off \cup {i}
  BY <1>2, <1>5, WriteTempDoes DEF WaySets
<1>7. DOMAIN temp \subseteq DOMAIN temp' /\ Disk'
  BY <1>1, <1>2, <1>5, <1>6, TempPut DEF Shape
<1>8. DOMAIN Cur' = DOMAIN Cur
  BY <1>1, <1>2, <1>4 DEF Cur
<1> QED
  BY <1>1, <1>4, <1>6, <1>7, <1>8, OldWalkShape

LEMMA UpdateOldShape ==
    ASSUME Sound, NEW i \in DOMAIN Cur, UpdateOld(i)
    PROVE  Shape'
<1>1. /\ pc = "old" /\ AtRecord(i) /\ ~fl.toTemp
      /\ fl' = [fl EXCEPT !.todo = fl.todo \ {i}]
      /\ \E cell : arch' = Put(arch, offs[i], cell) /\ cell.kind \in Kinds
      /\ UNCHANGED <<orig, copyLoaded, new, nextIdx, mode, result, edits, pc,
                      flags, temp, fp, hoff, mh, offs, created, stale>>
  BY CarryKinds DEF UpdateOld
<1>2. PICK skip \in SUBSET FileMods(Restrict(copy, {i})) :
         copy' = [copy EXCEPT ![i] = Applied(copy[i], copy[i].mods \ skip)]
  BY DEF UpdateOld
<1>3. Shape /\ WaySets /\ copyLoaded /\ Cur = copy
  BY <1>1, SetsOnTheWay, OldFacts DEF Sound, Rewriting
<1>4. IsRecordSet(copy') /\ DOMAIN copy' = DOMAIN copy
  <2>1. IsRecordSet(copy) /\ IsRecord(copy[i])
    BY <1>3 DEF Shape, Memory, TypeOK, IsRecordSet
  <2>2. IsRecord(Applied(copy[i], copy[i].mods \ skip))
    BY <2>1, RecordTypes
  <2> QED
    BY <1>2, <1>3, <2>1, <2>2, ExceptIsRecordSet
<1>5. /\ SameLocals /\ fl'.at = fl.at /\ DOMAIN fl'.off = DOMAIN fl.off
  BY <1>1, <1>3 DEF WaySets, SameLocals, FlFields
<1>6. Disk'
  BY <1>1, <1>3, ArchPut DEF Shape
<1>7. DOMAIN Cur' = DOMAIN Cur
  BY <1>1, <1>3, <1>4 DEF Cur
<1> QED
  BY <1>1, <1>4, <1>5, <1>6, <1>7, OldWalkShape

(* No record goes through, or the walk is over. *)
LEMMA OldDoneShape ==
    ASSUME Sound, OldDone
    PROVE  Shape'
<1>1. /\ pc = "old" /\ pc' = "new" /\ fl.todo = {} /\ UNCHANGED <<vars, flags, fileVars>>
      /\ fl' = [fl EXCEPT !.todo = DOMAIN new,
                          !.at = IF fl.toTemp THEN @ ELSE hoff + mh.eof]
  BY DEF OldDone
<1>2. Shape /\ WaySets /\ Sizes /\ Phase
  BY <1>1, SetsOnTheWay DEF Sound, Shape, Locals, Rewriting
<1>3. /\ SameLocals /\ fl'.off = fl.off /\ fl'.todo = DOMAIN new
      /\ fl'.at \in {fl.at, hoff + mh.eof}
  BY <1>1, <1>2 DEF WaySets, SameLocals, FlFields
<1>4. fl'.at \in Nat /\ fl'.at >= hoff
  <2>1. hoff \in Nat /\ mh.eof \in Nat /\ fl.at \in Nat /\ fl.at >= hoff
    BY <1>1, <1>2 DEF Sizes, Shape, Disk, Memory
  <2> QED
    BY <1>3, <2>1
<1>5. Memory' /\ Disk'
  <2>1. TypeOK'
    BY <1>1, <1>2 DEF Shape, Memory, TypeOK, vars
  <2> QED
    BY <1>1, <1>2, <2>1 DEF Shape, Memory, Disk, Places, vars, fileVars
<1>6. DOMAIN Merged' = DOMAIN Merged /\ NewTodo' = DOMAIN new /\ NewTodo = DOMAIN new
  BY <1>1, <1>3 DEF Merged, Cur, NewTodo, vars
<1>7. Sizes' /\ Phase'
  BY <1>1, <1>2, <1>3, <1>4, <1>6 DEF Sizes, Phase, SameLocals, Headed, vars, fileVars
<1> QED
  BY <1>1, <1>2, <1>3, <1>5, <1>7
     DEF Shape, Around, Locals, SameLocals, Idle, WaySets, FlFields

-----------------------------------------------------------------------------
(* Steps 6 to 8 *)

LEMMA WriteKeeps ==
    ASSUME Disk, NEW p, NEW c, c.kind \in Kinds, Write(p, c), hoff' = hoff
    PROVE  Disk' /\ DOMAIN temp \subseteq DOMAIN temp'
<1>1. CASE fl.toTemp
  BY <1>1, TempPut DEF Write
<1>2. CASE ~fl.toTemp
  BY <1>2, ArchPut DEF Write
<1> QED
  BY <1>1, <1>2

LEMMA WalkNewShape ==
    ASSUME Sound, NEW i \in DOMAIN new, WalkNew(i)
    PROVE  Shape'
<1>1. /\ pc = "new" /\ pc' = "new" /\ i \in fl.todo
      /\ \E c : Write(fl.at, c) /\ c.kind \in Kinds
      /\ UNCHANGED <<orig, copy, copyLoaded, nextIdx, mode, result, edits,
                      flags, fp, hoff, mh, offs, created, stale>>
  BY CellKinds DEF WalkNew, BuildNew, SkipNew, AtRecord, IsFirst
<1>2. Shape /\ WaySets /\ Sizes /\ Phase
  BY <1>1, SetsOnTheWay DEF Sound, Shape, Locals, Rewriting
<1>3. Disk' /\ DOMAIN temp \subseteq DOMAIN temp'
  BY <1>1, <1>2, WriteKeeps DEF Shape
<1>4. IsRecordSet(new) /\ i \in Nat /\ IsRecord(new[i])
  BY <1>2 DEF Shape, Memory, TypeOK, WaySets, IsRecordSet
<1>5. NewTodo = fl.todo /\ NewTodo' = fl'.todo
  BY <1>1 DEF NewTodo
<1>6. /\ SameLocals /\ IsRecordSet(new') /\ fl'.at \in {fl.at, fl.at + 1}
      /\ fl'.todo = fl.todo \ {i} /\ DOMAIN fl'.off = DOMAIN Merged' \ NewTodo'
  <2>1. DOMAIN Merged = DOMAIN Cur \cup DOMAIN new /\ DOMAIN Merged' = DOMAIN Cur \cup DOMAIN new'
    BY <1>1 DEF Merged, Cur
  <2>2. CASE BuildNew(i)
    <3>1. /\ new' = [new EXCEPT ![i] = Constructed(new[i], i)]
          /\ fl' = [fl EXCEPT !.todo = fl.todo \ {i}, !.at = fl.at + 1,
                              !.off = With(fl.off, i, fl.at)]
      BY <2>2 DEF BuildNew
    <3>2. /\ SameLocals /\ fl'.at = fl.at + 1 /\ fl'.todo = fl.todo \ {i}
          /\ DOMAIN fl'.off = DOMAIN fl.off \cup {i}
      BY <1>2, <3>1 DEF WaySets, SameLocals, FlFields, With
    <3>3. IsRecordSet(new') /\ DOMAIN new' = DOMAIN new
      BY <1>4, <3>1, RecordTypes, ExceptIsRecordSet
    <3> QED
      BY <1>1, <1>2, <1>5, <2>1, <3>2, <3>3 DEF Sizes
  <2>3. CASE SkipNew(i)
    <3>1. new' = Without(new, {i}) /\ fl' = [fl EXCEPT !.todo = fl.todo \ {i}]
      BY <2>3 DEF SkipNew
    <3>2. /\ SameLocals /\ fl'.at = fl.at /\ fl'.todo = fl.todo \ {i} /\ fl'.off = fl.off
      BY <1>2, <3>1 DEF WaySets, SameLocals, FlFields
    <3>3. IsRecordSet(new') /\ DOMAIN new' = DOMAIN new \ {i}
      BY <1>4, <3>1 DEF IsRecordSet, Without, Restrict
    <3>4. i \notin DOMAIN Cur
      BY <1>2 DEF WaySets
    <3> QED
      BY <1>1, <1>2, <1>5, <2>1, <3>2, <3>3, <3>4 DEF Sizes
  <2> QED
    BY <2>2, <2>3 DEF WalkNew
<1>7. Memory'
  <2>1. TypeOK'
    BY <1>1, <1>2, <1>6 DEF Shape, Memory, TypeOK
  <2> QED
    BY <1>1, <1>2, <2>1 DEF Shape, Memory
<1>8. fl'.at \in Nat /\ fl'.at >= hoff'
  <2>1. hoff \in Nat /\ fl.at \in Nat /\ fl.at >= hoff
    BY <1>1, <1>2 DEF Sizes, Shape, Disk
  <2> QED
    BY <1>1, <1>6, <2>1
<1>9. Sizes'
  BY <1>1, <1>2, <1>3, <1>6, <1>8 DEF Sizes, SameLocals, Headed
<1>10. Phase'
  BY <1>1, <1>2, <1>6 DEF Phase, SameLocals
<1> QED
  BY <1>1, <1>2, <1>3, <1>6, <1>7, <1>9, <1>10
     DEF Shape, Around, Locals, SameLocals, Idle, WaySets, FlFields

(* copy, or else orig, and new have no record in common. *)
LEMMA MergedCount ==
    ASSUME WaySets
    PROVE  /\ DOMAIN Merged = DOMAIN Cur \cup DOMAIN new
           /\ DOMAIN Cur \cap DOMAIN new = {}
           /\ IsFiniteSet(DOMAIN Merged) /\ DOMAIN Merged \subseteq Nat
           /\ Count(Cur) \in Nat /\ Count(new) \in Nat
           /\ Count(Merged) = Count(Cur) + Count(new)
<1>1. DOMAIN Merged = DOMAIN Cur \cup DOMAIN new
  BY DEF Merged
<1>2. DOMAIN Cur \cap DOMAIN new = {}
  BY DEF WaySets
<1>3. IsFiniteSet(DOMAIN Cur) /\ IsFiniteSet(DOMAIN new)
  BY DEF WaySets
<1>4. /\ IsFiniteSet(DOMAIN Cur \cup DOMAIN new)
      /\ Cardinality(DOMAIN Cur \cup DOMAIN new) =
            Cardinality(DOMAIN Cur) + Cardinality(DOMAIN new)
               - Cardinality(DOMAIN Cur \cap DOMAIN new)
  BY <1>3, FS_Union
<1>5. /\ Cardinality(DOMAIN Cur) \in Nat /\ Cardinality(DOMAIN new) \in Nat
      /\ Cardinality(DOMAIN Cur \cap DOMAIN new) = 0
  BY <1>2, <1>3, FS_CardinalityType, FS_EmptySet
<1>6. Cardinality(DOMAIN Cur \cup DOMAIN new) = Cardinality(DOMAIN Cur) + Cardinality(DOMAIN new)
  BY <1>4, <1>5
<1> QED
  BY <1>1, <1>2, <1>4, <1>5, <1>6 DEF Count, WaySets

(* A file truncated at n, and the master header written at w *)
LEMMA HeaderKinds ==
    ASSUME NEW f, Cells(f), IsFiniteSet(DOMAIN f), NEW n \in Nat, NEW w \in {0, 1}, n >= w,
           NEW c, c.kind \in Kinds
    PROVE  /\ Cells(Put(Truncate(f, n), w, c)) /\ IsFiniteSet(DOMAIN Put(Truncate(f, n), w, c))
           /\ w = 0 \/ 0 \in DOMAIN f => 0 \in DOMAIN Put(Truncate(f, n), w, c)
<1>1. /\ Cells(Truncate(f, n)) /\ IsFiniteSet(DOMAIN Truncate(f, n))
      /\ DOMAIN Truncate(f, n) = {p \in DOMAIN f : p < n}
  BY TruncateKinds
<1>2. /\ Cells(Put(Truncate(f, n), w, c)) /\ IsFiniteSet(DOMAIN Put(Truncate(f, n), w, c))
      /\ DOMAIN Put(Truncate(f, n), w, c) = DOMAIN Truncate(f, n) \cup {w}
  BY <1>1, PutKinds
<1>3. w = 1 => 0 < n
  OBVIOUS
<1> QED
  BY <1>1, <1>2, <1>3

LEMMA WriteHeaderShape ==
    ASSUME Sound, WriteHeader
    PROVE  Shape'
<1> DEFINE n == Cardinality(DOMAIN Cur) + Cardinality(DOMAIN new)
           e == fl.at - hoff
<1>1. /\ pc = "new" /\ pc' = "wrap" /\ fl.todo = {}
      /\ UNCHANGED <<vars, flags, fp, hoff, mh, offs, created, stale>>
      /\ fl' = [fl EXCEPT !.head = [count |-> n, eof |-> e]]
      /\ IF fl.toTemp
           THEN temp' = Put(Truncate(temp, fl.at), hoff, Head(n, e)) /\ UNCHANGED arch
           ELSE arch' = Put(Truncate(arch, fl.at), hoff, Head(n, e)) /\ UNCHANGED temp
  BY DEF WriteHeader
<1>2. Shape /\ WaySets /\ Sizes /\ Phase
  BY <1>1, SetsOnTheWay DEF Sound, Shape, Locals, Rewriting
<1>3. /\ fl'.toTemp = fl.toTemp /\ fl'.deleteAll = fl.deleteAll /\ fl'.len0 = fl.len0
      /\ fl'.canAbort = fl.canAbort /\ fl'.before = fl.before /\ fl'.off = fl.off
      /\ fl'.head.count = n /\ fl'.head.eof = e /\ "before" \in DOMAIN fl'
  BY <1>1, <1>2 DEF WaySets, FlFields
<1>4. n = Count(Merged)
  BY <1>2, MergedCount DEF Count
<1>5. hoff \in {0, 1} /\ fl.at \in Nat /\ fl.at >= hoff /\ e \in Nat
  BY <1>1, <1>2 DEF Sizes, Shape, Disk
<1>6. Head(n, e).kind \in Kinds
  BY CellKinds
<1> HIDE DEF n, e
<1>7. Disk' /\ (fl.toTemp => 0 \in DOMAIN temp')
  <2>1. /\ Cells(temp) /\ IsFiniteSet(DOMAIN temp) /\ Cells(arch) /\ IsFiniteSet(DOMAIN arch)
        /\ hoff = 1 => 0 \in DOMAIN arch
        /\ fl.toTemp => 0 \in DOMAIN temp
    BY <1>1, <1>2 DEF Sizes, Shape, Disk
  <2>2. CASE fl.toTemp
    <3>1. Cells(temp') /\ IsFiniteSet(DOMAIN temp') /\ 0 \in DOMAIN temp'
      BY <1>1, <1>5, <1>6, <2>1, <2>2, HeaderKinds
    <3> QED
      BY <1>1, <1>5, <2>1, <2>2, <3>1 DEF Disk, Cells
  <2>3. CASE ~fl.toTemp
    <3>1. Cells(arch') /\ IsFiniteSet(DOMAIN arch') /\ (hoff = 1 => 0 \in DOMAIN arch')
      BY <1>1, <1>5, <1>6, <2>1, <2>3, HeaderKinds
    <3> QED
      BY <1>1, <1>5, <2>1, <2>3, <3>1 DEF Disk, Cells
  <2> QED
    BY <2>2, <2>3
<1>8. Memory'
  <2>1. TypeOK'
    BY <1>1, <1>2 DEF Shape, Memory, TypeOK, vars
  <2> QED
    BY <1>1, <1>2, <2>1 DEF Shape, Memory, Places, vars
<1>9. Merged' = Merged /\ NewTodo' = {} /\ NewTodo = {}
  BY <1>1 DEF Merged, Cur, NewTodo, vars
<1>10. Sizes'
  BY <1>1, <1>2, <1>3, <1>4, <1>5, <1>7, <1>9 DEF Sizes, Count
<1>11. Phase'
  BY <1>1, <1>2, <1>3 DEF Phase, vars
<1> QED
  BY <1>1, <1>3, <1>7, <1>8, <1>10, <1>11 DEF Shape, Around, Locals, Idle

-----------------------------------------------------------------------------
(* Steps 9 and 10 *)

Swapping == {"delete", "closetmp", "rename"}

LEMMA HeadedShape ==
    ASSUME Sound, pc \in Headed, pc' \in Headed \ {"wrap"},
           UNCHANGED <<vars, hoff, mh, offs, created, stale>>,
           fl'.toTemp = fl.toTemp, fl'.deleteAll = fl.deleteAll, fl'.len0 = fl.len0,
           fl'.head = fl.head, fl'.off = fl.off, fl'.before = fl.before,
           "before" \in DOMAIN fl',
           flags' \subseteq Flags, fp' \in [{"arch", "tmp", "known"} -> BOOLEAN],
           Disk', Phase', pc' \in Swapping /\ fl.toTemp => 0 \in DOMAIN temp'
    PROVE  Shape'
<1>1. Shape /\ Sizes
  BY DEF Sound, Shape, Locals, Rewriting
<1>2. Memory'
  <2>1. TypeOK'
    BY <1>1 DEF Shape, Memory, TypeOK, vars
  <2> QED
    BY <1>1, <2>1 DEF Shape, Memory, Places, Headed, vars
<1>3. Merged' = Merged /\ NewTodo' = NewTodo
  BY DEF Merged, Cur, NewTodo, vars, Headed
<1>4. Sizes'
  BY <1>1, <1>3 DEF Sizes, Headed, Swapping
<1> QED
  BY <1>2, <1>4 DEF Shape, Around, Locals, Headed, Idle

LEMMA SwapShape ==
    ASSUME Sound, \/ CarryWrapper \/ Sync \/ DeleteArchive \/ CloseTemp
                  \/ RenameTemp \/ Reopen
    PROVE  Shape'
<1>1. /\ pc \in Headed /\ pc' \in Headed \ {"wrap"}
      /\ UNCHANGED <<vars, hoff, mh, offs, created, stale>>
      /\ fl' = fl \/ fl' = [fl EXCEPT !.canAbort = FALSE]
      /\ flags' = flags \/ flags' = flags \cup {"Succeeded"}
  <2>1. CASE CarryWrapper
    BY <2>1 DEF CarryWrapper, Headed
  <2>2. CASE Sync
    BY <2>2 DEF Sync, Headed, fileVars
  <2>3. CASE DeleteArchive
    BY <2>3 DEF DeleteArchive, Headed
  <2>4. CASE CloseTemp \/ RenameTemp \/ Reopen
    BY <2>4 DEF CloseTemp, RenameTemp, Reopen, Headed
  <2> QED
    BY <2>1, <2>2, <2>3, <2>4
<1>2. Shape /\ WaySets /\ Sizes /\ Phase
  BY <1>1, SetsOnTheWay DEF Sound, Shape, Locals, Rewriting
<1>3. /\ fl'.toTemp = fl.toTemp /\ fl'.deleteAll = fl.deleteAll /\ fl'.len0 = fl.len0
      /\ fl'.head = fl.head /\ fl'.off = fl.off /\ fl'.before = fl.before
      /\ "before" \in DOMAIN fl'
  BY <1>1, <1>2 DEF WaySets, FlFields
<1>4. flags' \subseteq Flags
  BY <1>1, <1>2 DEF Shape, Memory, Flags
<1>5. fp \in [{"arch", "tmp", "known"} -> BOOLEAN]
  BY <1>2 DEF Shape, Memory
<1>6. CASE CarryWrapper
  <2>1. /\ pc = "wrap" /\ UNCHANGED <<fl, flags, arch, fp>>
        /\ temp' = (IF fl.toTemp /\ hoff > 0 /\ ~fl.discard THEN Put(temp, 0, arch[0]) ELSE temp)
        /\ pc' = IF fl.toTemp THEN "delete" ELSE "sync"
    BY <1>6 DEF CarryWrapper
  <2>2. Disk' /\ DOMAIN temp \subseteq DOMAIN temp'
    <3>1. CASE temp' = temp
      BY <1>1, <1>2, <2>1, <3>1 DEF Shape, Disk
    <3>2. CASE hoff > 0 /\ temp' = Put(temp, 0, arch[0])
      <4>1. arch[0].kind \in Kinds
        BY <1>2, <3>2 DEF Shape, Disk, Cells
      <4> QED
        BY <1>1, <1>2, <2>1, <3>2, <4>1, TempPut DEF Shape
    <3> QED
      BY <2>1, <3>1, <3>2
  <2>3. Phase'
    BY <1>1, <1>2, <2>1 DEF Phase, vars
  <2> QED
    BY <1>1, <1>2, <1>3, <1>4, <1>5, <2>1, <2>2, <2>3, HeadedShape DEF Sizes
<1>7. CASE Sync
  <2>1. /\ pc = "sync" /\ pc' = "commit" /\ UNCHANGED fileVars
        /\ flags' = flags \cup {"Succeeded"}
    BY <1>7 DEF Sync
  <2>2. Phase' /\ Disk'
    BY <1>1, <1>2, <1>3, <2>1 DEF Phase, Shape, Disk, vars, fileVars
  <2> QED
    BY <1>1, <1>2, <1>3, <1>4, <1>5, <2>1, <2>2, HeadedShape DEF Swapping, fileVars
<1>8. CASE DeleteArchive
  <2>1. /\ pc = "delete" /\ pc' = "closetmp" /\ temp' = temp /\ arch' = NoFile
        /\ flags' = flags \cup {"Succeeded"} /\ fp' = [fp EXCEPT !.arch = FALSE]
    BY <1>8 DEF DeleteArchive
  <2>2. /\ fp' \in [{"arch", "tmp", "known"} -> BOOLEAN]
        /\ ~fp'.arch /\ fp'.tmp = fp.tmp
    BY <1>5, <2>1
  <2>3. Phase' /\ Disk'
    BY <1>1, <1>2, <1>3, <2>1, <2>2, FileKinds DEF Phase, Shape, Disk, vars
  <2> QED
    BY <1>1, <1>2, <1>3, <1>4, <2>1, <2>2, <2>3, HeadedShape DEF Sizes
<1>9. CASE CloseTemp
  <2>1. /\ pc = "closetmp" /\ pc' = "rename" /\ UNCHANGED <<fl, flags, arch, temp>>
        /\ fp' = [fp EXCEPT !.tmp = FALSE]
    BY <1>9 DEF CloseTemp
  <2>2. /\ fp' \in [{"arch", "tmp", "known"} -> BOOLEAN]
        /\ fp'.arch = fp.arch /\ ~fp'.tmp
    BY <1>5, <2>1
  <2>3. Phase' /\ Disk'
    BY <1>1, <1>2, <1>3, <2>1, <2>2 DEF Phase, Shape, Disk, vars
  <2> QED
    BY <1>1, <1>2, <1>3, <1>4, <2>1, <2>2, <2>3, HeadedShape DEF Sizes
<1>10. CASE RenameTemp
  <2>1. /\ pc = "rename" /\ pc' = "reopen" /\ UNCHANGED <<fl, flags, fp>>
        /\ arch' = temp /\ temp' = NoFile
    BY <1>10 DEF RenameTemp
  <2>2. 0 \in DOMAIN temp
    BY <1>2, <2>1 DEF Sizes, Phase
  <2>3. Phase' /\ Disk'
    BY <1>1, <1>2, <1>3, <2>1, <2>2, FileKinds DEF Phase, Shape, Disk, vars
  <2> QED
    BY <1>1, <1>2, <1>3, <1>4, <1>5, <2>1, <2>3, HeadedShape DEF Swapping
<1>11. CASE Reopen
  <2>1. /\ pc = "reopen" /\ pc' = "commit" /\ UNCHANGED <<fl, flags, arch, temp>>
        /\ fp' = [fp EXCEPT !.arch = TRUE]
    BY <1>11 DEF Reopen
  <2>2. /\ fp' \in [{"arch", "tmp", "known"} -> BOOLEAN]
        /\ fp'.arch /\ fp'.tmp = fp.tmp
    BY <1>5, <2>1
  <2>3. Phase' /\ Disk'
    BY <1>1, <1>2, <1>3, <2>1, <2>2 DEF Phase, Shape, Disk, vars
  <2> QED
    BY <1>1, <1>2, <1>3, <1>4, <2>1, <2>2, <2>3, HeadedShape DEF Swapping
<1> QED
  BY <1>6, <1>7, <1>8, <1>9, <1>10, <1>11

-----------------------------------------------------------------------------
(* Steps 11 and 12, and the ways out of a failure *)

LEMMA NoRecords == IsRecordSet(EmptyMap)
BY DEF IsRecordSet, EmptyMap

LEMMA CommitShape ==
    ASSUME Sound, Commit
    PROVE  Shape'
<1>1. /\ pc = "commit" /\ pc' = "reset" /\ mh' = fl.head /\ orig' = Merged
      /\ offs' = fl.off /\ DropSets
      /\ UNCHANGED <<nextIdx, mode, result, edits, fl, flags, arch, temp, fp,
                      hoff, created, stale>>
  BY DEF Commit
<1>2. Shape /\ WaySets /\ Sizes /\ Phase
  BY <1>1, SetsOnTheWay DEF Sound, Shape, Locals, Rewriting, Headed
<1>3. TypeOK'
  <2>1. IsRecordSet(Merged)
    BY <1>2 DEF Shape, Memory, TypeOK, IsRecordSet, Merged, Cur
  <2> QED
    BY <1>1, <1>2, <2>1, NoRecords DEF Shape, Memory, TypeOK, DropSets
<1>4. Memory'
  <2>1. mh'.count = Count(orig') /\ mh'.eof \in Nat /\ IsFiniteSet(DOMAIN orig')
    BY <1>1, <1>2, MergedCount DEF Sizes, Headed, Count
  <2>2. DOMAIN offs' = DOMAIN orig'
    BY <1>1, <1>2 DEF Sizes, NewTodo
  <2> QED
    BY <1>1, <1>2, <1>3, <2>1, <2>2 DEF Shape, Memory, Places
<1>5. Disk'
  BY <1>1, <1>2 DEF Shape, Disk
<1>6. Around'
  BY <1>1, <1>2 DEF Around, Sizes, Phase, WaySets, FlFields, Idle
<1> QED
  BY <1>1, <1>4, <1>5, <1>6 DEF Shape, Locals, Rewriting, Headed

LEMMA EndShape ==
    ASSUME Sound, Reset \/ FailReset
    PROVE  Shape'
<1>1. /\ pc = "reset" /\ pc' = "idle" /\ fl' = NoFlush /\ DropSets
      /\ temp' \in {temp, EmptyFile} /\ created' \in {created, created \/ fl.deleteAll}
      /\ UNCHANGED <<orig, nextIdx, edits, arch, hoff, mh, offs, stale>>
      /\ \/ /\ mode' = mode /\ result' = "flushed" /\ flags' = flags
            /\ fp' = [fp EXCEPT !.tmp = TRUE]
         \/ /\ mode' = "RO" /\ result' = "locked" /\ flags' = flags \cup {"ReadOnly"}
            /\ fp' \in {fp, [fp EXCEPT !.tmp = FALSE]}
  BY DEF Reset, FailReset
<1>2. Shape /\ fp.arch /\ fl.deleteAll \in BOOLEAN
  BY <1>1 DEF Sound, Shape, Around
<1>3. TypeOK'
  BY <1>1, <1>2, NoRecords DEF Shape, Memory, TypeOK, DropSets
<1>4. /\ fp' \in [{"arch", "tmp", "known"} -> BOOLEAN]
      /\ mode' = "RW" => fp'.arch /\ fp'.tmp
  <2>1. fp \in [{"arch", "tmp", "known"} -> BOOLEAN]
    BY <1>2 DEF Shape, Memory
  <2> QED
    BY <1>1, <1>2, <2>1
<1>5. Memory'
  <2>1. flags' \subseteq Flags /\ created' \in BOOLEAN
    BY <1>1, <1>2 DEF Shape, Memory, Flags
  <2> QED
    BY <1>1, <1>2, <1>3, <1>4, <2>1 DEF Shape, Memory, Places
<1>6. Disk'
  BY <1>1, <1>2, FileKinds DEF Shape, Disk
<1> QED
  BY <1>1, <1>4, <1>5, <1>6 DEF Shape, Around, Locals, Rewriting, Headed, Idle

LEMMA AbortShape ==
    ASSUME Sound, pc \in {"old", "new", "wrap", "sync"}, NEW damaged, Abort(damaged),
           damaged = arch \/ \E p : damaged = Put(arch, p, Torn)
    PROVE  Shape'
<1>1. /\ DropSets /\ temp' = EmptyFile /\ pc' = "idle" /\ fl' = NoFlush
      /\ arch' = (IF fl.toTemp THEN damaged ELSE Truncate(damaged, fl.len0))
      /\ flags' = flags \cup {"Aborted"} /\ result' = "aborted"
      /\ stale' \in BOOLEAN
      /\ UNCHANGED <<orig, nextIdx, mode, edits, fp, hoff, mh, offs, created>>
  BY DEF Abort, Sound, Shape, Memory
<1>2. Shape /\ Sizes /\ Phase
  BY DEF Sound, Shape, Locals, Rewriting, Headed
<1>3. TypeOK'
  BY <1>1, <1>2, NoRecords DEF Shape, Memory, TypeOK, DropSets
<1>4. Memory'
  BY <1>1, <1>2, <1>3 DEF Shape, Memory, Places, Flags
<1>5. Cells(damaged) /\ IsFiniteSet(DOMAIN damaged) /\ DOMAIN arch \subseteq DOMAIN damaged
  <2>1. Cells(arch) /\ IsFiniteSet(DOMAIN arch)
    BY <1>2 DEF Shape, Disk
  <2>2. CASE damaged = arch
    BY <2>1, <2>2
  <2>3. ASSUME NEW p, damaged = Put(arch, p, Torn)
        PROVE  Cells(damaged) /\ IsFiniteSet(DOMAIN damaged) /\ DOMAIN arch \subseteq DOMAIN damaged
    <3>1. Torn.kind \in Kinds
      BY CellKinds
    <3>2. /\ Cells(Put(arch, p, Torn)) /\ IsFiniteSet(DOMAIN Put(arch, p, Torn))
          /\ DOMAIN Put(arch, p, Torn) = DOMAIN arch \cup {p}
      BY <2>1, <3>1, PutKinds
    <3> QED
      BY <2>3, <3>2
  <2> QED
    BY <2>2, <2>3
<1>6. Disk'
  <2>1. /\ Cells(Truncate(damaged, fl.len0)) /\ IsFiniteSet(DOMAIN Truncate(damaged, fl.len0))
        /\ DOMAIN Truncate(damaged, fl.len0) = {p \in DOMAIN damaged : p < fl.len0}
    BY <1>5, TruncateKinds
  <2>2. hoff = 1 => 0 \in DOMAIN damaged /\ 0 < fl.len0
    BY <1>2, <1>5 DEF Shape, Disk, Sizes
  <2>3. Cells(arch') /\ IsFiniteSet(DOMAIN arch') /\ (hoff = 1 => 0 \in DOMAIN arch')
    BY <1>1, <1>5, <2>1, <2>2
  <2> QED
    BY <1>1, <1>2, <2>3, FileKinds DEF Shape, Disk, Cells
<1>7. fp.arch /\ fp.tmp
  BY <1>2 DEF Phase
<1> QED
  BY <1>1, <1>4, <1>6, <1>7 DEF Shape, Around, Locals, Rewriting, Headed, Idle

LEMMA LockShape ==
    ASSUME Sound, pc \in Rewriting, NEW reported, Lock(reported), reported \subseteq Flags,
           temp' = temp, arch' = arch \/ \E p : arch' = Put(arch, p, Torn),
           fp' \in [{"arch", "tmp", "known"} -> BOOLEAN]
    PROVE  Shape'
<1>1. /\ mode' = "RO" /\ flags' = flags \cup {"ReadOnly"} \cup reported
      /\ result' = "locked" /\ pc' = "idle" /\ fl' = NoFlush /\ stale' \in BOOLEAN
      /\ UNCHANGED <<orig, copy, copyLoaded, new, nextIdx, edits, hoff, mh, offs, created>>
  BY DEF Lock, Sound, Shape, Memory
<1>2. Shape
  BY DEF Sound
<1>3. TypeOK'
  BY <1>1, <1>2 DEF Shape, Memory, TypeOK
<1>4. Memory'
  BY <1>1, <1>2, <1>3 DEF Shape, Memory, Places, Flags
<1>5. Disk'
  <2>1. CASE arch' = arch
    BY <1>1, <1>2, <2>1 DEF Shape, Disk
  <2>2. ASSUME NEW p, arch' = Put(arch, p, Torn) PROVE Disk'
    BY <1>1, <1>2, <2>2, ArchPut, CellKinds DEF Shape
  <2> QED
    BY <2>1, <2>2
<1> QED
  BY <1>1, <1>4, <1>5 DEF Shape, Around, Locals, Rewriting, Headed, Idle

LEMMA FailureShape ==
    ASSUME Sound, \/ FailOld \/ FailNew \/ FailWrapper \/ FailSync
                  \/ FailDelete \/ FailRename \/ FailReopen
    PROVE  Shape'
<1>1. fp \in [{"arch", "tmp", "known"} -> BOOLEAN]
  BY DEF Sound, Shape, Memory
<1>2. CASE FailOld
  BY <1>1, <1>2, AbortShape, LockShape DEF FailOld, Damage, Rewriting
<1>3. CASE FailNew
  BY <1>1, <1>3, AbortShape, LockShape DEF FailNew, Rewriting
<1>4. CASE FailWrapper \/ FailSync
  BY <1>1, <1>4, AbortShape, LockShape DEF FailWrapper, FailSync, Rewriting, Headed, Flags
<1>5. CASE FailDelete \/ FailRename \/ FailReopen
  <2>1. /\ fp' \in [{"arch", "tmp", "known"} -> BOOLEAN]
        /\ UNCHANGED <<arch, temp>> /\ pc \in Rewriting
    BY <1>1, <1>5 DEF FailDelete, FailRename, FailReopen, Rewriting, Headed
  <2>2. Lock({"Succeeded", "Inaccessible"}) \/ Lock({}) \/ Lock({"Inaccessible"})
    BY <1>5 DEF FailDelete, FailRename, FailReopen
  <2> QED
    BY <2>1, <2>2, LockShape DEF Flags
<1> QED
  BY <1>2, <1>3, <1>4, <1>5

LEMMA DeathShape ==
    ASSUME Sound, Crash \/ \E i : Abend(i)
    PROVE  Shape'
<1>1. /\ Shape /\ InFlush /\ pc' \in {"crashed", "abend"} /\ UNCHANGED <<vars, fl, flags, fileVars>>
  BY DEF Sound, Crash, Abend, InFlush
<1>2. TypeOK'
  BY <1>1 DEF Shape, Memory, TypeOK, vars
<1>3. Memory' /\ Disk'
  BY <1>1, <1>2 DEF Shape, Memory, Disk, Places, vars, fileVars
<1> QED
  BY <1>1, <1>3 DEF Shape, Around, Locals, Rewriting, Headed, InFlush, Idle

LEMMA NothingShape ==
    ASSUME Sound, UNCHANGED allVars
    PROVE  Shape'
<1>1. Shape /\ UNCHANGED <<vars, pc, fl, flags, fileVars>>
  BY DEF Sound, allVars, flushVars
<1>2. TypeOK'
  BY <1>1 DEF Shape, Memory, TypeOK, vars
<1>3. Memory' /\ Disk' /\ Around'
  BY <1>1, <1>2 DEF Shape, Memory, Disk, Around, Idle, vars, fileVars
<1>4. Merged' = Merged /\ NewTodo' = NewTodo
  BY <1>1 DEF Merged, Cur, NewTodo, vars
<1>5. Locals'
  BY <1>1, <1>4 DEF Shape, Locals, Sizes, Phase, vars, fileVars
<1> QED
  BY <1>3, <1>5 DEF Shape

LEMMA SoundKept == Sound /\ [FNext]_allVars => Sound'
<1> SUFFICES ASSUME Sound, [FNext]_allVars PROVE Sound'
  OBVIOUS
<1>1. FlushInv' /\ A!OldBeforeNew'
  BY OrderGoesOn DEF Sound
<1>2. Shape'
  <2>1. CASE EditStep \/ GiveUp \/ BeginNothing \/ Begin \/ Close
    BY <2>1, EditShape, GiveUpShape, BeginNothingShape, BeginShape, CloseShape
  <2>2. CASE Crash
    BY <2>2, DeathShape
  <2>3. CASE UNCHANGED allVars
    BY <2>3, NothingShape
  <2>4. CASE FlushStep
    <3>1. ASSUME NEW i \in DOMAIN Cur, WalkOld(i) PROVE Shape'
      BY <3>1, CopyOldShape, BuildOldShape, UpdateOldShape, DeathShape DEF WalkOld
    <3>2. ASSUME NEW i \in DOMAIN new, WalkNew(i) PROVE Shape'
      BY <3>2, WalkNewShape
    <3>3. CASE OldDone \/ WriteHeader \/ Commit
      BY <3>3, OldDoneShape, WriteHeaderShape, CommitShape
    <3>4. CASE \/ CarryWrapper \/ Sync \/ DeleteArchive \/ CloseTemp
               \/ RenameTemp \/ Reopen
      BY <3>4, SwapShape
    <3>5. CASE Reset \/ FailReset
      BY <3>5, EndShape
    <3>6. CASE \/ FailOld \/ FailNew \/ FailWrapper \/ FailSync
               \/ FailDelete \/ FailRename \/ FailReopen
      BY <3>6, FailureShape
    <3> QED
      BY <2>4, <3>1, <3>2, <3>3, <3>4, <3>5, <3>6 DEF FlushStep
  <2> QED
    BY <2>1, <2>2, <2>3, <2>4 DEF FNext
<1> QED
  BY <1>1, <1>2 DEF Sound

(* What is known of the record sets, the locals of Nu_Flush, the flags and *)
(* the shape of the files holds at every step of every flush, whatever was *)
(* edited, skipped, refused or failed before it (Deferred.c:2122-2534).    *)
THEOREM SoundInvariance == FSpec => []Sound
<1>1. FInit => Sound
  BY InitShape
<1>2. Sound /\ [FNext]_allVars => Sound'
  BY SoundKept
<1> QED
  BY <1>1, <1>2, PTL DEF FSpec

(* The variables of the flush keep their types: each record its own place  *)
(* in offs, nothing but cells in the files, and a flush in progress exactly *)
(* when there are locals of Nu_Flush (Deferred.c:2122-2534).               *)
THEOREM FlushTypes == FSpec => []FlushTypeOK
<1>1. Sound => FlushTypeOK
  <2> SUFFICES ASSUME Sound PROVE FlushTypeOK
    OBVIOUS
  <2>1. Shape
    BY DEF Sound
  <2>2. fl = NoFlush <=> pc \in {"idle", "closed"}
    <3>1. "before" \notin DOMAIN NoFlush
      BY DEF NoFlush
    <3> QED
      BY <2>1, <3>1 DEF Shape, Around
  <2>3. mh.count \in Nat
    BY <2>1, FS_CardinalityType DEF Shape, Memory, Count
  <2> QED
    BY <2>1, <2>2, <2>3 DEF Shape, Memory, Disk, Cells, Kinds, Flags, Places, FlushTypeOK
<1> QED
  BY <1>1, SoundInvariance, PTL

(* The checks every entry point makes of an open archive hold (Entry.c:    *)
(* 68-92): between calls both files are open, and the master header counts *)
(* as many records as there are in orig, however the flushes before ended. *)
THEOREM EntryCorrect == FSpec => []EntryChecks
<1>1. Sound => EntryChecks
  BY DEF Sound, Shape, Memory, Around, Count, EntryChecks
<1> QED
  BY <1>1, SoundInvariance, PTL
=============================================================================
