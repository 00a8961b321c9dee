-------------------------- MODULE NuArchive_proofs --------------------------
(***************************************************************************)
(* What every sequence of edit calls, flushes and aborts keeps true of an  *)
(* archive, for all names, contents, archives and bounds.                  *)
(***************************************************************************)
EXTENDS NuArchive, TLAPS

-----------------------------------------------------------------------------
(* Records and threads *)

(* Carrying out modifications leaves a thread map. *)
LEMMA ThreadsAfterType ==
    ASSUME NEW ts, IsThreadMap(ts), NEW mods \in SUBSET Mod
    PROVE  IsThreadMap(ThreadsAfter(ts, mods))
<1> DEFINE gone  == {m.tidx : m \in {x \in mods : x.kind = "delete"}}
           put   == {m \in mods : m.kind # "delete"}
           final == (DOMAIN ts \ gone) \cup {m.tidx : m \in put}
           val(t) == IF \E m \in put : m.tidx = t
                       THEN LET m == CHOOSE x \in put : x.tidx = t
                            IN  [id |-> m.id, val |-> m.val]
                       ELSE ts[t]
<1>1. ThreadsAfter(ts, mods) = [t \in final |-> val(t)]
  BY DEF ThreadsAfter
<1>2. final \subseteq Nat
  BY DEF IsThreadMap, Mod
<1>3. ASSUME NEW t \in final PROVE val(t) \in Thread
  <2>1. CASE \E m \in put : m.tidx = t
    <3> DEFINE c == CHOOSE x \in put : x.tidx = t
    <3>1. c \in put
      BY <2>1
    <3>2. c \in Mod
      BY <3>1
    <3>3. [id |-> c.id, val |-> c.val] \in Thread
      BY <3>2 DEF Mod, Thread
    <3> QED
      BY <2>1, <3>3
  <2>2. CASE ~ \E m \in put : m.tidx = t
    <3>1. t \in DOMAIN ts
      BY <2>2
    <3> QED
      BY <2>2, <3>1 DEF IsThreadMap
  <2> QED
    BY <2>1, <2>2
<1> HIDE DEF val, final
<1> QED
  BY <1>1, <1>2, <1>3 DEF IsThreadMap

(* A record has a name after a flush. *)
LEMMA NameAfterType ==
    ASSUME NEW r, IsRecord(r), NEW mods \in SUBSET r.mods
    PROVE  NameAfter(r, mods) \in Names \cup {DefaultName}
<1> DEFINE written == {m.val : m \in {x \in mods : /\ x.kind # "delete"
                                                   /\ x.id = "filename"}}
<1>1. written \subseteq Names \cup {DefaultName}
  BY DEF IsRecord
<1>2. CASE written # {}
  <2>1. (CHOOSE n \in written : TRUE) \in written
    BY <1>2
  <2> QED
    BY <1>1, <1>2, <2>1 DEF NameAfter
<1>3. CASE written = {}
  BY <1>3 DEF NameAfter, HeaderName, IsRecord
<1> QED
  BY <1>2, <1>3

LEMMA AppliedType ==
    ASSUME NEW r, IsRecord(r), NEW mods \in SUBSET r.mods
    PROVE  IsRecord(Applied(r, mods))
<1>1. NameAfter(r, mods) \in Names \cup {DefaultName}
  BY NameAfterType
<1>2. IsThreadMap(ThreadsAfter(r.threads, mods))
  BY ThreadsAfterType DEF IsRecord
<1> QED
  BY <1>1, <1>2 DEF Applied, IsRecord

LEMMA AddModType ==
    ASSUME NEW r, IsRecord(r), NEW m \in Mod,
           m.id = "filename" /\ m.kind # "delete" =>
              m.val \in Names \cup {DefaultName}
    PROVE  IsRecord(AddMod(r, m))
BY DEF AddMod, IsRecord

LEMMA NewRecordType ==
    ASSUME NEW n \in Names
    PROVE  IsRecord(NewRecord(n, NewAttr))
BY ArchiveAssumption DEF NewRecord, IsRecord, IsThreadMap, EmptyMap

(* A new record is complete once it is written. *)
LEMMA ConstructedType ==
    ASSUME NEW r, IsRecord(r), NEW i \in Nat
    PROVE  IsRecord(Constructed(r, i)) /\ Constructed(r, i).mods = {}
                                       /\ ~Constructed(r, i).dirty
<1> DEFINE m == NewMod("add", i, "filename", r.name, "buffer")
           w == WithFilename(r, i)
<1>1. r.name \in Names \cup {DefaultName}
  BY DEF IsRecord
<1>2. m \in Mod
  BY <1>1, RecordAssumption DEF NewMod, Mod, Contents
<1>3. IsRecord(AddMod(r, m))
  BY <1>1, <1>2, AddModType DEF NewMod
<1>4. IsRecord(w)
  BY <1>3 DEF WithFilename
<1>5. IsRecord(Applied(w, w.mods))
  BY <1>4, AppliedType
<1> QED
  BY <1>5 DEF Constructed, Applied

-----------------------------------------------------------------------------
(* The inductive invariant *)

(* Nothing is pending on a record of orig. *)
OrigClean == \A i \in DOMAIN orig : orig[i].mods = {} /\ ~orig[i].dirty

(* Record indices are handed out once. *)
RecordIndices ==
    /\ DOMAIN new \cap DOMAIN orig = {}
    /\ \A i \in DOMAIN new \cup DOMAIN orig : i < nextIdx

Inv == TypeOK /\ CopyOfOrig /\ OrigClean /\ RecordIndices

(* The set edits are made on is orig with changes pending. *)
LEMMA CurDerived ==
    ASSUME Inv
    PROVE  /\ IsRecordSet(Cur)
           /\ DOMAIN Cur \subseteq DOMAIN orig
           /\ \A i \in DOMAIN Cur : Derived(Cur[i], orig[i])
BY DEF Inv, TypeOK, CopyOfOrig, Cur, Derived

(* What an edit call has to keep up for Inv. *)
LEMMA EditKeeps ==
    ASSUME Inv, NEW used \in Nat, Edit(used),
           IsRecordSet(copy'), copyLoaded' \in BOOLEAN,
           copyLoaded' => DOMAIN copy' \subseteq DOMAIN orig,
           ~copyLoaded' => DOMAIN copy' = {},
           \A i \in DOMAIN copy' : Derived(copy'[i], orig[i]),
           IsRecordSet(new'),
           \A i \in DOMAIN new' : i \in DOMAIN new \/ (used > 0 /\ i = nextIdx)
    PROVE  Inv'
<1>1. /\ orig' = orig /\ mode' = mode /\ result' = "edited"
      /\ edits' = edits + 1 /\ nextIdx' = nextIdx + used
  BY DEF Edit
<1>2. TypeOK'
  BY <1>1 DEF Inv, TypeOK
<1>3. CopyOfOrig'
  BY <1>1 DEF CopyOfOrig
<1>4. OrigClean'
  BY <1>1 DEF Inv, OrigClean
<1>5. RecordIndices'
  BY <1>1 DEF Inv, TypeOK, RecordIndices, IsRecordSet
<1> QED
  BY <1>2, <1>3, <1>4, <1>5 DEF Inv

(* An edit of existing records that leaves a derived set behind *)
LEMMA SetCopyKeeps ==
    ASSUME Inv, NEW used \in Nat, Edit(used), UNCHANGED new,
           NEW S, SetCopy(S), IsRecordSet(S), DOMAIN S \subseteq DOMAIN orig,
           \A i \in DOMAIN S : Derived(S[i], orig[i])
    PROVE  Inv'
<1>1. copyLoaded' = TRUE /\ copy' = S
  BY DEF SetCopy
<1>2. IsRecordSet(new)
  BY DEF Inv, TypeOK
<1> QED
  BY <1>1, <1>2, EditKeeps

(* ... in particular the clone itself, *)
LEMMA CloneKeeps ==
    ASSUME Inv, NEW used \in Nat, Edit(used), UNCHANGED new, SetCopy(Cur)
    PROVE  Inv'
BY CurDerived, SetCopyKeeps

(* ... less some records, *)
LEMMA WithoutType ==
    ASSUME NEW S, IsRecordSet(S), NEW I
    PROVE  /\ IsRecordSet(Without(S, I))
           /\ DOMAIN Without(S, I) \subseteq DOMAIN S
           /\ \A i \in DOMAIN Without(S, I) : Without(S, I)[i] = S[i]
BY DEF Without, Restrict, IsRecordSet

LEMMA WithoutKeeps ==
    ASSUME Inv, NEW used \in Nat, Edit(used), UNCHANGED new,
           NEW I, SetCopy(Without(Cur, I))
    PROVE  Inv'
<1>1. /\ IsRecordSet(Without(Cur, I))
      /\ DOMAIN Without(Cur, I) \subseteq DOMAIN Cur
      /\ \A i \in DOMAIN Without(Cur, I) : Without(Cur, I)[i] = Cur[i]
  BY CurDerived, WithoutType
<1> QED
  BY <1>1, CurDerived, SetCopyKeeps

(* ... or with one record changed. *)
LEMMA ExceptKeeps ==
    ASSUME Inv, NEW used \in Nat, Edit(used), UNCHANGED new,
           NEW i \in DOMAIN Cur, NEW r, IsRecord(r), Derived(r, orig[i]),
           SetCopy([Cur EXCEPT ![i] = r])
    PROVE  Inv'
<1>1. IsRecordSet([Cur EXCEPT ![i] = r])
  BY CurDerived DEF IsRecordSet
<1>2. \A j \in DOMAIN [Cur EXCEPT ![i] = r] :
         Derived([Cur EXCEPT ![i] = r][j], orig[j])
  BY CurDerived DEF IsRecordSet
<1> QED
  BY <1>1, <1>2, CurDerived, SetCopyKeeps

LEMMA NewModType ==
    ASSUME NEW kind \in {"add", "update", "delete"}, NEW t \in Nat,
           NEW id \in ThreadIDs, NEW v \in Contents, NEW src \in {"file", "buffer"},
           id = "filename" /\ kind # "delete" => v \in Names \cup {DefaultName},
           NEW r, IsRecord(r)
    PROVE  IsRecord(AddMod(r, NewMod(kind, t, id, v, src)))
<1>1. NewMod(kind, t, id, v, src) \in Mod
  BY DEF NewMod, Mod
<1> QED
  BY <1>1, AddModType DEF NewMod

LEMMA AddModDerived ==
    ASSUME NEW r, IsRecord(r), NEW o, Derived(r, o), NEW m
    PROVE  Derived(AddMod(r, m), o)
BY DEF AddMod, Derived, IsRecord

LEMMA ThreadAddedType ==
    ASSUME Inv, NEW r, IsRecord(r), NEW id \in ThreadIDs, NEW v \in Contents,
           id = "filename" => v \in Names, NEW src \in Sources
    PROVE  /\ IsRecord(ThreadAdded(r, id, v, src))
           /\ \A o : Derived(r, o) => Derived(ThreadAdded(r, id, v, src), o)
<1> DEFINE a == AddMod(r, NewMod("add", nextIdx, id, v, src))
<1>1. src \in {"file", "buffer"} /\ nextIdx \in Nat
  BY ArchiveAssumption DEF Inv, TypeOK
<1>2. IsRecord(a)
  BY <1>1, NewModType
<1>3. a.mods # {} /\ \A o : Derived(r, o) => Derived(a, o)
  BY AddModDerived DEF AddMod, IsRecord
<1> HIDE DEF a
<1>4. IsRecord([a EXCEPT !.drop = @ \/ (id = "filename" /\ r.hname # NoName)])
  BY <1>2 DEF IsRecord
<1>5. \A o : Derived(a, o) =>
         Derived([a EXCEPT !.drop = @ \/ (id = "filename" /\ r.hname # NoName)], o)
  BY <1>2, <1>3 DEF IsRecord, Derived
<1> QED
  BY <1>3, <1>4, <1>5 DEF ThreadAdded, a

-----------------------------------------------------------------------------
(* Edit calls keep the invariant *)

LEMMA AddRecordThenKeeps ==
    ASSUME Inv, NEW r, IsRecord(r), NEW dups, NEW used \in Nat \ {0},
           AddRecordThen(r, dups, used)
    PROVE  Inv'
<1>1. /\ IsRecordSet(new) /\ IsRecordSet(copy) /\ copyLoaded \in BOOLEAN
      /\ nextIdx \in Nat
  BY DEF Inv, TypeOK
<1>2. /\ IsRecordSet(With(new, nextIdx, r))
      /\ \A i \in DOMAIN With(new, nextIdx, r) : i \in DOMAIN new \/ i = nextIdx
  BY <1>1 DEF With, IsRecordSet
<1>3. CASE new' = With(new, nextIdx, r) /\ Edit(used) /\ UNCHANGED <<copy, copyLoaded>>
  BY <1>1, <1>2, <1>3, EditKeeps DEF Inv, CopyOfOrig
<1>4. ASSUME NEW i, SetCopy(Without(Cur, {i})),
             \/ new' = With(new, nextIdx, r) /\ Edit(used)
             \/ UNCHANGED new /\ Edit(0)
      PROVE  Inv'
  <2> DEFINE W == Without(Cur, {i})
  <2>1. /\ IsRecordSet(W)
        /\ DOMAIN W \subseteq DOMAIN orig
        /\ \A j \in DOMAIN W : Derived(W[j], orig[j])
    BY CurDerived, WithoutType
  <2>2. copy' = W /\ copyLoaded' = TRUE
    BY <1>4 DEF SetCopy
  <2> HIDE DEF W
  <2>3. CASE new' = With(new, nextIdx, r) /\ Edit(used)
    BY <1>2, <2>1, <2>2, <2>3, EditKeeps
  <2>4. CASE UNCHANGED new /\ Edit(0)
    BY <1>1, <2>1, <2>2, <2>4, EditKeeps
  <2> QED
    BY <1>4, <2>3, <2>4
<1> QED
  BY <1>3, <1>4 DEF AddRecordThen, HandleAddDuplicateRecord

LEMMA AddFileKeeps ==
    ASSUME Inv, NEW n \in Names, NEW id \in ThreadIDs \ {"filename"},
           NEW v \in Data, NEW dups, AddFile(n, id, v, dups)
    PROVE  Inv'
<1>1. /\ IsRecordSet(new) /\ IsRecordSet(copy) /\ copyLoaded \in BOOLEAN
      /\ nextIdx \in Nat /\ v \in Contents
  BY DEF Inv, TypeOK, Contents
<1>2. ASSUME NEW i \in Named(new, n),
             new' = [new EXCEPT ![i] = AddMod(@, NewMod("add", nextIdx, id, v, "file"))],
             Edit(1), UNCHANGED <<copy, copyLoaded>>
      PROVE  Inv'
  <2>1. i \in DOMAIN new /\ IsRecord(new[i])
    BY <1>1 DEF Named, IsRecordSet
  <2>2. IsRecord(AddMod(new[i], NewMod("add", nextIdx, id, v, "file")))
    BY <1>1, <2>1, NewModType
  <2>3. IsRecordSet(new') /\ DOMAIN new' = DOMAIN new
    BY <1>1, <1>2, <2>1, <2>2 DEF IsRecordSet
  <2> QED
    BY <1>1, <1>2, <2>3, EditKeeps DEF Inv, CopyOfOrig
<1>3. ASSUME AddRecordThen(AddMod(NewRecord(n, NewAttr),
                                  NewMod("add", nextIdx + 1, id, v, "file")), dups, 2)
      PROVE  Inv'
  <2>1. IsRecord(AddMod(NewRecord(n, NewAttr),
                        NewMod("add", nextIdx + 1, id, v, "file")))
    BY <1>1, NewRecordType, NewModType
  <2> QED
    BY <1>3, <2>1, AddRecordThenKeeps
<1> QED
  BY <1>2, <1>3 DEF AddFile

LEMMA AddThreadKeeps ==
    ASSUME Inv, NEW i, NEW id \in ThreadIDs, NEW v \in Names \cup Data,
           id = "filename" <=> v \in Names, NEW src \in Sources,
           AddThread(i, id, v, src)
    PROVE  Inv'
<1>1. /\ IsRecordSet(new) /\ IsRecordSet(copy) /\ copyLoaded \in BOOLEAN
      /\ nextIdx \in Nat /\ v \in Contents
  BY DEF Inv, TypeOK, Contents
<1>2. ASSUME i \in DOMAIN Cur, Edit(1), UNCHANGED new,
             SetCopy([Cur EXCEPT ![i] = ThreadAdded(@, id, v, src)])
      PROVE  Inv'
  <2>1. IsRecord(Cur[i]) /\ Derived(Cur[i], orig[i])
    BY <1>2, CurDerived DEF IsRecordSet
  <2>2. /\ IsRecord(ThreadAdded(Cur[i], id, v, src))
        /\ Derived(ThreadAdded(Cur[i], id, v, src), orig[i])
    BY <1>1, <2>1, ThreadAddedType
  <2> QED
    BY <1>2, <2>2, ExceptKeeps
<1>3. ASSUME Edit(0), UNCHANGED new, SetCopy(Cur) PROVE Inv'
  BY <1>3, CloneKeeps
<1>4. ASSUME i \in DOMAIN new, Edit(1), UNCHANGED <<copy, copyLoaded>>,
             new' = [new EXCEPT ![i] = ThreadAdded(@, id, v, src)]
      PROVE  Inv'
  <2>1. IsRecord(ThreadAdded(new[i], id, v, src))
    BY <1>1, <1>4, ThreadAddedType DEF IsRecordSet
  <2>2. IsRecordSet(new') /\ DOMAIN new' = DOMAIN new
    BY <1>1, <1>4, <2>1 DEF IsRecordSet
  <2> QED
    BY <1>1, <1>4, <2>2, EditKeeps DEF Inv, CopyOfOrig
<1> QED
  BY <1>2, <1>3, <1>4 DEF AddThread

LEMMA UpdatePresizedThreadKeeps ==
    ASSUME Inv, NEW i, NEW t, NEW v \in Names \cup Data, NEW src \in Sources,
           i \in DOMAIN Cur /\ t \in DOMAIN Cur[i].threads =>
              (Cur[i].threads[t].id = "filename" <=> v \in Names),
           UpdatePresizedThread(i, t, v, src)
    PROVE  Inv'
<1> DEFINE id == Cur[i].threads[t].id
           m  == NewMod("update", t, id, v, src)
<1>1. i \in DOMAIN Cur /\ t \in DOMAIN Cur[i].threads /\ Edit(0) /\ UNCHANGED new
  BY DEF UpdatePresizedThread
<1>2. IsRecord(Cur[i]) /\ Derived(Cur[i], orig[i])
  BY <1>1, CurDerived DEF IsRecordSet
<1>3. t \in Nat /\ id \in ThreadIDs
  BY <1>1, <1>2 DEF IsRecord, IsThreadMap, Thread
<1>4. src \in {"file", "buffer"} /\ v \in Contents
  BY ArchiveAssumption DEF Contents
<1>5. IsRecord(AddMod(Cur[i], m))
  BY <1>1, <1>2, <1>3, <1>4, NewModType
<1>6. Derived(AddMod(Cur[i], m), orig[i])
  BY <1>2, AddModDerived
<1>7. SetCopy([Cur EXCEPT ![i] = AddMod(@, m)]) \/ SetCopy(Cur)
  BY DEF UpdatePresizedThread
<1> HIDE DEF id, m
<1> QED
  BY <1>1, <1>5, <1>6, <1>7, ExceptKeeps, CloneKeeps

LEMMA DeleteThreadKeeps ==
    ASSUME Inv, NEW i, NEW t, DeleteThread(i, t)
    PROVE  Inv'
<1> DEFINE m == NewMod("delete", t, Cur[i].threads[t].id, NoData, "buffer")
<1>1. i \in DOMAIN Cur /\ t \in DOMAIN Cur[i].threads /\ Edit(0) /\ UNCHANGED new
  BY DEF DeleteThread
<1>2. IsRecord(Cur[i]) /\ Derived(Cur[i], orig[i])
  BY <1>1, CurDerived DEF IsRecordSet
<1>3. t \in Nat /\ Cur[i].threads[t].id \in ThreadIDs /\ NoData \in Contents
  BY <1>1, <1>2 DEF IsRecord, IsThreadMap, Thread, Contents
<1>4. IsRecord(AddMod(Cur[i], m))
  BY <1>2, <1>3, NewModType
<1>5. Derived(AddMod(Cur[i], m), orig[i])
  BY <1>2, AddModDerived
<1>6. SetCopy([Cur EXCEPT ![i] = AddMod(@, m)]) \/ SetCopy(Cur)
  BY DEF DeleteThread
<1> HIDE DEF m
<1> QED
  BY <1>1, <1>4, <1>5, <1>6, ExceptKeeps, CloneKeeps

LEMMA DeleteRecordKeeps ==
    ASSUME Inv, NEW i, DeleteRecord(i)
    PROVE  Inv'
BY WithoutKeeps, CloneKeeps DEF DeleteRecord

LEMMA DeleteKeeps ==
    ASSUME Inv, NEW chosen, Delete(chosen)
    PROVE  Inv'
BY WithoutKeeps DEF Delete

LEMMA RenameKeeps ==
    ASSUME Inv, NEW i, NEW n \in Names, NEW fits, Rename(i, n, fits)
    PROVE  Inv'
<1> DEFINE r      == Cur[i]
           add    == NewMod("add", nextIdx, "filename", n, "buffer")
           upd(t) == NewMod("update", t, "filename", n, "buffer")
           del(t) == NewMod("delete", t, "filename", NoData, "buffer")
<1>1. i \in DOMAIN Cur /\ UNCHANGED new
  BY DEF Rename
<1>2. IsRecord(r) /\ Derived(r, orig[i])
  BY <1>1, CurDerived DEF IsRecordSet
<1>3. /\ nextIdx \in Nat /\ n \in Contents /\ NoData \in Contents
      /\ "filename" \in ThreadIDs
  BY RecordAssumption DEF Inv, TypeOK, Contents
<1>4. \A t \in FilenameThreads(r.threads) : t \in Nat
  BY <1>2 DEF FilenameThreads, IsRecord, IsThreadMap
<1>5. ASSUME NEW t \in FilenameThreads(r.threads), Edit(0),
             SetCopy([Cur EXCEPT ![i] = AddMod(@, upd(t))])
      PROVE  Inv'
  <2>1. IsRecord(AddMod(r, upd(t))) /\ Derived(AddMod(r, upd(t)), orig[i])
    BY <1>2, <1>3, <1>4, NewModType, AddModDerived
  <2> QED
    BY <1>1, <1>5, <2>1, ExceptKeeps
<1>6. ASSUME NEW t \in FilenameThreads(r.threads), Edit(1),
             SetCopy([Cur EXCEPT ![i] = AddMod(AddMod(@, del(t)), add)])
      PROVE  Inv'
  <2>1. IsRecord(AddMod(r, del(t))) /\ Derived(AddMod(r, del(t)), orig[i])
    BY <1>2, <1>3, <1>4, NewModType, AddModDerived
  <2>2. /\ IsRecord(AddMod(AddMod(r, del(t)), add))
        /\ Derived(AddMod(AddMod(r, del(t)), add), orig[i])
    BY <1>3, <2>1, NewModType, AddModDerived
  <2> QED
    BY <1>1, <1>6, <2>2, ExceptKeeps
<1>7. ASSUME Edit(1),
             SetCopy([Cur EXCEPT ![i] = [AddMod(r, add) EXCEPT !.drop = TRUE]])
      PROVE  Inv'
  <2> DEFINE a == AddMod(r, add)
  <2>1. IsRecord(a) /\ Derived(a, orig[i]) /\ a.mods # {}
    <3>1. IsRecord(a)
      BY <1>2, <1>3, NewModType
    <3>2. Derived(a, orig[i])
      BY <1>2, AddModDerived
    <3>3. a.mods # {}
      BY <1>2 DEF AddMod, IsRecord
    <3> QED BY <3>1, <3>2, <3>3
  <2> HIDE DEF a
  <2>2. IsRecord([a EXCEPT !.drop = TRUE]) /\ Derived([a EXCEPT !.drop = TRUE], orig[i])
    BY <2>1 DEF IsRecord, Derived
  <2> QED
    BY <1>1, <1>7, <2>2, ExceptKeeps DEF a
<1>8. ASSUME Edit(0), SetCopy(Cur) PROVE Inv'
  BY <1>1, <1>8, CloneKeeps
<1> QED
  BY <1>1, <1>5, <1>6, <1>7, <1>8 DEF Rename, IsFirst

LEMMA SetRecordAttrKeeps ==
    ASSUME Inv, NEW i, NEW a \in Attrs, SetRecordAttr(i, a)
    PROVE  Inv'
<1> DEFINE r == [Cur[i] EXCEPT !.attr = a, !.dirty = TRUE]
<1>1. i \in DOMAIN Cur /\ Edit(0) /\ UNCHANGED new /\ SetCopy([Cur EXCEPT ![i] = r])
  BY DEF SetRecordAttr
<1>2. IsRecord(Cur[i]) /\ Derived(Cur[i], orig[i])
  BY <1>1, CurDerived DEF IsRecordSet
<1>3. IsRecord(r) /\ Derived(r, orig[i])
  BY <1>2 DEF IsRecord, Derived
<1> HIDE DEF r
<1> QED
  BY <1>1, <1>3, ExceptKeeps

LEMMA EditCallKeeps ==
    ASSUME Inv, EditCall
    PROVE  Inv'
<1>1. ASSUME NEW n \in Names, NEW dups \in DupModes, AddRecord(n, dups) PROVE Inv'
  BY <1>1, NewRecordType, AddRecordThenKeeps DEF AddRecord
<1>2. ASSUME NEW i \in DOMAIN Cur, NEW v \in Names \cup Data, NEW src \in Sources,
             NEW t \in DOMAIN Cur[i].threads,
             Cur[i].threads[t].id = "filename" <=> v \in Names,
             UpdatePresizedThread(i, t, v, src)
      PROVE  Inv'
  BY <1>2, UpdatePresizedThreadKeeps
<1>3. ASSUME NEW i, NEW id \in ThreadIDs, NEW v \in Contents, NEW src \in Sources,
             id = "filename" <=> v \in Names, v \in Names \cup Data,
             AddThread(i, id, v, src)
      PROVE  Inv'
  BY <1>3, AddThreadKeeps
<1> QED
  BY <1>1, <1>2, <1>3, AddFileKeeps, DeleteThreadKeeps, DeleteRecordKeeps,
     DeleteKeeps, RenameKeeps, SetRecordAttrKeeps DEF EditCall

-----------------------------------------------------------------------------
(* Flushes keep the invariant *)

(* What a flush has left to do once the empty records are purged *)
LEMMA OldRecordsDerived ==
    ASSUME Inv
    PROVE  /\ IsRecordSet(OldRecords)
           /\ DOMAIN OldRecords \subseteq DOMAIN orig
           /\ \A i \in DOMAIN OldRecords : Derived(OldRecords[i], orig[i])
<1>1. CASE Touched
  <2>1. OldRecords = Purged(copy) /\ copyLoaded
    BY <1>1 DEF OldRecords, Touched
  <2>2. /\ IsRecordSet(Purged(copy))
        /\ DOMAIN Purged(copy) \subseteq DOMAIN copy
        /\ \A i \in DOMAIN Purged(copy) : Purged(copy)[i] = copy[i]
    BY DEF Purged, Restrict, Inv, TypeOK, IsRecordSet
  <2> QED
    BY <2>1, <2>2 DEF Inv, CopyOfOrig
<1>2. CASE ~Touched
  BY <1>2 DEF OldRecords, Inv, TypeOK, Derived
<1> QED
  BY <1>1, <1>2

LEMMA NewRecordsType ==
    ASSUME Inv
    PROVE  IsRecordSet(NewRecords) /\ DOMAIN NewRecords \subseteq DOMAIN new
BY DEF NewRecords, Purged, Restrict, Inv, TypeOK, IsRecordSet

LEMMA CommentAddedType ==
    ASSUME NEW S, IsRecordSet(S), nextIdx \in Nat
    PROVE  IsRecordSet(CommentAdded(S)) /\ DOMAIN CommentAdded(S) = DOMAIN S
<1> DEFINE m == NewMod("add", nextIdx, "comment", NoData, "buffer")
<1>1. "comment" \in ThreadIDs /\ NoData \in Contents
  BY RecordAssumption DEF Contents
<1>2. \A i \in DOMAIN S : IsRecord(S[i]) /\ IsRecord(AddMod(S[i], m))
  BY <1>1, NewModType DEF IsRecordSet
<1> HIDE DEF m
<1>3. CommentAdded(S) =
         [i \in DOMAIN S |->
             IF IsFirst(i, DOMAIN S) /\ \A x \in S[i].mods : x.id # "comment"
               THEN AddMod(S[i], m) ELSE S[i]]
  BY DEF CommentAdded, m
<1> QED
  BY <1>2, <1>3 DEF IsRecordSet

(* An existing record after a flush has nothing pending, and is as it was  *)
(* unless it was modified.                                                 *)
LEMMA OldAfterType ==
    ASSUME Inv, NEW i \in DOMAIN OldRecords, NEW inPlace, NEW skip
    PROVE  /\ IsRecord(OldAfter(i, inPlace, skip))
           /\ OldAfter(i, inPlace, skip).mods = {}
           /\ ~OldAfter(i, inPlace, skip).dirty
<1> DEFINE r == OldRecords[i]
<1>1. IsRecord(r) /\ i \in DOMAIN orig
  BY OldRecordsDerived DEF IsRecordSet
<1>2. IsRecord(orig[i]) /\ orig[i].mods = {} /\ ~orig[i].dirty
  BY <1>1 DEF Inv, TypeOK, IsRecordSet, OrigClean
<1>3. \A mods \in SUBSET r.mods : /\ IsRecord(Applied(r, mods))
                                  /\ Applied(r, mods).mods = {}
                                  /\ ~Applied(r, mods).dirty
  BY <1>1, AppliedType DEF Applied
<1>4. r.mods \ skip \in SUBSET r.mods /\ r.mods \in SUBSET r.mods
  OBVIOUS
<1>5. ~Modified(r) => r.mods = {} /\ ~r.dirty
  BY DEF Modified
<1>6. OldAfter(i, inPlace, skip) \in {orig[i], Applied(r, r.mods),
                                      Applied(r, r.mods \ skip)}
        \/ (~Modified(r) /\ OldAfter(i, inPlace, skip) = r)
  BY DEF OldAfter
<1> HIDE DEF r
<1> QED
  BY <1>1, <1>2, <1>3, <1>4, <1>5, <1>6

(* ... and so has all of the archive. *)
LEMMA OutcomeType ==
    ASSUME Inv, NEW inPlace, NEW fresh, IsRecordSet(fresh),
           DOMAIN fresh \subseteq DOMAIN new, NEW skip
    PROVE  /\ IsRecordSet(Outcome(inPlace, fresh, skip))
           /\ \A i \in DOMAIN Outcome(inPlace, fresh, skip) :
                 /\ Outcome(inPlace, fresh, skip)[i].mods = {}
                 /\ ~Outcome(inPlace, fresh, skip)[i].dirty
           /\ DOMAIN Outcome(inPlace, fresh, skip) \subseteq DOMAIN orig \cup DOMAIN new
<1> DEFINE added == {i \in DOMAIN fresh : fresh[i].mods \cap skip = {}}
           O     == Outcome(inPlace, fresh, skip)
<1>1. ASSUME NEW i \in added
      PROVE  /\ IsRecord(Constructed(fresh[i], i)) /\ i \in Nat
             /\ Constructed(fresh[i], i).mods = {} /\ ~Constructed(fresh[i], i).dirty
  BY ConstructedType DEF IsRecordSet
<1>2. ASSUME NEW i \in DOMAIN OldRecords
      PROVE  /\ IsRecord(OldAfter(i, inPlace, skip)) /\ i \in Nat
             /\ OldAfter(i, inPlace, skip).mods = {} /\ ~OldAfter(i, inPlace, skip).dirty
  BY OldAfterType, OldRecordsDerived DEF IsRecordSet
<1>3. DOMAIN OldRecords \subseteq DOMAIN orig /\ added \subseteq DOMAIN new
  BY OldRecordsDerived
<1>4. O = [i \in DOMAIN OldRecords \cup added |->
             IF i \in added THEN Constructed(fresh[i], i)
             ELSE OldAfter(i, inPlace, skip)]
  BY DEF Outcome
<1> HIDE DEF added, O
<1>5. DOMAIN O = DOMAIN OldRecords \cup added
  BY <1>4
<1>6. ASSUME NEW i \in DOMAIN O
      PROVE  /\ IsRecord(O[i]) /\ i \in Nat
             /\ O[i].mods = {} /\ ~O[i].dirty
  <2>1. O[i] = IF i \in added THEN Constructed(fresh[i], i)
               ELSE OldAfter(i, inPlace, skip)
    BY <1>4, <1>5
  <2>2. CASE i \in added
    BY <1>1, <2>1, <2>2
  <2>3. CASE i \notin added
    BY <1>2, <1>5, <2>1, <2>3
  <2> QED
    BY <2>2, <2>3
<1>7. IsRecordSet(O)
  BY <1>4, <1>6 DEF IsRecordSet
<1> QED
  BY <1>3, <1>5, <1>6, <1>7 DEF O

LEMMA FreshType ==
    ASSUME Inv, NEW mimic
    PROVE  IsRecordSet(Fresh(mimic)) /\ DOMAIN Fresh(mimic) \subseteq DOMAIN new
BY NewRecordsType, CommentAddedType DEF Fresh, Inv, TypeOK

LEMMA CarriedType ==
    ASSUME Inv, Carried
    PROVE  /\ IsRecordSet(orig')
           /\ \A i \in DOMAIN orig' : orig'[i].mods = {} /\ ~orig'[i].dirty
           /\ DOMAIN orig' \subseteq DOMAIN orig \cup DOMAIN new
           /\ nextIdx' \in Nat /\ nextIdx <= nextIdx'
<1>1. PICK inPlace, mimic, skip :
         /\ nextIdx' = IF Fresh(mimic) = NewRecords THEN nextIdx ELSE nextIdx + 1
         /\ orig' = Outcome(inPlace, Fresh(mimic), skip)
  BY DEF Carried
<1>2. nextIdx' \in Nat /\ nextIdx <= nextIdx'
  BY <1>1 DEF Inv, TypeOK
<1> QED
  BY <1>1, <1>2, FreshType, OutcomeType

(* What any end of a flush has to keep up for Inv *)
LEMMA ForgetKeeps ==
    ASSUME Inv, Forget, mode' \in {"RW", "RO"},
           result' \in {"flushed", "aborted", "locked"},
           UNCHANGED orig \/ Carried
    PROVE  Inv'
<1>1. /\ copy' = EmptyMap /\ copyLoaded' = FALSE /\ new' = EmptyMap
      /\ edits' = edits /\ nextIdx' \in {nextIdx, nextIdx + 1}
  BY DEF Forget
<1>2. IsRecordSet(EmptyMap) /\ DOMAIN EmptyMap = {}
  BY DEF IsRecordSet, EmptyMap
<1>3. nextIdx \in Nat /\ \A i \in DOMAIN new \cup DOMAIN orig : i \in Nat /\ i < nextIdx
  BY DEF Inv, TypeOK, RecordIndices, IsRecordSet
<1>4. /\ IsRecordSet(orig')
      /\ \A i \in DOMAIN orig' : orig'[i].mods = {} /\ ~orig'[i].dirty
      /\ DOMAIN orig' \subseteq DOMAIN orig \cup DOMAIN new
      /\ nextIdx' \in Nat /\ nextIdx <= nextIdx'
  <2>1. CASE UNCHANGED orig
    BY <1>1, <1>3, <2>1 DEF Inv, TypeOK, OrigClean
  <2>2. CASE Carried
    BY <2>2, CarriedType
  <2> QED
    BY <2>1, <2>2
<1>5. TypeOK'
  BY <1>1, <1>2, <1>4 DEF Inv, TypeOK
<1>6. CopyOfOrig'
  BY <1>1, <1>2 DEF CopyOfOrig
<1>7. OrigClean'
  BY <1>4 DEF OrigClean
<1>8. RecordIndices'
  BY <1>1, <1>2, <1>3, <1>4 DEF RecordIndices
<1> QED
  BY <1>5, <1>6, <1>7, <1>8 DEF Inv

LEMMA NextKeeps ==
    ASSUME Inv, [Next]_vars
    PROVE  Inv'
<1>1. CASE EditCall
  BY <1>1, EditCallKeeps
<1>2. CASE FlushNothing
  BY <1>2, ForgetKeeps DEF FlushNothing
<1>3. CASE FlushCommit
  BY <1>3, ForgetKeeps DEF FlushCommit
<1>4. CASE FlushAbort
  BY <1>4, ForgetKeeps DEF FlushAbort
<1>5. CASE FlushLock
  BY <1>5, ForgetKeeps DEF FlushLock
<1>6. CASE UNCHANGED vars
  BY <1>6 DEF vars, Inv, TypeOK, CopyOfOrig, OrigClean, RecordIndices
<1> QED
  BY <1>1, <1>2, <1>3, <1>4, <1>5, <1>6 DEF Next

LEMMA InitInv == Init => Inv
<1> SUFFICES ASSUME Init PROVE Inv
  OBVIOUS
<1>1. IsRecordSet(EmptyMap) /\ DOMAIN EmptyMap = {}
  BY DEF IsRecordSet, EmptyMap
<1>2. IsRecordSet(orig) /\ FirstIdx \in Nat
  BY ArchiveAssumption DEF Init
<1>3. TypeOK
  BY <1>1, <1>2 DEF Init, TypeOK
<1>4. CopyOfOrig
  BY <1>1 DEF Init, CopyOfOrig
<1>5. OrigClean /\ RecordIndices
  BY <1>1, ArchiveAssumption DEF Init, OrigClean, RecordIndices
<1> QED
  BY <1>3, <1>4, <1>5 DEF Inv

(* The inductive invariant holds throughout: of it the theorems below say  *)
(* what matters.                                                           *)
THEOREM Invariance == Spec => []Inv
<1>1. Inv /\ [Next]_vars => Inv'
  BY NextKeeps
<1> QED
  BY InitInv, <1>1, PTL DEF Spec

(* The record sets stay well-formed whatever calls are made (Record.c,     *)
(* Thread.c) and however flushes end (Deferred.c): a record always has a   *)
(* name, and only known threads and modifications.                         *)
THEOREM TypeCorrect == Spec => []TypeOK
<1>1. Inv => TypeOK
  BY DEF Inv
<1> QED
  BY Invariance, <1>1, PTL

(* The copy set is always orig less the deleted records, its pending       *)
(* changes all in mods, drop and dirty, where Nu_Flush looks for them.     *)
THEOREM CopyCorrect == Spec => []CopyOfOrig
<1>1. Inv => CopyOfOrig
  BY DEF Inv
<1> QED
  BY Invariance, <1>1, PTL

-----------------------------------------------------------------------------
(* Flushes change what was to be changed and nothing else *)

LEMMA EditCallKeepsOrig ==
    ASSUME EditCall
    PROVE  orig' = orig
<1>1. ASSUME NEW used, Edit(used) PROVE orig' = orig
  BY <1>1 DEF Edit
<1>2. ASSUME NEW r, NEW dups, NEW used, AddRecordThen(r, dups, used) PROVE orig' = orig
  BY <1>1, <1>2 DEF AddRecordThen
<1>3. ASSUME NEW n, NEW dups, AddRecord(n, dups) PROVE orig' = orig
  BY <1>2, <1>3 DEF AddRecord
<1>4. ASSUME NEW n, NEW id, NEW v, NEW dups, AddFile(n, id, v, dups) PROVE orig' = orig
  BY <1>1, <1>2, <1>4 DEF AddFile
<1>5. ASSUME NEW i, NEW id, NEW v, NEW src, AddThread(i, id, v, src) PROVE orig' = orig
  BY <1>1, <1>5 DEF AddThread
<1>6. ASSUME NEW i, NEW t, NEW v, NEW src, UpdatePresizedThread(i, t, v, src)
      PROVE  orig' = orig
  BY <1>1, <1>6 DEF UpdatePresizedThread
<1>7. ASSUME NEW i, NEW t, DeleteThread(i, t) PROVE orig' = orig
  BY <1>1, <1>7 DEF DeleteThread
<1>8. ASSUME NEW i, DeleteRecord(i) \/ Delete(i) PROVE orig' = orig
  BY <1>1, <1>8 DEF DeleteRecord, Delete
<1>9. ASSUME NEW i, NEW n, NEW fits, Rename(i, n, fits) PROVE orig' = orig
  BY <1>1, <1>9 DEF Rename
<1>10. ASSUME NEW i, NEW a, SetRecordAttr(i, a) PROVE orig' = orig
  BY <1>1, <1>10 DEF SetRecordAttr
<1> QED
  BY <1>3, <1>4, <1>5, <1>6, <1>7, <1>8, <1>9, <1>10 DEF EditCall

LEMMA UnmodifiedIsOrig ==
    ASSUME NEW r, IsRecord(r), NEW o, IsRecord(o), Derived(r, o),
           r.mods = {}, ~r.dirty, o.mods = {}, ~o.dirty
    PROVE  r = o
BY DEF IsRecord, Derived

LEMMA CarriedChanges ==
    ASSUME Inv, Carried, NEW i \in DOMAIN orig
    PROVE  /\ i \notin DOMAIN orig' => i \notin DOMAIN copy \/ RecordIsEmpty(copy[i])
           /\ i \in DOMAIN orig' /\ orig'[i] # orig[i] =>
                 copyLoaded /\ Modified(copy[i])
<1>1. PICK inPlace, mimic, skip : orig' = Outcome(inPlace, Fresh(mimic), skip)
  BY DEF Carried
<1> DEFINE fresh == Fresh(mimic)
           added == {j \in DOMAIN fresh : fresh[j].mods \cap skip = {}}
<1>1a. /\ added \subseteq DOMAIN new
      /\ orig' = [j \in DOMAIN OldRecords \cup added |->
                    IF j \in added THEN Constructed(fresh[j], j)
                    ELSE OldAfter(j, inPlace, skip)]
  BY <1>1, FreshType DEF Outcome
<1> HIDE DEF fresh, added
<1>2. i \notin added
  BY <1>1a DEF Inv, RecordIndices
<1>3. i \in DOMAIN orig' <=> i \in DOMAIN OldRecords
  BY <1>1a, <1>2
<1>4. CASE ~Touched
  <2>1. OldRecords = orig
    BY <1>4 DEF OldRecords
  <2>2. ~Modified(orig[i])
    BY DEF Inv, OrigClean, Modified
  <2>3. orig'[i] = OldAfter(i, inPlace, skip)
    BY <1>1a, <1>2, <2>1
  <2> QED
    BY <1>3, <2>1, <2>2, <2>3 DEF OldAfter
<1>5. CASE Touched
  <2>1. OldRecords = Purged(copy) /\ copyLoaded
    BY <1>5 DEF OldRecords, Touched
  <2>2. i \notin DOMAIN OldRecords => i \notin DOMAIN copy \/ RecordIsEmpty(copy[i])
    BY <2>1 DEF Purged, Restrict
  <2>3. ASSUME i \in DOMAIN OldRecords, ~Modified(copy[i])
        PROVE  orig'[i] = orig[i]
    <3>1. OldRecords[i] = copy[i] /\ i \in DOMAIN copy
      BY <2>1, <2>3 DEF Purged, Restrict
    <3>2. orig'[i] = copy[i]
      BY <1>1a, <1>2, <2>3, <3>1 DEF OldAfter
    <3>3. IsRecord(copy[i]) /\ IsRecord(orig[i]) /\ Derived(copy[i], orig[i])
      BY <3>1 DEF Inv, TypeOK, IsRecordSet, CopyOfOrig
    <3> QED
      BY <2>3, <3>2, <3>3, UnmodifiedIsOrig DEF Inv, OrigClean, Modified
  <2> QED
    BY <1>3, <2>1, <2>2, <2>3
<1> QED
  BY <1>4, <1>5

(* A flush, whichever way it ends, changes only records with changes       *)
(* pending, and removes only records deleted or emptied (Nu_Flush,         *)
(* Nu_PurgeEmptyRecords).                                                  *)
THEOREM OnlyPendingCorrect == Spec => OnlyPendingChanges
<1> DEFINE Step == \A i \in DOMAIN orig :
              /\ i \notin DOMAIN orig' => \/ i \notin DOMAIN copy
                                          \/ RecordIsEmpty(copy[i])
              /\ i \in DOMAIN orig' /\ orig'[i] # orig[i] =>
                    copyLoaded /\ Modified(copy[i])
<1>1. Inv /\ [Next]_vars => [Step]_vars
  <2> SUFFICES ASSUME Inv, Next PROVE Step
    OBVIOUS
  <2>1. CASE orig' = orig
    BY <2>1
  <2>2. CASE Carried
    BY <2>2, CarriedChanges
  <2> QED
    BY <2>1, <2>2, EditCallKeepsOrig
       DEF Next, FlushNothing, FlushCommit, FlushAbort, FlushLock
<1>2. OnlyPendingChanges <=> [][Step]_vars
  BY DEF OnlyPendingChanges
<1> QED
  BY Invariance, <1>1, <1>2, PTL DEF Spec

-----------------------------------------------------------------------------
(***************************************************************************)
(* Modification lists stay such that a flush can carry them out, and       *)
(* record and thread indices stay unique.  The two need each other: a      *)
(* pending thread is told from the others of its record by its index, and  *)
(* the index by which a record is given its filename thread must not be in *)
(* use by any of its pending threads.                                      *)
(***************************************************************************)

Full == Inv /\ ModsWellFormed /\ IndicesUnique

-----------------------------------------------------------------------------
(* One record *)

LEMMA NumbersType ==
    ASSUME NEW r, IsRecord(r)
    PROVE  Numbers(r) \subseteq Nat
BY DEF Numbers, ModsOfKind, IsRecord, IsThreadMap, Mod

LEMMA AddModNumbers ==
    ASSUME NEW r, IsRecord(r), NEW m
    PROVE  /\ AddMod(r, m).threads = r.threads
           /\ AddMod(r, m).mods = r.mods \cup {m}
           /\ Numbers(AddMod(r, m)) \subseteq Numbers(r) \cup {m.tidx}
           /\ m.kind # "add" => Numbers(AddMod(r, m)) \subseteq Numbers(r)
<1>1. /\ AddMod(r, m).threads = r.threads
      /\ AddMod(r, m).mods = r.mods \cup {m}
  BY DEF AddMod, IsRecord
<1> QED
  BY <1>1 DEF Numbers, ModsOfKind

(* A thread is added under an index the record does not use. *)
LEMMA AddOne ==
    ASSUME NEW r, IsRecord(r), OneModPerThread(r), NEW t, t \notin Numbers(r),
           NEW id, NEW v, NEW src
    PROVE  OneModPerThread(AddMod(r, NewMod("add", t, id, v, src)))
<1> DEFINE m == NewMod("add", t, id, v, src)
<1>1. /\ AddMod(r, m).threads = r.threads
      /\ AddMod(r, m).mods = r.mods \cup {m}
  BY AddModNumbers
<1>2. m.kind = "add" /\ m.tidx = t
  BY DEF NewMod
<1>3. t \notin DOMAIN r.threads
  BY DEF Numbers
<1>4. \A o \in r.mods : o.tidx # t
  BY <1>3 DEF OneModPerThread, Numbers, ModsOfKind
<1> HIDE DEF m
<1>5. OneModPerThread(AddMod(r, m))
  BY <1>1, <1>2, <1>3, <1>4 DEF OneModPerThread
<1> QED
  BY <1>5 DEF m

(* A thread is updated or deleted if nothing is pending on it. *)
LEMMA ChangeOne ==
    ASSUME NEW r, IsRecord(r), OneModPerThread(r), NEW t \in DOMAIN r.threads,
           ModsOfThread(r, t) = {}, NEW kind \in {"update", "delete"},
           NEW v, NEW src
    PROVE  OneModPerThread(AddMod(r, NewMod(kind, t, r.threads[t].id, v, src)))
<1> DEFINE m == NewMod(kind, t, r.threads[t].id, v, src)
<1>1. /\ AddMod(r, m).threads = r.threads
      /\ AddMod(r, m).mods = r.mods \cup {m}
  BY AddModNumbers
<1>2. m.kind # "add" /\ m.tidx = t /\ m.id = r.threads[t].id
  BY DEF NewMod
<1>3. \A o \in r.mods : o.tidx # t
  BY DEF OneModPerThread, ModsOfThread
<1> HIDE DEF m
<1>4. OneModPerThread(AddMod(r, m))
  BY <1>1, <1>2, <1>3 DEF OneModPerThread
<1> QED
  BY <1>4 DEF m

(* Carrying out modifications brings in no index the record did not have.  *)
LEMMA AppliedNumbers ==
    ASSUME NEW r, OneModPerThread(r), NEW mods \in SUBSET r.mods
    PROVE  Numbers(Applied(r, mods)) \subseteq Numbers(r)
<1>1. Numbers(Applied(r, mods)) = DOMAIN ThreadsAfter(r.threads, mods)
  BY DEF Numbers, Applied, ModsOfKind
<1>2. DOMAIN ThreadsAfter(r.threads, mods) =
         (DOMAIN r.threads \ {m.tidx : m \in {x \in mods : x.kind = "delete"}})
           \cup {m.tidx : m \in {x \in mods : x.kind # "delete"}}
  BY DEF ThreadsAfter
<1>3. \A m \in mods : m.tidx \in Numbers(r)
  BY DEF OneModPerThread, Numbers, ModsOfKind
<1> QED
  BY <1>1, <1>2, <1>3 DEF Numbers

(* A new record gets its filename thread, if it needs one, under its own   *)
(* number.                                                                 *)
LEMMA ConstructedNumbers ==
    ASSUME NEW r, IsRecord(r), OneModPerThread(r), NEW i, i \notin Numbers(r)
    PROVE  Numbers(Constructed(r, i)) \subseteq Numbers(r) \cup {i}
<1> DEFINE m == NewMod("add", i, "filename", r.name, "buffer")
           w == WithFilename(r, i)
<1>1. OneModPerThread(AddMod(r, m)) /\ m.tidx = i
  BY AddOne DEF NewMod
<1>2. OneModPerThread(w) /\ Numbers(w) \subseteq Numbers(r) \cup {i}
  BY <1>1, AddModNumbers DEF WithFilename
<1>3. Numbers(Applied(w, w.mods)) \subseteq Numbers(w)
  BY <1>2, AppliedNumbers
<1> QED
  BY <1>2, <1>3 DEF Constructed

-----------------------------------------------------------------------------
(* Edit calls *)

(* The indices drawn by an edit call, all of them for record k *)
Drawn(i, k, used) ==
    IF i = k THEN {t \in Nat : nextIdx <= t /\ t < nextIdx + used} ELSE {}

LEMMA CurWellFormed ==
    ASSUME Full
    PROVE  /\ \A i \in DOMAIN Cur : IsRecord(Cur[i]) /\ OneModPerThread(Cur[i])
           /\ NumbersBelow(Cur, nextIdx)
           /\ Cur \in {orig, copy}
<1>1. Cur \in {orig, copy}
  BY DEF Cur
<1>2. \A i \in DOMAIN orig : OneModPerThread(orig[i])
  BY DEF Full, ModsWellFormed, OneModPerThread
<1> QED
  BY <1>1, <1>2 DEF Full, ModsWellFormed, IndicesUnique, Inv, TypeOK, IsRecordSet

(* What an edit call has to keep up for modification lists and indices *)
LEMMA EditWell ==
    ASSUME Full, NEW used \in Nat, Edit(used), NEW k,
           \A i \in DOMAIN copy' :
              /\ i \in DOMAIN Cur
              /\ OneModPerThread(copy'[i])
              /\ Numbers(copy'[i]) \subseteq Numbers(Cur[i]) \cup Drawn(i, k, used),
           \A i \in DOMAIN new' :
              /\ OneModPerThread(new'[i])
              /\ DOMAIN new'[i].threads = {}
              /\ \/ /\ i \in DOMAIN new
                    /\ Numbers(new'[i]) \subseteq Numbers(new[i]) \cup Drawn(i, k, used)
                 \/ /\ i = nextIdx /\ i = k /\ used > 0
                    /\ Numbers(new'[i]) \subseteq Drawn(i, k, used) \ {i}
    PROVE  ModsWellFormed' /\ IndicesUnique'
<1>1. orig' = orig /\ nextIdx' = nextIdx + used /\ nextIdx \in Nat
  BY DEF Edit, Full, Inv, TypeOK
<1>2. ModsWellFormed'
  BY <1>1 DEF Full, ModsWellFormed
<1> DEFINE Was(x, i) == \E T \in {orig, copy, new} :
              /\ i \in DOMAIN T
              /\ x \in Numbers(T[i])
           Known(i) == i \in DOMAIN orig \cup DOMAIN copy \cup DOMAIN new
<1>3. ASSUME NEW S \in {orig', copy', new'}, NEW i \in DOMAIN S, NEW x \in Numbers(S[i])
      PROVE  Was(x, i) \/ (x \in Drawn(i, k, used) /\ (Known(i) \/ x # i))
  BY <1>1, CurWellFormed
<1>4. ASSUME NEW S \in {orig', copy', new'}, NEW i \in DOMAIN S
      PROVE  /\ i \in Nat
             /\ Known(i) \/ (i \in DOMAIN new' /\ i = nextIdx /\ i = k /\ used > 0)
  BY <1>1, CurWellFormed DEF Full, Inv, TypeOK, IsRecordSet
<1>5. ASSUME NEW x, NEW i, Was(x, i)
      PROVE  x < nextIdx
  BY <1>5 DEF Full, IndicesUnique, NumbersBelow
<1>6. ASSUME NEW i, Known(i) PROVE i < nextIdx
  BY <1>6 DEF Full, IndicesUnique, NumbersBelow
<1>7. ASSUME NEW x, NEW i, NEW j, Was(x, i), Was(x, j) PROVE i = j
  BY <1>7 DEF Full, IndicesUnique, NumbersApart
<1>8. ASSUME NEW x, NEW i, x \in Drawn(i, k, used)
      PROVE  i = k /\ x \in Nat /\ nextIdx <= x /\ x < nextIdx + used
  BY <1>8 DEF Drawn
<1>9. ASSUME NEW i \in DOMAIN new, NEW j PROVE ~Was(i, j)
  BY DEF Full, IndicesUnique
<1>10. ASSUME NEW x, NEW i, Was(x, i) PROVE x \in Nat
  <2>1. \A T \in {orig, copy, new} : \A j \in DOMAIN T : IsRecord(T[j])
    BY DEF Full, Inv, TypeOK, IsRecordSet
  <2> QED
    BY <1>10, <2>1 DEF Numbers, ModsOfKind, IsRecord, IsThreadMap, Mod
<1> HIDE DEF Was
<1>11. DOMAIN new' \cap DOMAIN orig' = {}
  BY <1>1, <1>6 DEF Full, IndicesUnique
<1>12. ASSUME NEW S \in {orig', copy', new'}, NEW T \in {orig', copy', new'}
       PROVE  NumbersApart(S, T)
  <2> SUFFICES ASSUME NEW i \in DOMAIN S, NEW j \in DOMAIN T, i # j,
                      NEW x \in Numbers(S[i]), x \in Numbers(T[j])
               PROVE  FALSE
    BY DEF NumbersApart
  <2>1. Was(x, i) \/ x \in Drawn(i, k, used)
    BY <1>3
  <2>2. Was(x, j) \/ x \in Drawn(j, k, used)
    BY <1>3
  <2> QED
    BY <1>1, <1>5, <1>7, <1>8, <1>10, <2>1, <2>2
<1>13. ASSUME NEW i \in DOMAIN new', NEW S \in {orig', copy', new'}, NEW j \in DOMAIN S
       PROVE  i \notin Numbers(S[j])
  <2> SUFFICES ASSUME i \in Numbers(S[j]) PROVE FALSE
    OBVIOUS
  <2>1. Was(i, j) \/ (i \in Drawn(j, k, used) /\ (Known(j) \/ i # j))
    BY <1>3
  <2>2. CASE i \in DOMAIN new
    BY <1>1, <1>6, <1>8, <1>9, <2>1, <2>2
  <2>3. CASE i \notin DOMAIN new
    <3>1. i = nextIdx /\ i = k
      BY <2>3
    <3>2. ~Was(i, j)
      BY <1>1, <1>5, <3>1
    <3>3. j = k /\ i = j /\ Known(j)
      BY <1>8, <2>1, <3>1, <3>2
    <3> QED
      BY <1>1, <1>6, <3>1, <3>3
  <2> QED
    BY <2>2, <2>3
<1>14. ASSUME NEW S \in {orig', copy', new'} PROVE NumbersBelow(S, nextIdx')
  <2>1. ASSUME NEW i \in DOMAIN S PROVE i < nextIdx'
    BY <1>1, <1>4, <1>6
  <2>2. ASSUME NEW i \in DOMAIN S, NEW x \in Numbers(S[i]) PROVE x < nextIdx'
    <3>1. Was(x, i) \/ x \in Drawn(i, k, used)
      BY <1>3
    <3> QED
      BY <1>1, <1>5, <1>8, <1>10, <3>1
  <2> QED
    BY <2>1, <2>2 DEF NumbersBelow
<1> QED
  BY <1>2, <1>11, <1>12, <1>13, <1>14 DEF IndicesUnique

Well == ModsWellFormed /\ IndicesUnique

(* An edit that leaves the new set alone and takes records from the clone, *)
LEMMA LessWell ==
    ASSUME Full, Edit(0), UNCHANGED new, NEW S, SetCopy(S), DOMAIN S \subseteq DOMAIN Cur,
           \A i \in DOMAIN S : S[i] = Cur[i]
    PROVE  Well'
<1>1. copy' = S /\ new' = new
  BY DEF SetCopy
<1>2. \A i \in DOMAIN new : OneModPerThread(new[i]) /\ DOMAIN new[i].threads = {}
  BY DEF Full, ModsWellFormed
<1> QED
  BY <1>1, <1>2, CurWellFormed, EditWell DEF Well

(* ... or changes one of them. *)
LEMMA ExceptWell ==
    ASSUME Full, NEW used \in Nat, Edit(used), UNCHANGED new,
           NEW i \in DOMAIN Cur, NEW r, OneModPerThread(r),
           Numbers(r) \subseteq Numbers(Cur[i]) \cup Drawn(i, i, used),
           SetCopy([Cur EXCEPT ![i] = r])
    PROVE  Well'
<1>1. copy' = [Cur EXCEPT ![i] = r] /\ new' = new
  BY DEF SetCopy
<1>2. \A j \in DOMAIN new : OneModPerThread(new[j]) /\ DOMAIN new[j].threads = {}
  BY DEF Full, ModsWellFormed
<1>3. \A j \in DOMAIN copy' : /\ j \in DOMAIN Cur
                             /\ copy'[j] = IF j = i THEN r ELSE Cur[j]
  BY <1>1
<1> QED
  BY <1>1, <1>2, <1>3, CurWellFormed, EditWell DEF Well

(* A record joins the new set. *)
LEMMA AddRecordThenWell ==
    ASSUME Full, NEW r, IsRecord(r), OneModPerThread(r), DOMAIN r.threads = {},
           NEW used \in Nat \ {0},
           Numbers(r) \subseteq Drawn(nextIdx, nextIdx, used) \ {nextIdx},
           NEW dups, AddRecordThen(r, dups, used)
    PROVE  Well'
<1>1. \A i \in DOMAIN new : OneModPerThread(new[i]) /\ DOMAIN new[i].threads = {}
  BY DEF Full, ModsWellFormed
<1>2. \A i \in DOMAIN copy : copyLoaded /\ i \in DOMAIN Cur /\ copy[i] = Cur[i]
  BY DEF Full, Inv, CopyOfOrig, Cur
<1>3. ASSUME Edit(used), new' = With(new, nextIdx, r),
             \A i \in DOMAIN copy' : i \in DOMAIN Cur /\ copy'[i] = Cur[i]
      PROVE  Well'
  <2>1. nextIdx \notin DOMAIN new
    BY DEF Full, IndicesUnique, NumbersBelow, Inv, TypeOK
  <2>2. \A i \in DOMAIN new' : \/ (i \in DOMAIN new /\ new'[i] = new[i])
                              \/ (i = nextIdx /\ new'[i] = r)
    BY <1>3, <2>1 DEF With
  <2> QED
    BY <1>1, <1>3, <2>2, CurWellFormed, EditWell DEF Well
<1>4. ASSUME NEW i, SetCopy(Without(Cur, {i}))
      PROVE  \A j \in DOMAIN copy' : j \in DOMAIN Cur /\ copy'[j] = Cur[j]
  BY <1>4 DEF SetCopy, Without, Restrict
<1>5. ASSUME NEW i, SetCopy(Without(Cur, {i})), UNCHANGED new, Edit(0)
      PROVE  Well'
  BY <1>5, LessWell DEF Without, Restrict
<1> QED
  BY <1>2, <1>3, <1>4, <1>5 DEF AddRecordThen, HandleAddDuplicateRecord

LEMMA AddRecordWell ==
    ASSUME Full, NEW n \in Names, NEW dups, AddRecord(n, dups)
    PROVE  Well'
<1> DEFINE r == NewRecord(n, NewAttr)
<1>1. IsRecord(r) /\ r.mods = {} /\ DOMAIN r.threads = {}
  BY NewRecordType DEF NewRecord, EmptyMap
<1>2. OneModPerThread(r) /\ Numbers(r) = {}
  BY <1>1 DEF OneModPerThread, Numbers, ModsOfKind
<1> HIDE DEF r
<1> QED
  BY <1>1, <1>2, AddRecordThenWell DEF AddRecord, r

LEMMA AddFileWell ==
    ASSUME Full, NEW n \in Names, NEW id \in ThreadIDs \ {"filename"},
           NEW v \in Data, NEW dups, AddFile(n, id, v, dups)
    PROVE  Well'
<1>1. nextIdx \in Nat /\ v \in Contents
  BY DEF Full, Inv, TypeOK, Contents
<1>2. ASSUME NEW i \in Named(new, n), Edit(1), UNCHANGED <<copy, copyLoaded>>,
             new' = [new EXCEPT ![i] = AddMod(@, NewMod("add", nextIdx, id, v, "file"))]
      PROVE  Well'
  <2> DEFINE m == NewMod("add", nextIdx, id, v, "file")
  <2>1. i \in DOMAIN new /\ IsRecord(new[i])
    BY DEF Named, Full, Inv, TypeOK, IsRecordSet
  <2>2. nextIdx \notin Numbers(new[i])
    BY <1>1, <2>1 DEF Full, IndicesUnique, NumbersBelow
  <2>3. \A j \in DOMAIN new : OneModPerThread(new[j]) /\ DOMAIN new[j].threads = {}
    BY DEF Full, ModsWellFormed
  <2>4. OneModPerThread(AddMod(new[i], m))
    BY <2>1, <2>2, <2>3, AddOne
  <2>5. /\ AddMod(new[i], m).threads = new[i].threads
        /\ Numbers(AddMod(new[i], m)) \subseteq Numbers(new[i]) \cup {nextIdx}
    BY <2>1, AddModNumbers DEF NewMod
  <2>6. nextIdx \in Drawn(i, i, 1)
    BY <1>1 DEF Drawn
  <2>7. \A j \in DOMAIN copy' : j \in DOMAIN Cur /\ copy'[j] = Cur[j]
    BY <1>2 DEF Full, Inv, CopyOfOrig, Cur
  <2> HIDE DEF m
  <2>8. \A j \in DOMAIN new' : /\ j \in DOMAIN new
                              /\ new'[j] = IF j = i THEN AddMod(new[i], m) ELSE new[j]
    BY <1>2, <2>1 DEF m
  <2> QED
    BY <1>2, <2>3, <2>4, <2>5, <2>6, <2>7, <2>8, CurWellFormed, EditWell DEF Well
<1>3. ASSUME AddRecordThen(AddMod(NewRecord(n, NewAttr),
                                  NewMod("add", nextIdx + 1, id, v, "file")), dups, 2)
      PROVE  Well'
  <2> DEFINE r == NewRecord(n, NewAttr)
             m == NewMod("add", nextIdx + 1, id, v, "file")
  <2>1. IsRecord(r) /\ r.mods = {} /\ DOMAIN r.threads = {}
    BY NewRecordType DEF NewRecord, EmptyMap
  <2>2. OneModPerThread(r) /\ Numbers(r) = {}
    BY <2>1 DEF OneModPerThread, Numbers, ModsOfKind
  <2>3. IsRecord(AddMod(r, m))
    BY <1>1, <2>1, NewModType
  <2>4. OneModPerThread(AddMod(r, m))
    BY <2>1, <2>2, AddOne
  <2>5. /\ DOMAIN AddMod(r, m).threads = {}
        /\ Numbers(AddMod(r, m)) \subseteq {nextIdx + 1}
    BY <2>1, <2>2, AddModNumbers DEF NewMod
  <2>6. {nextIdx + 1} \subseteq Drawn(nextIdx, nextIdx, 2) \ {nextIdx}
    BY <1>1 DEF Drawn
  <2> HIDE DEF r, m
  <2> QED
    BY <1>3, <2>3, <2>4, <2>5, <2>6, AddRecordThenWell DEF r, m
<1> QED
  BY <1>2, <1>3 DEF AddFile

(* A record after Nu_AddThread *)
LEMMA ThreadAddedWell ==
    ASSUME Full, NEW r, IsRecord(r), OneModPerThread(r), nextIdx \notin Numbers(r),
           NEW id \in ThreadIDs, NEW v \in Contents,
           id = "filename" => v \in Names, NEW src \in Sources
    PROVE  /\ OneModPerThread(ThreadAdded(r, id, v, src))
           /\ ThreadAdded(r, id, v, src).threads = r.threads
           /\ Numbers(ThreadAdded(r, id, v, src)) \subseteq Numbers(r) \cup {nextIdx}
<1> DEFINE m == NewMod("add", nextIdx, id, v, src)
           a == AddMod(r, m)
<1>1. OneModPerThread(a)
  BY AddOne
<1>2. a.threads = r.threads /\ Numbers(a) \subseteq Numbers(r) \cup {nextIdx}
  BY AddModNumbers DEF NewMod
<1>3. /\ ThreadAdded(r, id, v, src).threads = a.threads
      /\ ThreadAdded(r, id, v, src).mods = a.mods
  BY DEF ThreadAdded, AddMod, IsRecord
<1> HIDE DEF a
<1> QED
  BY <1>1, <1>2, <1>3 DEF OneModPerThread, Numbers, ModsOfKind

LEMMA AddThreadWell ==
    ASSUME Full, NEW i, NEW id \in ThreadIDs, NEW v \in Names \cup Data,
           id = "filename" <=> v \in Names, NEW src \in Sources,
           AddThread(i, id, v, src)
    PROVE  Well'
<1>1. nextIdx \in Nat /\ v \in Contents
  BY DEF Full, Inv, TypeOK, Contents
<1>2. nextIdx \in Drawn(i, i, 1)
  BY <1>1 DEF Drawn
<1>3. ASSUME i \in DOMAIN Cur, Edit(1), UNCHANGED new,
             SetCopy([Cur EXCEPT ![i] = ThreadAdded(@, id, v, src)])
      PROVE  Well'
  <2>1. IsRecord(Cur[i]) /\ OneModPerThread(Cur[i]) /\ nextIdx \notin Numbers(Cur[i])
    BY <1>1, <1>3, CurWellFormed DEF NumbersBelow
  <2>2. /\ OneModPerThread(ThreadAdded(Cur[i], id, v, src))
        /\ Numbers(ThreadAdded(Cur[i], id, v, src)) \subseteq Numbers(Cur[i]) \cup {nextIdx}
    BY <1>1, <2>1, ThreadAddedWell
  <2> QED
    BY <1>2, <1>3, <2>2, ExceptWell
<1>4. ASSUME Edit(0), UNCHANGED new, SetCopy(Cur) PROVE Well'
  BY <1>4, LessWell
<1>5. ASSUME i \in DOMAIN new, Edit(1), UNCHANGED <<copy, copyLoaded>>,
             new' = [new EXCEPT ![i] = ThreadAdded(@, id, v, src)]
      PROVE  Well'
  <2> DEFINE r == ThreadAdded(new[i], id, v, src)
  <2>1. \A j \in DOMAIN new : OneModPerThread(new[j]) /\ DOMAIN new[j].threads = {}
    BY DEF Full, ModsWellFormed
  <2>2. IsRecord(new[i]) /\ nextIdx \notin Numbers(new[i])
    BY <1>1, <1>5 DEF Full, Inv, TypeOK, IsRecordSet, IndicesUnique, NumbersBelow
  <2>3. /\ OneModPerThread(r) /\ r.threads = new[i].threads
        /\ Numbers(r) \subseteq Numbers(new[i]) \cup {nextIdx}
    BY <1>1, <1>5, <2>1, <2>2, ThreadAddedWell
  <2>4. \A j \in DOMAIN copy' : j \in DOMAIN Cur /\ copy'[j] = Cur[j]
    BY <1>5 DEF Full, Inv, CopyOfOrig, Cur
  <2>5. \A j \in DOMAIN new' : /\ j \in DOMAIN new
                              /\ new'[j] = IF j = i THEN r ELSE new[j]
    BY <1>5
  <2> HIDE DEF r
  <2> QED
    BY <1>2, <1>5, <2>1, <2>3, <2>4, <2>5, CurWellFormed, EditWell DEF Well
<1> QED
  BY <1>3, <1>4, <1>5 DEF AddThread

LEMMA UpdatePresizedThreadWell ==
    ASSUME Full, NEW i, NEW t, NEW v, NEW src, UpdatePresizedThread(i, t, v, src)
    PROVE  Well'
<1> DEFINE m == NewMod("update", t, Cur[i].threads[t].id, v, src)
<1>1. /\ i \in DOMAIN Cur /\ t \in DOMAIN Cur[i].threads /\ Edit(0) /\ UNCHANGED new
      /\ IsRecord(Cur[i]) /\ OneModPerThread(Cur[i])
  BY CurWellFormed DEF UpdatePresizedThread
<1>2. CASE SetCopy(Cur)
  BY <1>1, <1>2, LessWell
<1>3. CASE ModsOfThread(Cur[i], t) = {} /\ SetCopy([Cur EXCEPT ![i] = AddMod(@, m)])
  <2>1. OneModPerThread(AddMod(Cur[i], m))
    BY <1>1, <1>3, ChangeOne
  <2>2. Numbers(AddMod(Cur[i], m)) \subseteq Numbers(Cur[i])
    BY <1>1, AddModNumbers DEF NewMod
  <2> HIDE DEF m
  <2> QED
    BY <1>1, <1>3, <2>1, <2>2, ExceptWell
<1> QED
  BY <1>2, <1>3 DEF UpdatePresizedThread

LEMMA DeleteThreadWell ==
    ASSUME Full, NEW i, NEW t, DeleteThread(i, t)
    PROVE  Well'
<1> DEFINE m == NewMod("delete", t, Cur[i].threads[t].id, NoData, "buffer")
<1>1. /\ i \in DOMAIN Cur /\ t \in DOMAIN Cur[i].threads /\ Edit(0) /\ UNCHANGED new
      /\ IsRecord(Cur[i]) /\ OneModPerThread(Cur[i])
  BY CurWellFormed DEF DeleteThread
<1>2. CASE SetCopy(Cur)
  BY <1>1, <1>2, LessWell
<1>3. CASE ModsOfThread(Cur[i], t) = {} /\ SetCopy([Cur EXCEPT ![i] = AddMod(@, m)])
  <2>1. OneModPerThread(AddMod(Cur[i], m))
    BY <1>1, <1>3, ChangeOne
  <2>2. Numbers(AddMod(Cur[i], m)) \subseteq Numbers(Cur[i])
    BY <1>1, AddModNumbers DEF NewMod
  <2> HIDE DEF m
  <2> QED
    BY <1>1, <1>3, <2>1, <2>2, ExceptWell
<1> QED
  BY <1>2, <1>3 DEF DeleteThread

LEMMA DeleteWell ==
    ASSUME Full, NEW i, DeleteRecord(i) \/ Delete(i)
    PROVE  Well'
<1>1. /\ Edit(0) /\ UNCHANGED new
      /\ SetCopy(Cur) \/ \E I : SetCopy(Without(Cur, I))
  BY DEF DeleteRecord, Delete
<1> QED
  BY <1>1, LessWell DEF Without, Restrict

LEMMA RenameWell ==
    ASSUME Full, NEW i, NEW n \in Names, NEW fits, Rename(i, n, fits)
    PROVE  Well'
<1> DEFINE r      == Cur[i]
           add    == NewMod("add", nextIdx, "filename", n, "buffer")
           upd(t) == NewMod("update", t, "filename", n, "buffer")
           del(t) == NewMod("delete", t, "filename", NoData, "buffer")
<1>1. /\ i \in DOMAIN Cur /\ UNCHANGED new
      /\ IsRecord(r) /\ OneModPerThread(r)
  BY CurWellFormed DEF Rename
<1>2. nextIdx \in Nat /\ nextIdx \notin Numbers(r)
  BY <1>1, CurWellFormed DEF NumbersBelow, Full, Inv, TypeOK
<1>3. nextIdx \in Drawn(i, i, 1)
  BY <1>2 DEF Drawn
<1>4. \A t \in FilenameThreads(r.threads) :
         t \in DOMAIN r.threads /\ r.threads[t].id = "filename"
  BY DEF FilenameThreads
<1>5. ASSUME NEW t \in FilenameThreads(r.threads), Edit(0), ModsOfThread(r, t) = {},
             SetCopy([Cur EXCEPT ![i] = AddMod(@, upd(t))])
      PROVE  Well'
  <2>1. OneModPerThread(AddMod(r, upd(t)))
    BY <1>1, <1>4, <1>5, ChangeOne
  <2>2. Numbers(AddMod(r, upd(t))) \subseteq Numbers(r)
    BY <1>1, AddModNumbers DEF NewMod
  <2> QED
    BY <1>1, <1>5, <2>1, <2>2, ExceptWell
<1>6. ASSUME NEW t \in FilenameThreads(r.threads), Edit(1), ModsOfThread(r, t) = {},
             SetCopy([Cur EXCEPT ![i] = AddMod(AddMod(@, del(t)), add)])
      PROVE  Well'
  <2> DEFINE d == AddMod(r, del(t))
  <2>1. OneModPerThread(d) /\ Numbers(d) \subseteq Numbers(r)
    <3>1. OneModPerThread(d)
      BY <1>1, <1>4, <1>6, ChangeOne
    <3>2. Numbers(d) \subseteq Numbers(r)
      BY <1>1, AddModNumbers DEF NewMod
    <3> QED
      BY <3>1, <3>2
  <2>2. IsRecord(d)
    <3>1. t \in Nat /\ NoData \in Contents /\ "filename" \in ThreadIDs
      BY <1>1, <1>4, RecordAssumption DEF IsRecord, IsThreadMap, Contents
    <3> QED
      BY <1>1, <3>1, NewModType
  <2> HIDE DEF d
  <2>3. OneModPerThread(AddMod(d, add))
    BY <1>2, <2>1, <2>2, AddOne
  <2>4. Numbers(AddMod(d, add)) \subseteq Numbers(d) \cup {nextIdx}
    BY <2>2, AddModNumbers DEF NewMod
  <2>5. Numbers(AddMod(d, add)) \subseteq Numbers(r) \cup Drawn(i, i, 1)
    BY <1>3, <2>1, <2>4
  <2>6. SetCopy([Cur EXCEPT ![i] = AddMod(d, add)])
    BY <1>6 DEF d
  <2> QED
    BY <1>1, <1>6, <2>3, <2>5, <2>6, ExceptWell
<1>7. ASSUME Edit(1),
             SetCopy([Cur EXCEPT ![i] = [AddMod(r, add) EXCEPT !.drop = TRUE]])
      PROVE  Well'
  <2> DEFINE a == AddMod(r, add)
             b == [a EXCEPT !.drop = TRUE]
  <2>1. OneModPerThread(a)
    BY <1>1, <1>2, AddOne
  <2>2. Numbers(a) \subseteq Numbers(r) \cup {nextIdx}
    BY <1>1, AddModNumbers DEF NewMod
  <2>3. b.threads = a.threads /\ b.mods = a.mods
    BY <1>1 DEF AddMod, IsRecord
  <2> HIDE DEF a
  <2>4. OneModPerThread(b) /\ Numbers(b) \subseteq Numbers(r) \cup Drawn(i, i, 1)
    BY <1>3, <2>1, <2>2, <2>3 DEF OneModPerThread, Numbers, ModsOfKind
  <2>5. SetCopy([Cur EXCEPT ![i] = b])
    BY <1>7 DEF a
  <2> HIDE DEF b
  <2> QED
    BY <1>1, <1>7, <2>4, <2>5, ExceptWell
<1>8. ASSUME Edit(0), SetCopy(Cur) PROVE Well'
  BY <1>1, <1>8, LessWell
<1> QED
  BY <1>5, <1>6, <1>7, <1>8 DEF Rename, IsFirst

LEMMA SetRecordAttrWell ==
    ASSUME Full, NEW i, NEW a, SetRecordAttr(i, a)
    PROVE  Well'
<1> DEFINE r == [Cur[i] EXCEPT !.attr = a, !.dirty = TRUE]
<1>1. /\ i \in DOMAIN Cur /\ Edit(0) /\ UNCHANGED new
      /\ SetCopy([Cur EXCEPT ![i] = r])
      /\ IsRecord(Cur[i]) /\ OneModPerThread(Cur[i])
  BY CurWellFormed DEF SetRecordAttr
<1>2. r.threads = Cur[i].threads /\ r.mods = Cur[i].mods
  BY <1>1 DEF IsRecord
<1> HIDE DEF r
<1>3. OneModPerThread(r) /\ Numbers(r) \subseteq Numbers(Cur[i])
  BY <1>1, <1>2 DEF OneModPerThread, Numbers, ModsOfKind
<1> QED
  BY <1>1, <1>3, ExceptWell

LEMMA EditCallWell ==
    ASSUME Full, EditCall
    PROVE  Well'
<1>1. ASSUME NEW i, NEW id \in ThreadIDs, NEW v \in Contents, NEW src \in Sources,
             id = "filename" <=> v \in Names, v \in Names \cup Data,
             AddThread(i, id, v, src)
      PROVE  Well'
  BY <1>1, AddThreadWell
<1> QED
  BY <1>1, AddRecordWell, AddFileWell, UpdatePresizedThreadWell, DeleteThreadWell,
     DeleteWell, RenameWell, SetRecordAttrWell DEF EditCall

-----------------------------------------------------------------------------
(* Flushes *)

(* An index some set has for record i, pending threads included *)
Was(x, i) == \E T \in {orig, copy, new} : i \in DOMAIN T /\ x \in Numbers(T[i])

LEMMA OldRecordsWell ==
    ASSUME Full, NEW i \in DOMAIN OldRecords
    PROVE  /\ OneModPerThread(OldRecords[i])
           /\ \A x \in Numbers(OldRecords[i]) : Was(x, i)
           /\ \A x \in Numbers(orig[i]) : Was(x, i)
<1>1. i \in DOMAIN orig
  BY OldRecordsDerived DEF Full
<1>2. OneModPerThread(orig[i])
  BY <1>1 DEF Full, ModsWellFormed, OneModPerThread
<1>3. \/ OldRecords[i] = orig[i]
      \/ i \in DOMAIN copy /\ OldRecords[i] = copy[i]
  BY DEF OldRecords, Purged, Restrict
<1> QED
  BY <1>1, <1>2, <1>3 DEF Was, Full, ModsWellFormed

(* An existing record has no index after a flush it did not have before. *)
LEMMA OldAfterWell ==
    ASSUME Full, NEW i \in DOMAIN OldRecords, NEW inPlace, NEW skip
    PROVE  \A x \in Numbers(OldAfter(i, inPlace, skip)) : Was(x, i)
<1> DEFINE r == OldRecords[i]
<1>1. OneModPerThread(r)
  BY OldRecordsWell
<1>2. \A mods \in SUBSET r.mods : Numbers(Applied(r, mods)) \subseteq Numbers(r)
  BY <1>1, AppliedNumbers
<1>3. r.mods \ skip \in SUBSET r.mods /\ r.mods \in SUBSET r.mods
  OBVIOUS
<1>4. OldAfter(i, inPlace, skip) \in {orig[i], r, Applied(r, r.mods),
                                      Applied(r, r.mods \ skip)}
  BY DEF OldAfter
<1> HIDE DEF r
<1>5. \/ OldAfter(i, inPlace, skip) = orig[i]
      \/ Numbers(OldAfter(i, inPlace, skip)) \subseteq Numbers(r)
  BY <1>2, <1>3, <1>4
<1> QED
  BY <1>5, OldRecordsWell DEF r

(* A new record has those it had, its own number and, if it is the first,  *)
(* the one drawn for the comment.                                          *)
LEMMA FreshWell ==
    ASSUME Full, NEW mimic, NEW i \in DOMAIN Fresh(mimic)
    PROVE  /\ i \in DOMAIN new
           /\ \A x \in Numbers(Constructed(Fresh(mimic)[i], i)) :
                 \/ Was(x, i)
                 \/ x = i
                 \/ /\ x = nextIdx
                    /\ Fresh(mimic) # NewRecords
                    /\ IsFirst(i, DOMAIN NewRecords)
<1> DEFINE f == Fresh(mimic)[i]
           m == NewMod("add", nextIdx, "comment", NoData, "buffer")
<1>1. /\ i \in DOMAIN new /\ i \in DOMAIN NewRecords
      /\ NewRecords[i] = new[i]
  <2>1. i \in DOMAIN NewRecords
    BY DEF Fresh, CommentAdded
  <2> QED
    BY <2>1 DEF NewRecords, Purged, Restrict
<1>2. /\ IsRecord(new[i]) /\ OneModPerThread(new[i])
      /\ nextIdx \in Nat /\ i < nextIdx /\ i \in Nat
      /\ nextIdx \notin Numbers(new[i]) /\ i \notin Numbers(new[i])
  BY <1>1 DEF Full, Inv, TypeOK, IsRecordSet, ModsWellFormed, IndicesUnique,
              NumbersBelow
<1>3. \A x \in Numbers(new[i]) : Was(x, i)
  BY <1>1 DEF Was
<1>4. CASE f = new[i]
  BY <1>1, <1>2, <1>3, <1>4, ConstructedNumbers
<1>5. CASE f # new[i]
  <2>1. /\ f = AddMod(new[i], m)
        /\ IsFirst(i, DOMAIN NewRecords)
        /\ Fresh(mimic) # NewRecords
    BY <1>1, <1>5 DEF Fresh, CommentAdded
  <2>2. IsRecord(f) /\ OneModPerThread(f)
    BY <1>2, <2>1, AddOne, FreshType DEF Full, IsRecordSet
  <2>3. Numbers(f) \subseteq Numbers(new[i]) \cup {nextIdx}
    BY <1>2, <2>1, AddModNumbers DEF NewMod
  <2>4. i \notin Numbers(f)
    BY <1>2, <2>3
  <2>5. Numbers(Constructed(f, i)) \subseteq Numbers(f) \cup {i}
    BY <2>2, <2>4, ConstructedNumbers
  <2> QED
    BY <1>1, <1>3, <2>1, <2>3, <2>5
<1> QED
  BY <1>4, <1>5

LEMMA CarriedWell ==
    ASSUME Full, Carried
    PROVE  NumbersApart(orig', orig') /\ NumbersBelow(orig', nextIdx')
<1>1. PICK inPlace, mimic, skip :
         /\ nextIdx' = IF Fresh(mimic) = NewRecords THEN nextIdx ELSE nextIdx + 1
         /\ orig' = Outcome(inPlace, Fresh(mimic), skip)
  BY DEF Carried
<1> DEFINE fresh == Fresh(mimic)
           added == {j \in DOMAIN fresh : fresh[j].mods \cap skip = {}}
           Own(x, i) == x = i /\ i \in DOMAIN new
           Late(x, i) == /\ x = nextIdx /\ nextIdx' = nextIdx + 1
                         /\ IsFirst(i, DOMAIN NewRecords)
<1>2. orig' = [j \in DOMAIN OldRecords \cup added |->
                 IF j \in added THEN Constructed(fresh[j], j)
                 ELSE OldAfter(j, inPlace, skip)]
  BY <1>1 DEF Outcome
<1>3. nextIdx \in Nat /\ nextIdx' \in Nat /\ nextIdx <= nextIdx'
  BY <1>1 DEF Full, Inv, TypeOK
<1>4. ASSUME NEW i \in DOMAIN orig'
      PROVE  /\ i \in Nat /\ i < nextIdx
             /\ \A x \in Numbers(orig'[i]) : Was(x, i) \/ Own(x, i) \/ Late(x, i)
  <2>1. CASE i \in added
    <3>1. orig'[i] = Constructed(fresh[i], i) /\ i \in DOMAIN fresh
      BY <1>2, <2>1
    <3> QED
      BY <1>1, <3>1, FreshWell
         DEF Full, Inv, TypeOK, IsRecordSet, RecordIndices
  <2>2. CASE i \notin added
    <3>1. i \in DOMAIN OldRecords /\ orig'[i] = OldAfter(i, inPlace, skip)
      BY <1>2, <1>4, <2>2
    <3>2. i \in DOMAIN orig
      BY <3>1, OldRecordsDerived DEF Full
    <3> QED
      BY <3>1, <3>2, OldAfterWell DEF Full, Inv, TypeOK, IsRecordSet, RecordIndices
  <2> QED
    BY <2>1, <2>2
<1> HIDE DEF fresh, added
<1>5. ASSUME NEW x, NEW i, NEW j, Was(x, i), Was(x, j) PROVE i = j
  BY <1>5 DEF Was, Full, IndicesUnique, NumbersApart
<1>6. ASSUME NEW x, NEW i, Was(x, i) 
      PROVE  x \in Nat /\ x < nextIdx /\ x \notin DOMAIN new
  <2>1. x \notin DOMAIN new
    BY <1>6 DEF Was, Full, IndicesUnique
  <2>2. x < nextIdx /\ x \in Nat
    <3>1. PICK S \in {orig, copy, new} : i \in DOMAIN S /\ x \in Numbers(S[i])
      BY <1>6 DEF Was
    <3>2. x < nextIdx
      BY <3>1 DEF Full, IndicesUnique, NumbersBelow
    <3>3. IsRecord(S[i])
      BY <3>1 DEF Full, Inv, TypeOK, IsRecordSet
    <3>4. x \in Nat
      BY <3>1, <3>3, NumbersType
    <3> QED
      BY <3>2, <3>4
  <2> QED
    BY <1>3, <2>1, <2>2
<1>7. NumbersApart(orig', orig')
  <2> SUFFICES ASSUME NEW i \in DOMAIN orig', NEW j \in DOMAIN orig', i # j,
                      NEW x, x \in Numbers(orig'[i]), x \in Numbers(orig'[j])
               PROVE  FALSE
    BY DEF NumbersApart
  <2>1. /\ Was(x, i) \/ Own(x, i) \/ Late(x, i)
        /\ Was(x, j) \/ Own(x, j) \/ Late(x, j)
        /\ i \in Nat /\ i < nextIdx /\ j \in Nat /\ j < nextIdx
    BY <1>4
  <2>2. ~(Late(x, i) /\ Late(x, j))
    BY <2>1 DEF IsFirst
  <2>3. ~(Was(x, i) /\ Was(x, j))
    BY <1>5
  <2>4. Was(x, i) \/ Was(x, j) => x \in Nat /\ x < nextIdx /\ x \notin DOMAIN new
    BY <1>6
  <2>5. ~(Own(x, i) /\ Own(x, j))
    OBVIOUS
  <2>6. Own(x, i) \/ Own(x, j) => x < nextIdx /\ x \in DOMAIN new
    BY <2>1
  <2>7. Late(x, i) \/ Late(x, j) => ~(x < nextIdx)
    BY <1>3
  <2> HIDE DEF Own, Late
  <2> QED
    BY <2>1, <2>2, <2>3, <2>4, <2>5, <2>6, <2>7
<1>8. ASSUME NEW i \in DOMAIN orig' PROVE i < nextIdx'
  BY <1>3, <1>4, <1>8
<1>9. ASSUME NEW i \in DOMAIN orig', NEW x \in Numbers(orig'[i]) PROVE x < nextIdx'
  <2>1. i \in Nat /\ i < nextIdx /\ (Was(x, i) \/ Own(x, i) \/ Late(x, i))
    BY <1>4, <1>9
  <2>2. Was(x, i) => x \in Nat /\ x < nextIdx
    BY <1>6
  <2>3. Was(x, i) \/ Own(x, i) => x \in Nat /\ x < nextIdx
    BY <2>1, <2>2
  <2> QED
    BY <1>3, <2>1, <2>3
<1>10. NumbersBelow(orig', nextIdx')
  BY <1>8, <1>9 DEF NumbersBelow
<1> QED
  BY <1>7, <1>10

LEMMA ForgetWell ==
    ASSUME Full, Inv', Forget, UNCHANGED orig \/ Carried
    PROVE  Well'
<1>1. copy' = EmptyMap /\ new' = EmptyMap /\ DOMAIN EmptyMap = {}
  BY DEF Forget, EmptyMap
<1>2. /\ nextIdx \in Nat /\ nextIdx' \in {nextIdx, nextIdx + 1}
      /\ \A i \in DOMAIN orig : /\ i \in Nat
                                /\ \A x \in Numbers(orig[i]) : x \in Nat
  <2>1. nextIdx \in Nat /\ nextIdx' \in {nextIdx, nextIdx + 1}
    BY DEF Forget, Full, Inv, TypeOK
  <2>2. \A i \in DOMAIN orig : i \in Nat /\ IsRecord(orig[i])
    BY DEF Full, Inv, TypeOK, IsRecordSet
  <2> QED
    BY <2>1, <2>2, NumbersType
<1>3. NumbersApart(orig', orig') /\ NumbersBelow(orig', nextIdx')
  <2>1. CASE UNCHANGED orig
    BY <1>2, <2>1 DEF Full, IndicesUnique, NumbersApart, NumbersBelow
  <2>2. CASE Carried
    BY <2>2, CarriedWell
  <2> QED
    BY <2>1, <2>2
<1>4. IndicesUnique'
  BY <1>1, <1>3 DEF IndicesUnique, NumbersApart, NumbersBelow
<1>5. ModsWellFormed'
  BY <1>1 DEF ModsWellFormed, Inv, OrigClean
<1> QED
  BY <1>4, <1>5 DEF Well

LEMMA FullKept ==
    ASSUME Full, [Next]_vars
    PROVE  Full'
<1>1. Inv'
  BY NextKeeps DEF Full
<1>2. Well'
  <2>1. CASE EditCall
    BY <2>1, EditCallWell
  <2>2. CASE FlushNothing
    BY <1>1, <2>2, ForgetWell DEF FlushNothing
  <2>3. CASE FlushCommit
    BY <1>1, <2>3, ForgetWell DEF FlushCommit
  <2>4. CASE FlushAbort
    BY <1>1, <2>4, ForgetWell DEF FlushAbort
  <2>5. CASE FlushLock
    BY <1>1, <2>5, ForgetWell DEF FlushLock
  <2>6. CASE UNCHANGED vars
    BY <2>6 DEF vars, Well, Full, ModsWellFormed, IndicesUnique
  <2> QED
    BY <2>1, <2>2, <2>3, <2>4, <2>5, <2>6 DEF Next
<1> QED
  BY <1>1, <1>2 DEF Full, Well

LEMMA InitFull == Init => Full
<1> SUFFICES ASSUME Init PROVE Full
  OBVIOUS
<1>1. Inv
  BY InitInv
<1>2. copy = EmptyMap /\ new = EmptyMap /\ DOMAIN EmptyMap = {} /\ nextIdx = FirstIdx
  BY DEF Init, EmptyMap
<1>3. /\ \A i \in DOMAIN orig : /\ orig[i].mods = {} /\ i < FirstIdx
                                /\ \A t \in DOMAIN orig[i].threads : t < FirstIdx
      /\ \A i, j \in DOMAIN orig :
            i # j => DOMAIN orig[i].threads \cap DOMAIN orig[j].threads = {}
  BY ArchiveAssumption DEF Init
<1>4. \A i \in DOMAIN orig : Numbers(orig[i]) = DOMAIN orig[i].threads
  BY <1>3 DEF Numbers, ModsOfKind
<1>5. NumbersApart(orig, orig) /\ NumbersBelow(orig, nextIdx)
  BY <1>2, <1>3, <1>4 DEF NumbersApart, NumbersBelow
<1>6. IndicesUnique
  BY <1>2, <1>5 DEF IndicesUnique, NumbersApart, NumbersBelow
<1>7. ModsWellFormed
  BY <1>1, <1>2 DEF ModsWellFormed, Inv, OrigClean
<1> QED
  BY <1>1, <1>6, <1>7 DEF Full

(* The strengthened invariant: each of its parts needs the others. *)
THEOREM FullInvariance == Spec => []Full
<1>1. Full /\ [Next]_vars => Full'
  BY FullKept
<1> QED
  BY InitFull, <1>1, PTL DEF Spec

(* No sequence of calls leaves a modification list a flush cannot carry    *)
(* out: at most one entry to a thread, changes only of threads that are    *)
(* there, and nothing but adds on a record that is new.                    *)
THEOREM ModsCorrect == Spec => []ModsWellFormed
<1>1. Full => ModsWellFormed
  BY DEF Full
<1> QED
  BY FullInvariance, <1>1, PTL

(* Record and thread indices given to the application stay unambiguous     *)
(* across edits, flushes and aborts (Nu_GetNextRecordIdx,                  *)
(* Nu_GetNextThreadIdx).                                                   *)
THEOREM IndicesCorrect == Spec => []IndicesUnique
<1>1. Full => IndicesUnique
  BY DEF Full
<1> QED
  BY FullInvariance, <1>1, PTL

-----------------------------------------------------------------------------
(***************************************************************************)
(* No record comes to hold threads that exclude each other, and the name   *)
(* NufxLib shows for a record is the one in the file.  Both are about what *)
(* a record will be once its pending modifications are carried out, so     *)
(* they rest on modification lists being well-formed.                      *)
(***************************************************************************)
(* What a record will hold *)

(* Once its modifications are carried out, r has a thread t of kind id.    *)
Future(r, t, id) ==
    \/ t \in DOMAIN r.threads \ Deleted(r) /\ r.threads[t].id = id
    \/ \E m \in r.mods : m.kind = "add" /\ m.tidx = t /\ m.id = id

(* Two kinds of thread a record may not both have (a = b: not twice) *)
Forks == {"data", "rsrc", "disk"}

Excludes(a, b) ==
    \/ a \in Forks /\ b \in Forks /\ (a = b \/ "disk" \in {a, b})
    \/ "control" \in {a, b} /\ {a, b} \cap Forks # {}

Fits(r) == \A t, u, a, b : Future(r, t, a) /\ Future(r, u, b) /\ Excludes(a, b)
                              => t = u /\ a = b

(* A filename on its way to r: what justifies dropping the header's name *)
NamePending(r) == \E m \in r.mods : m.kind = "add" /\ m.id = "filename"

GoodOrig(r) ==
    /\ Fits(r)
    /\ r.name = ReadName(Stored(r))
    /\ \A t, u \in FilenameThreads(r.threads) : t = u

GoodCopy(r, o) == Fits(r) /\ (r.drop # o.drop => NamePending(r))

GoodNew(r) ==
    /\ Fits(r)
    /\ \A m, o \in r.mods : m.id = "filename" /\ o.id = "filename" => m = o

Good ==
    /\ \A i \in DOMAIN orig : GoodOrig(orig[i])
    /\ \A i \in DOMAIN copy : GoodCopy(copy[i], orig[i])
    /\ \A i \in DOMAIN new : GoodNew(new[i])

(* An addition is not yet among the threads, and nothing else has its      *)
(* number: what ThreadsAfter makes of a list without contradictions.       *)
LEMMA ThreadsAfterIs ==
    ASSUME NEW r, IsRecord(r), OneModPerThread(r)
    PROVE  /\ DOMAIN ThreadsAfter(r.threads, r.mods) =
                (DOMAIN r.threads \ Deleted(r))
                  \cup {m.tidx : m \in {x \in r.mods : x.kind # "delete"}}
           /\ \A m \in r.mods : m.kind # "delete" =>
                 ThreadsAfter(r.threads, r.mods)[m.tidx] = [id |-> m.id, val |-> m.val]
           /\ \A t \in DOMAIN ThreadsAfter(r.threads, r.mods) :
                 (\A m \in r.mods : m.tidx # t) =>
                    /\ t \in DOMAIN r.threads
                    /\ ThreadsAfter(r.threads, r.mods)[t] = r.threads[t]
<1> DEFINE ts    == ThreadsAfter(r.threads, r.mods)
           gone  == {m.tidx : m \in {x \in r.mods : x.kind = "delete"}}
           put   == {m \in r.mods : m.kind # "delete"}
           final == (DOMAIN r.threads \ gone) \cup {m.tidx : m \in put}
           val(t) == IF \E m \in put : m.tidx = t
                       THEN LET m == CHOOSE x \in put : x.tidx = t
                            IN  [id |-> m.id, val |-> m.val]
                       ELSE r.threads[t]
<1>1. ts = [t \in final |-> val(t)]
  BY DEF ThreadsAfter
<1>2. ASSUME NEW m \in put PROVE val(m.tidx) = [id |-> m.id, val |-> m.val]
  <2>1. (CHOOSE x \in put : x.tidx = m.tidx) = m
    BY DEF OneModPerThread
  <2> QED
    BY <2>1
<1>3. ASSUME NEW t \in final, \A m \in r.mods : m.tidx # t
      PROVE  t \in DOMAIN r.threads /\ val(t) = r.threads[t]
  BY <1>3
<1> HIDE DEF val, ts
<1>4. DOMAIN ts = (DOMAIN r.threads \ Deleted(r))
                   \cup {m.tidx : m \in {x \in r.mods : x.kind # "delete"}}
  BY <1>1 DEF Deleted, ModsOfKind
<1>5. \A m \in r.mods : m.kind # "delete" => ts[m.tidx] = [id |-> m.id, val |-> m.val]
  BY <1>1, <1>2
<1>6. \A t \in DOMAIN ts :
         (\A m \in r.mods : m.tidx # t) =>
            t \in DOMAIN r.threads /\ ts[t] = r.threads[t]
  BY <1>1, <1>3
<1> QED
  BY <1>4, <1>5, <1>6 DEF ts

LEMMA ThreadPut ==
    ASSUME NEW r, IsRecord(r), OneModPerThread(r), NEW m \in r.mods, m.kind # "delete"
    PROVE  /\ m.tidx \in DOMAIN ThreadsAfter(r.threads, r.mods)
           /\ ThreadsAfter(r.threads, r.mods)[m.tidx].id = m.id
           /\ ThreadsAfter(r.threads, r.mods)[m.tidx].val = m.val
<1> DEFINE ts == ThreadsAfter(r.threads, r.mods)
<1>2. \A o \in r.mods : o.kind # "delete" => ts[o.tidx] = [id |-> o.id, val |-> o.val]
  BY ThreadsAfterIs
<1>3. m.tidx \in DOMAIN ts
  BY DEF ThreadsAfter
<1> HIDE DEF ts
<1>4. ts[m.tidx] = [id |-> m.id, val |-> m.val]
  BY <1>2
<1>5. ts[m.tidx].id = m.id /\ ts[m.tidx].val = m.val
  BY <1>4
<1> QED
  BY <1>3, <1>5 DEF ts

(* ... so that Future says what it should. *)
LEMMA FutureIs ==
    ASSUME NEW r, IsRecord(r), OneModPerThread(r), NEW t, NEW id
    PROVE  LET ts == ThreadsAfter(r.threads, r.mods)
           IN  Future(r, t, id) <=> t \in DOMAIN ts /\ ts[t].id = id
<1> DEFINE ts == ThreadsAfter(r.threads, r.mods)
<1>1. /\ DOMAIN ts = (DOMAIN r.threads \ Deleted(r))
                       \cup {m.tidx : m \in {x \in r.mods : x.kind # "delete"}}
      /\ \A m \in r.mods : m.kind # "delete" => ts[m.tidx].id = m.id
      /\ \A u \in DOMAIN ts : (\A m \in r.mods : m.tidx # u) =>
            u \in DOMAIN r.threads /\ ts[u] = r.threads[u]
  <2>1. \A m \in r.mods : m.kind # "delete" => ts[m.tidx].id = m.id
    BY ThreadPut
  <2> QED
    BY <2>1, ThreadsAfterIs
<1> HIDE DEF ts
<1>2. r.mods \subseteq Mod
  BY DEF IsRecord
<1>3. \A m \in r.mods : m.kind \in {"add", "update", "delete"}
  BY <1>2 DEF Mod
<1>4. ASSUME Future(r, t, id) PROVE t \in DOMAIN ts /\ ts[t].id = id
  <2>1. CASE \E m \in r.mods : m.kind = "add" /\ m.tidx = t /\ m.id = id
    BY <1>1, <2>1
  <2>2. CASE t \in DOMAIN r.threads \ Deleted(r) /\ r.threads[t].id = id
    <3>1. CASE \A m \in r.mods : m.tidx # t
      BY <1>1, <2>2, <3>1
    <3>2. ASSUME NEW m \in r.mods, m.tidx = t PROVE t \in DOMAIN ts /\ ts[t].id = id
      <4>1. m.kind = "update" /\ m.id = id
        BY <1>3, <2>2, <3>2 DEF OneModPerThread, Deleted, ModsOfKind
      <4> QED
        BY <1>1, <3>2, <4>1
    <3> QED
      BY <3>1, <3>2
  <2> QED
    BY <1>4, <2>1, <2>2 DEF Future
<1>5. ASSUME t \in DOMAIN ts, ts[t].id = id PROVE Future(r, t, id)
  <2>1. CASE \A m \in r.mods : m.tidx # t
    BY <1>1, <1>5, <2>1 DEF Future, Deleted, ModsOfKind
  <2>2. ASSUME NEW m \in r.mods, m.tidx = t PROVE Future(r, t, id)
    <3>1. m.kind # "delete"
      <4>1. ASSUME m.kind = "delete" PROVE FALSE
        <5>1. t \in Deleted(r)
          BY <2>2, <4>1 DEF Deleted, ModsOfKind
        <5>2. PICK o \in r.mods : o.kind # "delete" /\ o.tidx = t
          BY <1>1, <1>5, <5>1
        <5> QED
          BY <2>2, <4>1, <5>2 DEF OneModPerThread
      <4> QED
        BY <4>1
    <3>2. m.id = id
      BY <1>1, <1>5, <2>2, <3>1
    <3>3. CASE m.kind = "add"
      BY <2>2, <3>2, <3>3 DEF Future
    <3>4. CASE m.kind = "update"
      <4>1. t \in DOMAIN r.threads /\ r.threads[t].id = id
        BY <2>2, <3>2, <3>4 DEF OneModPerThread
      <4>2. t \notin Deleted(r)
        BY <2>2, <3>4 DEF OneModPerThread, Deleted, ModsOfKind
      <4> QED
        BY <4>1, <4>2 DEF Future
    <3> QED
      BY <1>3, <3>1, <3>3, <3>4
  <2> QED
    BY <2>1, <2>2
<1> QED
  BY <1>4, <1>5 DEF ts

LEMMA FitsIs ==
    ASSUME NEW r, IsRecord(r), OneModPerThread(r)
    PROVE  Fits(r) <=> ThreadsCompatible(ThreadsAfter(r.threads, r.mods))
<1> DEFINE ts == ThreadsAfter(r.threads, r.mods)
<1>1. \A t, id : Future(r, t, id) <=> t \in DOMAIN ts /\ ts[t].id = id
  BY FutureIs
<1> HIDE DEF ts
<1>2. ASSUME Fits(r), NEW t \in DOMAIN ts, NEW u \in DOMAIN ts,
             Excludes(ts[t].id, ts[u].id)
      PROVE  t = u
  <2>1. Future(r, t, ts[t].id) /\ Future(r, u, ts[u].id)
    BY <1>1
  <2> QED
    BY <1>2, <2>1 DEF Fits
<1>2a. ASSUME \A t, u \in DOMAIN ts : Excludes(ts[t].id, ts[u].id) => t = u
       PROVE  Fits(r)
  <2> SUFFICES ASSUME NEW t, NEW u, NEW a, NEW b, Future(r, t, a), Future(r, u, b),
                      Excludes(a, b)
               PROVE  t = u /\ a = b
    BY DEF Fits
  <2>1. t \in DOMAIN ts /\ ts[t].id = a /\ u \in DOMAIN ts /\ ts[u].id = b
    BY <1>1
  <2>2. t = u
    BY <1>2a, <2>1
  <2> QED
    BY <2>1, <2>2
<1>3. ASSUME \A t, u \in DOMAIN ts : Excludes(ts[t].id, ts[u].id) => t = u
      PROVE  ThreadsCompatible(ts)
  BY <1>3 DEF ThreadsCompatible, Excludes, Forks
<1>4. ASSUME ThreadsCompatible(ts), NEW t \in DOMAIN ts, NEW u \in DOMAIN ts,
             Excludes(ts[t].id, ts[u].id)
      PROVE  t = u
  BY <1>4 DEF ThreadsCompatible, Excludes, Forks
<1> QED
  BY <1>2, <1>2a, <1>3, <1>4 DEF ts

-----------------------------------------------------------------------------
(* One more modification *)

LEMMA AddModIs ==
    ASSUME NEW r, IsRecord(r), NEW m
    PROVE  /\ AddMod(r, m).threads = r.threads /\ AddMod(r, m).drop = r.drop
           /\ AddMod(r, m).mods = r.mods \cup {m}
BY DEF AddMod, IsRecord

LEMMA FutureAdd ==
    ASSUME NEW r, IsRecord(r), NEW k, NEW id, NEW v, NEW src, NEW t, NEW x
    PROVE  Future(AddMod(r, NewMod("add", k, id, v, src)), t, x)
              <=> Future(r, t, x) \/ (t = k /\ x = id)
<1> DEFINE m == NewMod("add", k, id, v, src)
<1>1. m.kind = "add" /\ m.tidx = k /\ m.id = id
  BY DEF NewMod
<1>2. AddMod(r, m).threads = r.threads /\ AddMod(r, m).mods = r.mods \cup {m}
  BY AddModIs
<1> HIDE DEF m
<1>3. Deleted(AddMod(r, m)) = Deleted(r)
  BY <1>1, <1>2 DEF Deleted, ModsOfKind
<1>4. Future(AddMod(r, m), t, x) <=> Future(r, t, x) \/ (t = k /\ x = id)
  BY <1>1, <1>2, <1>3 DEF Future
<1> QED
  BY <1>4 DEF m

LEMMA FutureChange ==
    ASSUME NEW r, IsRecord(r), NEW m, m.kind # "add", NEW t, NEW x,
           Future(AddMod(r, m), t, x)
    PROVE  Future(r, t, x)
<1>1. AddMod(r, m).threads = r.threads /\ AddMod(r, m).mods = r.mods \cup {m}
  BY AddModIs
<1>2. Deleted(r) \subseteq Deleted(AddMod(r, m))
  BY <1>1 DEF Deleted, ModsOfKind
<1> QED
  BY <1>1, <1>2 DEF Future

LEMMA FutureIDsIs ==
    ASSUME NEW r, NEW x
    PROVE  x \in FutureIDs(r) <=> \E t : Future(r, t, x)
BY DEF FutureIDs, Future, ModsOfKind

(* What is fit to be added fits.  For forks, disk images and control       *)
(* threads Nu_OkayToAddThread sees to that; the others fit anywhere.       *)
LEMMA AddFits ==
    ASSUME NEW r, IsRecord(r), Fits(r), NEW k, NEW id \in ThreadIDs, NEW v, NEW src,
           OkayToAddThread(r, id) \/ id \in {"filename", "comment"}
    PROVE  Fits(AddMod(r, NewMod("add", k, id, v, src)))
<1> DEFINE a == AddMod(r, NewMod("add", k, id, v, src))
<1>1. ASSUME NEW u, NEW b, Future(r, u, b) PROVE ~Excludes(id, b) /\ ~Excludes(b, id)
  <2>1. CASE id \in {"filename", "comment"}
    BY <2>1 DEF Excludes, Forks
  <2>2. CASE OkayToAddThread(r, id)
    <3>1. b \in FutureIDs(r) /\ id \in AllThreadIDs
      BY <1>1, FutureIDsIs, RecordAssumption
    <3>2. b \notin Clashes(id)
      BY <2>2, <3>1 DEF OkayToAddThread
    <3>3. id \in Forks => b # "control"
      BY <2>2, <3>1 DEF OkayToAddThread, ThreadClass, Forks
    <3>4. id = "control" => b \notin Forks
      BY <2>2, <3>1 DEF OkayToAddThread, ThreadClass, Forks
    <3> QED
      BY <3>1, <3>2, <3>3, <3>4 DEF Excludes, Forks, Clashes, AllThreadIDs
  <2> QED
    BY <2>1, <2>2
<1>2. \A t, x : Future(a, t, x) <=> Future(r, t, x) \/ (t = k /\ x = id)
  BY FutureAdd
<1> HIDE DEF a
<1> SUFFICES ASSUME NEW t, NEW u, NEW x, NEW y, Future(a, t, x), Future(a, u, y),
                    Excludes(x, y)
             PROVE  t = u /\ x = y
  BY DEF Fits, a
<1>3. Future(r, t, x) \/ (t = k /\ x = id)
  BY <1>2
<1>4. Future(r, u, y) \/ (u = k /\ y = id)
  BY <1>2
<1>5. CASE Future(r, t, x) /\ Future(r, u, y)
  BY <1>5 DEF Fits
<1> QED
  BY <1>1, <1>3, <1>4, <1>5

LEMMA ChangeFits ==
    ASSUME NEW r, IsRecord(r), Fits(r), NEW m, m.kind # "add"
    PROVE  Fits(AddMod(r, m))
<1>1. \A t, x : Future(AddMod(r, m), t, x) => Future(r, t, x)
  BY FutureChange
<1> QED
  BY <1>1 DEF Fits

LEMMA AddGood ==
    ASSUME NEW r, IsRecord(r), NEW o, GoodCopy(r, o), NEW k, NEW id \in ThreadIDs,
           NEW v, NEW src, OkayToAddThread(r, id) \/ id \in {"filename", "comment"},
           NEW b, b.threads = r.threads,
           b.mods = r.mods \cup {NewMod("add", k, id, v, src)},
           b.drop # r.drop => id = "filename"
    PROVE  GoodCopy(b, o)
<1> DEFINE m == NewMod("add", k, id, v, src)
           a == AddMod(r, m)
<1>1. Fits(a)
  BY AddFits DEF GoodCopy
<1>2. /\ a.threads = r.threads /\ a.mods = r.mods \cup {m}
      /\ m.kind = "add" /\ m.id = id
  BY AddModIs DEF NewMod
<1>3. b.mods = r.mods \cup {m}
  OBVIOUS
<1> HIDE DEF a, m
<1>4. \A t, x : Future(b, t, x) <=> Future(a, t, x)
  BY <1>2, <1>3 DEF Future, Deleted, ModsOfKind
<1>5. Fits(b)
  BY <1>1, <1>4 DEF Fits
<1>6. b.drop # o.drop => NamePending(b)
  BY <1>2, <1>3 DEF GoodCopy, NamePending
<1> QED
  BY <1>5, <1>6 DEF GoodCopy

LEMMA ChangeGood ==
    ASSUME NEW r, IsRecord(r), NEW o, GoodCopy(r, o), NEW m, m.kind # "add"
    PROVE  GoodCopy(AddMod(r, m), o)
<1>1. Fits(AddMod(r, m))
  BY ChangeFits DEF GoodCopy
<1> QED
  BY <1>1, AddModIs DEF GoodCopy, NamePending

-----------------------------------------------------------------------------
(* Edit calls *)

Whole == Full /\ Good

LEMMA CurGood ==
    ASSUME Whole, NEW i \in DOMAIN Cur
    PROVE  /\ IsRecord(Cur[i]) /\ OneModPerThread(Cur[i])
           /\ i \in DOMAIN orig
           /\ GoodCopy(Cur[i], orig[i])
<1>1. IsRecord(Cur[i]) /\ OneModPerThread(Cur[i]) /\ i \in DOMAIN orig
  BY CurWellFormed, CurDerived DEF Whole, Full
<1>2. GoodCopy(Cur[i], orig[i])
  BY <1>1 DEF Cur, Whole, Good, GoodOrig, GoodCopy
<1> QED
  BY <1>1, <1>2

LEMMA NewGood ==
    ASSUME Whole, NEW i \in DOMAIN new
    PROVE  /\ IsRecord(new[i]) /\ OneModPerThread(new[i]) /\ GoodNew(new[i])
           /\ DOMAIN new[i].threads = {}
BY DEF Whole, Full, Good, ModsWellFormed, Inv, TypeOK, IsRecordSet

(* What an edit call has to keep up *)
LEMMA EditGood ==
    ASSUME Whole, NEW used, Edit(used),
           \A i \in DOMAIN copy' : GoodCopy(copy'[i], orig[i]),
           \A i \in DOMAIN new' : GoodNew(new'[i])
    PROVE  Good'
BY DEF Edit, Whole, Good

LEMMA LessGood ==
    ASSUME Whole, NEW used, Edit(used), UNCHANGED new, NEW S, SetCopy(S),
           DOMAIN S \subseteq DOMAIN Cur, \A i \in DOMAIN S : S[i] = Cur[i]
    PROVE  Good'
<1>1. \A i \in DOMAIN copy' : GoodCopy(copy'[i], orig[i])
  BY CurGood DEF SetCopy
<1>2. \A i \in DOMAIN new' : GoodNew(new'[i])
  BY NewGood
<1> QED
  BY <1>1, <1>2, EditGood

LEMMA ExceptGood ==
    ASSUME Whole, NEW used, Edit(used), UNCHANGED new, NEW i \in DOMAIN Cur,
           NEW r, GoodCopy(r, orig[i]), SetCopy([Cur EXCEPT ![i] = r])
    PROVE  Good'
<1>1. \A j \in DOMAIN copy' : /\ j \in DOMAIN Cur
                              /\ copy'[j] = IF j = i THEN r ELSE Cur[j]
  BY DEF SetCopy
<1>2. \A j \in DOMAIN copy' : GoodCopy(copy'[j], orig[j])
  BY <1>1, CurGood
<1>3. \A j \in DOMAIN new' : GoodNew(new'[j])
  BY NewGood
<1> QED
  BY <1>2, <1>3, EditGood

LEMMA AddRecordThenGood ==
    ASSUME Whole, NEW r, GoodNew(r), NEW dups, NEW used, AddRecordThen(r, dups, used)
    PROVE  Good'
<1>1. \A i \in DOMAIN With(new, nextIdx, r) : GoodNew(With(new, nextIdx, r)[i])
  BY NewGood DEF With
<1>2. ASSUME UNCHANGED <<copy, copyLoaded>>, new' = With(new, nextIdx, r), Edit(used)
      PROVE  Good'
  BY <1>1, <1>2, EditGood DEF Whole, Good
<1>3. ASSUME NEW i, SetCopy(Without(Cur, {i})),
             \/ new' = With(new, nextIdx, r) /\ Edit(used)
             \/ UNCHANGED new /\ Edit(0)
      PROVE  Good'
  <2>1. \A j \in DOMAIN copy' : j \in DOMAIN Cur /\ copy'[j] = Cur[j]
    BY <1>3 DEF SetCopy, Without, Restrict
  <2>2. \A j \in DOMAIN copy' : GoodCopy(copy'[j], orig[j])
    BY <2>1, CurGood
  <2>3. \A j \in DOMAIN new' : GoodNew(new'[j])
    BY <1>1, <1>3, NewGood
  <2> QED
    BY <1>3, <2>2, <2>3, EditGood
<1> QED
  BY <1>2, <1>3 DEF AddRecordThen, HandleAddDuplicateRecord

LEMMA NewRecordGood ==
    ASSUME NEW n \in Names
    PROVE  IsRecord(NewRecord(n, NewAttr)) /\ GoodNew(NewRecord(n, NewAttr))
<1> DEFINE r == NewRecord(n, NewAttr)
<1>1. r.mods = {} /\ DOMAIN r.threads = {}
  BY DEF NewRecord, EmptyMap
<1> QED
  BY <1>1, NewRecordType DEF GoodNew, Fits, Future

(* A thread joins a record of the new set. *)
LEMMA AddNewGood ==
    ASSUME NEW r, IsRecord(r), GoodNew(r), NEW k, NEW id \in ThreadIDs, NEW v, NEW src,
           \/ OkayToAddThread(r, id)
           \/ id = "comment",
           id = "filename" => \A m \in r.mods : m.id # "filename"
    PROVE  GoodNew(AddMod(r, NewMod("add", k, id, v, src)))
<1>1. Fits(AddMod(r, NewMod("add", k, id, v, src)))
  BY AddFits DEF GoodNew
<1>2. AddMod(r, NewMod("add", k, id, v, src)).mods = r.mods \cup {NewMod("add", k, id, v, src)}
  BY AddModIs
<1>3. NewMod("add", k, id, v, src).id = id
  BY DEF NewMod
<1> QED
  BY <1>1, <1>2, <1>3 DEF GoodNew

LEMMA AddFileGood ==
    ASSUME Whole, NEW n \in Names, NEW id \in ThreadIDs \ {"filename"},
           NEW v \in Data, NEW dups, AddFile(n, id, v, dups)
    PROVE  Good'
<1>1. ASSUME NEW i \in Named(new, n), OkayToAddThread(new[i], id),
             new' = [new EXCEPT ![i] = AddMod(@, NewMod("add", nextIdx, id, v, "file"))],
             Edit(1), UNCHANGED <<copy, copyLoaded>>
      PROVE  Good'
  <2>1. i \in DOMAIN new
    BY DEF Named
  <2>2. GoodNew(AddMod(new[i], NewMod("add", nextIdx, id, v, "file")))
    BY <1>1, <2>1, NewGood, AddNewGood
  <2>3. \A j \in DOMAIN new' : GoodNew(new'[j])
    BY <1>1, <2>1, <2>2, NewGood
  <2> QED
    BY <1>1, <2>3, EditGood DEF Whole, Good
<1>2. ASSUME AddRecordThen(AddMod(NewRecord(n, NewAttr),
                                  NewMod("add", nextIdx + 1, id, v, "file")), dups, 2)
      PROVE  Good'
  <2>1. OkayToAddThread(NewRecord(n, NewAttr), id)
    BY DEF OkayToAddThread, FutureIDs, ModsOfKind, NewRecord, EmptyMap
  <2>2. GoodNew(AddMod(NewRecord(n, NewAttr), NewMod("add", nextIdx + 1, id, v, "file")))
    BY <2>1, NewRecordGood, AddNewGood
  <2> QED
    BY <1>2, <2>2, AddRecordThenGood
<1> QED
  BY <1>1, <1>2 DEF AddFile

(* A record after Nu_AddThread *)
LEMMA ThreadAddedIs ==
    ASSUME NEW r, IsRecord(r), NEW id, NEW v, NEW src
    PROVE  /\ ThreadAdded(r, id, v, src).threads = r.threads
           /\ ThreadAdded(r, id, v, src).mods = r.mods \cup {NewMod("add", nextIdx, id, v, src)}
           /\ ThreadAdded(r, id, v, src).drop # r.drop => id = "filename"
BY DEF ThreadAdded, AddMod, IsRecord

LEMMA AddThreadGood ==
    ASSUME Whole, NEW i, NEW id \in ThreadIDs, NEW v, NEW src, AddThread(i, id, v, src)
    PROVE  Good'
<1>1. ASSUME i \in DOMAIN Cur, OkayToAddThread(Cur[i], id), Edit(1), UNCHANGED new,
             SetCopy([Cur EXCEPT ![i] = ThreadAdded(@, id, v, src)])
      PROVE  Good'
  <2>1. GoodCopy(ThreadAdded(Cur[i], id, v, src), orig[i])
    BY <1>1, CurGood, ThreadAddedIs, AddGood
  <2> QED
    BY <1>1, <2>1, ExceptGood
<1>2. ASSUME Edit(0), UNCHANGED new, SetCopy(Cur) PROVE Good'
  BY <1>2, LessGood
<1>3. ASSUME i \in DOMAIN new, OkayToAddThread(new[i], id), Edit(1),
             UNCHANGED <<copy, copyLoaded>>,
             new' = [new EXCEPT ![i] = ThreadAdded(@, id, v, src)]
      PROVE  Good'
  <2> DEFINE m == NewMod("add", nextIdx, id, v, src)
             r == ThreadAdded(new[i], id, v, src)
  <2>1. id = "filename" => \A o \in new[i].mods : o.id # "filename"
    <3> SUFFICES ASSUME id = "filename", NEW o \in new[i].mods, o.id = "filename"
                 PROVE  FALSE
      OBVIOUS
    <3>1. o.kind = "add"
      BY <1>3, NewGood DEF OneModPerThread
    <3>2. "filename" \in FutureIDs(new[i])
      BY <3>1 DEF FutureIDs, ModsOfKind
    <3> QED
      BY <1>3, <3>2 DEF OkayToAddThread, Clashes
  <2>2. GoodNew(AddMod(new[i], m))
    BY <1>3, <2>1, NewGood, AddNewGood
  <2>3. r.threads = AddMod(new[i], m).threads /\ r.mods = AddMod(new[i], m).mods
    <3>1. IsRecord(new[i])
      BY <1>3, NewGood
    <3>2. r.threads = new[i].threads /\ r.mods = new[i].mods \cup {m}
      BY <3>1, ThreadAddedIs
    <3>3. /\ AddMod(new[i], m).threads = new[i].threads
          /\ AddMod(new[i], m).mods = new[i].mods \cup {m}
      BY <3>1, AddModIs
    <3> QED
      BY <3>2, <3>3
  <2>4. \A j \in DOMAIN new' : /\ j \in DOMAIN new
                              /\ new'[j] = IF j = i THEN r ELSE new[j]
    BY <1>3
  <2> HIDE DEF r, m
  <2>5. GoodNew(r)
    BY <2>2, <2>3 DEF GoodNew, Fits, Future, Deleted, ModsOfKind
  <2>6. \A j \in DOMAIN new' : GoodNew(new'[j])
    BY <2>4, <2>5, NewGood
  <2> QED
    BY <1>3, <2>6, EditGood DEF Whole, Good
<1> QED
  BY <1>1, <1>2, <1>3 DEF AddThread

LEMMA ChangeThreadGood ==
    ASSUME Whole, NEW i, NEW t, NEW v, NEW src,
           UpdatePresizedThread(i, t, v, src) \/ DeleteThread(i, t)
    PROVE  Good'
<1>1. i \in DOMAIN Cur /\ Edit(0) /\ UNCHANGED new
  BY DEF UpdatePresizedThread, DeleteThread
<1>2. CASE SetCopy(Cur)
  BY <1>1, <1>2, LessGood
<1>3. ASSUME NEW kind \in {"update", "delete"}, NEW w, NEW x,
             SetCopy([Cur EXCEPT ![i] = AddMod(@, NewMod(kind, t, Cur[i].threads[t].id, w, x))])
      PROVE  Good'
  <2> DEFINE m == NewMod(kind, t, Cur[i].threads[t].id, w, x)
  <2>1. m.kind # "add"
    BY DEF NewMod
  <2> HIDE DEF m
  <2>2. GoodCopy(AddMod(Cur[i], m), orig[i])
    BY <1>1, <2>1, CurGood, ChangeGood
  <2> QED
    BY <1>1, <1>3, <2>2, ExceptGood DEF m
<1> QED
  BY <1>2, <1>3 DEF UpdatePresizedThread, DeleteThread

LEMMA DeleteGood ==
    ASSUME Whole, NEW i, DeleteRecord(i) \/ Delete(i)
    PROVE  Good'
<1>1. /\ Edit(0) /\ UNCHANGED new
      /\ SetCopy(Cur) \/ \E I : SetCopy(Without(Cur, I))
  BY DEF DeleteRecord, Delete
<1> QED
  BY <1>1, LessGood DEF Without, Restrict

LEMMA RenameGood ==
    ASSUME Whole, NEW i, NEW n \in Names, NEW fits, Rename(i, n, fits)
    PROVE  Good'
<1> DEFINE r      == Cur[i]
           add    == NewMod("add", nextIdx, "filename", n, "buffer")
           upd(t) == NewMod("update", t, "filename", n, "buffer")
           del(t) == NewMod("delete", t, "filename", NoData, "buffer")
<1>1. /\ i \in DOMAIN Cur /\ UNCHANGED new /\ IsRecord(r)
      /\ GoodCopy(r, orig[i]) /\ "filename" \in ThreadIDs
  BY CurGood, RecordAssumption DEF Rename
<1>2. ASSUME NEW t, Edit(0), SetCopy([Cur EXCEPT ![i] = AddMod(@, upd(t))])
      PROVE  Good'
  <2>1. upd(t).kind # "add"
    BY DEF NewMod
  <2>2. GoodCopy(AddMod(r, upd(t)), orig[i])
    BY <1>1, <2>1, ChangeGood
  <2> QED
    BY <1>1, <1>2, <2>2, ExceptGood
<1>3. ASSUME NEW t \in FilenameThreads(r.threads), Edit(1),
             SetCopy([Cur EXCEPT ![i] = AddMod(AddMod(@, del(t)), add)])
      PROVE  Good'
  <2> DEFINE d == AddMod(r, del(t))
  <2>1. del(t).kind # "add"
    BY DEF NewMod
  <2>2. GoodCopy(d, orig[i])
    BY <1>1, <2>1, ChangeGood
  <2>3. IsRecord(d)
    <3>1. t \in Nat /\ NoData \in Contents
      BY <1>1 DEF FilenameThreads, IsRecord, IsThreadMap, Contents
    <3> QED
      BY <1>1, <3>1, NewModType
  <2>4. SetCopy([Cur EXCEPT ![i] = AddMod(d, add)])
    BY <1>3
  <2> HIDE DEF d
  <2>5. GoodCopy(AddMod(d, add), orig[i])
    BY <1>1, <2>2, <2>3, AddModIs, AddGood
  <2> QED
    BY <1>1, <1>3, <2>4, <2>5, ExceptGood
<1>4. ASSUME Edit(1),
             SetCopy([Cur EXCEPT ![i] = [AddMod(r, add) EXCEPT !.drop = TRUE]])
      PROVE  Good'
  <2> DEFINE b == [AddMod(r, add) EXCEPT !.drop = TRUE]
  <2>1. b.threads = r.threads /\ b.mods = r.mods \cup {add}
    BY <1>1 DEF AddMod, IsRecord
  <2> HIDE DEF b
  <2>2. GoodCopy(b, orig[i])
    BY <1>1, <2>1, AddGood
  <2> QED
    BY <1>1, <1>4, <2>2, ExceptGood DEF b
<1>5. ASSUME Edit(0), SetCopy(Cur) PROVE Good'
  BY <1>1, <1>5, LessGood
<1> QED
  BY <1>1, <1>2, <1>3, <1>4, <1>5 DEF Rename, IsFirst

LEMMA SetRecordAttrGood ==
    ASSUME Whole, NEW i, NEW a, SetRecordAttr(i, a)
    PROVE  Good'
<1> DEFINE r == [Cur[i] EXCEPT !.attr = a, !.dirty = TRUE]
<1>1. /\ i \in DOMAIN Cur /\ Edit(0) /\ UNCHANGED new
      /\ SetCopy([Cur EXCEPT ![i] = r]) /\ IsRecord(Cur[i])
      /\ GoodCopy(Cur[i], orig[i])
  BY CurGood DEF SetRecordAttr
<1>2. r.threads = Cur[i].threads /\ r.mods = Cur[i].mods /\ r.drop = Cur[i].drop
  BY <1>1 DEF IsRecord
<1> HIDE DEF r
<1>3. GoodCopy(r, orig[i])
  BY <1>1, <1>2 DEF GoodCopy, Fits, Future, Deleted, ModsOfKind, NamePending
<1> QED
  BY <1>1, <1>3, ExceptGood

LEMMA EditCallGood ==
    ASSUME Whole, EditCall
    PROVE  Good'
<1>1. ASSUME NEW n \in Names, NEW dups, AddRecord(n, dups) PROVE Good'
  BY <1>1, NewRecordGood, AddRecordThenGood DEF AddRecord
<1> QED
  BY <1>1, AddFileGood, AddThreadGood, ChangeThreadGood, DeleteGood, RenameGood,
     SetRecordAttrGood DEF EditCall

-----------------------------------------------------------------------------
(* Flushes *)

(* The threads of a record with everything carried out *)
LEMMA AppliedFits ==
    ASSUME NEW r, IsRecord(r), OneModPerThread(r), Fits(r)
    PROVE  Fits(Applied(r, r.mods))
<1> DEFINE a == Applied(r, r.mods)
<1>1. a.threads = ThreadsAfter(r.threads, r.mods) /\ a.mods = {}
  BY DEF Applied
<1>2. ASSUME NEW t, NEW id, Future(a, t, id) PROVE Future(r, t, id)
  <2>1. t \in DOMAIN a.threads /\ a.threads[t].id = id
    BY <1>1, <1>2 DEF Future
  <2> QED
    BY <1>1, <2>1, FutureIs
<1> HIDE DEF a
<1> QED
  BY <1>2 DEF Fits, a

(* The name read back from a record with one filename thread *)
LEMMA ReadNameIs ==
    ASSUME NEW s, NEW t \in Nat, FilenameThreads(s.threads) = {t}
    PROVE  ReadName(s) = s.threads[t].val
<1>1. (CHOOSE u \in {t} : \A w \in {t} : u <= w) = t
  OBVIOUS
<1> QED
  BY <1>1 DEF ReadName

(* A filename put into a record is its name afterwards. *)
LEMMA NameWritten ==
    ASSUME NEW r, IsRecord(r), OneModPerThread(r), OneFilename(r),
           NEW m \in r.mods, m.kind # "delete", m.id = "filename"
    PROVE  Applied(r, r.mods).name = ReadName(Stored(Applied(r, r.mods)))
<1> DEFINE ts == ThreadsAfter(r.threads, r.mods)
           written == {o.val : o \in {x \in r.mods : /\ x.kind # "delete"
                                                      /\ x.id = "filename"}}
<1>1. ASSUME NEW o \in r.mods, o.kind # "delete"
      PROVE  o.tidx \in DOMAIN ts /\ ts[o.tidx].id = o.id /\ ts[o.tidx].val = o.val
  BY <1>1, ThreadPut
<1>2. m.tidx \in FilenameThreads(ts) /\ ts[m.tidx].val = m.val
  BY <1>1 DEF FilenameThreads
<1>3. FilenameThreads(ts) = {m.tidx}
  BY <1>2 DEF OneFilename
<1>4. m.tidx \in Nat
  BY DEF IsRecord, Mod
<1>5. ASSUME NEW o \in r.mods, o.kind # "delete", o.id = "filename" PROVE o.val = m.val
  <2>1. o.tidx \in FilenameThreads(ts) /\ ts[o.tidx].val = o.val
    BY <1>1, <1>5 DEF FilenameThreads
  <2> QED
    BY <1>2, <1>3, <2>1
<1>6. written = {m.val}
  BY <1>5
<1>7. NameAfter(r, r.mods) = m.val
  <2>1. (CHOOSE n \in written : TRUE) = m.val
    BY <1>6
  <2> QED
    BY <1>6, <2>1 DEF NameAfter
<1> HIDE DEF ts
<1>8. Applied(r, r.mods).name = m.val /\ Stored(Applied(r, r.mods)).threads = ts
  BY <1>7 DEF Applied, Stored, ts
<1> QED
  BY <1>2, <1>3, <1>4, <1>8, ReadNameIs

(* A record of the archive, rebuilt or updated with all that r lists *)
LEMMA AppliedGood ==
    ASSUME NEW r, IsRecord(r), OneModPerThread(r), OneFilename(r),
           NEW o, IsRecord(o), GoodOrig(o), Derived(r, o), GoodCopy(r, o)
    PROVE  GoodOrig(Applied(r, r.mods))
<1> DEFINE ts == ThreadsAfter(r.threads, r.mods)
           a  == Applied(r, r.mods)
<1>1. Fits(a)
  BY AppliedFits DEF GoodCopy
<1>2. \A t, u \in FilenameThreads(a.threads) : t = u
  BY DEF OneFilename, Applied
<1>3. a.name = ReadName(Stored(a))
  <2>1. CASE \E m \in r.mods : m.kind # "delete" /\ m.id = "filename"
    BY <2>1, NameWritten
  <2>2. CASE ~ \E m \in r.mods : m.kind # "delete" /\ m.id = "filename"
    <3>1. /\ a.name = IF \/ FilenameThreads(ts) # {}
                         \/ FilenameThreads(r.threads) = {} THEN r.name
                      ELSE IF HeaderName(r) # NoName THEN HeaderName(r)
                      ELSE DefaultName
          /\ Stored(a).threads = ts /\ Stored(a).hname = HeaderName(r)
      BY <2>2 DEF Applied, NameAfter, Stored, HeaderName
    <3>2. r.threads = o.threads /\ r.name = o.name /\ r.drop = o.drop /\ r.hname = o.hname
      BY <2>2 DEF Derived, GoodCopy, NamePending
    <3>3. Stored(o).threads = o.threads /\ Stored(o).hname = HeaderName(r)
      BY <3>2 DEF Stored, HeaderName
    <3>4. o.name = ReadName(Stored(o))
      BY DEF GoodOrig
    <3> HIDE DEF ts, a
    <3>5. CASE FilenameThreads(ts) # {}
      <4>1. PICK t : t \in FilenameThreads(ts)
        BY <3>5
      <4>2. FilenameThreads(ts) = {t}
        BY <4>1 DEF OneFilename, ts
      <4>3. t \in DOMAIN r.threads /\ ts[t] = r.threads[t]
        <5>1. \A m \in r.mods : m.kind # "delete" => m.tidx # t
          <6> SUFFICES ASSUME NEW m \in r.mods, m.kind # "delete", m.tidx = t PROVE FALSE
            OBVIOUS
          <6>2. ts[t].id = m.id
            BY ThreadPut DEF ts
          <6> QED
            BY <2>2, <4>1, <6>2 DEF FilenameThreads
        <5>2. \A m \in r.mods : m.tidx # t
          <6> SUFFICES ASSUME NEW m \in r.mods, m.tidx = t PROVE FALSE
            OBVIOUS
          <6>1. m.kind = "delete" /\ t \in DOMAIN ts
            BY <4>1, <5>1 DEF FilenameThreads
          <6> QED
            BY <5>1, <6>1 DEF ThreadsAfter, ts
        <5>3. r.mods \in SUBSET r.mods /\ t \in DOMAIN ts
          BY <4>1 DEF FilenameThreads
        <5> QED
          BY <5>2, <5>3, ThreadsAfterIs DEF ts
      <4>4. t \in FilenameThreads(o.threads) /\ t \in Nat
        BY <3>2, <4>1, <4>3 DEF FilenameThreads, IsRecord, IsThreadMap
      <4>5. FilenameThreads(o.threads) = {t}
        BY <4>4 DEF GoodOrig
      <4>6. ReadName(Stored(o)) = o.threads[t].val
        BY <3>3, <4>4, <4>5, ReadNameIs
      <4>7. ReadName(Stored(a)) = ts[t].val
        BY <3>1, <4>2, <4>4, ReadNameIs
      <4> QED
        BY <3>1, <3>2, <3>4, <3>5, <4>3, <4>6, <4>7
    <3>6. CASE FilenameThreads(ts) = {}
      <4>1. ReadName(Stored(a)) = IF HeaderName(r) # NoName THEN HeaderName(r)
                                  ELSE DefaultName
        BY <3>1, <3>6 DEF ReadName
      <4>2. CASE FilenameThreads(r.threads) # {}
        BY <3>1, <3>6, <4>1, <4>2
      <4>3. CASE FilenameThreads(r.threads) = {}
        <5>1. ReadName(Stored(o)) = IF HeaderName(r) # NoName THEN HeaderName(r)
                                    ELSE DefaultName
          BY <3>2, <3>3, <4>3 DEF ReadName
        <5> QED
          BY <3>1, <3>2, <3>4, <4>1, <4>3, <5>1
      <4> QED
        BY <4>2, <4>3
    <3> QED
      BY <3>5, <3>6
  <2> QED
    BY <2>1, <2>2
<1> QED
  BY <1>1, <1>2, <1>3 DEF GoodOrig

(* An existing record updated in place, with some of its updates skipped   *)
LEMMA UpdatedGood ==
    ASSUME NEW r, IsRecord(r), OneModPerThread(r), NEW o, IsRecord(o), GoodOrig(o),
           Derived(r, o), GoodCopy(r, o), r.mods = ModsOfKind(r, "update"), NEW skip
    PROVE  GoodOrig(Applied(r, r.mods \ skip))
<1> DEFINE q == [r EXCEPT !.mods = r.mods \ skip]
<1>1. /\ q.threads = r.threads /\ q.mods = r.mods \ skip /\ q.drop = r.drop
      /\ q.name = r.name /\ q.hname = r.hname /\ q.attr = r.attr /\ q.dirty = r.dirty
  BY DEF IsRecord
<1>2. IsRecord(q) /\ OneModPerThread(q)
  BY <1>1 DEF IsRecord, OneModPerThread
<1>3. Applied(r, r.mods \ skip) = Applied(q, q.mods)
  BY <1>1 DEF Applied, NameAfter, HeaderName
<1> HIDE DEF q
<1>4. \A m \in r.mods : m.kind = "update"
  BY DEF ModsOfKind
<1>5. r.drop = o.drop
  BY <1>4 DEF GoodCopy, NamePending
<1>6. \A t, id : /\ Future(q, t, id) <=> Future(r, t, id)
                 /\ Future(q, t, id) <=> t \in DOMAIN r.threads /\ r.threads[t].id = id
  <2>1. Deleted(q) = {} /\ Deleted(r) = {}
    BY <1>1, <1>4 DEF Deleted, ModsOfKind
  <2> QED
    BY <1>1, <1>4, <2>1 DEF Future
<1>7. GoodCopy(q, o) /\ Derived(q, o)
  BY <1>1, <1>5, <1>6 DEF GoodCopy, Fits, Derived
<1>8. OneFilename(q)
  <2> SUFFICES ASSUME NEW t \in FilenameThreads(ThreadsAfter(q.threads, q.mods)),
                      NEW u \in FilenameThreads(ThreadsAfter(q.threads, q.mods))
               PROVE  t = u
    BY DEF OneFilename
  <2>1. Future(q, t, "filename") /\ Future(q, u, "filename")
    BY <1>2, FutureIs DEF FilenameThreads
  <2>2. t \in FilenameThreads(r.threads) /\ u \in FilenameThreads(r.threads)
    BY <1>6, <2>1 DEF FilenameThreads
  <2> QED
    BY <2>2 DEF Derived, GoodOrig
<1> QED
  BY <1>2, <1>3, <1>7, <1>8, AppliedGood

LEMMA OldAfterGood ==
    ASSUME Whole, NEW i \in DOMAIN OldRecords, NEW inPlace, NEW skip,
           inPlace => NoHeavyUpdates,
           OldRecords[i].mods \cap skip = {} => OneFilename(OldRecords[i])
    PROVE  GoodOrig(OldAfter(i, inPlace, skip))
<1> DEFINE r == OldRecords[i]
           o == orig[i]
<1>1. /\ i \in DOMAIN orig /\ IsRecord(r) /\ IsRecord(o) /\ OneModPerThread(r)
      /\ Derived(r, o) /\ o.mods = {} /\ ~o.dirty
  BY OldRecordsDerived, OldRecordsWell
     DEF Whole, Full, Inv, TypeOK, IsRecordSet, OrigClean
<1>2. GoodOrig(o)
  BY <1>1 DEF Whole, Good
<1>3. \/ Touched /\ i \in DOMAIN copy /\ r = copy[i]
      \/ ~Touched /\ r = o
  BY DEF OldRecords, Purged, Restrict
<1>4. GoodCopy(r, o)
  BY <1>2, <1>3 DEF Whole, Good, GoodOrig, GoodCopy
<1>5. CASE ~Modified(r)
  <2>1. r = o
    BY <1>1, <1>5, UnmodifiedIsOrig DEF Modified
  <2> QED
    BY <1>2, <1>5, <2>1 DEF OldAfter
<1>6. CASE Modified(r) /\ inPlace
  <2>1. Touched
    BY <1>1, <1>3, <1>6 DEF Modified
  <2>2. r.mods = ModsOfKind(r, "update")
    BY <1>6, <2>1 DEF NoHeavyUpdates
  <2> QED
    BY <1>1, <1>2, <1>4, <1>6, <2>2, UpdatedGood DEF OldAfter
<1>7. CASE Modified(r) /\ ~inPlace
  <2>1. CASE r.mods \cap skip = {}
    BY <1>1, <1>2, <1>4, <1>7, <2>1, AppliedGood DEF OldAfter
  <2>2. CASE r.mods \cap skip # {}
    BY <1>2, <1>7, <2>2 DEF OldAfter
  <2> QED
    BY <2>1, <2>2
<1> QED
  BY <1>5, <1>6, <1>7

(* A record on its way into the archive, the mimicked comment included *)
LEMMA FreshGood ==
    ASSUME Whole, NEW mimic, NEW i \in DOMAIN Fresh(mimic)
    PROVE  /\ IsRecord(Fresh(mimic)[i]) /\ OneModPerThread(Fresh(mimic)[i])
           /\ GoodNew(Fresh(mimic)[i]) /\ DOMAIN Fresh(mimic)[i].threads = {}
           /\ i \in Nat /\ i \notin Numbers(Fresh(mimic)[i])
<1> DEFINE f == Fresh(mimic)[i]
           m == NewMod("add", nextIdx, "comment", NoData, "buffer")
<1>1. i \in DOMAIN new /\ NewRecords[i] = new[i] /\ i \in DOMAIN NewRecords
  BY DEF Fresh, CommentAdded, NewRecords, Purged, Restrict
<1>2. /\ IsRecord(new[i]) /\ OneModPerThread(new[i]) /\ GoodNew(new[i])
      /\ DOMAIN new[i].threads = {}
  BY <1>1, NewGood
<1>3. /\ i \in Nat /\ nextIdx \in Nat /\ i < nextIdx
      /\ i \notin Numbers(new[i]) /\ nextIdx \notin Numbers(new[i])
  BY <1>1 DEF Whole, Full, Inv, TypeOK, IsRecordSet, IndicesUnique, NumbersBelow
<1>4. CASE f = new[i]
  BY <1>2, <1>3, <1>4
<1>5. CASE f # new[i]
  <2>1. f = AddMod(new[i], m)
    BY <1>1, <1>5 DEF Fresh, CommentAdded
  <2>2. IsRecord(f)
    BY FreshType DEF Whole, Full, IsRecordSet
  <2>3. OneModPerThread(f)
    BY <1>2, <1>3, <2>1, AddOne
  <2>4. GoodNew(f)
    BY <1>2, <2>1, AddNewGood, RecordAssumption
  <2>5. DOMAIN f.threads = {} /\ i \notin Numbers(f)
    BY <1>2, <1>3, <2>1, AddModNumbers DEF NewMod
  <2> QED
    BY <1>3, <2>2, <2>3, <2>4, <2>5
<1> QED
  BY <1>4, <1>5

LEMMA ConstructedGood ==
    ASSUME NEW r, IsRecord(r), OneModPerThread(r), GoodNew(r), DOMAIN r.threads = {},
           NEW i \in Nat, i \notin Numbers(r)
    PROVE  GoodOrig(Constructed(r, i))
<1> DEFINE m == NewMod("add", i, "filename", r.name, "buffer")
           w == WithFilename(r, i)
<1>1. /\ IsRecord(w) /\ OneModPerThread(w) /\ GoodNew(w) /\ DOMAIN w.threads = {}
      /\ \E o \in w.mods : o.id = "filename"
  <2>1. CASE \E o \in r.mods : o.id = "filename"
    BY <2>1 DEF WithFilename
  <2>2. CASE ~ \E o \in r.mods : o.id = "filename"
    <3>1. w = AddMod(r, m)
      BY <2>2 DEF WithFilename
    <3>2. r.name \in Names \cup {DefaultName} /\ "filename" \in ThreadIDs
      BY RecordAssumption DEF IsRecord
    <3>3. IsRecord(w)
      BY <3>1, <3>2, NewModType DEF Contents
    <3>4. OneModPerThread(w)
      BY <3>1, AddOne
    <3>5. w.mods = r.mods \cup {m} /\ w.threads = r.threads
      BY <3>1, AddModIs
    <3>6. m.id = "filename"
      BY DEF NewMod
    <3>7. Fits(w)
      BY <3>1, <3>2, AddFits DEF GoodNew
    <3> HIDE DEF m, w
    <3>8. GoodNew(w)
      BY <2>2, <3>5, <3>6, <3>7 DEF GoodNew
    <3> QED
      BY <3>3, <3>4, <3>5, <3>6, <3>8
  <2> QED
    BY <2>1, <2>2
<1> DEFINE a == Applied(w, w.mods)
<1>2. a = Constructed(r, i)
  BY DEF Constructed
<1> HIDE DEF w
<1>3. Fits(a)
  BY <1>1, AppliedFits DEF GoodNew
<1>4. OneFilename(w)
  <2> SUFFICES ASSUME NEW t \in FilenameThreads(ThreadsAfter(w.threads, w.mods)),
                      NEW u \in FilenameThreads(ThreadsAfter(w.threads, w.mods))
               PROVE  t = u
    BY DEF OneFilename
  <2>1. Future(w, t, "filename") /\ Future(w, u, "filename")
    BY <1>1, FutureIs DEF FilenameThreads
  <2> QED
    BY <1>1, <2>1 DEF Future, GoodNew
<1>5. \A t, u \in FilenameThreads(a.threads) : t = u
  BY <1>4 DEF OneFilename, Applied
<1>6. a.name = ReadName(Stored(a))
  <2>1. PICK o \in w.mods : o.id = "filename"
    BY <1>1
  <2>2. o.kind # "delete"
    BY <1>1, <2>1 DEF OneModPerThread
  <2> QED
    BY <1>1, <1>4, <2>1, <2>2, NameWritten
<1> QED
  BY <1>2, <1>3, <1>5, <1>6 DEF GoodOrig

LEMMA CarriedGood ==
    ASSUME Whole, Carried
    PROVE  \A i \in DOMAIN orig' : GoodOrig(orig'[i])
<1>1. PICK inPlace, mimic, skip :
         /\ inPlace => NoHeavyUpdates
         /\ \A i \in DOMAIN OldRecords :
               OldRecords[i].mods \cap skip = {} => OneFilename(OldRecords[i])
         /\ orig' = Outcome(inPlace, Fresh(mimic), skip)
  BY DEF Carried
<1> DEFINE fresh == Fresh(mimic)
           added == {j \in DOMAIN fresh : fresh[j].mods \cap skip = {}}
<1>2. orig' = [j \in DOMAIN OldRecords \cup added |->
                 IF j \in added THEN Constructed(fresh[j], j)
                 ELSE OldAfter(j, inPlace, skip)]
  BY <1>1 DEF Outcome
<1>3. ASSUME NEW i \in added PROVE GoodOrig(Constructed(fresh[i], i))
  BY FreshGood, ConstructedGood
<1>4. ASSUME NEW i \in DOMAIN OldRecords PROVE GoodOrig(OldAfter(i, inPlace, skip))
  BY <1>1, OldAfterGood
<1> HIDE DEF fresh, added
<1> QED
  BY <1>2, <1>3, <1>4

LEMMA ForgetGood ==
    ASSUME Whole, Forget, UNCHANGED orig \/ Carried
    PROVE  Good'
<1>1. DOMAIN copy' = {} /\ DOMAIN new' = {}
  BY DEF Forget, EmptyMap
<1>2. \A i \in DOMAIN orig' : GoodOrig(orig'[i])
  BY CarriedGood DEF Whole, Good
<1> QED
  BY <1>1, <1>2 DEF Good

LEMMA WholeKept ==
    ASSUME Whole, [Next]_vars
    PROVE  Whole'
<1>1. Full'
  BY FullKept DEF Whole
<1>2. Good'
  <2>1. CASE EditCall
    BY <2>1, EditCallGood
  <2>2. CASE FlushNothing
    BY <2>2, ForgetGood DEF FlushNothing
  <2>3. CASE FlushCommit
    BY <2>3, ForgetGood DEF FlushCommit
  <2>4. CASE FlushAbort
    BY <2>4, ForgetGood DEF FlushAbort
  <2>5. CASE FlushLock
    BY <2>5, ForgetGood DEF FlushLock
  <2>6. CASE UNCHANGED vars
    BY <2>6 DEF vars, Whole, Good
  <2> QED
    BY <2>1, <2>2, <2>3, <2>4, <2>5, <2>6 DEF Next
<1> QED
  BY <1>1, <1>2 DEF Whole

(* A record with nothing pending has the threads it has. *)
LEMMA FitsClean ==
    ASSUME NEW r, IsRecord(r), r.mods = {}
    PROVE  /\ OneModPerThread(r)
           /\ ThreadsAfter(r.threads, r.mods) = r.threads
<1>1. r.threads = [t \in DOMAIN r.threads |-> r.threads[t]]
  BY DEF IsRecord, IsThreadMap
<1> QED
  BY <1>1 DEF OneModPerThread, ThreadsAfter

LEMMA InitWhole == Init => Whole
<1> SUFFICES ASSUME Init PROVE Whole
  OBVIOUS
<1>1. Full /\ DOMAIN copy = {} /\ DOMAIN new = {} /\ orig \in Archives
  BY InitFull DEF Init, EmptyMap
<1>2. ASSUME NEW i \in DOMAIN orig PROVE GoodOrig(orig[i])
  <2>1. IsRecord(orig[i]) /\ orig[i].mods = {}
    BY <1>1 DEF Full, Inv, TypeOK, OrigClean, IsRecordSet
  <2>2. Fits(orig[i])
    BY <1>1, <2>1, FitsClean, FitsIs, WellFormedArchives
  <2> QED
    BY <1>1, <2>2, WellFormedArchives DEF GoodOrig
<1> QED
  BY <1>1, <1>2 DEF Whole, Good

(* What a record may hold, and what it is called, join the invariant. *)
THEOREM WholeInvariance == Spec => []Whole
<1>1. Whole /\ [Next]_vars => Whole'
  BY WholeKept
<1> QED
  BY InitWhole, <1>1, PTL DEF Spec

(* No record has, or will have once its pending changes are carried out, a *)
(* disk image next to a fork, a control thread next to data, or two of a   *)
(* kind (Nu_OkayToAddThread, which is asked about the record as it will    *)
(* be).                                                                    *)
THEOREM ThreadsCorrect == Spec => []NoConflictingThreads
<1>1. Whole => NoConflictingThreads
  <2> SUFFICES ASSUME Whole, NEW S \in {orig, copy, new}, NEW i \in DOMAIN S
               PROVE  ThreadsCompatible(ThreadsAfter(S[i].threads, S[i].mods))
    BY DEF NoConflictingThreads
  <2>1. IsRecord(S[i]) /\ Fits(S[i])
    BY DEF Whole, Full, Inv, TypeOK, IsRecordSet, Good, GoodOrig, GoodCopy, GoodNew
  <2>2. OneModPerThread(S[i])
    BY <2>1, FitsClean DEF Whole, Full, ModsWellFormed
  <2> QED
    BY <2>1, <2>2, FitsIs
<1> QED
  BY WholeInvariance, <1>1, PTL

(* The name NufxLib shows for a record, kept up in memory through renames, *)
(* deleted and added filename threads and names dropped from the header    *)
(* (filenameMOR), is the name a reader of the file would find.             *)
THEOREM NamesCorrect == Spec => []NameMatchesFile
<1>1. Whole => NameMatchesFile
  BY DEF Whole, Good, GoodOrig, NameMatchesFile
<1> QED
  BY WholeInvariance, <1>1, PTL

-----------------------------------------------------------------------------
(* A flush record by record *)

(* A record whose threads are at most updated keeps its one filename. *)
LEMMA UpdatedOneFilename ==
    ASSUME Whole, NEW i \in DOMAIN OldRecords,
           \A m \in OldRecords[i].mods : m.kind = "update"
    PROVE  OneFilename(OldRecords[i])
<1> DEFINE r == OldRecords[i]
<1>1. /\ i \in DOMAIN orig /\ IsRecord(r) /\ OneModPerThread(r)
      /\ Derived(r, orig[i])
  BY OldRecordsDerived, OldRecordsWell DEF Whole, Full, Inv, TypeOK, IsRecordSet
<1>2. GoodOrig(orig[i])
  BY <1>1 DEF Whole, Good
<1>3. SUFFICES ASSUME NEW t \in FilenameThreads(ThreadsAfter(r.threads, r.mods)),
                      NEW u \in FilenameThreads(ThreadsAfter(r.threads, r.mods))
               PROVE  t = u
  BY DEF OneFilename
<1>4. Future(r, t, "filename") /\ Future(r, u, "filename")
  BY <1>1, FutureIs DEF FilenameThreads
<1> HIDE DEF r
<1>5. t \in FilenameThreads(r.threads) /\ u \in FilenameThreads(r.threads)
  BY <1>4 DEF Future, FilenameThreads, r
<1> QED
  BY <1>1, <1>2, <1>5 DEF Derived, GoodOrig

LEMMA LightMods ==
    ASSUME Whole, NoHeavyUpdates, NEW i \in DOMAIN OldRecords, NEW m \in OldRecords[i].mods
    PROVE  m.kind = "update"
<1>1. CASE Touched
  BY <1>1 DEF NoHeavyUpdates, ModsOfKind
<1>2. CASE ~Touched
  BY <1>2 DEF OldRecords, Whole, Full, Inv, OrigClean
<1> QED
  BY <1>1, <1>2

(* What is fresh comes from new; only a comment from memory is put in. *)
LEMMA FreshIs ==
    ASSUME Whole, NEW mimic
    PROVE  /\ DOMAIN Fresh(mimic) = DOMAIN NewRecords
           /\ DOMAIN NewRecords \subseteq DOMAIN new
           /\ \A i \in DOMAIN Fresh(mimic) : \A m \in Fresh(mimic)[i].mods :
                 /\ m.kind = "add"
                 /\ m.src = "file" => m \in new[i].mods
           /\ Fresh(mimic) # NewRecords => mimic /\ DOMAIN NewRecords # {}
<1>1. DOMAIN Fresh(mimic) = DOMAIN NewRecords
  BY DEF Fresh, CommentAdded
<1>2. /\ DOMAIN NewRecords \subseteq DOMAIN new
      /\ \A i \in DOMAIN NewRecords : NewRecords[i] = new[i]
      /\ NewRecords = [i \in DOMAIN NewRecords |-> NewRecords[i]]
  BY DEF NewRecords, Purged, Restrict
<1>3. ASSUME NEW i \in DOMAIN Fresh(mimic), NEW m \in Fresh(mimic)[i].mods
      PROVE  m.kind = "add" /\ (m.src = "file" => m \in new[i].mods)
  <2>1. m.kind = "add"
    BY FreshGood DEF OneModPerThread
  <2>2. IsRecord(new[i])
    BY <1>1, <1>2 DEF Whole, Full, Inv, TypeOK, IsRecordSet
  <2>3. \/ Fresh(mimic)[i] = new[i]
        \/ \E v : Fresh(mimic)[i] =
                     AddMod(new[i], NewMod("add", nextIdx, "comment", v, "buffer"))
    BY <1>1, <1>2 DEF Fresh, CommentAdded
  <2>4. m \in new[i].mods \/ m.src = "buffer"
    <3>1. \A c : AddMod(new[i], c).mods = new[i].mods \cup {c}
      BY <2>2 DEF AddMod, IsRecord
    <3>2. \A v : NewMod("add", nextIdx, "comment", v, "buffer").src = "buffer"
      BY DEF NewMod
    <3> QED
      BY <2>3, <3>1, <3>2
  <2> QED
    BY <2>1, <2>4
<1>4. Fresh(mimic) # NewRecords => mimic /\ DOMAIN NewRecords # {}
  <2> SUFFICES ASSUME mimic, DOMAIN NewRecords = {}
               PROVE  CommentAdded(NewRecords) = NewRecords
    BY DEF Fresh
  <2> QED
    BY <1>2 DEF CommentAdded
<1> QED
  BY <1>1, <1>2, <1>3, <1>4

(* No modification is of two records: the answer of the error handler to   *)
(* one leaves the others alone.                                            *)
LEMMA ModsApart ==
    ASSUME Whole
    PROVE  /\ \A i, j \in DOMAIN OldRecords :
                 i # j => OldRecords[i].mods \cap OldRecords[j].mods = {}
           /\ \A i \in DOMAIN OldRecords, j \in DOMAIN new :
                 OldRecords[i].mods \cap new[j].mods = {}
           /\ \A i, j \in DOMAIN new : i # j => new[i].mods \cap new[j].mods = {}
<1>1. \A r : OneModPerThread(r) => \A m \in r.mods : m.tidx \in Numbers(r)
  BY DEF OneModPerThread, Numbers, ModsOfKind
<1>2. /\ \A i \in DOMAIN copy : OneModPerThread(copy[i])
      /\ \A i \in DOMAIN new : OneModPerThread(new[i])
      /\ \A i \in DOMAIN orig : orig[i].mods = {}
  BY DEF Whole, Full, ModsWellFormed
<1>3. /\ NumbersApart(copy, copy) /\ NumbersApart(copy, new) /\ NumbersApart(new, new)
      /\ DOMAIN copy \cap DOMAIN new = {}
  BY DEF Whole, Full, IndicesUnique, Inv, CopyOfOrig
<1>4. \/ OldRecords = orig
      \/ /\ DOMAIN OldRecords \subseteq DOMAIN copy
         /\ \A i \in DOMAIN OldRecords : OldRecords[i] = copy[i]
  BY DEF OldRecords, Purged, Restrict
<1>5. ASSUME NEW S, NEW T, NumbersApart(S, T), NEW i \in DOMAIN S, NEW j \in DOMAIN T,
             i # j, OneModPerThread(S[i]), OneModPerThread(T[j])
      PROVE  S[i].mods \cap T[j].mods = {}
  BY <1>1, <1>5 DEF NumbersApart
<1>6. ASSUME NEW i \in DOMAIN OldRecords, NEW j \in DOMAIN OldRecords, i # j
      PROVE  OldRecords[i].mods \cap OldRecords[j].mods = {}
  BY <1>2, <1>3, <1>4, <1>5, <1>6
<1>7. ASSUME NEW i \in DOMAIN OldRecords, NEW j \in DOMAIN new
      PROVE  OldRecords[i].mods \cap new[j].mods = {}
  BY <1>2, <1>3, <1>4, <1>5
<1>8. ASSUME NEW i \in DOMAIN new, NEW j \in DOMAIN new, i # j
      PROVE  new[i].mods \cap new[j].mods = {}
  BY <1>2, <1>3, <1>5, <1>8
<1> QED
  BY <1>6, <1>7, <1>8

(* Some modifications of each existing record skipped, and the new records *)
(* that are not there because of a skip: together they are one skip set,   *)
(* and the records come out as Carried would have them.                    *)
OldComesOut(r, i, inPlace) ==
    \E skip \in SUBSET OldRecords[i].mods :
       /\ \A m \in skip : m.src = "file" /\ (inPlace \/ m.kind = "add")
       /\ skip = {} => OneFilename(OldRecords[i])
       /\ r = OldAfter(i, inPlace, skip)

RecordsComeOut(M, S, N, inPlace, mimic) ==
    /\ DOMAIN S = DOMAIN OldRecords /\ DOMAIN N \subseteq DOMAIN Fresh(mimic)
    /\ \A i \in DOMAIN S : OldComesOut(S[i], i, inPlace)
    /\ \A i \in DOMAIN N : N[i] = Constructed(Fresh(mimic)[i], i)
    /\ \A i \in DOMAIN Fresh(mimic) \ DOMAIN N :
          \E m \in Fresh(mimic)[i].mods : m.src = "file"
    /\ M = [i \in DOMAIN M |-> M[i]] /\ DOMAIN M = DOMAIN S \cup DOMAIN N
    /\ \A i \in DOMAIN M : M[i] = IF i \in DOMAIN N THEN N[i] ELSE S[i]

SkipsTo(M, inPlace, mimic) ==
    \E skip \in SUBSET (FileMods(OldRecords) \cup FileMods(Fresh(mimic))) :
       /\ inPlace \/ \A m \in skip : m.kind = "add"
       /\ \A i \in DOMAIN OldRecords :
             OldRecords[i].mods \cap skip = {} => OneFilename(OldRecords[i])
       /\ M = Outcome(inPlace, Fresh(mimic), skip)

LEMMA SkipsTogether ==
    ASSUME Whole, NEW inPlace \in BOOLEAN, NEW mimic, NEW M, NEW S, NEW N,
           RecordsComeOut(M, S, N, inPlace, mimic)
    PROVE  SkipsTo(M, inPlace, mimic)
<1>0. /\ DOMAIN S = DOMAIN OldRecords /\ DOMAIN N \subseteq DOMAIN Fresh(mimic)
      /\ \A i \in DOMAIN S : OldComesOut(S[i], i, inPlace)
      /\ \A i \in DOMAIN N : N[i] = Constructed(Fresh(mimic)[i], i)
      /\ \A i \in DOMAIN Fresh(mimic) \ DOMAIN N :
            \E m \in Fresh(mimic)[i].mods : m.src = "file"
  BY DEF RecordsComeOut
<1> DEFINE F       == Fresh(mimic)
           ok(i, s) == /\ s \in SUBSET OldRecords[i].mods
                       /\ \A m \in s : m.src = "file" /\ (inPlace \/ m.kind = "add")
                       /\ s = {} => OneFilename(OldRecords[i])
                       /\ S[i] = OldAfter(i, inPlace, s)
           pick(i) == CHOOSE s : ok(i, s)
           late(i) == {m \in F[i].mods : m.src = "file"}
           left    == DOMAIN F \ DOMAIN N
           picked  == UNION {pick(i) : i \in DOMAIN OldRecords}
           tardy   == UNION {late(i) : i \in left}
           skip    == picked \cup tardy
           added   == {i \in DOMAIN F : F[i].mods \cap skip = {}}
<1>1. ASSUME NEW i \in DOMAIN OldRecords PROVE ok(i, pick(i))
  <2>1. \E s : ok(i, s)
    BY <1>0 DEF OldComesOut
  <2> HIDE DEF ok
  <2> QED
    BY <2>1
<1>2. \A i \in DOMAIN F : /\ i \in DOMAIN new /\ late(i) \subseteq new[i].mods
                          /\ \A m \in late(i) : m.kind = "add" /\ m.src = "file"
                                                /\ m \in F[i].mods
  BY FreshIs
<1>3. \A i \in DOMAIN OldRecords :
         /\ pick(i) \subseteq OldRecords[i].mods
         /\ \A m \in pick(i) : m.src = "file" /\ (inPlace \/ m.kind = "add")
         /\ pick(i) = {} => OneFilename(OldRecords[i])
         /\ S[i] = OldAfter(i, inPlace, pick(i))
  BY <1>1
<1> HIDE DEF pick, ok
<1>4. \A i \in left : late(i) # {}
  BY <1>0
<1>4a. \A m : m \in skip <=> \/ \E i \in DOMAIN OldRecords : m \in pick(i)
                            \/ \E i \in left : m \in late(i)
  <2> HIDE DEF late, left
  <2>1. \A m : m \in picked <=> \E i \in DOMAIN OldRecords : m \in pick(i)
    OBVIOUS
  <2>2. \A m : m \in tardy <=> \E i \in left : m \in late(i)
    OBVIOUS
  <2> HIDE DEF picked, tardy
  <2> QED
    BY <2>1, <2>2
<1>5. ASSUME NEW i \in DOMAIN OldRecords PROVE OldRecords[i].mods \cap skip = pick(i)
  <2>1. \A j \in DOMAIN OldRecords : j # i => OldRecords[i].mods \cap pick(j) = {}
    BY <1>3, ModsApart
  <2>2. \A j \in left : OldRecords[i].mods \cap late(j) = {}
    BY <1>2, ModsApart
  <2> HIDE DEF late, left, skip
  <2> QED
    BY <1>3, <1>4a, <2>1, <2>2
<1>6. ASSUME NEW i \in DOMAIN F
      PROVE  F[i].mods \cap skip = IF i \in left THEN late(i) ELSE {}
  <2>1. \A j \in DOMAIN OldRecords : F[i].mods \cap pick(j) = {}
    BY <1>2, <1>3, ModsApart, FreshIs
  <2>2. \A j \in left : j # i => F[i].mods \cap late(j) = {}
    BY <1>2, ModsApart, FreshIs
  <2>3. late(i) \subseteq F[i].mods
    OBVIOUS
  <2> HIDE DEF late, left, skip
  <2> QED
    BY <1>4a, <2>1, <2>2, <2>3
<1>7. added = DOMAIN N
  <2>1. added = DOMAIN F \ left
    BY <1>4, <1>6
  <2> QED
    BY <1>0, <2>1
<1>8. skip \subseteq FileMods(OldRecords) \cup FileMods(F)
  <2>1. \A i \in DOMAIN OldRecords : pick(i) \subseteq FileMods(OldRecords)
    BY <1>3 DEF FileMods
  <2>2. \A i \in left : late(i) \subseteq FileMods(F)
    BY DEF FileMods
  <2> HIDE DEF late, left, skip
  <2> QED
    BY <1>4a, <2>1, <2>2
<1>9. inPlace \/ \A m \in skip : m.kind = "add"
  <2>1. \A i \in left : i \in DOMAIN F
    OBVIOUS
  <2> HIDE DEF late, left, skip
  <2> QED
    BY <1>2, <1>3, <1>4a, <2>1
<1>10. \A i \in DOMAIN OldRecords :
          /\ OldRecords[i].mods \cap skip = {} => OneFilename(OldRecords[i])
          /\ S[i] = OldAfter(i, inPlace, skip)
  <2> SUFFICES ASSUME NEW i \in DOMAIN OldRecords
               PROVE  /\ OldRecords[i].mods \cap skip = {} => OneFilename(OldRecords[i])
                      /\ S[i] = OldAfter(i, inPlace, skip)
    OBVIOUS
  <2>1. OldRecords[i].mods \ skip = OldRecords[i].mods \ pick(i)
    BY <1>5
  <2>2. OldRecords[i].mods \cap pick(i) = pick(i)
    BY <1>3
  <2> HIDE DEF skip
  <2>3. OldAfter(i, inPlace, skip) = OldAfter(i, inPlace, pick(i))
    BY <1>5, <2>1, <2>2 DEF OldAfter
  <2> QED
    BY <1>3, <1>5, <2>3
<1> HIDE DEF skip, added
<1>11. M = Outcome(inPlace, F, skip)
  <2>1. Outcome(inPlace, F, skip)
          = [i \in DOMAIN OldRecords \cup added |->
               IF i \in added THEN Constructed(F[i], i) ELSE OldAfter(i, inPlace, skip)]
    BY DEF Outcome, added
  <2>2. M = [i \in DOMAIN S \cup DOMAIN N |-> IF i \in DOMAIN N THEN N[i] ELSE S[i]]
    BY DEF RecordsComeOut
  <2>3. \A i \in DOMAIN N : N[i] = Constructed(F[i], i)
    BY <1>0
  <2> HIDE DEF F
  <2> QED
    BY <1>0, <1>7, <1>10, <2>1, <2>2, <2>3
<1> QED
  BY <1>8, <1>9, <1>10, <1>11 DEF SkipsTo

-----------------------------------------------------------------------------
(* New records come after the existing ones *)

OldBeforeNew == \A i \in DOMAIN orig, j \in DOMAIN new : i < j

(* An edit call adds at most one record, under the next free index. *)
LEMMA EditCallAdds ==
    ASSUME EditCall
    PROVE  DOMAIN new' \subseteq DOMAIN new \cup {nextIdx}
<1> DEFINE Adds == DOMAIN new' \subseteq DOMAIN new \cup {nextIdx}
<1>1. ASSUME NEW r, NEW dups, NEW used, AddRecordThen(r, dups, used) PROVE Adds
  BY <1>1 DEF AddRecordThen, With
<1>2. ASSUME NEW n, NEW dups, AddRecord(n, dups) PROVE Adds
  BY <1>1, <1>2 DEF AddRecord
<1>3. ASSUME NEW n, NEW id, NEW v, NEW dups, AddFile(n, id, v, dups) PROVE Adds
  BY <1>1, <1>3 DEF AddFile
<1>4. ASSUME NEW i, NEW id, NEW v, NEW src, AddThread(i, id, v, src) PROVE Adds
  BY <1>4 DEF AddThread
<1>5. ASSUME NEW i, NEW t, NEW v, NEW src, UpdatePresizedThread(i, t, v, src)
      PROVE  Adds
  BY <1>5 DEF UpdatePresizedThread
<1>6. ASSUME NEW i, NEW t, DeleteThread(i, t) PROVE Adds
  BY <1>6 DEF DeleteThread
<1>7. ASSUME NEW i, DeleteRecord(i) \/ Delete(i) PROVE Adds
  BY <1>7 DEF DeleteRecord, Delete
<1>8. ASSUME NEW i, NEW n, NEW fits, Rename(i, n, fits) PROVE Adds
  BY <1>8 DEF Rename
<1>9. ASSUME NEW i, NEW a, SetRecordAttr(i, a) PROVE Adds
  BY <1>9 DEF SetRecordAttr
<1> QED
  BY <1>2, <1>3, <1>4, <1>5, <1>6, <1>7, <1>8, <1>9 DEF EditCall

LEMMA OldBeforeNewKept ==
    ASSUME Whole, OldBeforeNew, [Next]_vars
    PROVE  OldBeforeNew'
<1>1. CASE EditCall
  <2>1. orig' = orig /\ DOMAIN new' \subseteq DOMAIN new \cup {nextIdx}
    BY <1>1, EditCallKeepsOrig, EditCallAdds
  <2> QED
    BY <2>1 DEF OldBeforeNew, Whole, Full, Inv, RecordIndices
<1>2. CASE Forget
  BY <1>2 DEF Forget, OldBeforeNew, EmptyMap
<1>3. CASE UNCHANGED vars
  BY <1>3 DEF vars, OldBeforeNew
<1> QED
  BY <1>1, <1>2, <1>3
     DEF Next, FlushNothing, FlushCommit, FlushAbort, FlushLock

(* Every set of records is finite, being numbered below the counter. *)
LEMMA SetsBelow ==
    ASSUME Whole
    PROVE  /\ nextIdx \in Nat
           /\ \A S \in {orig, copy, new} :
                 DOMAIN S \subseteq Nat /\ \A i \in DOMAIN S : i < nextIdx
BY DEF Whole, Full, Inv, TypeOK, IsRecordSet, IndicesUnique, NumbersBelow
=============================================================================
