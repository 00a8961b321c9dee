------------------------------ MODULE NuRecord ------------------------------
(***************************************************************************)
(* Records, threads and deferred thread modifications: the data every edit *)
(* call of NufxLib works on, and the pure parts of Record.c, Thread.c and  *)
(* Deferred.c that decide what a modification list means.                  *)
(*                                                                         *)
(* A thread is its ThreadID and its contents; a thread's name on disk is   *)
(* its contents when the ThreadID is "filename".  Record and thread        *)
(* indices are the ones NufxLib hands to the application, both drawn from  *)
(* one counter (Archive.c:180-191).  A record set (the orig, copy and new  *)
(* lists of an archive) is a function from record index to record.  Lists  *)
(* only grow at the tail and indices only go up, so list order is index    *)
(* order and need not be kept.                                             *)
(***************************************************************************)
EXTENDS Naturals, FiniteSets, Functions

CONSTANTS
    Names,          \* storage names an application can give a record
    DefaultName,    \* kNuDefaultRecordName, the name of a nameless record
    NoName,         \* "no filename in the record header"
    Data,           \* contents of threads other than filename threads
    NoData,         \* contents of an empty thread
    Attrs,          \* the settable header fields, as one value
    ThreadIDs       \* the kinds of thread in use

AllThreadIDs == {"filename", "comment", "data", "disk", "rsrc", "control"}

ASSUME RecordAssumption ==
    /\ ThreadIDs \subseteq AllThreadIDs
    /\ "filename" \in ThreadIDs
    /\ "comment" \in ThreadIDs
    /\ NoName \notin Names \cup {DefaultName}

Contents == Names \cup {DefaultName} \cup Data \cup {NoData}

Thread == [id : ThreadIDs, val : Contents]

(* One entry of a record's pThreadMods list.  "src" tells a data source    *)
(* that is a file, opened only when the flush gets to it, from one that is *)
(* a buffer in memory.  A delete needs no contents.                        *)
Mod == [kind : {"add", "update", "delete"}, tidx : Nat,
        id : ThreadIDs, val : Contents, src : {"file", "buffer"}]

EmptyMap == [i \in {} |-> NoData]

IsThreadMap(ts) == /\ DOMAIN ts \subseteq Nat
                   /\ ts \in [DOMAIN ts -> Thread]

(* name is the filenameMOR cache, hname the name in the record header      *)
(* (recFilenameMOR), drop the dropRecFilename flag, dirty the dirtyHeader  *)
(* flag.                                                                   *)
IsRecord(r) ==
    /\ r \in [name : Names \cup {DefaultName}, hname : Names \cup {NoName},
              drop : BOOLEAN, dirty : BOOLEAN, attr : Attrs,
              threads : {r.threads}, mods : SUBSET Mod]
    /\ IsThreadMap(r.threads)
    /\ \A m \in r.mods : m.id = "filename" /\ m.kind # "delete" =>
          m.val \in Names \cup {DefaultName}

IsRecordSet(S) == /\ DOMAIN S \subseteq Nat
                  /\ S = [i \in DOMAIN S |-> S[i]]
                  /\ \A i \in DOMAIN S : IsRecord(S[i])

-----------------------------------------------------------------------------
(* Threads now and after the flush *)

Presized(id) == id \in {"filename", "comment"}

ThreadClass(id) ==
    CASE id = "filename" -> "filename"
      [] id = "comment"  -> "message"
      [] id = "control"  -> "control"
      [] OTHER           -> "data"

ModsOfKind(r, kind) == {m \in r.mods : m.kind = kind}

ModsOfThread(r, t) == {m \in r.mods : m.kind # "add" /\ m.tidx = t}

Deleted(r) == {m.tidx : m \in ModsOfKind(r, "delete")}

(* Mutant of FutureIDs: pending adds are not looked at. *)
PresentIDs(r) == {r.threads[t].id : t \in DOMAIN r.threads \ Deleted(r)}

(* Nu_FindNoFutureThread, Nu_FindNoFutureThreadClass: the kinds of thread  *)
(* the record will have, threads about to be deleted left out.             *)
FutureIDs(r) == {r.threads[t].id : t \in DOMAIN r.threads \ Deleted(r)}
                  \cup {m.id : m \in ModsOfKind(r, "add")}

Clashes(id) ==
    CASE id = "data"     -> {"data", "disk"}
      [] id = "rsrc"     -> {"rsrc", "disk"}
      [] id = "disk"     -> {"data", "rsrc", "disk"}
      [] id = "filename" -> {"filename"}
      [] OTHER           -> {}

(* Nu_OkayToAddThread: data and control threads do not mix, and some kinds *)
(* exclude themselves or each other.                                       *)
OkayToAddThread(r, id) ==
    /\ ThreadClass(id) = "data" => "control" \notin FutureIDs(r)
    /\ ThreadClass(id) = "control" =>
          \A x \in FutureIDs(r) : ThreadClass(x) # "data"
    /\ Clashes(id) \cap FutureIDs(r) = {}

(* Nu_RecordIsEmpty: as many deletes as threads, and no other modification *)
RecordIsEmpty(r) ==
    /\ ModsOfKind(r, "add") = {}
    /\ ModsOfKind(r, "update") = {}
    /\ Deleted(r) = DOMAIN r.threads

Modified(r) == r.mods # {} \/ r.dirty

-----------------------------------------------------------------------------
(* Carrying out modifications *)

AddMod(r, m) == [r EXCEPT !.mods = @ \cup {m}]

NewMod(kind, t, id, v, src) ==
    [kind |-> kind, tidx |-> t, id |-> id, val |-> v, src |-> src]

FilenameThreads(ts) == {t \in DOMAIN ts : ts[t].id = "filename"}

HeaderName(r) == IF r.drop THEN NoName ELSE r.hname

(* The threads of a rebuilt record: deleted ones gone, updated and added   *)
(* ones with the contents of their data source.                            *)
ThreadsAfter(ts, mods) ==
    LET gone  == {m.tidx : m \in {x \in mods : x.kind = "delete"}}
        put   == {m \in mods : m.kind # "delete"}
        final == (DOMAIN ts \ gone) \cup {m.tidx : m \in put}
    IN  [t \in final |->
            IF \E m \in put : m.tidx = t
              THEN LET m == CHOOSE x \in put : x.tidx = t
                   IN  [id |-> m.id, val |-> m.val]
              ELSE ts[t]]

(* Mutant of NameAfter: no default for a record that lost its names. *)
NameAfterNoDefault(r, mods) ==
    LET written == {m.val : m \in {x \in mods : /\ x.kind # "delete"
                                                /\ x.id = "filename"}}
    IN  IF written # {} THEN CHOOSE n \in written : TRUE
        ELSE IF FilenameThreads(ThreadsAfter(r.threads, mods)) # {}
               \/ FilenameThreads(r.threads) = {} THEN r.name
        ELSE HeaderName(r)

(* Mutant of NameAfter: the cached name outlives a rename. *)
NameAfterUnchanged(r, mods) == r.name

(* What becomes of filenameMOR.  A filename that was added or updated      *)
(* replaces it; a record left without a filename thread falls back on the  *)
(* name in its header, or on the default.                                  *)
NameAfter(r, mods) ==
    LET written == {m.val : m \in {x \in mods : /\ x.kind # "delete"
                                                /\ x.id = "filename"}}
    IN  IF written # {} THEN CHOOSE n \in written : TRUE
        ELSE IF FilenameThreads(ThreadsAfter(r.threads, mods)) # {}
               \/ FilenameThreads(r.threads) = {} THEN r.name
        ELSE IF HeaderName(r) # NoName THEN HeaderName(r)
        ELSE DefaultName

(* The record with "mods" carried out and its list thrown away, the header *)
(* written.                                                                *)
Applied(r, mods) == [name    |-> NameAfter(r, mods),
                     hname   |-> r.hname,
                     drop    |-> r.drop,
                     dirty   |-> FALSE,
                     attr    |-> r.attr,
                     threads |-> ThreadsAfter(r.threads, mods),
                     mods    |-> {}]

(* A record straight from Nu_AddRecord: no threads, the name waiting in    *)
(* newFilenameMOR for a filename thread to be made from it.                *)
NewRecord(n, a) == [name |-> n, hname |-> NoName, drop |-> FALSE,
                    dirty |-> FALSE, attr |-> a,
                    threads |-> EmptyMap, mods |-> {}]

(* Nu_ConstructNewRecord: a record without a filename thread is given one. *)
(* The code numbers it with the next index; here it takes the number of    *)
(* its own record (idx), which no other thread can have because records    *)
(* and threads are numbered by one counter.                                *)
WithFilename(r, idx) ==
    IF \E m \in r.mods : m.id = "filename" THEN r
    ELSE AddMod(r, NewMod("add", idx, "filename", r.name, "buffer"))

Constructed(r, idx) == Applied(WithFilename(r, idx), WithFilename(r, idx).mods)

(* What a record is in the archive file, whatever its in-memory flags.     *)
Stored(r) == [hname |-> HeaderName(r), attr |-> r.attr, threads |-> r.threads]

(* The name a reader of the file gives it: the first filename thread, or   *)
(* the header name, or the default (Nu_ScanThreads, Nu_ReadRecordHeader).  *)
ReadName(s) ==
    IF FilenameThreads(s.threads) # {}
      THEN s.threads[CHOOSE t \in FilenameThreads(s.threads) :
                        \A u \in FilenameThreads(s.threads) : t <= u].val
      ELSE IF s.hname # NoName THEN s.hname ELSE DefaultName
=============================================================================
