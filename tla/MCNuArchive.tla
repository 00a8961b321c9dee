---------------------------- MODULE MCNuArchive ----------------------------
(***************************************************************************)
(* Small archives for checking NuArchive: a new, empty archive; a record   *)
(* with its name in a filename thread; and, next to that, one with its     *)
(* name in the header.                                                     *)
(***************************************************************************)
EXTENDS NuArchive

Rec(n, h, ts) == [name |-> n, hname |-> h, drop |-> FALSE, dirty |-> FALSE,
                  attr |-> "a0", threads |-> ts, mods |-> {}]

FnAndComment == [t \in {2, 3} |->
    IF t = 2 THEN [id |-> "filename", val |-> "n1"]
             ELSE [id |-> "comment", val |-> "d1"]]
FnAndData == [FnAndComment EXCEPT ![3] = [id |-> "data", val |-> "d1"]]
DataOnly == [t \in {5} |-> [id |-> "data", val |-> "d1"]]

MCArchives == {EmptyMap,
               [i \in {1} |-> Rec("n1", NoName, FnAndData)],
               [i \in {1, 4} |-> IF i = 1 THEN Rec("n1", NoName, FnAndComment)
                                          ELSE Rec("n2", "n2", DataOnly)]}
=============================================================================
