---------------------------- MODULE MCNuExtract ----------------------------
(***************************************************************************)
(* Small archives for NuExtract: plain files, a forked file, empty forks   *)
(* that GS/ShrinkIt left out, a name in the header, bad checksums.         *)
(***************************************************************************)
EXTENDS NuExtract

T(id, n) == [id |-> id, len |-> n, bad |-> "no"]
Crc(id, n) == [id |-> id, len |-> n, bad |-> "crc"]
Rec(hname, ext, ts) == [hname |-> hname, ext |-> ext, bad |-> FALSE, threads |-> ts]
BadRec(ts) == [hname |-> FALSE, ext |-> FALSE, bad |-> TRUE, threads |-> ts]

MCArchives ==
    {<<Rec(FALSE, TRUE, <<T("filename", 1), T("data", 2), T("rsrc", 1)>>),
       Rec(TRUE, TRUE, <<T("comment", 1)>>)>>,
     <<Rec(TRUE, FALSE, <<T("comment", 1), Crc("disk", 1)>>),
       BadRec(<<T("filename", 1), T("control", 1)>>)>>,
     <<Rec(FALSE, FALSE, <<T("data", 1)>>)>>}

Opt(stream, mask, handle, older, cb) ==
    [stream |-> stream, mask |-> mask, ignoreCRC |-> handle = "always",
     handle |-> handle, older |-> older,
     sel |-> "sel" \in cb, path |-> "path" \in cb,
     handler |-> "handler" \in cb, progress |-> "progress" \in cb]

MCSettings ==
    {Opt(TRUE, FALSE, "always", FALSE, {"progress"}),
     Opt(FALSE, TRUE, "always", FALSE, {"progress"}),
     Opt(FALSE, FALSE, "never", FALSE, {}),
     Opt(FALSE, FALSE, "maybe", FALSE, {}),
     Opt(FALSE, FALSE, "must", FALSE, {"handler"})}
    \cup {Opt(FALSE, TRUE, "maybe", TRUE, {"path", "handler"}),
          Opt(TRUE, FALSE, "maybe", TRUE, {"sel", "path", "handler"})}

MCPaths == {"a", "d", "d/x"}
MCParent == [p \in MCPaths |-> IF p = "d/x" THEN "d" ELSE "root"]
MCDefault == <<"a", "d/x">>
MCFileSystems ==
    {[p \in MCPaths |-> IF p = "a" THEN "older" ELSE "none"],
     [p \in MCPaths |-> IF p = "a" THEN "newer" ELSE IF p = "d" THEN "dir" ELSE "none"]}
=============================================================================
