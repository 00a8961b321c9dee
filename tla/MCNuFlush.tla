----------------------------- MODULE MCNuFlush -----------------------------
(***************************************************************************)
(* Small archives for checking NuFlush: a new one, and one with two        *)
(* records, the first named by a filename thread and with a comment, the   *)
(* second named in its header.                                             *)
(***************************************************************************)
EXTENDS NuFlush, MCNuArchive

MCFlushArchives == {S \in MCArchives : Cardinality(DOMAIN S) # 1}
=============================================================================
