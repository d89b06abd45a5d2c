----------------------------- MODULE MCAgdbInfo -----------------------------
(***************************************************************************)
(* Up to two volumes of up to two files and up to two sources, each with   *)
(* and without its string.                                                 *)
(***************************************************************************)
EXTENDS AgdbInfo

MCStrings == BoundedSeq(BOOLEAN, 2)
MCVolumes == BoundedSeq([path : BOOLEAN, files : MCStrings], 2)
MCDatabases == [volumes : MCVolumes, sources : MCStrings]
=============================================================================
