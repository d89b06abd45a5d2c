-------------------------- MODULE MCFileLifecycle --------------------------
(* Instances of FileLifecycle for TLC.                                     *)
EXTENDS FileLifecycle, TLC

CONSTANTS v7, raw, w8   \* a Windows 7, an uncompressed and a Windows 8 file

MCFileType == v7 :> "win7" @@ raw :> "uncompressed" @@ w8 :> "win8"
MCNumberOfVolumes == v7 :> 2 @@ raw :> 1 @@ w8 :> 1
MCNumberOfSources == v7 :> 1 @@ raw :> 0 @@ w8 :> 0

=============================================================================
