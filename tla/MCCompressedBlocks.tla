------------------------- MODULE MCCompressedBlocks -------------------------
(* Instances of CompressedBlocks for TLC, scaled down: uncompressed blocks *)
(* of 3 and 4 units for the 4096 and 65536 bytes of Vista and Windows 7.   *)
EXTENDS CompressedBlocks, TLC

MCBlockSizes == "vista" :> 3 @@ "win7" :> 4 @@ "win8" :> 4

=============================================================================
