--------------------------- MODULE MCBlockStream ---------------------------
(* Instances of BlockStream for TLC: uncompressed blocks of 3 bytes for    *)
(* the 4096 and 65536 of the formats and a cache of 2 blocks for one of 8. *)
EXTENDS BlockStream

Listed(sizes, yields) ==
  [kind |-> "blocks",
   blocks |-> [i \in 1 .. Len(sizes) |->
                 [start |-> (i - 1) * BlockSize, mapped |-> sizes[i],
                  yields |-> yields[i]]]]

\* Complete data, a block that decompresses short, one that does not
\* decompress, one that gives nothing, an empty list, a file that is read
\* directly.
MCStreams ==
  { Listed(<<3, 3, 2>>, <<3, 3, 2>>),
    Listed(<<3, 3, 1>>, <<3, 2, 1>>),
    Listed(<<3, 3, 3>>, <<3, -1, 3>>),
    Listed(<<3, 2>>, <<0, 2>>),
    Listed(<<0>>, <<0>>),
    Listed(<<>>, <<>>),
    [kind |-> "file", blocks |-> <<[start |-> 0, mapped |-> 5, yields |-> 5]>>] }
=============================================================================
