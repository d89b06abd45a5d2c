------------------------------- MODULE BlockList -------------------------------
(***************************************************************************)
(* What the data stream relies on when it is given a list of compressed    *)
(* blocks: CompressedBlocks builds such a list, BlockStream reads it.      *)
(***************************************************************************)
EXTENDS Integers, Sequences

\* yields is what reading and decompressing the block gives: a size, or -1.
Partitions(list, block_size) ==
  \A i \in 1 .. Len(list) :
    /\ list[i].mapped \in 0 .. block_size
    /\ list[i].yields \in -1 .. list[i].mapped
    /\ list[i].start =
         IF i = 1 THEN 0 ELSE list[i - 1].start + list[i - 1].mapped
===============================================================================
