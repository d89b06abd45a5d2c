--------------------------- MODULE MCEntryReader ---------------------------
(* Instances of EntryReader for TLC, with the entry sizes of the formats:  *)
(* a 32-bit database, a 64-bit one with sub entries of 24 and 16 bytes, a  *)
(* mixed one, and one whose volume entries have no known size.             *)
EXTENDS EntryReader

MCParameters ==
  { [volume |-> 56, file |-> 36, source |-> 60,  type1 |-> 16, type2 |-> 16],
    [volume |-> 72, file |-> 64, source |-> 88,  type1 |-> 24, type2 |-> 24],
    [volume |-> 56, file |-> 88, source |-> 100, type1 |-> 24, type2 |-> 32],
    [volume |-> 64, file |-> 64, source |-> 144, type1 |-> 16, type2 |-> 20] }
=============================================================================
