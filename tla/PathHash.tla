------------------------------ MODULE PathHash ------------------------------
(***************************************************************************)
(* libagdb_hash_calculate, the hash of device paths and file paths: a loop *)
(* unrolled by eight, whose constants replace seven and eight              *)
(* multiplications by 37, followed by a loop over the bytes that are left. *)
(*                                                                         *)
(* The code computes with 32-bit words.  Modulus is 2^32 there, and a      *)
(* smaller power of two here for TLC, with the constants of the code       *)
(* reduced to it.                                                          *)
(***************************************************************************)
EXTENDS Integers, Sequences

CONSTANTS
  Inputs,     \* the data to hash, sequences of bytes
  Modulus,    \* number of values of a word
  Seed,       \* 0x4cb2f
  Power7,     \* 0x1a617d0d
  Power8      \* 0x2fe8ed1f, which the code subtracts

Words == 0 .. Modulus - 1
Bytes == 0 .. 255

ASSUME InputAssumption ==
  /\ Inputs \subseteq Seq(Bytes)
  /\ Modulus \in Nat /\ Modulus > 0
  /\ Seed \in Words /\ Power7 \in Words /\ Power8 \in Words

VARIABLES
  data,
  hash_value,
  data_offset

vars == <<data, hash_value, data_offset>>

Init ==
  /\ data \in Inputs
  /\ hash_value = Seed
  /\ data_offset = 0

\* One round of the hash over one byte.
Round(hash, byte) == (hash * 37 + byte) % Modulus

\* The second to the seventh of eight bytes.
MiddleRounds(d) ==
  Round(Round(Round(Round(Round(d[2], d[3]), d[4]), d[5]), d[6]), d[7])

\* Mutant: the hash so far is added, not subtracted.
UnrolledAddsHash(hash, d) ==
  LET value == MiddleRounds(d)
      scaled == (((value * 37) % Modulus) + Power7 * d[1]) % Modulus
  IN  (scaled + Power8 * hash + d[8]) % Modulus

\* The body of the unrolled loop over the eight bytes of d.
Unrolled(hash, d) ==
  LET value == MiddleRounds(d)
      scaled == (((value * 37) % Modulus) + Power7 * d[1]) % Modulus
  IN  (scaled - Power8 * hash + d[8]) % Modulus

\* Eight bytes are taken only while more than eight are left.
HashEight ==
  /\ data_offset + 8 < Len(data)
  /\ hash_value' =
       Unrolled(hash_value, SubSeq(data, data_offset + 1, data_offset + 8))
  /\ data_offset' = data_offset + 8
  /\ UNCHANGED data

HashByte ==
  /\ data_offset + 8 >= Len(data) /\ data_offset < Len(data)
  /\ hash_value' = Round(hash_value, data[data_offset + 1])
  /\ data_offset' = data_offset + 1
  /\ UNCHANGED data

Next == HashEight \/ HashByte

Spec == Init /\ [][Next]_vars

-----------------------------------------------------------------------------
TypeOK ==
  /\ data \in Inputs
  /\ hash_value \in Words
  /\ data_offset \in 0 .. Len(data)

\* What the hash of the first n bytes of d is defined to be, for every n.
Hashes(d) ==
  LET hash[n \in 0 .. Len(d)] ==
        IF n = 0 THEN Seed ELSE Round(hash[n - 1], d[n])
  IN  hash

(* The unrolled loop computes what the hash is defined to be, one round for *)
(* each byte in order, whatever the length of a path modulo eight.          *)
PrefixHashed == hash_value = Hashes(data)[data_offset]
=============================================================================
