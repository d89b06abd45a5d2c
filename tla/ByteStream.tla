----------------------------- MODULE ByteStream -----------------------------
(***************************************************************************)
(* What libagdb_file_open_read relies on when it reads its headers and     *)
(* entries from internal_file->uncompressed_data_stream: a seekable stream *)
(* over the uncompressed data.  A read delivers the bytes that follow the  *)
(* stream offset, all of those asked for unless the data stops, or fails.  *)
(***************************************************************************)
EXTENDS Naturals, Sequences

CONSTANT Missing   \* stands at the offsets whose byte no block provides

VARIABLES
  data,       \* function from the offsets of the stream to bytes
  offset,     \* where the next read starts
  asked,      \* size of the read that is going on, 0 when there is none
  returned,   \* what the last read delivered
  outcome     \* "none", "ok" or "error"

Present(x) == x \in DOMAIN data /\ data[x] # Missing

Init ==
  /\ offset = 0
  /\ asked = 0
  /\ returned = <<>>
  /\ outcome = "none"

Seek ==
  /\ asked = 0
  /\ offset' \in Nat
  /\ UNCHANGED <<data, asked, returned, outcome>>

Ask ==
  /\ asked = 0
  /\ asked' \in Nat \ {0}
  /\ returned' = <<>>
  /\ outcome' = "none"
  /\ UNCHANGED <<data, offset>>

Deliver ==
  /\ asked > 0
  /\ asked' = 0
  /\ outcome' = "ok"
  /\ Len(returned') <= asked
  /\ \A j \in 1 .. Len(returned') :
       Present(offset + j - 1) /\ returned'[j] = data[offset + j - 1]
  /\ Len(returned') < asked => ~Present(offset + Len(returned'))
  /\ offset' = offset + Len(returned')
  /\ UNCHANGED data

\* The offset after a failed read is not specified.
Refuse ==
  /\ asked > 0
  /\ asked' = 0
  /\ outcome' = "error"
  /\ returned' = <<>>
  /\ offset' \in Nat
  /\ UNCHANGED data

Next == Seek \/ Ask \/ Deliver \/ Refuse

Spec == Init /\ [][Next]_<<data, offset, asked, returned, outcome>>
=============================================================================
