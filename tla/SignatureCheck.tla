--------------------------- MODULE SignatureCheck ---------------------------
(***************************************************************************)
(* libagdb_check_file_signature: an application asks whether a file is a   *)
(* SuperFetch database, by name or with a libbfio handle of its own, and   *)
(* may then have libagdb open that file.  The check reads through the      *)
(* handle, so it opens and closes it unless it was open, and it decides    *)
(* from the same eight bytes as the reader of the compressed file header,  *)
(* in code of its own.                                                     *)
(*                                                                         *)
(* A check runs in steps, each of which can fail.  The contents of the     *)
(* file do not change.                                                     *)
(***************************************************************************)
EXTENDS Integers

CONSTANT Contents    \* [magic, data_size, size]: what a file can hold

Magics == {"MEMO", "MEM0", "MAM", "0x05", "0x0e", "0x0f", "other"}

ASSUME ContentsAssumption ==
  Contents \subseteq [magic : Magics, data_size : Nat, size : Nat]

VARIABLES
  contents,                \* of the file
  bfio,                    \* state of the application's and of the own handle
  caller,                  \* the function that was called
  pc,
  file_io_handle_is_open,  \* -1, 0 and 1 of the code
  result,                  \* of the last check
  header,                  \* of the last read of the compressed file header
  found,                   \* history: the application's handle at the call
  stuck                    \* history: libbfio failed to close a handle

checkVars == <<caller, pc, file_io_handle_is_open, result>>
vars == <<contents, bfio, checkVars, header, found, stuck>>

Callers == {"check_file_signature", "check_file_signature_file_io_handle"}
NoHeader == [file_type |-> "none", block_size |-> 0, data_size |-> 0]

Init ==
  /\ contents \in Contents
  /\ bfio = [application |-> "closed", own |-> "none"]
  /\ caller = "none" /\ pc = "idle"
  /\ file_io_handle_is_open = "unset"
  /\ result = "none" /\ header = NoHeader
  /\ found = "closed" /\ stuck = FALSE

\* The handle the check works on.
Handle == IF caller = "check_file_signature" THEN "own" ELSE "application"

-----------------------------------------------------------------------------
(* The calls                                                               *)

\* The application's handle is its own between two calls.
ApplicationHandle ==
  /\ pc = "idle"
  /\ \E state \in {"open", "closed"} :
       bfio' = [bfio EXCEPT !.application = state]
  /\ UNCHANGED <<contents, checkVars, header, found, stuck>>

CheckFileIoHandle ==
  /\ pc = "idle"
  /\ caller' = "check_file_signature_file_io_handle"
  /\ file_io_handle_is_open' = "unset"
  /\ found' = bfio.application /\ stuck' = FALSE
  /\ pc' = "is_open"
  /\ UNCHANGED <<contents, bfio, result, header>>

\* By name, narrow or wide: a handle is created and named.  An empty name, a
\* failure to create the handle or to name it ends the call.
Check ==
  /\ pc = "idle"
  /\ caller' = "check_file_signature"
  /\ file_io_handle_is_open' = "unset"
  /\ found' = bfio.application /\ stuck' = FALSE
  /\ \/ /\ bfio' = [bfio EXCEPT !.own = "closed"]
        /\ pc' = "is_open"
        /\ UNCHANGED result
     \/ /\ result' = "error" /\ pc' = "idle"
        /\ UNCHANGED bfio
  /\ UNCHANGED <<contents, header>>

-----------------------------------------------------------------------------
(* libagdb_check_file_signature_file_io_handle                             *)

IsOpen ==
  /\ pc = "is_open"
  /\ file_io_handle_is_open' = IF bfio[Handle] = "closed" THEN "no" ELSE "yes"
  /\ pc' = IF bfio[Handle] = "closed" THEN "open" ELSE "read"
  /\ UNCHANGED <<contents, bfio, caller, result, header, found, stuck>>

OpenHandle ==
  /\ pc = "open"
  /\ bfio' = [bfio EXCEPT ![Handle] = "open"]
  /\ pc' = "read"
  /\ UNCHANGED <<contents, caller, file_io_handle_is_open, result, header,
                 found, stuck>>

\* The size of the file and its first eight bytes.
ReadSignature ==
  /\ pc = "read"
  /\ contents.size >= 8
  /\ pc' = IF file_io_handle_is_open = "no" THEN "close" ELSE "compare"
  /\ UNCHANGED <<contents, bfio, caller, file_io_handle_is_open, result,
                 header, found, stuck>>

CloseHandle ==
  /\ pc = "close"
  /\ bfio' = [bfio EXCEPT ![Handle] = "closed"]
  /\ pc' = "compare"
  /\ UNCHANGED <<contents, caller, file_io_handle_is_open, result, header,
                 found, stuck>>

CheckAccepts ==
  \/ contents.magic \in {"MEMO", "MEM0", "MAM"}
  \/ /\ contents.magic \in {"0x05", "0x0e", "0x0f"}
     /\ contents.size = contents.data_size

\* What the function by name does with the result of the other one: free the
\* handle it created, which must not fail, and pass the result on.
Return(answer, frees) ==
  /\ result' = IF caller = "check_file_signature" /\ ~frees THEN "error"
               ELSE answer
  /\ pc' = "idle"
  /\ caller' = "none"
  /\ UNCHANGED <<contents, file_io_handle_is_open, header, found>>

FreeOwn(handles) ==
  IF caller = "check_file_signature" THEN [handles EXCEPT !.own = "none"]
  ELSE handles

Compare ==
  /\ pc = "compare"
  /\ \E frees \in BOOLEAN : Return(IF CheckAccepts THEN "yes" ELSE "no", frees)
  /\ bfio' = FreeOwn(bfio)
  /\ UNCHANGED stuck

\* Mutant: on_error leaves the handle open.
FailsKeepsOpen ==
  /\ pc \in {"is_open", "open", "read", "close"}
  /\ UNCHANGED stuck
  /\ bfio' = FreeOwn(bfio)
  /\ Return("error", TRUE)

\* Mutant: on_error does not free the handle that was created.
FailsLosesOwn ==
  /\ pc \in {"is_open", "open", "read", "close"}
  /\ UNCHANGED <<bfio, stuck>>
  /\ Return("error", TRUE)

\* on_error: a handle found closed is closed, for the second time when closing
\* it was what failed.  closes says whether libbfio can close it.
Fails ==
  /\ pc \in {"is_open", "open", "read", "close"}
  /\ \E closes \in BOOLEAN :
       LET closed == IF file_io_handle_is_open = "no" /\ closes
                     THEN [bfio EXCEPT ![Handle] = "closed"] ELSE bfio
       IN  /\ bfio' = FreeOwn(closed)
           /\ stuck' = (closed[Handle] = "open" /\ file_io_handle_is_open = "no")
  /\ Return("error", TRUE)

-----------------------------------------------------------------------------
(* The reader of the compressed file header                                *)

\* Mutant: a database that is not compressed is known by its first field only.
HeaderTypeBySignature ==
  CASE contents.magic = "MEMO" -> "vista"
    [] contents.magic = "MEM0" -> "win7"
    [] contents.magic = "MAM"  -> "win8"
    [] contents.magic \in {"0x05", "0x0e", "0x0f"} -> "uncompressed"
    [] OTHER -> "refused"

\* The file type, or refused when the reader returns an error.
HeaderType ==
  CASE contents.magic = "MEMO" -> "vista"
    [] contents.magic = "MEM0" -> "win7"
    [] contents.magic = "MAM"  -> "win8"
    [] /\ contents.magic \in {"0x05", "0x0e", "0x0f"}
       /\ contents.size = contents.data_size -> "uncompressed"
    [] OTHER -> "refused"

\* Mutant: the block size in units of 1024 bytes.
BlockSizeInKilobytes ==
  CASE HeaderType = "vista" -> 4
    [] HeaderType \in {"win7", "win8"} -> 64
    [] OTHER -> 0

BlockSize ==
  CASE HeaderType = "vista" -> 4096
    [] HeaderType \in {"win7", "win8"} -> 65536
    [] OTHER -> 0

\* The header of Windows 8 has no size: the field keeps its 0.
ReadHeader ==
  /\ pc = "idle"
  /\ bfio.application = "open"
  /\ contents.size >= 8
  /\ header' = [file_type |-> HeaderType, block_size |-> BlockSize,
                data_size |-> IF HeaderType = "win8" THEN 0
                              ELSE contents.data_size]
  /\ UNCHANGED <<contents, bfio, checkVars, found, stuck>>

Next ==
  \/ ApplicationHandle \/ CheckFileIoHandle \/ Check
  \/ IsOpen \/ OpenHandle \/ ReadSignature \/ CloseHandle \/ Compare \/ Fails
  \/ ReadHeader

Spec == Init /\ [][Next]_vars

-----------------------------------------------------------------------------
FileTypes == {"none", "refused", "vista", "win7", "win8", "uncompressed"}

TypeOK ==
  /\ contents \in Contents
  /\ bfio \in [application : {"open", "closed"},
               own : {"none", "open", "closed"}]
  /\ caller \in Callers \cup {"none"}
  /\ pc \in {"idle", "is_open", "open", "read", "close", "compare"}
  /\ file_io_handle_is_open \in {"unset", "no", "yes"}
  /\ result \in {"none", "yes", "no", "error"}
  /\ header \in [file_type : FileTypes, block_size : {0, 4096, 65536},
                 data_size : Nat]
  /\ found \in {"open", "closed"} /\ stuck \in BOOLEAN

(* A check leaves the application's handle open if it was open and closed   *)
(* if it was closed, whatever fails on the way, unless libbfio itself could *)
(* not close it.                                                            *)
HandleLeftAsFound ==
  [][pc # "idle" /\ pc' = "idle" => bfio'.application = found \/ stuck']_vars

(* The handle that a check by name creates is gone when the check returns.  *)
OwnHandleFreed == pc = "idle" => bfio.own = "none"

(* The two places that recognise a database agree: what the check takes for *)
(* one the reader of the header accepts, and nothing else, and the header   *)
(* it then gives has a block size exactly for the compressed types.         *)
CheckAgreesWithReader ==
  header # NoHeader =>
    /\ result = "yes" => header.file_type # "refused"
    /\ result = "no" => header.file_type = "refused"
    /\ header.block_size > 0 <=> header.file_type \in {"vista", "win7", "win8"}
=============================================================================
