------------------------ MODULE SignatureCheckProofs ------------------------
(***************************************************************************)
(* Proofs about SignatureCheck: type correctness, the handles, and the     *)
(* agreement of the check with the reader of the header, for any contents. *)
(***************************************************************************)
EXTENDS SignatureCheck, TLAPS

\* What holds at each step of a check: who was called, what became of the
\* handle it was given, and that a handle of its own exists.
Control ==
  /\ pc = "idle" => bfio.own = "none"
  /\ pc # "idle" /\ caller = "check_file_signature" =>
       bfio.own # "none" /\ bfio.application = found
  /\ pc # "idle" => caller \in Callers
  /\ pc # "idle" /\ caller = "check_file_signature_file_io_handle" =>
       bfio.own = "none"
  /\ pc = "is_open" => file_io_handle_is_open = "unset"
  /\ pc \in {"open", "close"} => file_io_handle_is_open = "no"
  /\ pc = "open" => bfio[Handle] = "closed"
  /\ pc = "read" => file_io_handle_is_open \in {"no", "yes"}
  /\ pc \in {"read", "close"} => bfio[Handle] = "open"
  /\ pc # "idle" /\ caller = "check_file_signature_file_io_handle" =>
       /\ pc \in {"is_open", "open", "compare"} => bfio.application = found
       /\ file_io_handle_is_open = "yes" => bfio.application = found
       /\ file_io_handle_is_open = "no" => found = "closed"

\* What the check and the reader have found out about the contents.
Verdicts ==
  /\ result = "yes" => CheckAccepts
  /\ result = "no" => ~CheckAccepts
  /\ header # NoHeader => /\ header.file_type = HeaderType
                          /\ header.block_size = BlockSize

Inv == TypeOK /\ Control /\ Verdicts

\* Steps that reset the Boolean history.
LEMMA Falsified ==
  CheckFileIoHandle \/ Check => stuck' \in BOOLEAN
BY Zenon DEF CheckFileIoHandle, Check

LEMMA InitInv == Init => Inv
<1> SUFFICES ASSUME Init PROVE Inv
  OBVIOUS
<1>1. TypeOK
  <2>1. stuck \in BOOLEAN
    BY Zenon DEF Init
  <2>2. QED
    BY <2>1 DEF Init, TypeOK, NoHeader, Callers, FileTypes
<1>2. Control
  BY DEF Init, Control
<1>3. Verdicts
  BY DEF Init, Verdicts
<1>4. QED
  BY <1>1, <1>2, <1>3 DEF Inv

LEMMA StepInv == Inv /\ [Next]_vars => Inv'
<1> SUFFICES ASSUME Inv, [Next]_vars
             PROVE  Inv'
  OBVIOUS
<1> USE DEF Inv, TypeOK, Control, Verdicts, Callers, checkVars, Handle,
            CheckAccepts, HeaderType, BlockSize, NoHeader, FileTypes
<1>1. CASE ApplicationHandle
  BY <1>1 DEF ApplicationHandle
<1>2. CASE CheckFileIoHandle
  <2>1. TypeOK'
    <3>1. stuck' \in BOOLEAN
      BY <1>2, Falsified
    <3>2. QED
      BY <1>2, <3>1 DEF CheckFileIoHandle
  <2>2. Control'
    BY <1>2 DEF CheckFileIoHandle
  <2>3. Verdicts'
    BY <1>2 DEF CheckFileIoHandle
  <2>4. QED
    BY <2>1, <2>2, <2>3
<1>3. CASE Check
  <2>1. TypeOK'
    <3>1. stuck' \in BOOLEAN
      BY <1>3, Falsified
    <3>2. QED
      BY <1>3, <3>1 DEF Check
  <2>2. Control'
    BY <1>3 DEF Check
  <2>3. Verdicts'
    BY <1>3 DEF Check
  <2>4. QED
    BY <2>1, <2>2, <2>3
<1>4. CASE IsOpen
  BY <1>4 DEF IsOpen
<1>5. CASE OpenHandle
  BY <1>5 DEF OpenHandle
<1>6. CASE ReadSignature
  BY <1>6 DEF ReadSignature
<1>7. CASE CloseHandle
  BY <1>7 DEF CloseHandle
<1>8. CASE Compare
  BY <1>8 DEF Compare, Return, FreeOwn
<1>9. CASE Fails
  BY <1>9 DEF Fails, Return, FreeOwn
<1>10. CASE ReadHeader
  BY <1>10, ContentsAssumption DEF ReadHeader, Magics
<1>11. CASE UNCHANGED vars
  BY <1>11 DEF vars
<1>12. QED
  BY <1>1, <1>2, <1>3, <1>4, <1>5, <1>6, <1>7, <1>8, <1>9, <1>10, <1>11
     DEF Next

(* Type correctness of the checks and of the header, for any contents.      *)
THEOREM TypeCorrect == Spec => []TypeOK
<1>1. Inv => TypeOK
  BY DEF Inv
<1>2. QED
  BY InitInv, StepInv, <1>1, PTL DEF Spec

(* A check by name leaves no handle behind.                                 *)
THEOREM OwnFreed == Spec => []OwnHandleFreed
<1>1. Inv => OwnHandleFreed
  BY DEF Inv, Control, OwnHandleFreed
<1>2. QED
  BY InitInv, StepInv, <1>1, PTL DEF Spec

(* The check and the reader of the header recognise the same files.         *)
THEOREM CheckAgrees == Spec => []CheckAgreesWithReader
<1>1. Inv => CheckAgreesWithReader
  BY DEF Inv, Verdicts, CheckAgreesWithReader, CheckAccepts, HeaderType,
         BlockSize
<1>2. QED
  BY InitInv, StepInv, <1>1, PTL DEF Spec

(* A check leaves the handle of the application as it found it.             *)
THEOREM LeftAsFound == Spec => HandleLeftAsFound
<1>1. Inv /\ [Next]_vars =>
        [pc # "idle" /\ pc' = "idle" => bfio'.application = found \/ stuck']_vars
  <2> SUFFICES ASSUME Inv, Next, pc # "idle", pc' = "idle"
               PROVE  bfio'.application = found \/ stuck'
    BY DEF vars
  <2> USE DEF Inv, TypeOK, Control, Callers, Handle, FreeOwn, Return
  <2>1. CASE Compare
    BY <2>1 DEF Compare
  <2>2. CASE Fails
    <3>1. CASE caller = "check_file_signature"
      BY <2>2, <3>1 DEF Fails
    <3>2. CASE caller = "check_file_signature_file_io_handle"
      <4>1. CASE file_io_handle_is_open = "no"
        <5>1. CASE bfio'.application = "closed"
          BY <3>2, <4>1, <5>1, <2>2 DEF Fails
        <5>2. CASE bfio'.application # "closed"
          <6>1. PICK closes \in BOOLEAN :
                  LET closed == IF file_io_handle_is_open = "no" /\ closes
                                THEN [bfio EXCEPT ![Handle] = "closed"]
                                ELSE bfio
                  IN  /\ bfio' = FreeOwn(closed)
                      /\ stuck' = (closed[Handle] = "open"
                                   /\ file_io_handle_is_open = "no")
            BY <2>2 DEF Fails
          <6>2. ~closes
            BY <3>2, <4>1, <5>2, <6>1
          <6>3. bfio' = bfio
            BY <3>2, <6>1, <6>2
          <6>4. bfio.application = "open"
            BY <5>2, <6>3
          <6>5. stuck' = (bfio[Handle] = "open"
                          /\ file_io_handle_is_open = "no")
            BY <6>1, <6>2
          <6>6. bfio[Handle] = "open" /\ file_io_handle_is_open = "no"
            BY <3>2, <4>1, <6>4
          <6>7. stuck'
            BY ONLY <6>5, <6>6
          <6>8. QED
            BY <6>7
        <5>3. QED
          BY <5>1, <5>2
      <4>2. CASE file_io_handle_is_open # "no"
        <5>1. bfio'.application = bfio.application
          BY <2>2, <3>2, <4>2 DEF Fails
        <5>2. bfio.application = found
          BY <2>2, <3>2, <4>2 DEF Fails
        <5>3. QED
          BY <5>1, <5>2
      <4>3. QED
        BY <4>1, <4>2
    <3>3. QED
      BY <3>1, <3>2
  <2>3. QED
    BY <2>1, <2>2
       DEF Next, ApplicationHandle, CheckFileIoHandle, Check, IsOpen,
           OpenHandle, ReadSignature, CloseHandle, ReadHeader, checkVars
<1>2. QED
  BY InitInv, StepInv, <1>1, PTL DEF Spec, HandleLeftAsFound
=============================================================================
