------------------------ MODULE FileLifecycleProofs ------------------------
(* Proofs about FileLifecycle and about FileReferences, which composes it  *)
(* with the entries an application holds, for every set of databases,      *)
(* handles and addresses and every number of volumes, files and sources.   *)
EXTENDS FileReferences, SequenceTheorems, TLAPS

LEMMA AllocatedIsFree ==
  ASSUME FreeObjects # {}
  PROVE  Allocated \in Object /\ heap[Allocated] = NoInfo
  BY DEF FreeObjects, Allocated

(* Updating a field of a handle or of an object keeps it one.              *)
LEMMA RecordUpdates ==
  /\ NoInfo \notin Info
  /\ NoBfio \notin Bfio
  /\ \A b \in Bfio, s \in {"closed", "open", "stuck"} :
       [b EXCEPT !.state = s] \in Bfio
  /\ \A o \in Info, d \in Database, i \in Nat :
       [o EXCEPT !.database = d, !.index = i] \in Info
  BY HandleAssumption DEF NoInfo, Info, NoBfio, Bfio

(* What the steps of an open rely on: while a call runs there is a handle,  *)
(* any handle the file has is a live one, and an object is being read       *)
(* exactly in the two read steps.                                           *)
ControlInv ==
  /\ pc # "idle" => file_io_handle # NULL
  /\ file_io_handle # NULL => bfio[file_io_handle] \in Bfio
  /\ volume_information # NULL <=> pc = "volume_read"
  /\ source_information # NULL <=> pc = "source_read"
  /\ pc = "volume_read" => heap[volume_information] \in Info
  /\ pc = "source_read" => heap[source_information] \in Info

\* An entry that is read stays allocated.
LEMMA FilledIsNotFree ==
  ASSUME NEW r \in Info, NEW d \in Database, NEW i \in Nat
  PROVE  [r EXCEPT !.database = d, !.index = i] # NoInfo
<1>1. r.kind \in {"volume", "source"}
  BY DEF Info
<1>2. [r EXCEPT !.database = d, !.index = i].kind = r.kind
  BY DEF Info
<1>3. NoInfo.kind = "free"
  BY DEF NoInfo
<1>4. QED
  BY <1>1, <1>2, <1>3

LEMMA InitTypes == Init => TypeOK /\ ControlInv
  BY DatabaseAssumption, HandleAssumption
  DEF Init, TypeOK, HandleTypes, CallTypes, EntryTypes, ControlInv, Cleared,
      NoInfo, NoBfio

(* The part of close that every path to a closed file shares.               *)
LEMMA CloseFileTypes ==
  ASSUME TypeOK, ControlInv, pc = "idle", file_io_handle # NULL,
         NEW closes \in BOOLEAN, CloseFile(closes)
  PROVE  /\ bfio' \in [Handle -> Bfio \cup {NoBfio}]
         /\ opened_in_library' = 0 /\ created_in_library' = 0
         /\ file_io_handle' = NULL
         /\ io_handle' = Cleared /\ helpers' = {}
         /\ volumes_array' = <<>> /\ sources_array' = <<>>
         /\ heap' \in [Object -> Info \cup {NoInfo}]
         /\ result' \in {"ok", "error"}
<1>1. bfio[file_io_handle] \in Bfio
  BY DEF ControlInv
<1>2. CloseBfio(file_io_handle, closes) \in {"closed", "open", "stuck"}
  BY <1>1 DEF CloseBfio, Bfio
<1>3. bfio' \in [Handle -> Bfio \cup {NoBfio}]
  BY <1>1, <1>2, RecordUpdates DEF CloseFile, TypeOK, HandleTypes
<1>4. heap' \in [Object -> Info \cup {NoInfo}]
  BY DEF CloseFile, FreeEntries, TypeOK, EntryTypes
<1>5. QED
  BY <1>3, <1>4 DEF CloseFile, FreeEntries

(* The shared part of every failed open.                                    *)
LEMMA AbandonHandleTypes ==
  ASSUME TypeOK, ControlInv, pc # "idle", NEW is_open, NEW closes \in BOOLEAN,
         AbandonHandle(is_open, closes)
  PROVE  /\ bfio' \in [Handle -> Bfio \cup {NoBfio}]
         /\ opened_in_library' \in {0, 1}
<1>1. bfio[file_io_handle] \in Bfio
  BY DEF ControlInv
<1>2. CloseBfio(file_io_handle, closes) \in {"closed", "open", "stuck"}
  BY <1>1 DEF CloseBfio, Bfio
<1>3. [bfio[file_io_handle] EXCEPT !.state = CloseBfio(file_io_handle, closes)]
        \in Bfio
  BY <1>1, <1>2, RecordUpdates
<1>4. QED
  BY <1>1, <1>3 DEF AbandonHandle, TypeOK, HandleTypes

LEMMA StepTypes == TypeOK /\ ControlInv /\ [Next]_vars => TypeOK' /\ ControlInv'
<1> SUFFICES ASSUME TypeOK, ControlInv, [Next]_vars
             PROVE  TypeOK' /\ ControlInv'
  OBVIOUS
<1> USE HandleAssumption
    DEF TypeOK, HandleTypes, CallTypes, EntryTypes, ControlInv,
        fileVars, arrayVars, localVars, callVars
<1>1. ASSUME NEW h \in UserHandle, ApplicationHandle(h)
      PROVE  TypeOK' /\ ControlInv'
  <2>1. h \in Handle /\ (bfio[h] \in Bfio \/ bfio[h] = NoBfio)
    BY DEF Handle
  <2>2. bfio[h].state \in {"closed", "open", "stuck"} => bfio[h] \in Bfio
    BY <2>1 DEF NoBfio
  <2>3. \A d \in Database : [state |-> "closed", database |-> d] \in Bfio
    BY DEF Bfio
  <2>4. \E b \in Bfio \cup {NoBfio} : bfio' = [bfio EXCEPT ![h] = b]
    <3>1. ASSUME NEW d \in Database,
                 bfio' = [bfio EXCEPT
                            ![h] = [state |-> "closed", database |-> d]]
          PROVE  \E b \in Bfio \cup {NoBfio} : bfio' = [bfio EXCEPT ![h] = b]
      BY <3>1, <2>3
    <3>2. ASSUME NEW s \in {"closed", "open", "stuck"}, bfio[h] \in Bfio,
                 bfio' = [bfio EXCEPT ![h].state = s]
          PROVE  \E b \in Bfio \cup {NoBfio} : bfio' = [bfio EXCEPT ![h] = b]
      BY <3>2, RecordUpdates
    <3>3. ASSUME bfio' = [bfio EXCEPT ![h] = NoBfio]
          PROVE  \E b \in Bfio \cup {NoBfio} : bfio' = [bfio EXCEPT ![h] = b]
      BY <3>3
    <3>4. QED
      BY <1>1, <2>2, <3>1, <3>2, <3>3 DEF ApplicationHandle, BfioIsOpen
  <2>5. file_io_handle # h
    BY <1>1 DEF ApplicationHandle
  <2>6. bfio' \in [Handle -> Bfio \cup {NoBfio}]
    BY <2>4
  <2>7. file_io_handle # NULL => bfio'[file_io_handle] \in Bfio
    BY <2>4, <2>5
  <2>8. QED
    BY <1>1, <2>6, <2>7 DEF ApplicationHandle
<1>2. CASE Initialize
  BY <1>2 DEF Initialize
<1>3. CASE SignalAbort
  BY <1>3 DEF SignalAbort
<1>4. CASE Close
  <2>1. ASSUME NEW closes \in BOOLEAN, file_io_handle # NULL, CloseFile(closes)
        PROVE  TypeOK' /\ ControlInv'
    <3>1. /\ UNCHANGED <<file, localVars, api, pc, handle_is_open, lent_state>>
          /\ pc = "idle"
      BY <1>4 DEF Close
    <3>2. Cleared \in [file_type : FileTypes \cup {"unset"}, abort : {0, 1}]
      BY DEF Cleared
    <3> HIDE DEF TypeOK, ControlInv
    <3>3. /\ bfio' \in [Handle -> Bfio \cup {NoBfio}]
          /\ opened_in_library' = 0 /\ created_in_library' = 0
          /\ file_io_handle' = NULL
          /\ io_handle' = Cleared /\ helpers' = {}
          /\ volumes_array' = <<>> /\ sources_array' = <<>>
          /\ heap' \in [Object -> Info \cup {NoInfo}]
          /\ result' \in {"ok", "error"}
      BY <2>1, <3>1, CloseFileTypes
    <3>4. QED
      BY <3>1, <3>2, <3>3 DEF TypeOK, ControlInv
  <2>2. CASE file_io_handle = NULL
    BY <1>4, <2>2 DEF Close
  <2>3. QED
    BY <1>4, <2>1, <2>2 DEF Close
<1>5. CASE Free
  <2>1. ASSUME NEW closes \in BOOLEAN, file_io_handle # NULL, CloseFile(closes)
        PROVE  TypeOK' /\ ControlInv'
    <3>1. /\ UNCHANGED <<localVars, api, pc, handle_is_open, lent_state>>
          /\ pc = "idle" /\ file' = "null"
      BY <1>5 DEF Free
    <3>2. Cleared \in [file_type : FileTypes \cup {"unset"}, abort : {0, 1}]
      BY DEF Cleared
    <3> HIDE DEF TypeOK, ControlInv
    <3>3. /\ bfio' \in [Handle -> Bfio \cup {NoBfio}]
          /\ opened_in_library' = 0 /\ created_in_library' = 0
          /\ file_io_handle' = NULL
          /\ io_handle' = Cleared /\ helpers' = {}
          /\ volumes_array' = <<>> /\ sources_array' = <<>>
          /\ heap' \in [Object -> Info \cup {NoInfo}]
          /\ result' \in {"ok", "error"}
      BY <2>1, <3>1, CloseFileTypes
    <3>4. QED
      BY <3>1, <3>2, <3>3 DEF TypeOK, ControlInv
  <2>2. CASE file_io_handle = NULL
    BY <1>5, <2>2 DEF Free, FreeEntries, Cleared
  <2>3. QED
    BY <1>5, <2>1, <2>2 DEF Free
<1>6. ASSUME NEW h \in LibraryHandle, NEW d \in Database,
             Open(h, d) \/ OpenWide(h, d)
      PROVE  TypeOK' /\ ControlInv'
  BY <1>6 DEF Open, OpenWide, OpenNamed, Accept, Refuse, Handle, Bfio
<1>7. ASSUME NEW h \in UserHandle, OpenFileIoHandle(h)
      PROVE  TypeOK' /\ ControlInv'
  BY <1>7 DEF OpenFileIoHandle, Accept, Refuse, Handle, Bfio
<1>8. CASE OpenHandle
  <2>1. file_io_handle \in Handle /\ bfio[file_io_handle] \in Bfio
    BY <1>8 DEF OpenHandle
  <2>2. [bfio[file_io_handle] EXCEPT !.state = "open"] \in Bfio
    BY <2>1, RecordUpdates
  <2>3. /\ bfio' \in [Handle -> Bfio \cup {NoBfio}]
        /\ bfio'[file_io_handle] \in Bfio
    BY <1>8, <2>1, <2>2 DEF OpenHandle
  <2>4. QED
    BY <1>8, <2>3 DEF OpenHandle, BfioIsOpen, ReadSteps
<1>9. CASE OpenHandleFails
  <2>1. AbandonHandle(BfioIsOpen(file_io_handle), TRUE)
    BY <1>9 DEF OpenHandleFails
  <2>2. pc = "open_handle"
    BY <1>9 DEF OpenHandleFails
  <2>3. bfio' \in [Handle -> Bfio \cup {NoBfio}] /\ opened_in_library' \in {0, 1}
    BY <2>1, <2>2, AbandonHandleTypes
  <2>4. QED
    BY <1>9, <2>1, <2>3 DEF OpenHandleFails, AbandonHandle, BfioIsOpen
<1>10. CASE BeginOpenRead
  BY <1>10 DEF BeginOpenRead, ReadSteps
<1>11. CASE ReadCompressedFileHeader
  BY <1>11, DatabaseAssumption
  DEF ReadCompressedFileHeader, ReadSteps, OpenDatabase, Bfio
<1>12. CASE PrepareStream
  <2>1. /\ helpers' \subseteq Helpers
        /\ pc' \in {"blocks", "cache", "stream", "data_header", "volumes"}
        /\ pc \in {"list", "blocks", "cache", "stream", "data_header"}
    BY <1>12
    DEF PrepareStream, InitializeBlocksList, ReadCompressedBlocks,
        InitializeBlocksCache, InitializeDataStream,
        ReadUncompressedFileHeader, Helpers
  <2>2. QED
    BY <1>12, <2>1 DEF PrepareStream, ReadSteps
<1>13. CASE ReadEntries
  <2>1. CASE VolumeInitialize
    BY <1>13, <2>1, AllocatedIsFree
    DEF ReadEntries, VolumeInitialize, Blank, Info, ReadSteps
  <2>2. CASE VolumeRead
    <3>1. OpenDatabase \in Database
      BY <1>13, <2>2 DEF ReadEntries, VolumeRead, OpenDatabase, Bfio
    <3>2. heap' \in [Object -> Info \cup {NoInfo}]
      BY <2>2, <3>1, RecordUpdates DEF VolumeRead
    <3>3. QED
      BY <1>13, <2>2, <3>2 DEF ReadEntries, VolumeRead, ReadSteps
  <2>3. CASE VolumesDone
    BY <1>13, <2>3 DEF ReadEntries, VolumesDone, ReadSteps
  <2>4. CASE SourceInitialize
    BY <1>13, <2>4, AllocatedIsFree
    DEF ReadEntries, SourceInitialize, Blank, Info, ReadSteps
  <2>5. CASE SourceRead
    <3>1. OpenDatabase \in Database
      BY <1>13, <2>5 DEF ReadEntries, SourceRead, OpenDatabase, Bfio
    <3>2. heap' \in [Object -> Info \cup {NoInfo}]
      BY <2>5, <3>1, RecordUpdates DEF SourceRead
    <3>3. QED
      BY <1>13, <2>5, <3>2 DEF ReadEntries, SourceRead, ReadSteps
  <2>6. QED
    BY <1>13, <2>1, <2>2, <2>3, <2>4, <2>5 DEF ReadEntries
<1>14. CASE OpenSucceeds
  BY <1>14 DEF OpenSucceeds
<1>15. CASE OpenReadFails
  <2>1. PICK closes \in BOOLEAN : AbandonHandle(handle_is_open, closes)
    BY <1>15 DEF OpenReadFails
  <2>2. pc # "idle" /\ ReleaseRead
    BY <1>15 DEF OpenReadFails, ReadSteps
  <2>3. bfio' \in [Handle -> Bfio \cup {NoBfio}] /\ opened_in_library' \in {0, 1}
    BY <2>1, <2>2, AbandonHandleTypes
  <2>4. heap' \in [Object -> Info \cup {NoInfo}]
    BY <2>2 DEF ReleaseRead
  <2>5. QED
    BY <1>15, <2>1, <2>2, <2>3, <2>4
    DEF OpenReadFails, AbandonHandle, ReleaseRead
<1>16. CASE UNCHANGED vars
  BY <1>16 DEF vars
<1>17. QED
  BY <1>1, <1>2, <1>3, <1>4, <1>5, <1>6, <1>7, <1>8, <1>9, <1>10, <1>11,
     <1>12, <1>13, <1>14, <1>15, <1>16
  DEF Next, OpenStep, ApplicationStep

(* Every reachable state has its type: no entry of an array is NULL, no     *)
(* index is negative, a handle the file refers to is a handle.              *)
THEOREM TypeCorrect == Spec => [](TypeOK /\ ControlInv)
<1>1. QED
  BY InitTypes, StepTypes, PTL DEF Spec

-----------------------------------------------------------------------------
(* Handle ownership.  The inductive invariant adds to HandleOwnership whose *)
(* handle each open function works on, that the created flag is set only at *)
(* the very end, and how the opened flag relates to the state in which the  *)
(* handle was handed over.                                                  *)
OwnershipInv ==
  /\ HandleOwnership
  /\ pc = "idle" <=> api = "none"
  /\ api \in {"open", "open_wide"} => file_io_handle \in LibraryHandle
  /\ api = "open_file_io_handle" => file_io_handle \in UserHandle
  /\ pc # "idle" => created_in_library = 0
  /\ pc = "open_handle" => opened_in_library = 0
  /\ pc \in ReadSteps => (opened_in_library = 1 <=> handle_is_open = 0)
  /\ file_io_handle # NULL =>
       IF opened_in_library = 1 THEN lent_state = "closed"
       ELSE bfio[file_io_handle].state = lent_state
  /\ opened_in_library = 0 /\ file_io_handle # NULL /\ pc # "open_handle" =>
       lent_state # "closed"

LEMMA InitOwnership == Init => OwnershipInv
  BY HandleAssumption
  DEF Init, OwnershipInv, HandleOwnership, Handle, ReadSteps

LEMMA StepOwnership ==
  TypeOK /\ ControlInv /\ OwnershipInv /\ [Next]_vars => OwnershipInv'
<1> SUFFICES ASSUME TypeOK, ControlInv, OwnershipInv, [Next]_vars
             PROVE  OwnershipInv'
  OBVIOUS
<1> USE HandleAssumption
    DEF OwnershipInv, HandleOwnership, ControlInv, HandleTypes, CallTypes,
        TypeOK, fileVars, arrayVars, localVars, callVars, Handle
<1>1. ASSUME NEW h \in UserHandle, ApplicationHandle(h)
      PROVE  OwnershipInv'
  BY <1>1 DEF ApplicationHandle, BfioIsOpen, ReadSteps
<1>2. CASE Initialize
  BY <1>2 DEF Initialize, BfioIsOpen
<1>3. CASE SignalAbort
  BY <1>3 DEF SignalAbort, BfioIsOpen
<1>4. CASE Close
  BY <1>4 DEF Close, CloseFile, CloseBfio, BfioIsOpen, NoBfio, Bfio, ReadSteps
<1>5. CASE Free
  BY <1>5 DEF Free, CloseFile, CloseBfio, BfioIsOpen, NoBfio, Bfio, ReadSteps
<1>6. ASSUME NEW h \in LibraryHandle, NEW d \in Database,
             Open(h, d) \/ OpenWide(h, d)
      PROVE  OwnershipInv'
  BY <1>6
  DEF Open, OpenWide, OpenNamed, Accept, Refuse, NoBfio, BfioIsOpen, ReadSteps
<1>7. ASSUME NEW h \in UserHandle, OpenFileIoHandle(h)
      PROVE  OwnershipInv'
  BY <1>7 DEF OpenFileIoHandle, Accept, Refuse, NoBfio, BfioIsOpen, ReadSteps
<1>8. CASE OpenHandle
  BY <1>8 DEF OpenHandle, NoBfio, Bfio, BfioIsOpen, ReadSteps
<1>9. CASE OpenHandleFails
  BY <1>9 DEF OpenHandleFails, AbandonHandle, CloseBfio, NoBfio, Bfio,
              BfioIsOpen, ReadSteps
<1>10. CASE BeginOpenRead
  BY <1>10 DEF BeginOpenRead, BfioIsOpen, ReadSteps
<1>11. CASE ReadCompressedFileHeader
  BY <1>11 DEF ReadCompressedFileHeader, BfioIsOpen, ReadSteps
<1>12. CASE PrepareStream
  BY <1>12
  DEF PrepareStream, InitializeBlocksList, ReadCompressedBlocks,
      InitializeBlocksCache, InitializeDataStream, ReadUncompressedFileHeader,
      BfioIsOpen, ReadSteps
<1>13. CASE ReadEntries
  BY <1>13
  DEF ReadEntries, VolumeInitialize, VolumeRead, VolumesDone,
      SourceInitialize, SourceRead, BfioIsOpen, ReadSteps
<1>14. CASE OpenSucceeds
  BY <1>14 DEF OpenSucceeds, BfioIsOpen, ReadSteps
<1>15. CASE OpenReadFails
  BY <1>15 DEF OpenReadFails, ReleaseRead, AbandonHandle, CloseBfio, NoBfio,
               Bfio, BfioIsOpen, ReadSteps
<1>16. CASE UNCHANGED vars
  BY <1>16 DEF vars, BfioIsOpen
<1>17. QED
  BY <1>1, <1>2, <1>3, <1>4, <1>5, <1>6, <1>7, <1>8, <1>9, <1>10, <1>11,
     <1>12, <1>13, <1>14, <1>15, <1>16
  DEF Next, OpenStep, ApplicationStep

(* Handles are owned, freed and flagged as HandleOwnership says, whatever   *)
(* sequence of calls is made and whichever of their steps fail.             *)
THEOREM Ownership == Spec => []HandleOwnership
<1>1. OwnershipInv => HandleOwnership
  BY DEF OwnershipInv
<1>2. QED
  BY <1>1, InitOwnership, StepOwnership, TypeCorrect, PTL DEF Spec

(* A lent handle comes back as it was lent: at the moment the file forgets  *)
(* it, closing has undone exactly what OpenHandle did.                      *)
LEMMA StepHandsBack ==
  ASSUME TypeOK, ControlInv, OwnershipInv, Next,
         NEW h \in UserHandle, file_io_handle = h, file_io_handle' # h
  PROVE  bfio'[h].state \in {lent_state, "stuck"}
<1> USE HandleAssumption
    DEF OwnershipInv, HandleOwnership, ControlInv, HandleTypes, CallTypes,
        TypeOK, fileVars, arrayVars, localVars, callVars, Handle
<1> DEFINE handed(closes) ==
             [bfio[h] EXCEPT !.state = CloseBfio(h, closes)]
<1>a. h \in Handle /\ h \notin LibraryHandle /\ bfio[h] \in Bfio
  OBVIOUS
<1>b. \A closes \in BOOLEAN : CloseBfio(h, closes) \in {lent_state, "stuck"}
  BY DEF CloseBfio
<1>c. \A closes \in BOOLEAN : handed(closes).state = CloseBfio(h, closes)
  BY <1>a DEF Bfio
<1> HIDE DEF handed
<1>1. CASE Close
  <2>1. PICK closes \in BOOLEAN : CloseFile(closes)
    BY <1>1 DEF Close
  <2>2. bfio' = [bfio EXCEPT ![h] = handed(closes)]
    BY <1>1, <1>a, <2>1 DEF Close, CloseFile, handed
  <2>3. QED
    BY <1>a, <1>b, <1>c, <2>2
<1>2. CASE Free
  <2>1. PICK closes \in BOOLEAN : CloseFile(closes)
    BY <1>2 DEF Free
  <2>2. bfio' = [bfio EXCEPT ![h] = handed(closes)]
    BY <1>2, <1>a, <2>1 DEF Free, CloseFile, handed
  <2>3. QED
    BY <1>a, <1>b, <1>c, <2>2
<1>3. CASE OpenHandleFails
  BY <1>3 DEF OpenHandleFails, AbandonHandle, CloseBfio
<1>4. CASE OpenReadFails
  <2>1. PICK closes \in BOOLEAN : AbandonHandle(handle_is_open, closes)
    BY <1>4 DEF OpenReadFails
  <2>2. api = "open_file_io_handle" /\ pc \in ReadSteps
    BY <1>4, <1>a DEF OpenReadFails, ReadSteps
  <2>3. CASE handle_is_open = 0
    <3>1. bfio' = [bfio EXCEPT ![h] = handed(closes)]
      BY <2>1, <2>2, <2>3 DEF AbandonHandle, handed
    <3>2. QED
      BY <1>a, <1>b, <1>c, <3>1
  <2>4. CASE handle_is_open # 0
    BY <1>a, <2>1, <2>2, <2>4 DEF AbandonHandle
  <2>5. QED
    BY <2>3, <2>4
<1>5. ~(Initialize \/ SignalAbort)
  BY DEF Initialize, SignalAbort
<1>6. \A g \in Handle : ~ApplicationHandle(g)
  BY DEF ApplicationHandle
<1>7. /\ \A g \in UserHandle : ~OpenFileIoHandle(g)
      /\ \A g \in LibraryHandle, d \in Database : ~Open(g, d) /\ ~OpenWide(g, d)
  BY DEF OpenFileIoHandle, Open, OpenWide, OpenNamed, Refuse
<1>8. ~(OpenHandle \/ BeginOpenRead \/ ReadCompressedFileHeader
        \/ PrepareStream \/ ReadEntries \/ OpenSucceeds)
  BY DEF OpenHandle, BeginOpenRead, ReadCompressedFileHeader, PrepareStream,
         ReadEntries, OpenSucceeds
<1>9. QED
  BY <1>1, <1>2, <1>3, <1>4, <1>5, <1>6, <1>7, <1>8
  DEF Next, OpenStep, ApplicationStep

(* A handle of the application comes back from every close, free and failed *)
(* open as it was lent, or stuck when libbfio could not close it.           *)
THEOREM HandedBack == Spec => HandedBackAsLent
<1>1. TypeOK /\ ControlInv /\ OwnershipInv /\ [Next]_vars =>
        [\A h \in UserHandle :
           file_io_handle = h /\ file_io_handle' # h =>
             bfio'[h].state \in {lent_state, "stuck"}]_vars
  BY StepHandsBack
<1>2. QED
  BY <1>1, InitOwnership, StepOwnership, TypeCorrect, PTL
  DEF Spec, HandedBackAsLent

-----------------------------------------------------------------------------
(* Memory of the entries                                                    *)

Listed == Range(volumes_array) \cup Range(sources_array)

(* The elements of a sequence, before and after an append.                  *)
LEMMA RangeOfAppend ==
  ASSUME NEW S, NEW s \in Seq(S), NEW e \in S
  PROVE  /\ Range(Append(s, e)) = Range(s) \cup {e}
         /\ IsPrefix(s, Append(s, e))
         /\ IsInjective(s) /\ e \notin Range(s) => IsInjective(Append(s, e))
<1>1. /\ Len(Append(s, e)) = Len(s) + 1
      /\ \A i \in 1 .. Len(s) : Append(s, e)[i] = s[i]
      /\ Append(s, e)[Len(s) + 1] = e
      /\ DOMAIN s = 1 .. Len(s)
      /\ DOMAIN Append(s, e) = 1 .. Len(s) + 1
      /\ Len(s) \in Nat
  OBVIOUS
<1>2. Range(Append(s, e)) = Range(s) \cup {e}
  BY <1>1 DEF Range
<1>3. IsPrefix(s, Append(s, e))
  BY <1>1 DEF IsPrefix
<1>4. IsInjective(s) /\ e \notin Range(s) => IsInjective(Append(s, e))
  BY <1>1 DEF IsInjective, Range
<1>5. QED
  BY <1>2, <1>3, <1>4

LEMMA EmptySequence ==
  Range(<<>>) = {} /\ IsInjective(<<>>)
  BY DEF Range, IsInjective

LEMMA InitHeap == Init => HeapExact
  BY EmptySequence DEF Init, HeapExact, Reading

LEMMA StepHeap == TypeOK /\ ControlInv /\ HeapExact /\ [Next]_vars => HeapExact'
<1> SUFFICES ASSUME TypeOK, ControlInv, HeapExact, [Next]_vars
             PROVE  HeapExact'
  OBVIOUS
<1> USE HandleAssumption DEF HeapExact, Reading
<1>1. CASE UNCHANGED <<volumes_array, sources_array, heap,
                       volume_information, source_information>>
  BY <1>1
<1>2. CASE FreeEntries /\ pc = "idle"
           /\ UNCHANGED <<volume_information, source_information>>
  <2>1. Reading = {}
    BY <1>2 DEF ControlInv
  <2>2. \A o \in Object : heap'[o] = NoInfo
    BY <1>2, <2>1 DEF FreeEntries
  <2>3. Range(volumes_array') = {} /\ Range(sources_array') = {}
        /\ IsInjective(volumes_array') /\ IsInjective(sources_array')
    BY <1>2, EmptySequence DEF FreeEntries
  <2>4. QED
    BY <1>2, <2>1, <2>2, <2>3
<1>3. CASE VolumeInitialize
  <2>1. /\ Allocated \in Object /\ heap[Allocated] = NoInfo
        /\ pc = "volumes" /\ Reading = {}
    BY <1>3, AllocatedIsFree DEF VolumeInitialize, ControlInv
  <2>2. Blank("volume") # NoInfo
    BY DEF Blank, NoInfo
  <2>3. Allocated \notin Listed
    BY <2>1 DEF Listed
  <2>4. {o \in Object : heap'[o] # NoInfo} = Listed \cup {Allocated}
    BY <1>3, <2>1, <2>2
    DEF VolumeInitialize, Listed, TypeOK, EntryTypes
  <2>5. Reading' = {Allocated}
    BY <1>3, <2>1 DEF VolumeInitialize, ControlInv
  <2>6. QED
    BY <1>3, <2>1, <2>3, <2>4, <2>5 DEF VolumeInitialize, Listed, ControlInv
<1>4. CASE VolumeRead
  <2> DEFINE e == volume_information
  <2>1. /\ e \in Object /\ heap[e] \in Info /\ pc = "volume_read"
        /\ source_information = NULL /\ Reading = {e}
        /\ OpenDatabase \in Database
    BY <1>4
    DEF VolumeRead, ControlInv, TypeOK, HandleTypes, EntryTypes, OpenDatabase, Bfio
  <2>2. heap' = [heap EXCEPT ![e] = [heap[e] EXCEPT !.database = OpenDatabase,
                                                   !.index = volume_index]]
    BY <1>4 DEF VolumeRead
  <2>3. [heap[e] EXCEPT !.database = OpenDatabase, !.index = volume_index] # NoInfo
    <3>1. volume_index \in Nat
      BY DEF TypeOK, EntryTypes
    <3> HIDE DEF e
    <3>2. QED
      BY <2>1, <3>1, FilledIsNotFree
  <2>4. {o \in Object : heap'[o] # NoInfo} = {o \in Object : heap[o] # NoInfo}
    BY <2>1, <2>2, <2>3, RecordUpdates DEF TypeOK, EntryTypes
  <2>5. e \notin Listed
    BY <2>1 DEF Listed
  <2>6. volumes_array \in Seq(Object) /\ volumes_array' = Append(volumes_array, e)
    BY <1>4 DEF VolumeRead, TypeOK, EntryTypes
  <2>7. /\ Range(volumes_array') = Range(volumes_array) \cup {e}
        /\ IsInjective(volumes_array')
    BY <2>1, <2>5, <2>6, RangeOfAppend DEF Listed
  <2>8. Reading' = {} /\ UNCHANGED sources_array
    BY <1>4, <2>1 DEF VolumeRead
  <2> HIDE DEF e
  <2>9. QED
    BY <1>4, <2>1, <2>4, <2>5, <2>7, <2>8 DEF VolumeRead, Listed
<1>5. CASE SourceInitialize
  <2>1. /\ Allocated \in Object /\ heap[Allocated] = NoInfo
        /\ pc = "sources" /\ Reading = {}
    BY <1>5, AllocatedIsFree DEF SourceInitialize, ControlInv
  <2>2. Blank("source") # NoInfo
    BY DEF Blank, NoInfo
  <2>3. Allocated \notin Listed
    BY <2>1 DEF Listed
  <2>4. {o \in Object : heap'[o] # NoInfo} = Listed \cup {Allocated}
    BY <1>5, <2>1, <2>2
    DEF SourceInitialize, Listed, TypeOK, EntryTypes
  <2>5. Reading' = {Allocated}
    BY <1>5, <2>1 DEF SourceInitialize, ControlInv
  <2>6. QED
    BY <1>5, <2>1, <2>3, <2>4, <2>5 DEF SourceInitialize, Listed, ControlInv
<1>6. CASE SourceRead
  <2> DEFINE e == source_information
  <2>1. /\ e \in Object /\ heap[e] \in Info /\ pc = "source_read"
        /\ volume_information = NULL /\ Reading = {e}
        /\ OpenDatabase \in Database
    BY <1>6
    DEF SourceRead, ControlInv, TypeOK, HandleTypes, EntryTypes, OpenDatabase, Bfio
  <2>2. heap' = [heap EXCEPT ![e] = [heap[e] EXCEPT !.database = OpenDatabase,
                                                   !.index = source_index]]
    BY <1>6 DEF SourceRead
  <2>3. [heap[e] EXCEPT !.database = OpenDatabase, !.index = source_index] # NoInfo
    <3>1. source_index \in Nat
      BY DEF TypeOK, EntryTypes
    <3> HIDE DEF e
    <3>2. QED
      BY <2>1, <3>1, FilledIsNotFree
  <2>4. {o \in Object : heap'[o] # NoInfo} = {o \in Object : heap[o] # NoInfo}
    BY <2>1, <2>2, <2>3, RecordUpdates DEF TypeOK, EntryTypes
  <2>5. e \notin Listed
    BY <2>1 DEF Listed
  <2>6. sources_array \in Seq(Object) /\ sources_array' = Append(sources_array, e)
    BY <1>6 DEF SourceRead, TypeOK, EntryTypes
  <2>7. /\ Range(sources_array') = Range(sources_array) \cup {e}
        /\ IsInjective(sources_array')
    BY <2>1, <2>5, <2>6, RangeOfAppend DEF Listed
  <2>8. Reading' = {} /\ UNCHANGED volumes_array
    BY <1>6, <2>1 DEF SourceRead
  <2> HIDE DEF e
  <2>9. QED
    BY <1>6, <2>1, <2>4, <2>5, <2>7, <2>8 DEF SourceRead, Listed
<1>7. CASE ReleaseRead
  <2>1. Reading' = {}
    BY <1>7 DEF ReleaseRead
  <2>2. {o \in Object : heap'[o] # NoInfo} =
          {o \in Object : heap[o] # NoInfo} \ Reading
    BY <1>7 DEF ReleaseRead
  <2>3. QED
    BY <1>7, <2>1, <2>2 DEF ReleaseRead
<1>8. QED
  <2> USE <1>1, <1>2, <1>3, <1>4, <1>5, <1>6, <1>7
  <2> HIDE DEF HeapExact, Reading
  <2>1. CASE ApplicationStep
    <3>1. ASSUME NEW h \in UserHandle,
                 ApplicationHandle(h) \/ OpenFileIoHandle(h)
          PROVE  HeapExact'
      BY <3>1
      DEF ApplicationHandle, OpenFileIoHandle, Accept, Refuse, arrayVars,
          localVars, ControlInv
    <3>2. ASSUME NEW h \in LibraryHandle, NEW d \in Database,
                 Open(h, d) \/ OpenWide(h, d)
          PROVE  HeapExact'
      BY <3>2
      DEF Open, OpenWide, OpenNamed, Accept, Refuse, arrayVars, localVars,
          ControlInv
    <3>3. CASE Close \/ Free
      BY <3>3 DEF Close, Free, CloseFile, arrayVars, localVars
    <3>4. CASE Initialize \/ SignalAbort
      BY <3>4 DEF Initialize, SignalAbort, arrayVars, localVars
    <3>5. QED
      BY <2>1, <3>1, <3>2, <3>3, <3>4 DEF ApplicationStep
  <2>2. CASE OpenStep
    <3>1. CASE ReadEntries
      BY <3>1 DEF ReadEntries, VolumesDone, arrayVars, localVars
    <3>2. CASE OpenReadFails
      BY <3>2 DEF OpenReadFails
    <3>3. CASE OpenHandle \/ OpenHandleFails \/ BeginOpenRead
               \/ ReadCompressedFileHeader \/ PrepareStream \/ OpenSucceeds
      BY <3>3
      DEF OpenHandle, OpenHandleFails, BeginOpenRead,
          ReadCompressedFileHeader, PrepareStream, OpenSucceeds, arrayVars,
          localVars
    <3>4. QED
      BY <2>2, <3>1, <3>2, <3>3 DEF OpenStep
  <2>3. CASE UNCHANGED vars
    BY <2>3 DEF vars, arrayVars, localVars
  <2>4. QED
    BY <2>1, <2>2, <2>3 DEF Next

(* Every information object is held exactly once and none is lost, for any  *)
(* sequence of opens, failures at any step, closes and frees.               *)
THEOREM Memory == Spec => []HeapExact
<1>1. QED
  BY InitHeap, StepHeap, TypeCorrect, PTL DEF Spec

-----------------------------------------------------------------------------
(* Helper objects                                                           *)

IsCompressed == FileType[OpenDatabase] # "uncompressed"

\* The helper objects of an open file.
HelpersOfOpenFile ==
  IF IsCompressed THEN Helpers ELSE {"uncompressed_data_stream"}

\* Before the file header is read there are none and the type is not known;
\* then they are made one by one, and only those the type calls for.
HelpersInv ==
  /\ file_io_handle = NULL \/ pc \in {"open_handle", "open_read", "file_header"}
       => helpers = {}
  /\ file_io_handle # NULL /\ pc \notin {"open_handle", "open_read", "file_header"}
       => io_handle.file_type = FileType[OpenDatabase]
  /\ pc \in {"list", "blocks", "cache"} => IsCompressed
  /\ pc = "list" => helpers = {}
  /\ pc \in {"blocks", "cache"} => helpers = {"compressed_blocks_list"}
  /\ pc = "stream" => helpers = HelpersOfOpenFile \ {"uncompressed_data_stream"}
  /\ file_io_handle # NULL
     /\ pc \in {"data_header", "volumes", "volume_read", "sources",
                "source_read", "idle"} => helpers = HelpersOfOpenFile

LEMMA InitHelpers == Init => HelpersInv
  BY DEF Init, HelpersInv

(* The database of an open file is the same until it is closed.             *)
LEMMA SameDatabase ==
  ASSUME TypeOK, ControlInv, Next, file_io_handle # NULL,
         file_io_handle' = file_io_handle
  PROVE  OpenDatabase' = OpenDatabase
<1> USE HandleAssumption
    DEF TypeOK, HandleTypes, ControlInv, fileVars, arrayVars, localVars,
        callVars, OpenDatabase
<1>1. ASSUME NEW h \in UserHandle, ApplicationHandle(h)
      PROVE  OpenDatabase' = OpenDatabase
  BY <1>1 DEF ApplicationHandle
<1>2. CASE Close \/ Free
  BY <1>2 DEF Close, Free, CloseFile
<1>3. CASE OpenHandle
  BY <1>3 DEF OpenHandle, Bfio
<1>4. CASE OpenHandleFails \/ OpenReadFails
  BY <1>4 DEF OpenHandleFails, OpenReadFails, AbandonHandle
<1>5. CASE UNCHANGED bfio
  BY <1>5
<1>6. ASSUME NEW h \in LibraryHandle, NEW d \in Database,
             Open(h, d) \/ OpenWide(h, d)
      PROVE  OpenDatabase' = OpenDatabase
  BY <1>6 DEF Open, OpenWide, OpenNamed, Refuse
<1>7. QED
  BY <1>1, <1>2, <1>3, <1>4, <1>5, <1>6
  DEF Next, OpenStep, ApplicationStep, Initialize, SignalAbort,
      OpenFileIoHandle, Refuse, BeginOpenRead, ReadCompressedFileHeader,
      PrepareStream, ReadEntries, OpenSucceeds

LEMMA StepHelpers ==
  TypeOK /\ ControlInv /\ HelpersInv /\ [Next]_vars => HelpersInv'
<1> SUFFICES ASSUME TypeOK, ControlInv, HelpersInv, [Next]_vars
             PROVE  HelpersInv'
  OBVIOUS
<1> USE HandleAssumption
    DEF HelpersInv, HelpersOfOpenFile, IsCompressed, fileVars, arrayVars,
        localVars, callVars
<1>a. ASSUME Next, file_io_handle # NULL, file_io_handle' = file_io_handle
      PROVE  OpenDatabase' = OpenDatabase
  BY <1>a, SameDatabase
<1>b. /\ pc # "idle" => file_io_handle # NULL
      /\ io_handle \in [file_type : FileTypes \cup {"unset"}, abort : {0, 1}]
  BY DEF ControlInv, TypeOK, CallTypes
<1>1. ASSUME NEW h \in UserHandle, ApplicationHandle(h)
      PROVE  HelpersInv'
  <2>1. Next
    BY <1>1 DEF Next, ApplicationStep
  <2>2. QED
    BY <1>1, <1>a, <2>1 DEF ApplicationHandle
<1>2. CASE Initialize
  <2>1. Next
    BY <1>2 DEF Next, ApplicationStep
  <2>2. QED
    BY <1>2, <1>a, <2>1 DEF Initialize
<1>3. CASE SignalAbort
  <2>1. Next
    BY <1>3 DEF Next, ApplicationStep
  <2>2. QED
    BY <1>3, <1>a, <1>b, <2>1 DEF SignalAbort
<1>4. CASE Close \/ Free
  <2>1. Next
    BY <1>4 DEF Next, ApplicationStep
  <2>2. QED
    BY <1>4, <1>a, <2>1 DEF Close, Free, CloseFile
<1>6. ASSUME NEW h \in LibraryHandle, NEW d \in Database,
             Open(h, d) \/ OpenWide(h, d)
      PROVE  HelpersInv'
  <2>1. Next
    BY <1>6 DEF Next, ApplicationStep
  <2>2. QED
    BY <1>6, <1>a, <2>1 DEF Open, OpenWide, OpenNamed, Accept, Refuse
<1>7. ASSUME NEW h \in UserHandle, OpenFileIoHandle(h)
      PROVE  HelpersInv'
  <2>1. Next
    BY <1>7 DEF Next, ApplicationStep
  <2>2. QED
    BY <1>7, <1>a, <2>1 DEF OpenFileIoHandle, Accept, Refuse
<1>8. CASE OpenStep
  <2>1. Next
    BY <1>8 DEF Next
  <2>2. CASE OpenHandle \/ BeginOpenRead
    BY <1>b, <2>2 DEF OpenHandle, BeginOpenRead
  <2>3. CASE OpenHandleFails \/ OpenReadFails
    BY <2>3 DEF OpenHandleFails, OpenReadFails, ReleaseRead, AbandonHandle
  <2>4. CASE ReadCompressedFileHeader
    BY <1>a, <1>b, <2>1, <2>4 DEF ReadCompressedFileHeader, Helpers
  <2>5. CASE PrepareStream
    BY <1>a, <1>b, <2>1, <2>5
    DEF PrepareStream, InitializeBlocksList, ReadCompressedBlocks,
        InitializeBlocksCache, InitializeDataStream,
        ReadUncompressedFileHeader, Helpers
  <2>6. CASE ReadEntries
    BY <1>a, <1>b, <2>1, <2>6
    DEF ReadEntries, VolumeInitialize, VolumeRead, VolumesDone,
        SourceInitialize, SourceRead
  <2>7. CASE OpenSucceeds
    BY <1>a, <1>b, <2>1, <2>7 DEF OpenSucceeds
  <2>8. QED
    BY <1>8, <2>2, <2>3, <2>4, <2>5, <2>6, <2>7 DEF OpenStep
<1>9. CASE UNCHANGED vars
  BY <1>9 DEF vars, OpenDatabase
<1>10. QED
  BY <1>1, <1>2, <1>3, <1>4, <1>6, <1>7, <1>8, <1>9 DEF Next, ApplicationStep

(* The blocks list, the cache and the data stream are those of the file     *)
(* that is open, and no open that failed leaves one behind, whichever call  *)
(* of which open failed.                                                    *)
THEOREM HelpersMatch == Spec => []HelpersMatchFile
<1>1. HelpersInv => HelpersMatchFile
  BY DEF HelpersInv, HelpersMatchFile, HelpersOfOpenFile, IsCompressed
<1>2. QED
  BY <1>1, InitHelpers, StepHelpers, TypeCorrect, PTL DEF Spec

-----------------------------------------------------------------------------
(* The entries of an open file                                              *)

\* What the loops have appended so far, and how far they are.
EntriesInv ==
  file_io_handle # NULL =>
    /\ EndsWith(volumes_array, "volume", OpenDatabase, volume_index)
    /\ EndsWith(sources_array, "source", OpenDatabase, source_index)
    /\ volume_index <= NumberOfVolumes[OpenDatabase]
    /\ source_index <= NumberOfSources[OpenDatabase]
    /\ pc = "volume_read" => volume_index < NumberOfVolumes[OpenDatabase]
    /\ pc = "source_read" => source_index < NumberOfSources[OpenDatabase]
    /\ pc \in {"open_handle", "open_read", "file_header", "list", "blocks",
               "cache", "stream", "data_header"} =>
         volume_index = 0 /\ source_index = 0
    /\ pc \in {"volumes", "volume_read"} => source_index = 0
    /\ pc \in {"sources", "source_read", "idle"} =>
         volume_index = NumberOfVolumes[OpenDatabase]
    /\ pc = "idle" => source_index = NumberOfSources[OpenDatabase]
    /\ pc = "volume_read" =>
         heap[volume_information] = Blank("volume")
    /\ pc = "source_read" =>
         heap[source_information] = Blank("source")

\* EndsWith in any state of the memory.
Holds(memory, array, kind, d, n) ==
  /\ Len(array) >= n
  /\ \A i \in 1 .. n :
       memory[array[Len(array) - n + i]] =
         [kind |-> kind, database |-> d, index |-> i - 1]

(* Entries that stay in memory unchanged are still the last of the array.   *)
LEMMA HoldsKept ==
  ASSUME NEW a \in Seq(Object), NEW kind, NEW d, NEW n \in Nat,
         NEW m1, NEW m2, Holds(m1, a, kind, d, n),
         \A o \in Range(a) : m2[o] = m1[o]
  PROVE  Holds(m2, a, kind, d, n)
<1>1. \A i \in 1 .. n : a[Len(a) - n + i] \in Range(a)
  BY DEF Holds, Range
<1>2. QED
  BY <1>1 DEF Holds

(* One more entry of the database is one more at the end.                   *)
LEMMA HoldsAppended ==
  ASSUME NEW a \in Seq(Object), NEW e \in Object, NEW kind, NEW d,
         NEW n \in Nat, NEW m1, NEW m2,
         Holds(m1, a, kind, d, n),
         \A o \in Range(a) : m2[o] = m1[o],
         m2[e] = [kind |-> kind, database |-> d, index |-> n]
  PROVE  Holds(m2, Append(a, e), kind, d, n + 1)
<1> DEFINE b == Append(a, e)
<1>1. /\ Len(b) = Len(a) + 1 /\ Len(a) \in Nat /\ Len(a) >= n
      /\ b[Len(a) + 1] = e
      /\ \A i \in 1 .. Len(a) : b[i] = a[i]
  BY DEF Holds
<1>2. Len(b) >= n + 1
  BY <1>1
<1>3. ASSUME NEW i \in 1 .. n + 1
      PROVE  m2[b[Len(b) - (n + 1) + i]] =
               [kind |-> kind, database |-> d, index |-> i - 1]
  <2>1. CASE i = n + 1
    <3>1. b[Len(b) - (n + 1) + i] = e
      BY <1>1, <2>1
    <3>2. i - 1 = n
      BY <2>1
    <3>3. QED
      BY <3>1, <3>2
  <2>2. CASE i \in 1 .. n
    <3>1. /\ b[Len(b) - (n + 1) + i] = a[Len(a) - n + i]
          /\ Len(a) - n + i \in 1 .. Len(a)
      BY <1>1, <2>2
    <3>2. a[Len(a) - n + i] \in Range(a)
      BY <3>1 DEF Range
    <3>3. QED
      BY <2>2, <3>1, <3>2 DEF Holds
  <2>3. i = n + 1 \/ i \in 1 .. n
    OBVIOUS
  <2> HIDE DEF b
  <2>4. QED
    BY <2>1, <2>2, <2>3
<1>4. QED
  BY <1>2, <1>3 DEF Holds

(* A new object with the fields of its entry filled in.                     *)
LEMMA FilledBlank ==
  ASSUME NEW k, NEW d, NEW i
  PROVE  [Blank(k) EXCEPT !.database = d, !.index = i] =
           [kind |-> k, database |-> d, index |-> i]
<1> DEFINE r == [Blank(k) EXCEPT !.database = d, !.index = i]
<1>1. Blank(k) \in [kind : {k}, database : {NULL}, index : {0}]
  BY DEF Blank
<1>2. r \in [kind : {k}, database : {NULL, d}, index : {0, i}]
  BY <1>1
<1>3. r.kind = k /\ r.database = d /\ r.index = i
  BY <1>1
<1> HIDE DEF r
<1>4. r = [kind |-> k, database |-> d, index |-> i]
  BY <1>2, <1>3
<1>5. QED
  BY <1>4 DEF r

LEMMA InitEntries == Init => EntriesInv
  BY DEF Init, EntriesInv

\* Every step but close and free.
OtherStep ==
  \/ OpenStep \/ Initialize \/ SignalAbort
  \/ \E h \in UserHandle : ApplicationHandle(h) \/ OpenFileIoHandle(h)
  \/ \E h \in LibraryHandle, d \in Database : Open(h, d) \/ OpenWide(h, d)

(* Nothing of what an array holds changes but in close and free.            *)
LEMMA ListedKept ==
  ASSUME TypeOK, ControlInv, HeapExact, OtherStep
  PROVE  \A o \in Listed : heap'[o] = heap[o]
<1> USE HandleAssumption DEF HeapExact, Reading, Listed, arrayVars, localVars
<1>0. Listed \subseteq Object
  BY DEF TypeOK, EntryTypes, Range
<1>1. CASE UNCHANGED heap
  BY <1>1
<1>2. CASE VolumeInitialize \/ SourceInitialize
  <2>1. Allocated \notin Listed
    BY <1>2, AllocatedIsFree DEF VolumeInitialize, SourceInitialize
  <2>2. QED
    BY <1>2, <2>1, <1>0
    DEF VolumeInitialize, SourceInitialize, TypeOK, EntryTypes
<1>3. CASE VolumeRead
  <2>1. volume_information \notin Listed
    BY <1>3 DEF VolumeRead, ControlInv
  <2>2. QED
    BY <1>0, <1>3, <2>1 DEF VolumeRead, TypeOK, EntryTypes
<1>4. CASE SourceRead
  <2>1. source_information \notin Listed
    BY <1>4 DEF SourceRead, ControlInv
  <2>2. QED
    BY <1>0, <1>4, <2>1 DEF SourceRead, TypeOK, EntryTypes
<1>5. CASE ReleaseRead
  BY <1>0, <1>5 DEF ReleaseRead
<1>6. CASE OpenStep
  BY <1>1, <1>2, <1>3, <1>4, <1>5, <1>6
  DEF OpenStep, OpenHandle, OpenHandleFails, BeginOpenRead,
      ReadCompressedFileHeader, PrepareStream, ReadEntries, VolumesDone,
      OpenSucceeds, OpenReadFails
<1>7. QED
  BY <1>1, <1>6
  DEF OtherStep, Initialize, SignalAbort, ApplicationHandle,
      OpenFileIoHandle, Open, OpenWide, OpenNamed

LEMMA StepEntries ==
  TypeOK /\ ControlInv /\ HeapExact /\ EntriesInv /\ [Next]_vars => EntriesInv'
<1> SUFFICES ASSUME TypeOK, ControlInv, HeapExact, EntriesInv, [Next]_vars,
                    file_io_handle' # NULL
             PROVE  EntriesInv'
  BY DEF EntriesInv
<1> USE HandleAssumption DEF fileVars, arrayVars, localVars, callVars
<1>a. /\ volumes_array \in Seq(Object) /\ sources_array \in Seq(Object)
      /\ volume_index \in Nat /\ source_index \in Nat
      /\ pc # "idle" => file_io_handle # NULL
  BY DEF TypeOK, EntryTypes, ControlInv
<1>b. file_io_handle # NULL =>
        /\ OpenDatabase \in Database
        /\ NumberOfVolumes[OpenDatabase] \in Nat
        /\ NumberOfSources[OpenDatabase] \in Nat
  BY DatabaseAssumption DEF ControlInv, OpenDatabase, Bfio
<1>c. Range(volumes_array) \subseteq Listed /\ Range(sources_array) \subseteq Listed
  BY DEF Listed
<1>d. ASSUME Next, file_io_handle # NULL, file_io_handle' = file_io_handle
      PROVE  OpenDatabase' = OpenDatabase
  BY <1>d, SameDatabase
<1>1. ASSUME Next, file_io_handle # NULL, file_io_handle' = file_io_handle,
             UNCHANGED <<volumes_array, sources_array, volume_index,
                         source_index, volume_information,
                         source_information, heap, pc>>
      PROVE  EntriesInv'
  BY <1>1, <1>d DEF EntriesInv, EndsWith
<1>2. ASSUME NEW h, NEW s, NEW f, Accept(f, h, s),
             UNCHANGED <<volumes_array, sources_array, heap>>
      PROVE  EntriesInv'
  <2>1. volume_index' = 0 /\ source_index' = 0 /\ pc' = "open_handle"
    BY <1>2 DEF Accept
  <2>2. TypeOK' /\ ControlInv'
    BY StepTypes
  <2>3. /\ NumberOfVolumes[OpenDatabase'] \in Nat
        /\ NumberOfSources[OpenDatabase'] \in Nat
    BY <2>2, DatabaseAssumption DEF ControlInv, OpenDatabase, Bfio
  <2>4. QED
    BY <1>2, <1>a, <2>1, <2>3 DEF EntriesInv, EndsWith
<1>3. CASE ApplicationStep
  <2>1. Next
    BY <1>3 DEF Next
  <2>2. ASSUME NEW h \in UserHandle, OpenFileIoHandle(h)
        PROVE  EntriesInv'
    BY <1>1, <1>2, <2>1, <2>2 DEF OpenFileIoHandle, Refuse
  <2>3. ASSUME NEW h \in LibraryHandle, NEW d \in Database,
               Open(h, d) \/ OpenWide(h, d)
        PROVE  EntriesInv'
    BY <1>1, <1>2, <2>1, <2>3 DEF Open, OpenWide, OpenNamed, Refuse
  <2>4. CASE Close \/ Free
    BY <1>1, <2>1, <2>4 DEF Close, Free, CloseFile
  <2>5. QED
    BY <1>1, <1>3, <2>1, <2>2, <2>3, <2>4
    DEF ApplicationStep, Initialize, SignalAbort, ApplicationHandle
<1>4. CASE OpenStep
  <2>1. Next /\ pc # "idle" /\ file_io_handle' = file_io_handle
    BY <1>4
    DEF Next, OpenStep, OpenHandle, OpenHandleFails, BeginOpenRead,
        ReadCompressedFileHeader, PrepareStream, InitializeBlocksList,
        ReadCompressedBlocks, InitializeBlocksCache, InitializeDataStream,
        ReadUncompressedFileHeader, ReadEntries, VolumeInitialize, VolumeRead,
        VolumesDone, SourceInitialize, SourceRead, OpenSucceeds,
        OpenReadFails, ReadSteps, AbandonHandle
  <2>2. OpenDatabase' = OpenDatabase /\ file_io_handle # NULL
    BY <2>1, <1>a, <1>d
  <2>3. \A o \in Listed : heap'[o] = heap[o]
    BY <1>4, ListedKept DEF OtherStep
  <2>4. /\ Holds(heap, volumes_array, "volume", OpenDatabase, volume_index)
        /\ Holds(heap, sources_array, "source", OpenDatabase, source_index)
    BY <2>2 DEF EntriesInv, EndsWith, Holds
  <2>5. UNCHANGED <<volumes_array, volume_index>> =>
          EndsWith(volumes_array, "volume", OpenDatabase, volume_index)'
    <3>1. Holds(heap', volumes_array, "volume", OpenDatabase, volume_index)
      BY <1>a, <1>c, <2>3, <2>4, HoldsKept
    <3>2. QED
      BY <2>2, <3>1 DEF EndsWith, Holds
  <2>6. UNCHANGED <<sources_array, source_index>> =>
          EndsWith(sources_array, "source", OpenDatabase, source_index)'
    <3>1. Holds(heap', sources_array, "source", OpenDatabase, source_index)
      BY <1>a, <1>c, <2>3, <2>4, HoldsKept
    <3>2. QED
      BY <2>2, <3>1 DEF EndsWith, Holds
  <2>7. CASE OpenHandle \/ BeginOpenRead \/ ReadCompressedFileHeader
             \/ PrepareStream
    <3>1. UNCHANGED <<localVars, arrayVars>>
      BY <2>7 DEF OpenHandle, BeginOpenRead, ReadCompressedFileHeader,
                  PrepareStream
    <3>2. /\ pc \in {"open_handle", "open_read", "file_header", "list",
                     "blocks", "cache", "stream", "data_header"}
          /\ pc' \in {"open_read", "file_header", "list", "blocks", "cache",
                      "stream", "data_header", "volumes"}
      BY <2>7
      DEF OpenHandle, BeginOpenRead, ReadCompressedFileHeader, PrepareStream,
          InitializeBlocksList, ReadCompressedBlocks, InitializeBlocksCache,
          InitializeDataStream, ReadUncompressedFileHeader
    <3>3. QED
      BY <1>a, <1>b, <2>2, <2>5, <2>6, <3>1, <3>2 DEF EntriesInv
  <2>8. CASE VolumeInitialize
    <3>1. heap'[volume_information'] = Blank("volume")
      BY <2>8, AllocatedIsFree DEF VolumeInitialize, TypeOK, EntryTypes
    <3>2. QED
      BY <1>a, <1>b, <2>2, <2>5, <2>6, <2>8, <3>1
      DEF EntriesInv, VolumeInitialize
  <2>9. CASE VolumeRead
    <3> DEFINE e == volume_information
    <3>1. e \in Object /\ heap[e] = Blank("volume")
      BY <2>2, <2>9 DEF VolumeRead, EntriesInv, ControlInv, TypeOK, EntryTypes
    <3>2. heap'[e] = [kind |-> "volume", database |-> OpenDatabase,
                      index |-> volume_index]
      <4>1. heap'[e] = [heap[e] EXCEPT !.database = OpenDatabase,
                                       !.index = volume_index]
        BY <2>9, <3>1 DEF VolumeRead, TypeOK, EntryTypes
      <4> HIDE DEF e
      <4>2. QED
        BY <3>1, <4>1, FilledBlank
    <3>3. volumes_array' = Append(volumes_array, e)
          /\ volume_index' = volume_index + 1
      BY <2>9 DEF VolumeRead
    <3>4. \A o \in Range(volumes_array) : heap'[o] = heap[o]
      BY <1>c, <2>3
    <3>5. EndsWith(volumes_array, "volume", OpenDatabase, volume_index)'
      <4> HIDE DEF e
      <4>1. Holds(heap', Append(volumes_array, e), "volume", OpenDatabase,
                  volume_index + 1)
        BY <1>a, <2>4, <3>1, <3>2, <3>4, HoldsAppended
      <4>2. QED
        BY <2>2, <3>3, <4>1 DEF EndsWith, Holds
    <3>6. QED
      BY <1>a, <1>b, <2>2, <2>6, <2>9, <3>5 DEF EntriesInv, VolumeRead
  <2>10. CASE VolumesDone
    BY <1>a, <1>b, <2>2, <2>5, <2>6, <2>10 DEF EntriesInv, VolumesDone
  <2>11. CASE SourceInitialize
    <3>1. heap'[source_information'] = Blank("source")
      BY <2>11, AllocatedIsFree DEF SourceInitialize, TypeOK, EntryTypes
    <3>2. QED
      BY <1>a, <1>b, <2>2, <2>5, <2>6, <2>11, <3>1
      DEF EntriesInv, SourceInitialize
  <2>12. CASE SourceRead
    <3> DEFINE e == source_information
    <3>1. e \in Object /\ heap[e] = Blank("source")
      BY <2>2, <2>12 DEF SourceRead, EntriesInv, ControlInv, TypeOK, EntryTypes
    <3>2. heap'[e] = [kind |-> "source", database |-> OpenDatabase,
                      index |-> source_index]
      <4>1. heap'[e] = [heap[e] EXCEPT !.database = OpenDatabase,
                                       !.index = source_index]
        BY <2>12, <3>1 DEF SourceRead, TypeOK, EntryTypes
      <4> HIDE DEF e
      <4>2. QED
        BY <3>1, <4>1, FilledBlank
    <3>3. sources_array' = Append(sources_array, e)
          /\ source_index' = source_index + 1
      BY <2>12 DEF SourceRead
    <3>4. \A o \in Range(sources_array) : heap'[o] = heap[o]
      BY <1>c, <2>3
    <3>5. EndsWith(sources_array, "source", OpenDatabase, source_index)'
      <4> HIDE DEF e
      <4>1. Holds(heap', Append(sources_array, e), "source", OpenDatabase,
                  source_index + 1)
        BY <1>a, <2>4, <3>1, <3>2, <3>4, HoldsAppended
      <4>2. QED
        BY <2>2, <3>3, <4>1 DEF EndsWith, Holds
    <3>6. QED
      BY <1>a, <1>b, <2>2, <2>5, <2>12, <3>5 DEF EntriesInv, SourceRead
  <2>13. CASE OpenSucceeds
    BY <1>a, <1>b, <2>2, <2>5, <2>6, <2>13 DEF EntriesInv, OpenSucceeds
  <2>14. CASE OpenHandleFails \/ OpenReadFails
    BY <2>1, <2>2, <2>14 DEF OpenHandleFails, OpenReadFails, AbandonHandle
  <2>15. QED
    BY <1>4, <2>7, <2>8, <2>9, <2>10, <2>11, <2>12, <2>13, <2>14
    DEF OpenStep, ReadEntries
<1>6. CASE UNCHANGED vars
  BY <1>6 DEF vars, EntriesInv, OpenDatabase, EndsWith
<1>7. QED
  BY <1>3, <1>4, <1>6 DEF Next

(* An open that returns 1 has every volume and every source its header      *)
(* counts, in order, at the end of the arrays, whatever earlier opens left. *)
THEOREM OpenIsComplete == Spec => []OpenFileHasItsEntries
<1>1. EntriesInv => OpenFileHasItsEntries
  BY DEF EntriesInv, OpenFileHasItsEntries, IsOpen
<1>2. QED
  BY <1>1, InitEntries, StepEntries, InitHeap, StepHeap, TypeCorrect, PTL
  DEF Spec

-----------------------------------------------------------------------------
(* References, and the refinement of FileApi                                *)

allVars == <<vars, references>>

LEMMA StepOfFile == [NextReferences]_allVars => [Next]_vars
<1>1. FileStep => Next
  BY DEF FileStep, Next, ApplicationStep
<1>2. NextReferences /\ ~FileStep => UNCHANGED vars
  BY DEF NextReferences, GetVolumeInformation, GetSourceInformation,
         GetFileInformation, VolumeInformationFree, FileInformationFree,
         SourceInformationFree, vars
<1>3. QED
  BY <1>1, <1>2 DEF allVars

(* The getters of entries and their free functions leave the life of the    *)
(* file as it is, so that all that is proved of Spec holds of the           *)
(* composition as well.                                                     *)
THEOREM LifeOfFile == SpecReferences => Spec
<1>1. InitReferences => Init
  BY DEF InitReferences
<1>2. QED
  BY <1>1, StepOfFile, PTL DEF Spec, SpecReferences, allVars

\* The objects, seen in a state of the memory, of an array; and the array
\* without the last n.
Look(memory, array) == [i \in DOMAIN array |-> memory[array[i]]]
Without(array, n) == SubSeq(array, 1, Len(array) - n)

LEMMA LookKept ==
  ASSUME NEW a \in Seq(Object), NEW m1, NEW m2,
         \A o \in Range(a) : m2[o] = m1[o]
  PROVE  Look(m2, a) = Look(m1, a)
  BY DEF Look, Range

LEMMA WithoutProperties ==
  ASSUME NEW a \in Seq(Object), NEW n \in Nat, n <= Len(a)
  PROVE  /\ Without(a, n) \in Seq(Object)
         /\ Len(Without(a, n)) = Len(a) - n
         /\ \A i \in 1 .. Len(a) - n : Without(a, n)[i] = a[i]
         /\ Range(Without(a, n)) \subseteq Range(a)
<1>1. Len(a) \in Nat
  OBVIOUS
<1>2. \A i \in 1 .. Len(a) - n : a[i] \in Object
  BY <1>1
<1>3. /\ Without(a, n) \in Seq(Object)
      /\ Len(Without(a, n)) = Len(a) - n
      /\ \A i \in 1 .. Len(a) - n : Without(a, n)[i] = a[i]
  BY <1>1, <1>2 DEF Without
<1>4. QED
  BY <1>1, <1>3 DEF Range

LEMMA WithoutNone ==
  ASSUME NEW a \in Seq(Object)
  PROVE  Without(a, 0) = a
<1>1. Len(a) - 0 = Len(a)
  OBVIOUS
<1>2. QED
  BY <1>1, SubSeqFull DEF Without

LEMMA WithoutAppended ==
  ASSUME NEW a \in Seq(Object), NEW n \in Nat, n <= Len(a), NEW e \in Object
  PROVE  Without(Append(a, e), n + 1) = Without(a, n)
<1> DEFINE b == Append(a, e)
<1>1. b \in Seq(Object) /\ Len(b) = Len(a) + 1 /\ Len(a) \in Nat
      /\ \A i \in 1 .. Len(a) : b[i] = a[i]
  OBVIOUS
<1>2. /\ Without(b, n + 1) \in Seq(Object)
      /\ Len(Without(b, n + 1)) = Len(a) - n
      /\ \A i \in 1 .. Len(a) - n : Without(b, n + 1)[i] = b[i]
  <2>1. n + 1 \in Nat /\ n + 1 <= Len(b) /\ Len(b) - (n + 1) = Len(a) - n
    BY <1>1
  <2> HIDE DEF b
  <2>2. QED
    BY <1>1, <2>1, WithoutProperties
<1>3. /\ Without(a, n) \in Seq(Object)
      /\ Len(Without(a, n)) = Len(a) - n
      /\ \A i \in 1 .. Len(a) - n : Without(a, n)[i] = a[i]
  BY WithoutProperties
<1>4. Without(b, n + 1) = Without(a, n)
  <2> HIDE DEF b
  <2>1. \A i \in 1 .. Len(a) - n : Without(b, n + 1)[i] = Without(a, n)[i]
    BY <1>1, <1>2, <1>3
  <2>2. QED
    BY <1>2, <1>3, <2>1, SeqEqual
<1>5. QED
  BY <1>4

(* An array that ends with n entries is what was there before and those.    *)
LEMMA LookSplit ==
  ASSUME NEW a \in Seq(Object), NEW k, NEW d, NEW n \in Nat, NEW m,
         Holds(m, a, k, d, n)
  PROVE  Look(m, a) = Look(m, Without(a, n)) \o Api!Entries(k, d, n)
<1> DEFINE b == Without(a, n)
           v == Look(m, b)
           w == Api!Entries(k, d, n)
           entry(i) == [kind |-> k, database |-> d, index |-> i - 1]
           S == {m[o] : o \in Object} \cup {entry(i) : i \in 1 .. n}
<1>1. Len(a) \in Nat /\ n <= Len(a) /\ DOMAIN a = 1 .. Len(a)
  BY DEF Holds
<1>2. /\ Len(b) = Len(a) - n /\ b \in Seq(Object)
      /\ \A i \in 1 .. Len(a) - n : b[i] = a[i]
  BY <1>1, WithoutProperties
<1>3. /\ v \in Seq(S) /\ Len(v) = Len(a) - n
      /\ \A i \in 1 .. Len(a) - n : v[i] = m[a[i]]
  <2>1. DOMAIN b = 1 .. Len(a) - n /\ Len(a) - n \in Nat
    BY <1>1, <1>2
  <2>2. \A i \in 1 .. Len(a) - n : b[i] \in Object
    BY <1>2
  <2>3. v = [i \in 1 .. Len(a) - n |-> m[b[i]]]
    BY <2>1 DEF Look
  <2> HIDE DEF b, v, entry
  <2>4. QED
    BY <1>2, <2>1, <2>2, <2>3
<1>4. /\ w \in Seq(S) /\ Len(w) = n
      /\ \A i \in 1 .. n : w[i] = entry(i)
  <2>1. w = [i \in 1 .. n |-> entry(i)]
    BY DEF Api!Entries
  <2> HIDE DEF w, entry
  <2>2. QED
    BY <2>1
<1>5. /\ v \o w \in Seq(S) /\ Len(v \o w) = Len(a)
      /\ \A i \in 1 .. Len(a) :
           (v \o w)[i] = IF i <= Len(a) - n THEN v[i]
                                            ELSE w[i - (Len(a) - n)]
  <2> HIDE DEF v, w, S, b
  <2>1. (Len(a) - n) + n = Len(a)
    BY <1>1
  <2>2. QED
    BY <1>3, <1>4, <2>1, ConcatProperties
<1>6. \A i \in 1 .. Len(a) : (v \o w)[i] = m[a[i]]
  <2> SUFFICES ASSUME NEW i \in 1 .. Len(a)
               PROVE  (v \o w)[i] = m[a[i]]
    OBVIOUS
  <2>1. CASE i <= Len(a) - n
    <3>1. i \in 1 .. Len(a) - n
      BY <1>1, <2>1
    <3> HIDE DEF v, w
    <3>2. QED
      BY <1>3, <1>5, <2>1, <3>1
  <2>2. CASE ~(i <= Len(a) - n)
    <3> DEFINE j == i - (Len(a) - n)
    <3>1. j \in 1 .. n /\ Len(a) - n + j = i
      BY <1>1, <2>2
    <3>2. w[j] = entry(j)
      BY <1>4, <3>1
    <3>3. m[a[Len(a) - n + j]] = entry(j)
      BY <3>1 DEF Holds
    <3>4. (v \o w)[i] = w[j]
      <4> HIDE DEF v, w
      <4>1. QED
        BY <1>5, <2>2
    <3> HIDE DEF v, w, j, entry
    <3>5. QED
      BY <3>1, <3>2, <3>3, <3>4
  <2>3. QED
    BY <2>1, <2>2
<1>7. Look(m, a) = [i \in 1 .. Len(a) |-> m[a[i]]]
  BY <1>1 DEF Look
<1>8. v \o w = [i \in 1 .. Len(a) |-> m[a[i]]]
  <2> DEFINE u == v \o w
  <2>1. u \in Seq(S) /\ Len(u) = Len(a)
        /\ \A i \in 1 .. Len(a) : u[i] = m[a[i]]
    BY <1>5, <1>6
  <2> HIDE DEF u, S
  <2>2. u = [i \in 1 .. Len(a) |-> u[i]]
    BY <2>1, LenProperties
  <2>3. u = [i \in 1 .. Len(a) |-> m[a[i]]]
    BY <2>1, <2>2
  <2>4. QED
    BY <2>3 DEF u
<1>9. QED
  BY <1>7, <1>8

-----------------------------------------------------------------------------
\* An entry that has been read: of a database, one of those it has.
IsVolumeEntry(e) ==
  /\ e \in Info /\ e.database \in Database
  /\ e.index < NumberOfVolumes[e.database]

\* Whatever the application refers to is in the arrays, and what is in the
\* volumes array has been read.
ReferenceInv ==
  /\ file = "null" => file_io_handle = NULL
  /\ \A o \in Range(volumes_array) : IsVolumeEntry(heap[o])
  /\ volume_reference # NULL => volume_reference \in Range(volumes_array)
  /\ source_reference # NULL => source_reference \in Range(sources_array)
  /\ file_reference # NULL =>
       file_reference[1] \in Range(volumes_array)

FileInv == TypeOK /\ ControlInv /\ HeapExact /\ EntriesInv

LEMMA InitReferenceInv == InitReferences => ReferenceInv
  BY DEF InitReferences, Init, ReferenceInv, Range

\* An open only adds to the arrays, and changes nothing they hold.
LEMMA OpenKeepsEntries ==
  ASSUME FileInv, OtherStep
  PROVE  /\ Range(volumes_array) \subseteq Range(volumes_array')
         /\ Range(sources_array) \subseteq Range(sources_array')
         /\ \A o \in Listed : heap'[o] = heap[o]
         /\ ~VolumeRead => UNCHANGED volumes_array
<1> USE DEF FileInv, TypeOK, EntryTypes, ControlInv
<1>1. \A o \in Listed : heap'[o] = heap[o]
  BY ListedKept
<1>2. CASE VolumeRead
  <2>1. /\ volumes_array' = Append(volumes_array, volume_information)
        /\ sources_array' = sources_array
        /\ volume_information \in Object
    BY <1>2 DEF VolumeRead
  <2>2. QED
    BY <1>1, <1>2, <2>1, RangeOfAppend
<1>3. CASE SourceRead
  <2>1. /\ sources_array' = Append(sources_array, source_information)
        /\ volumes_array' = volumes_array
        /\ source_information \in Object
    BY <1>3 DEF SourceRead
  <2>2. QED
    BY <1>1, <1>3, <2>1, RangeOfAppend
<1>4. CASE UNCHANGED <<volumes_array, sources_array>>
  BY <1>1, <1>4
<1>5. QED
  BY <1>2, <1>3, <1>4
  DEF OtherStep, OpenStep, Initialize, SignalAbort,
      ApplicationHandle, OpenFileIoHandle, Open, OpenWide, OpenNamed,
      OpenHandle, OpenHandleFails, BeginOpenRead, ReadCompressedFileHeader,
      PrepareStream, ReadEntries, VolumeInitialize, VolumesDone,
      SourceInitialize, OpenSucceeds, OpenReadFails, ReleaseRead, arrayVars

LEMMA StepReferenceInv ==
  FileInv /\ ReferenceInv /\ [NextReferences]_allVars => ReferenceInv'
<1> SUFFICES ASSUME FileInv, ReferenceInv, [NextReferences]_allVars
             PROVE  ReferenceInv'
  OBVIOUS
<1> USE HandleAssumption DEF ReferenceInv, references
<1>1. CASE OtherStep /\ UNCHANGED references
  <2>1. file' = "null" => file_io_handle' = NULL
    BY <1>1
    DEF OtherStep, OpenStep, Initialize, SignalAbort,
        ApplicationHandle, OpenFileIoHandle, Open, OpenWide, OpenNamed,
        Refuse, OpenHandle, OpenHandleFails, BeginOpenRead,
        ReadCompressedFileHeader, PrepareStream, ReadEntries, OpenSucceeds,
        OpenReadFails, AbandonHandle, fileVars
  <2>2. \A o \in Range(volumes_array') : IsVolumeEntry(heap'[o])
    <3>1. CASE VolumeRead
      <4> DEFINE e == volume_information
      <4>1. /\ file_io_handle # NULL /\ e \in Object
            /\ heap \in [Object -> Info \cup {NoInfo}]
            /\ volume_index \in Nat /\ volumes_array \in Seq(Object)
        BY <3>1 DEF VolumeRead, FileInv, TypeOK, EntryTypes, ControlInv
      <4>2. /\ heap[e] = Blank("volume")
            /\ volume_index < NumberOfVolumes[OpenDatabase]
        BY <3>1, <4>1 DEF VolumeRead, FileInv, EntriesInv
      <4>3. OpenDatabase \in Database
        BY <4>1 DEF FileInv, ControlInv, OpenDatabase, Bfio
      <4>4. heap'[e] = [kind |-> "volume", database |-> OpenDatabase,
                        index |-> volume_index]
        <5>1. heap'[e] = [heap[e] EXCEPT !.database = OpenDatabase,
                                         !.index = volume_index]
          BY <3>1, <4>1 DEF VolumeRead
        <5> HIDE DEF e
        <5>2. QED
          BY <4>2, <5>1, FilledBlank
      <4>5. IsVolumeEntry(heap'[e])
        <5> HIDE DEF e
        <5>1. QED
          BY <4>1, <4>2, <4>3, <4>4 DEF IsVolumeEntry, Info
      <4>6. Range(volumes_array') = Range(volumes_array) \cup {e}
        BY <3>1, <4>1, RangeOfAppend DEF VolumeRead
      <4>7. QED
        BY <1>1, <4>5, <4>6, OpenKeepsEntries DEF Listed
    <3>2. CASE ~VolumeRead
      BY <1>1, <3>2, OpenKeepsEntries DEF Listed
    <3>3. QED
      BY <3>1, <3>2
  <2>3. QED
    BY <1>1, <2>1, <2>2, OpenKeepsEntries
<1>2. CASE NoReferences /\ (Close \/ Free) /\ UNCHANGED references
  <2>1. \/ volumes_array' = volumes_array /\ heap' = heap
        \/ volumes_array' = <<>>
    BY <1>2 DEF Close, Free, CloseFile, FreeEntries, arrayVars
  <2>2. references' = <<NULL, NULL, NULL>>
    BY <1>2 DEF NoReferences
  <2>3. file' = "null" => file_io_handle' = NULL
    BY <1>2 DEF Close, Free, CloseFile
  <2>4. QED
    BY <2>1, <2>2, <2>3, EmptySequence
<1>3. CASE GetVolumeInformation \/ GetSourceInformation
  <2>1. volumes_array \in Seq(Object) /\ sources_array \in Seq(Object)
    BY DEF FileInv, TypeOK, EntryTypes
  <2>2. \A a \in Seq(Object) : \A index \in 0 .. Len(a) - 1 :
          EntryByIndex(a, index) \in Range(a)
    BY DEF EntryByIndex, Range
  <2>3. QED
    BY <1>3, <2>1, <2>2
    DEF GetVolumeInformation, GetSourceInformation, vars, fileVars, arrayVars
<1>4. CASE GetFileInformation
  BY <1>4 DEF GetFileInformation, vars, fileVars, arrayVars
<1>5. CASE VolumeInformationFree \/ FileInformationFree
           \/ SourceInformationFree
  BY <1>5
  DEF VolumeInformationFree, FileInformationFree, SourceInformationFree,
      vars, fileVars, arrayVars
<1>6. CASE UNCHANGED allVars
  BY <1>6 DEF allVars, vars, fileVars, arrayVars
<1>7. QED
  BY <1>1, <1>2, <1>3, <1>4, <1>5, <1>6
  DEF NextReferences, FileStep, OtherStep

-----------------------------------------------------------------------------
\* Contents(Before(array, n)) in any state.
View(memory, array, step, n) ==
  Look(memory, IF step = "idle" THEN array ELSE Without(array, n))

LEMMA ViewsOfState ==
  /\ Volumes = View(heap, volumes_array, pc, volume_index)
  /\ Sources = View(heap, sources_array, pc, source_index)
  BY DEF Volumes, Sources, View, Contents, Before, Look, Without

(* What is seen of an array does not change while the entries stay and the  *)
(* array and the index do ...                                               *)
LEMMA ViewKept ==
  ASSUME NEW a \in Seq(Object), NEW n \in Nat, n <= Len(a),
         NEW m1, NEW m2, \A o \in Range(a) : m2[o] = m1[o],
         NEW p1, NEW p2, p1 = "idle" <=> p2 = "idle"
  PROVE  View(m2, a, p2, n) = View(m1, a, p1, n)
<1>1. \A o \in Range(Without(a, n)) : m2[o] = m1[o]
  BY WithoutProperties
<1>2. Look(m2, a) = Look(m1, a)
  BY LookKept
<1>3. Look(m2, Without(a, n)) = Look(m1, Without(a, n))
  BY <1>1, WithoutProperties, LookKept
<1>4. QED
  BY <1>2, <1>3 DEF View

(* ... nor when nothing has been appended ...                               *)
LEMMA ViewOfNone ==
  ASSUME NEW a \in Seq(Object), NEW m1, NEW m2,
         \A o \in Range(a) : m2[o] = m1[o], NEW p1, NEW p2
  PROVE  View(m2, a, p2, 0) = View(m1, a, p1, 0)
<1>1. Look(m2, a) = Look(m1, a)
  BY LookKept
<1>2. QED
  BY <1>1, WithoutNone DEF View

(* ... nor when an open appends one more.                                   *)
LEMMA ViewAppended ==
  ASSUME NEW a \in Seq(Object), NEW n \in Nat, n <= Len(a),
         NEW e \in Object,
         NEW m1, NEW m2, \A o \in Range(a) : m2[o] = m1[o],
         NEW p1, NEW p2, p1 # "idle", p2 # "idle"
  PROVE  View(m2, Append(a, e), p2, n + 1) = View(m1, a, p1, n)
<1>1. View(m2, Append(a, e), p2, n + 1) = View(m2, a, p1, n)
  BY WithoutAppended DEF View
<1>2. View(m2, a, p1, n) = View(m1, a, p1, n)
  BY ViewKept
<1>3. QED
  BY <1>1, <1>2

(* When the open ends, the n entries it has appended come into view.        *)
LEMMA ViewOfEnd ==
  ASSUME NEW a \in Seq(Object), NEW n \in Nat, NEW k, NEW d,
         NEW m1, NEW m2, \A o \in Range(a) : m2[o] = m1[o],
         Holds(m1, a, k, d, n), NEW p1, p1 # "idle"
  PROVE  View(m2, a, "idle", n) =
           View(m1, a, p1, n) \o Api!Entries(k, d, n)
<1>1. Look(m2, a) = Look(m1, a)
  BY LookKept
<1>2. QED
  BY <1>1, LookSplit DEF View

-----------------------------------------------------------------------------
LEMMA InitRefines == InitReferences => Api!Init
<1> SUFFICES ASSUME InitReferences
             PROVE  Api!Init
  OBVIOUS
<1>1. Status = "none"
  BY DEF InitReferences, Init, Status
<1>2. Volumes = <<>> /\ Sources = <<>>
  <2>1. \A m : Look(m, <<>>) = <<>>
    BY DEF Look
  <2>2. QED
    BY <2>1, ViewsOfState DEF InitReferences, Init, View
<1>3. Held = Api!Nothing
  BY DEF InitReferences, Held, Denotes, Api!Nothing, Api!Kinds
<1>4. QED
  BY <1>1, <1>2, <1>3 DEF Api!Init

\* What the entries are that the application refers to.
LEMMA HeldKept ==
  ASSUME ReferenceInv, UNCHANGED references,
         \A o \in Listed : heap'[o] = heap[o]
  PROVE  Held' = Held
<1>1. /\ volume_reference # NULL => volume_reference \in Listed
      /\ source_reference # NULL => source_reference \in Listed
      /\ file_reference # NULL => file_reference[1] \in Listed
  BY DEF ReferenceInv, Listed
<1>2. /\ Denotes(volume_reference)' = Denotes(volume_reference)
      /\ Denotes(source_reference)' = Denotes(source_reference)
  BY <1>1 DEF Denotes, references
<1>3. file_reference # NULL =>
        heap'[file_reference'[1]] = heap[file_reference[1]]
  BY <1>1 DEF references
<1>4. QED
  BY <1>2, <1>3 DEF Held, references

\* Facts about the arrays that the cases below share.
LEMMA ArrayFacts ==
  ASSUME FileInv
  PROVE  /\ volumes_array \in Seq(Object) /\ sources_array \in Seq(Object)
         /\ volume_index \in Nat /\ source_index \in Nat
         /\ Range(volumes_array) \subseteq Listed
         /\ Range(sources_array) \subseteq Listed
         /\ pc # "idle" =>
              /\ file_io_handle # NULL
              /\ OpenDatabase \in Database
              /\ volume_index \in 0 .. VolumesIn(OpenDatabase)
              /\ source_index \in 0 .. SourcesIn(OpenDatabase)
              /\ Holds(heap, volumes_array, "volume", OpenDatabase,
                       volume_index)
              /\ Holds(heap, sources_array, "source", OpenDatabase,
                       source_index)
              /\ volume_index <= Len(volumes_array)
              /\ source_index <= Len(sources_array)
<1>1. /\ volumes_array \in Seq(Object) /\ sources_array \in Seq(Object)
      /\ volume_index \in Nat /\ source_index \in Nat
      /\ pc # "idle" => file_io_handle # NULL
  BY DEF FileInv, TypeOK, EntryTypes, ControlInv
<1>2. file_io_handle # NULL => OpenDatabase \in Database
  BY DEF FileInv, ControlInv, OpenDatabase, Bfio
<1>3. file_io_handle # NULL =>
        /\ EndsWith(volumes_array, "volume", OpenDatabase, volume_index)
        /\ EndsWith(sources_array, "source", OpenDatabase, source_index)
        /\ volume_index <= NumberOfVolumes[OpenDatabase]
        /\ source_index <= NumberOfSources[OpenDatabase]
  BY DEF FileInv, EntriesInv
<1>4. QED
  BY <1>1, <1>2, <1>3, DatabaseAssumption
  DEF Listed, Holds, EndsWith, VolumesIn, SourcesIn

(* Whatever a step of an open does before it ends is not seen.              *)
LEMMA OpeningIsUnseen ==
  ASSUME FileInv, ReferenceInv, OtherStep, UNCHANGED references,
         pc # "idle", pc' # "idle", UNCHANGED <<file, file_io_handle>>
  PROVE  UNCHANGED Api!vars
<1>1. \A o \in Listed : heap'[o] = heap[o]
  BY OpenKeepsEntries
<1>2. Held' = Held
  BY <1>1, HeldKept
<1>3. Status' = Status
  BY DEF Status, IsOpen
<1>4. Volumes' = View(heap', volumes_array', pc', volume_index')
      /\ Sources' = View(heap', sources_array', pc', source_index')
  BY DEF Volumes, Sources, View, Contents, Before, Look, Without
<1>5. /\ \A o \in Range(volumes_array) : heap'[o] = heap[o]
      /\ \A o \in Range(sources_array) : heap'[o] = heap[o]
  BY <1>1, ArrayFacts
<1>0. /\ volumes_array \in Seq(Object) /\ sources_array \in Seq(Object)
      /\ volume_index \in Nat /\ volume_index <= Len(volumes_array)
      /\ source_index \in Nat /\ source_index <= Len(sources_array)
  BY ArrayFacts
<1>6. CASE VolumeRead
  <2>1. /\ volumes_array' = Append(volumes_array, volume_information)
        /\ volume_index' = volume_index + 1
        /\ UNCHANGED <<sources_array, source_index>>
        /\ volume_information \in Object
    BY <1>6, HandleAssumption
    DEF VolumeRead, FileInv, TypeOK, EntryTypes, ControlInv
  <2>2. View(heap', Append(volumes_array, volume_information), pc',
             volume_index + 1)
          = View(heap, volumes_array, pc, volume_index)
    BY <1>0, <1>5, <2>1, ViewAppended
  <2>3. View(heap', sources_array, pc', source_index)
          = View(heap, sources_array, pc, source_index)
    BY <1>0, <1>5, ViewKept
  <2>4. QED
    BY <1>2, <1>3, <1>4, <2>1, <2>2, <2>3, ViewsOfState DEF Api!vars
<1>7. CASE SourceRead
  <2>1. /\ sources_array' = Append(sources_array, source_information)
        /\ source_index' = source_index + 1
        /\ UNCHANGED <<volumes_array, volume_index>>
        /\ source_information \in Object
    BY <1>7, HandleAssumption
    DEF SourceRead, FileInv, TypeOK, EntryTypes, ControlInv
  <2>2. View(heap', Append(sources_array, source_information), pc',
             source_index + 1)
          = View(heap, sources_array, pc, source_index)
    BY <1>0, <1>5, <2>1, ViewAppended
  <2>3. View(heap', volumes_array, pc', volume_index)
          = View(heap, volumes_array, pc, volume_index)
    BY <1>0, <1>5, ViewKept
  <2>4. QED
    BY <1>2, <1>3, <1>4, <2>1, <2>2, <2>3, ViewsOfState DEF Api!vars
<1>8. CASE UNCHANGED <<volumes_array, sources_array, volume_index,
                       source_index>>
  <2>1. Sources' = Sources
    BY <1>0, <1>4, <1>5, <1>8, ViewsOfState, ViewKept
  <2>2. Volumes' = Volumes
    BY <1>0, <1>4, <1>5, <1>8, ViewsOfState, ViewKept
  <2>3. QED
    BY <1>2, <1>3, <2>1, <2>2 DEF Api!vars
<1>9. QED
  BY <1>6, <1>7, <1>8
  DEF OtherStep, OpenStep, Initialize, SignalAbort, ApplicationHandle,
      OpenFileIoHandle, Open, OpenWide, OpenNamed, Refuse, OpenHandle,
      OpenHandleFails, AbandonHandle, BeginOpenRead,
      ReadCompressedFileHeader, PrepareStream, ReadEntries, VolumeInitialize,
      VolumesDone, SourceInitialize, OpenSucceeds, OpenReadFails, arrayVars,
      localVars

(* A call that is accepted, and one that is refused or only touches handles *)
(* and flags, is not seen.                                                  *)
LEMMA BeginningIsUnseen ==
  ASSUME FileInv, ReferenceInv, pc = "idle",
         NEW f, NEW h, NEW s, Accept(f, h, s), file_io_handle = NULL,
         UNCHANGED <<file, arrayVars, references>>
  PROVE  UNCHANGED Api!vars
<1>1. \A o \in Range(volumes_array) \cup Range(sources_array) :
        heap'[o] = heap[o]
  BY DEF arrayVars
<1>2. View(heap', volumes_array, pc', 0) = View(heap, volumes_array, pc, 0)
      /\ View(heap', sources_array, pc', 0) = View(heap, sources_array, pc, 0)
  BY <1>1, ArrayFacts, ViewOfNone
<1>3. /\ Volumes' = View(heap', volumes_array', pc', volume_index')
      /\ Sources' = View(heap', sources_array', pc', source_index')
  BY DEF Volumes, Sources, View, Contents, Before, Look, Without
<1>4. \A m, a, n : View(m, a, pc, n) = View(m, a, pc, 0)
  BY DEF View
<1>5. Volumes' = Volumes /\ Sources' = Sources
  BY <1>2, <1>3, <1>4, ViewsOfState DEF Accept, arrayVars
<1>6. Status' = Status
  BY DEF Status, IsOpen, Accept
<1>7. Held' = Held
  BY <1>1, HeldKept DEF Listed
<1>8. QED
  BY <1>5, <1>6, <1>7 DEF Api!vars

LEMMA ViewsUnchanged ==
  ASSUME UNCHANGED <<pc, arrayVars, volume_index, source_index>>
  PROVE  UNCHANGED <<Volumes, Sources>>
  BY DEF Volumes, Sources, Contents, Before, arrayVars

LEMMA NothingHappens ==
  ASSUME UNCHANGED <<file, file_io_handle, pc, arrayVars, volume_index,
                     source_index, references>>
  PROVE  UNCHANGED Api!vars
<1>1. UNCHANGED <<Volumes, Sources>>
  BY ViewsUnchanged
<1>2. Status' = Status
  BY DEF Status, IsOpen
<1>3. Held' = Held
  BY DEF Held, Denotes, arrayVars, references
<1>4. QED
  BY <1>1, <1>2, <1>3 DEF Api!vars

\* When an open ends, what it has appended comes into view.
LEMMA EndIsSeen ==
  ASSUME FileInv, ReferenceInv, OtherStep, pc # "idle", pc' = "idle",
         UNCHANGED <<file, volumes_array, sources_array, volume_index,
                     source_index, references>>
  PROVE  /\ Volumes' = Volumes \o Api!Entries("volume", OpenDatabase,
                                              volume_index)
         /\ Sources' = Sources \o Api!Entries("source", OpenDatabase,
                                              source_index)
         /\ Held' = Held
<1>1. \A o \in Listed : heap'[o] = heap[o]
  BY OpenKeepsEntries
<1>2. /\ \A o \in Range(volumes_array) : heap'[o] = heap[o]
      /\ \A o \in Range(sources_array) : heap'[o] = heap[o]
  BY <1>1, ArrayFacts
<1>3. /\ volumes_array \in Seq(Object) /\ sources_array \in Seq(Object)
      /\ volume_index \in Nat /\ source_index \in Nat
      /\ Holds(heap, volumes_array, "volume", OpenDatabase, volume_index)
      /\ Holds(heap, sources_array, "source", OpenDatabase, source_index)
  BY ArrayFacts
<1>4. View(heap', volumes_array, "idle", volume_index) =
        View(heap, volumes_array, pc, volume_index)
        \o Api!Entries("volume", OpenDatabase, volume_index)
  BY <1>2, <1>3, ViewOfEnd
<1>5. View(heap', sources_array, "idle", source_index) =
        View(heap, sources_array, pc, source_index)
        \o Api!Entries("source", OpenDatabase, source_index)
  BY <1>2, <1>3, ViewOfEnd
<1>6. /\ Volumes' = View(heap', volumes_array', pc', volume_index')
      /\ Sources' = View(heap', sources_array', pc', source_index')
  BY DEF Volumes, Sources, View, Contents, Before, Look, Without
<1>7. Held' = Held
  BY <1>1, HeldKept
<1>8. QED
  BY <1>4, <1>5, <1>6, <1>7, ViewsOfState

(* An open that returns 1 is Open of the specification, one that returns -1 *)
(* OpenFails: what it had read stays.                                       *)
LEMMA OpenRefines ==
  ASSUME FileInv, ReferenceInv, OpenStep, UNCHANGED references
  PROVE  [Api!Next]_Api!vars
<1> USE DEF FileInv
<1>0. OtherStep
  BY DEF OtherStep
<1>1. CASE pc' # "idle"
  <2>1. pc # "idle" /\ UNCHANGED <<file, file_io_handle>>
    BY <1>1
    DEF OpenStep, OpenHandle, OpenHandleFails, AbandonHandle, BeginOpenRead,
        ReadCompressedFileHeader, PrepareStream, InitializeBlocksList,
        ReadCompressedBlocks, InitializeBlocksCache, InitializeDataStream,
        ReadUncompressedFileHeader, ReadEntries, VolumeInitialize, VolumeRead,
        VolumesDone, SourceInitialize, SourceRead, OpenSucceeds,
        OpenReadFails, fileVars
  <2>2. QED
    BY <1>0, <1>1, <2>1, OpeningIsUnseen DEF FileInv
<1>2. CASE OpenSucceeds
  <2>1. /\ pc = "sources" /\ pc' = "idle"
        /\ UNCHANGED <<file, file_io_handle, volumes_array, sources_array,
                       volume_index, source_index>>
        /\ source_index >= NumberOfSources[OpenDatabase]
    BY <1>2 DEF OpenSucceeds, arrayVars, localVars
  <2>2. /\ Volumes' = Volumes \o Api!Entries("volume", OpenDatabase,
                                             volume_index)
        /\ Sources' = Sources \o Api!Entries("source", OpenDatabase,
                                             source_index)
        /\ Held' = Held
    BY <1>0, <2>1, EndIsSeen DEF FileInv
  <2>3. file_io_handle # NULL /\ OpenDatabase \in Database
    BY <2>1, ArrayFacts DEF FileInv
  <2>4. /\ volume_index = VolumesIn(OpenDatabase)
        /\ source_index = SourcesIn(OpenDatabase)
    BY <2>1, <2>3, ArrayFacts, DatabaseAssumption
    DEF EntriesInv, VolumesIn, SourcesIn
  <2>5. Status = "closed" /\ Status' = "open"
    BY <2>1, <2>3 DEF Status, IsOpen, ReferenceInv
  <2>6. Api!Open(OpenDatabase)
    BY <2>2, <2>4, <2>5 DEF Api!Open
  <2>7. QED
    BY <2>3, <2>6 DEF Api!Next
<1>3. CASE OpenReadFails
  <2>1. /\ pc \in ReadSteps /\ pc' = "idle" /\ file_io_handle' = NULL
        /\ UNCHANGED <<file, volumes_array, sources_array, volume_index,
                       source_index>>
    BY <1>3 DEF OpenReadFails, ReleaseRead, AbandonHandle
  <2>2. pc # "idle" /\ pc # "open_handle"
    BY <2>1 DEF ReadSteps
  <2>3. /\ Volumes' = Volumes \o Api!Entries("volume", OpenDatabase,
                                             volume_index)
        /\ Sources' = Sources \o Api!Entries("source", OpenDatabase,
                                             source_index)
        /\ Held' = Held
    BY <1>0, <2>1, <2>2, EndIsSeen DEF FileInv
  <2>4. /\ file_io_handle # NULL /\ OpenDatabase \in Database
        /\ volume_index \in 0 .. VolumesIn(OpenDatabase)
        /\ source_index \in 0 .. SourcesIn(OpenDatabase)
    BY <2>2, ArrayFacts DEF FileInv
  <2>5. source_index > 0 => volume_index = VolumesIn(OpenDatabase)
    BY <2>1, <2>4 DEF EntriesInv, VolumesIn, ReadSteps
  <2>6. Status = "closed" /\ Status' = "closed"
    BY <2>1, <2>2, <2>4 DEF Status, IsOpen, ReferenceInv
  <2>7. Api!OpenFails(OpenDatabase)
    BY <2>3, <2>4, <2>5, <2>6 DEF Api!OpenFails
  <2>8. QED
    BY <2>4, <2>7 DEF Api!Next
<1>4. CASE OpenHandleFails
  <2>1. /\ pc = "open_handle" /\ pc' = "idle" /\ file_io_handle' = NULL
        /\ UNCHANGED <<file, arrayVars, localVars>>
    BY <1>4 DEF OpenHandleFails, AbandonHandle
  <2>2. file_io_handle # NULL
    BY <2>1, ArrayFacts DEF FileInv
  <2>3. volume_index = 0 /\ source_index = 0
    BY <2>1, <2>2 DEF EntriesInv
  <2>4. /\ View(heap, volumes_array, pc', 0) = View(heap, volumes_array, pc, 0)
        /\ View(heap, sources_array, pc', 0) = View(heap, sources_array, pc, 0)
    BY ArrayFacts, ViewOfNone DEF FileInv
  <2>5. /\ Volumes' = View(heap', volumes_array', pc', volume_index')
        /\ Sources' = View(heap', sources_array', pc', source_index')
    BY DEF Volumes, Sources, View, Contents, Before, Look, Without
  <2>6. Volumes' = Volumes /\ Sources' = Sources
    BY <2>1, <2>3, <2>4, <2>5, ViewsOfState DEF arrayVars, localVars
  <2>7. Status' = Status
    BY <2>1, <2>2 DEF Status, IsOpen, ReferenceInv
  <2>8. Held' = Held
    BY <2>1, HeldKept DEF arrayVars
  <2>9. QED
    BY <2>6, <2>7, <2>8 DEF Api!vars
<1>5. QED
  <2>1. OpenStep /\ pc' = "idle" =>
          OpenSucceeds \/ OpenReadFails \/ OpenHandleFails
    BY DEF OpenStep, OpenHandle, BeginOpenRead,
        ReadCompressedFileHeader, PrepareStream, InitializeBlocksList,
        ReadCompressedBlocks, InitializeBlocksCache, InitializeDataStream,
        ReadUncompressedFileHeader, ReadEntries, VolumeInitialize, VolumeRead,
        VolumesDone, SourceInitialize, SourceRead
  <2>2. QED
    BY <1>1, <1>2, <1>3, <1>4, <2>1

(* The calls that run to their end at once.                                 *)
LEMMA CallRefines ==
  ASSUME FileInv, ReferenceInv, OtherStep, ~OpenStep, UNCHANGED references
  PROVE  [Api!Next]_Api!vars
<1>1. CASE Initialize
  <2>1. CASE file' = "live"
    <3>1. /\ file = "null" /\ pc = "idle" /\ file_io_handle = NULL
          /\ UNCHANGED <<pc, file_io_handle, arrayVars, localVars>>
      BY <1>1 DEF Initialize, ReferenceInv
    <3>2. Status = "none" /\ Status' = "closed"
      BY <2>1, <3>1 DEF Status, IsOpen
    <3>3. UNCHANGED <<Volumes, Sources>>
      BY <3>1, ViewsUnchanged DEF localVars
    <3>4. Held' = Held
      BY <3>1, HeldKept DEF arrayVars
    <3>5. QED
      BY <3>2, <3>3, <3>4 DEF Api!Initialize, Api!Next
  <2>2. CASE file' # "live"
    BY <1>1, <2>2, NothingHappens DEF Initialize, localVars
  <2>3. QED
    BY <2>1, <2>2
<1>2. CASE SignalAbort
  BY <1>2, NothingHappens DEF SignalAbort, fileVars, localVars, callVars
<1>3. ASSUME NEW h \in UserHandle, ApplicationHandle(h)
      PROVE  [Api!Next]_Api!vars
  BY <1>3, NothingHappens
  DEF ApplicationHandle, fileVars, localVars, callVars
<1>4. ASSUME NEW h \in UserHandle, OpenFileIoHandle(h)
      PROVE  [Api!Next]_Api!vars
  BY <1>4, NothingHappens, BeginningIsUnseen
  DEF OpenFileIoHandle, Refuse, localVars
<1>5. ASSUME NEW h \in LibraryHandle, NEW d \in Database,
             Open(h, d) \/ OpenWide(h, d)
      PROVE  [Api!Next]_Api!vars
  BY <1>5, NothingHappens, BeginningIsUnseen
  DEF Open, OpenWide, OpenNamed, Refuse, localVars
<1>6. QED
  BY <1>1, <1>2, <1>3, <1>4, <1>5 DEF OtherStep

(* Close and free take the entries away, and close of a file that is not    *)
(* open is an error that changes nothing.                                   *)
LEMMA CloseRefines ==
  ASSUME FileInv, ReferenceInv, NoReferences, Close \/ Free,
         UNCHANGED references
  PROVE  [Api!Next]_Api!vars
<1>1. Held = Api!Nothing /\ Held' = Api!Nothing
  BY DEF NoReferences, references, Held, Denotes, Api!Nothing, Api!Kinds
<1>2. ASSUME volumes_array' = <<>>, sources_array' = <<>>, pc' = "idle"
      PROVE  Volumes' = <<>> /\ Sources' = <<>>
  BY <1>2 DEF Volumes, Sources, Contents, Before
<1>3. CASE Close /\ file_io_handle = NULL
  BY <1>3, NothingHappens DEF Close, localVars
<1>4. CASE Close /\ file_io_handle # NULL
  <2>1. /\ file = "live" /\ pc = "idle" /\ UNCHANGED <<file, pc>>
        /\ volumes_array' = <<>> /\ sources_array' = <<>>
        /\ file_io_handle' = NULL
    BY <1>4 DEF Close, CloseFile, FreeEntries
  <2>2. Status = "open" /\ Status' = "closed"
    BY <1>4, <2>1 DEF Status, IsOpen
  <2>3. QED
    BY <1>1, <1>2, <2>1, <2>2 DEF Api!Close, Api!Drop, Api!Next
<1>5. CASE Free
  <2>1. /\ file = "live" /\ file' = "null" /\ pc = "idle" /\ UNCHANGED pc
        /\ volumes_array' = <<>> /\ sources_array' = <<>>
    BY <1>5 DEF Free, CloseFile, FreeEntries
  <2>2. Status # "none" /\ Status' = "none"
    BY <2>1 DEF Status, IsOpen
  <2>3. QED
    BY <1>1, <1>2, <2>1, <2>2 DEF Api!Free, Api!Drop, Api!Next
<1>6. QED
  BY <1>3, <1>4, <1>5

\* A call on references leaves the file as it is.
LEMMA FileUntouched ==
  ASSUME UNCHANGED vars
  PROVE  /\ UNCHANGED <<Status, Volumes, Sources>>
         /\ UNCHANGED heap
  BY ViewsUnchanged
  DEF vars, fileVars, arrayVars, localVars, callVars, Status, IsOpen

(* The getters hand out what the specification counts.                      *)
LEMMA GetRefines ==
  ASSUME FileInv, ReferenceInv,
         GetVolumeInformation \/ GetSourceInformation \/ GetFileInformation
  PROVE  Api!Next
<1>1. /\ UNCHANGED <<Status, Volumes, Sources>> /\ UNCHANGED heap
      /\ pc = "idle"
  BY FileUntouched
  DEF GetVolumeInformation, GetSourceInformation, GetFileInformation
<1>2. Volumes = Look(heap, volumes_array) /\ Sources = Look(heap, sources_array)
  BY <1>1, ViewsOfState DEF View
<1>3. \A a \in Seq(Object) : \A i \in 0 .. Len(a) - 1 :
        /\ EntryByIndex(a, i) \in Object
        /\ i + 1 \in DOMAIN Look(heap, a)
        /\ Look(heap, a)[i + 1] = heap[EntryByIndex(a, i)]
  BY DEF EntryByIndex, Look
<1>4. CASE GetVolumeInformation
  <2>1. PICK index \in 0 .. Len(volumes_array) - 1 :
          volume_reference' = EntryByIndex(volumes_array, index)
    BY <1>4 DEF GetVolumeInformation
  <2>2. volume_reference = NULL
        /\ UNCHANGED <<file_reference, source_reference>>
    BY <1>4 DEF GetVolumeInformation
  <2>3. /\ volume_reference' # NULL
        /\ index + 1 \in DOMAIN Volumes
        /\ heap[volume_reference'] = Volumes[index + 1]
    BY <1>2, <1>3, <2>1, ArrayFacts, HandleAssumption
  <2>4. Held' = [Held EXCEPT !["volume"] = Volumes[index + 1]]
    BY <1>1, <2>2, <2>3 DEF Held, Denotes
  <2>5. Held["volume"] = NULL
    BY <2>2 DEF Held, Denotes
  <2>6. Api!Hold("volume", Volumes[index + 1])
    BY <1>1, <2>4, <2>5 DEF Api!Hold
  <2>7. QED
    BY <2>3, <2>6 DEF Api!GetVolume, Api!Next
<1>5. CASE GetSourceInformation
  <2>1. PICK index \in 0 .. Len(sources_array) - 1 :
          source_reference' = EntryByIndex(sources_array, index)
    BY <1>5 DEF GetSourceInformation
  <2>2. source_reference = NULL
        /\ UNCHANGED <<file_reference, volume_reference>>
    BY <1>5 DEF GetSourceInformation
  <2>3. /\ source_reference' # NULL
        /\ index + 1 \in DOMAIN Sources
        /\ heap[source_reference'] = Sources[index + 1]
    BY <1>2, <1>3, <2>1, ArrayFacts, HandleAssumption
  <2>4. Held' = [Held EXCEPT !["source"] = Sources[index + 1]]
    BY <1>1, <2>2, <2>3 DEF Held, Denotes
  <2>5. Held["source"] = NULL
    BY <2>2 DEF Held, Denotes
  <2>6. Api!Hold("source", Sources[index + 1])
    BY <1>1, <2>4, <2>5 DEF Api!Hold
  <2>7. QED
    BY <2>3, <2>6 DEF Api!GetSource, Api!Next
<1>6. CASE GetFileInformation
  <2>1. PICK index \in 0 .. FilesOf(volume_reference) - 1 :
          file_reference' = <<volume_reference, index>>
    BY <1>6 DEF GetFileInformation
  <2>2. /\ volume_reference # NULL /\ file_reference = NULL
        /\ UNCHANGED <<volume_reference, source_reference>>
    BY <1>6 DEF GetFileInformation
  <2> DEFINE e == heap[volume_reference]
  <2>3. volume_reference \in Object /\ IsVolumeEntry(e)
    <3>1. volume_reference \in Range(volumes_array)
      BY <2>2 DEF ReferenceInv
    <3>2. Range(volumes_array) \subseteq Object
      BY ArrayFacts DEF Range
    <3>3. QED
      BY <3>1, <3>2 DEF ReferenceInv
  <2>4. e # NULL /\ Held.volume = e
    BY <2>2, <2>3, EntryAssumption DEF IsVolumeEntry, Held, Denotes
  <2>5. /\ FilesOf(volume_reference) = FilesIn(e.database, e.index)
        /\ FilesOf(volume_reference) \in Nat
    <3>1. /\ e.database \in Database /\ e.index \in Nat
          /\ e.index < NumberOfVolumes[e.database]
      BY <2>3 DEF IsVolumeEntry, Info
    <3>2. /\ NumberOfFiles[e.database] \in Seq(Nat)
          /\ Len(NumberOfFiles[e.database]) = NumberOfVolumes[e.database]
      BY <3>1, FilesAssumption
    <3> HIDE DEF e
    <3>3. NumberOfFiles[e.database][e.index + 1] \in Nat
      BY <3>1, <3>2
    <3>4. QED
      BY <3>3 DEF FilesOf, FilesIn, e
  <2>6. index \in Nat /\ index + 1 \in 1 .. FilesIn(e.database, e.index)
        /\ (index + 1) - 1 = index
    <3> HIDE DEF e
    <3>1. QED
      BY <2>5
  <2>7. file_reference' # NULL
    BY <2>1, <2>3, <2>6, EntryAssumption
  <2> DEFINE f == [volume |-> Held.volume, index |-> (index + 1) - 1]
  <2>8. Held' = [Held EXCEPT !["file"] = f]
    <3>1. f = [volume |-> e, index |-> index]
      BY <2>4, <2>6
    <3>2. /\ file_reference'[1] = volume_reference
          /\ file_reference'[2] = index
      BY <2>1
    <3>3. Denotes(volume_reference)' = Denotes(volume_reference)
          /\ Denotes(source_reference)' = Denotes(source_reference)
      BY <1>1, <2>2 DEF Denotes
    <3>4. Held' = [volume |-> Denotes(volume_reference), file |-> f,
                   source |-> Denotes(source_reference)]
      BY <1>1, <2>7, <3>1, <3>2, <3>3 DEF Held
    <3>5. Held = [volume |-> Denotes(volume_reference), file |-> NULL,
                  source |-> Denotes(source_reference)]
      BY <2>2 DEF Held
    <3> HIDE DEF f
    <3>6. QED
      BY <3>4, <3>5
  <2>9. Held["file"] = NULL
    BY <2>2 DEF Held
  <2>10. Api!Hold("file", f)
    BY <1>1, <2>8, <2>9 DEF Api!Hold
  <2>11. QED
    BY <2>4, <2>6, <2>10 DEF Api!GetFile, Api!Next
<1>7. QED
  BY <1>4, <1>5, <1>6

(* Giving up a reference gives up the entry.                                *)
LEMMA GiveUpRefines ==
  ASSUME VolumeInformationFree \/ FileInformationFree
           \/ SourceInformationFree
  PROVE  Api!Next
<1>1. UNCHANGED <<Status, Volumes, Sources>> /\ UNCHANGED heap
  BY FileUntouched
  DEF VolumeInformationFree, FileInformationFree, SourceInformationFree
<1>2. \E k \in Api!Kinds :
        Held' = [c \in Api!Kinds |-> IF c \in {k} THEN NULL ELSE Held[c]]
  <2>1. CASE VolumeInformationFree
    <3>1. Held' = [c \in Api!Kinds |->
                     IF c \in {"volume"} THEN NULL ELSE Held[c]]
      BY <1>1, <2>1 DEF VolumeInformationFree, Held, Denotes, Api!Kinds
    <3>2. QED
      BY <3>1 DEF Api!Kinds
  <2>2. CASE FileInformationFree
    <3>1. Held' = [c \in Api!Kinds |->
                     IF c \in {"file"} THEN NULL ELSE Held[c]]
      BY <1>1, <2>2 DEF FileInformationFree, Held, Denotes, Api!Kinds
    <3>2. QED
      BY <3>1 DEF Api!Kinds
  <2>3. CASE SourceInformationFree
    <3>1. Held' = [c \in Api!Kinds |->
                     IF c \in {"source"} THEN NULL ELSE Held[c]]
      BY <1>1, <2>3 DEF SourceInformationFree, Held, Denotes, Api!Kinds
    <3>2. QED
      BY <3>1 DEF Api!Kinds
  <2>4. QED
    BY <2>1, <2>2, <2>3
<1>3. PICK k \in Api!Kinds :
        Held' = [c \in Api!Kinds |-> IF c \in {k} THEN NULL ELSE Held[c]]
  BY <1>2
<1>4. Api!GiveUp
  <2>1. {k} \in SUBSET Api!Kinds
    OBVIOUS
  <2>2. QED
    BY <1>1, <1>3, <2>1 DEF Api!GiveUp
<1>5. QED
  BY <1>4 DEF Api!Next

LEMMA StepRefines ==
  FileInv /\ ReferenceInv /\ [NextReferences]_allVars
    => [Api!Next]_Api!vars
<1> SUFFICES ASSUME FileInv, ReferenceInv, [NextReferences]_allVars
             PROVE  [Api!Next]_Api!vars
  OBVIOUS
<1>1. CASE FileStep
  BY <1>1, OpenRefines, CallRefines, CloseRefines DEF FileStep, OtherStep
<1>2. CASE GetVolumeInformation \/ GetSourceInformation
           \/ GetFileInformation
  BY <1>2, GetRefines
<1>3. CASE VolumeInformationFree \/ FileInformationFree
           \/ SourceInformationFree
  BY <1>3, GiveUpRefines
<1>4. CASE UNCHANGED allVars
  BY <1>4, NothingHappens
  DEF allVars, vars, fileVars, arrayVars, localVars, callVars
<1>5. QED
  BY <1>1, <1>2, <1>3, <1>4 DEF NextReferences

(* Every behaviour of the library, with whatever calls on the file and on   *)
(* the references it hands out, is one FileApi allows.                      *)
THEOREM RefinesFileApi == SpecReferences => ImplementsFileApi
<1>1. InitReferences => Init
  BY DEF InitReferences
<1>2. InitReferences => FileInv /\ ReferenceInv
  BY <1>1, InitTypes, InitHeap, InitEntries, InitReferenceInv DEF FileInv
<1>3. FileInv /\ ReferenceInv /\ [NextReferences]_allVars
        => FileInv' /\ ReferenceInv'
  BY StepOfFile, StepTypes, StepHeap, StepEntries, StepReferenceInv
  DEF FileInv
<1>4. QED
  BY <1>2, <1>3, InitRefines, StepRefines, PTL
  DEF SpecReferences, ImplementsFileApi, Api!Spec, allVars
=============================================================================
