--------------------------- MODULE AgdbInfoProofs ---------------------------
(* Proofs about AgdbInfo, for every set of databases: however many volumes, *)
(* files and sources they have, and whatever call fails.                    *)
EXTENDS AgdbInfo, SequenceTheorems, WellFoundedInduction, TLAPS

\* Where a reference is held, and where nothing is left of the printing.
FileLabels == {"path_size", "path", "file_ends"}
VolumeLabels ==
  {"device_path_size", "device_path", "volume_values", "files"}
    \cup FileLabels
SourceLabels ==
  {"executable_filename_size", "executable_filename", "source_ends"}
MainLabels ==
  {"options", "initialize", "open", "close", "free", "success", "failure",
   "main_on_error"}
StringLabels == {"device_path", "path", "executable_filename"}

\* What the tool holds is told by where it is, but in on_error.
HoldsInv ==
  /\ pc \in VolumeLabels =>
       /\ volume_information = volume_index + 1
       /\ volume_index < Len(database.volumes)
  /\ pc \notin VolumeLabels \cup {"print_on_error"} => volume_information = NULL
  /\ pc \in FileLabels =>
       /\ file_information = file_index + 1
       /\ file_index < Len(Volume.files)
  /\ pc \notin FileLabels \cup {"print_on_error"} => file_information = NULL
  /\ pc \in SourceLabels =>
       /\ source_information = source_index + 1
       /\ source_index < Len(database.sources)
  /\ pc \notin SourceLabels \cup {"print_on_error"} => source_information = NULL

MemoryInv ==
  /\ filetime => pc \in VolumeLabels \cup {"volumes", "print_on_error"}
  /\ value_string => pc \in StringLabels \cup {"print_on_error"}
  /\ pc \in {"options", "initialize", "success", "failure"} =>
       input_file = "none" /\ ~info_handle
  /\ pc = "open" => input_file = "closed"
  /\ pc \in PrintLabels \cup {"close", "print_on_error"} => input_file = "open"
  /\ pc = "free" => input_file = "closed"

FaultInv ==
  pc \in {"print_on_error", "main_on_error", "failure"} =>
    fault \in {"usage", "call"}

(* A database has sequences of volumes and sources.                         *)
LEMMA DatabaseFacts ==
  ASSUME NEW d \in Databases
  PROVE  /\ d.volumes \in Seq([path : BOOLEAN, files : Seq(BOOLEAN)])
         /\ d.sources \in Seq(BOOLEAN)
         /\ Len(d.volumes) \in Nat /\ Len(d.sources) \in Nat
<1> DEFINE V == Seq([path : BOOLEAN, files : Seq(BOOLEAN)])
           B == Seq(BOOLEAN)
<1>1. Databases \subseteq [volumes : V, sources : B]
  BY DatabaseAssumption
<1>2. d.volumes \in V /\ d.sources \in B
  <2> HIDE DEF V, B
  <2>1. QED
    BY <1>1
<1>3. QED
  <2>1. \A S : \A s \in Seq(S) : Len(s) \in Nat
    OBVIOUS
  <2>2. QED
    BY <1>2, <2>1

\* The type invariant in parts that are proved one by one.
PlaceTypes ==
  /\ database \in Databases
  /\ volume_information \in 0 .. Len(database.volumes)
  /\ file_information \in Nat
  /\ source_information \in 0 .. Len(database.sources)
  /\ volume_index \in 0 .. Len(database.volumes)
  /\ file_index \in Nat
  /\ source_index \in 0 .. Len(database.sources)
  /\ pc \in PrintLabels \cup MainLabels \cup {"print_on_error"}

MemoryTypes ==
  /\ input_file \in {"none", "closed", "open"}
  /\ {info_handle, filetime, value_string} \subseteq BOOLEAN

LEMMA TypesInParts ==
  TypeOK <=> /\ PlaceTypes /\ MemoryTypes
             /\ printed \in Seq(Headings \X Nat)
             /\ fault \in {"none", "information_only", "usage", "call"}
<1>1. pc \in PrintLabels \cup MainLabels \cup {"print_on_error"}
        <=> pc \in PrintLabels \cup
              {"options", "initialize", "open", "close", "free", "success",
               "failure", "print_on_error", "main_on_error"}
  BY DEF MainLabels
<1>2. QED
  BY <1>1, Zenon DEF TypeOK, PlaceTypes, MemoryTypes

(* Where the tool is.                                                       *)
LEMMA InitPlace == Init => PlaceTypes /\ HoldsInv
<1> SUFFICES ASSUME Init
             PROVE  PlaceTypes /\ HoldsInv
  OBVIOUS
<1>1. database \in Databases
  BY DEF Init
<1>2. Len(database.volumes) \in Nat /\ Len(database.sources) \in Nat
  BY <1>1, DatabaseFacts
<1>3. QED
  BY <1>1, <1>2
  DEF Init, PlaceTypes, HoldsInv, MainLabels, VolumeLabels, FileLabels,
      SourceLabels, NULL

(* The entry that is being printed.                                         *)
LEMMA CurrentEntry ==
  ASSUME PlaceTypes, HoldsInv
  PROVE  /\ pc \in VolumeLabels => /\ Volume.path \in BOOLEAN
                                  /\ Len(Volume.files) \in Nat
         /\ pc \in FileLabels => Volume.files[file_information] \in BOOLEAN
         /\ pc \in SourceLabels =>
              database.sources[source_information] \in BOOLEAN
<1>1. /\ database.volumes \in Seq([path : BOOLEAN, files : Seq(BOOLEAN)])
      /\ database.sources \in Seq(BOOLEAN)
      /\ Len(database.volumes) \in Nat /\ Len(database.sources) \in Nat
  BY DatabaseFacts DEF PlaceTypes
<1>2. \A S : \A s \in Seq(S) : \A i \in 1 .. Len(s) : s[i] \in S
  OBVIOUS
<1>3. \A S : \A s \in Seq(S) : Len(s) \in Nat
  OBVIOUS
<1>4. ASSUME pc \in VolumeLabels
      PROVE  Volume \in [path : BOOLEAN, files : Seq(BOOLEAN)]
  <2>1. volume_information \in 1 .. Len(database.volumes)
    BY <1>1, <1>4 DEF PlaceTypes, HoldsInv
  <2>2. QED
    BY <1>1, <1>2, <2>1, Zenon DEF Volume
<1>5. ASSUME pc \in VolumeLabels
      PROVE  /\ Volume.path \in BOOLEAN /\ Volume.files \in Seq(BOOLEAN)
             /\ Len(Volume.files) \in Nat
  BY <1>3, <1>4, <1>5
<1>6. ASSUME pc \in FileLabels
      PROVE  Volume.files[file_information] \in BOOLEAN
  <2>1. pc \in VolumeLabels
    BY <1>6 DEF VolumeLabels
  <2>2. file_information \in 1 .. Len(Volume.files)
    BY <1>5, <1>6, <2>1 DEF PlaceTypes, HoldsInv
  <2>3. QED
    BY <1>2, <1>5, <2>1, <2>2, Zenon
<1>7. ASSUME pc \in SourceLabels
      PROVE  database.sources[source_information] \in BOOLEAN
  <2>1. source_information \in 1 .. Len(database.sources)
    BY <1>1, <1>7 DEF PlaceTypes, HoldsInv
  <2>2. QED
    BY <1>1, <1>2, <2>1, Zenon
<1>8. QED
  BY <1>5, <1>6, <1>7, Zenon

LEMMA StepPlace ==
  PlaceTypes /\ HoldsInv /\ [Next]_vars => PlaceTypes' /\ HoldsInv'
<1> SUFFICES ASSUME PlaceTypes, HoldsInv, [Next]_vars
             PROVE  PlaceTypes' /\ HoldsInv'
  OBVIOUS
<1> USE DEF PlaceTypes, HoldsInv, PrintLabels, MainLabels, VolumeLabels,
            FileLabels, SourceLabels, NULL, references, indexes, Goto
<1>1. Len(database.volumes) \in Nat /\ Len(database.sources) \in Nat
  BY DatabaseFacts
<1>2. pc \in VolumeLabels => Len(Volume.files) \in Nat
  BY CurrentEntry
<1>3. CASE Main
  <2>1. /\ pc \in MainLabels /\ pc' \in MainLabels \cup {"print"}
        /\ UNCHANGED <<database, references, indexes>>
    BY <1>3
    DEF Main, Options, InfoHandleInitialize, OpenInput, CloseInput,
        InfoHandleFree, MainOnError
  <2>2. QED
    BY <1>1, <2>1
<1>4. CASE PrintFails \/ MainFails \/ CloseFails \/ PrintOnError
  BY <1>1, <1>4 DEF PrintFails, MainFails, CloseFails, PrintOnError
<1>5. CASE GetVolumeInformation
  BY <1>1, <1>5 DEF GetVolumeInformation, Refuses
<1>6. ASSUME NEW size_label, NEW exists, NEW copy_label, NEW next_label,
             AllocateString(size_label, exists, copy_label, next_label),
             <<size_label, copy_label, next_label>> \in
               {<<"device_path_size", "device_path", "volume_values">>,
                <<"path_size", "path", "file_ends">>,
                <<"executable_filename_size", "executable_filename",
                  "source_ends">>}
      PROVE  PlaceTypes' /\ HoldsInv'
  <2>1. pc' \in {copy_label, next_label}
    BY <1>6 DEF AllocateString
  <2>2. UNCHANGED <<database, references, indexes>> /\ pc = size_label
    BY <1>6 DEF AllocateString
  <2>3. QED
    BY <1>1, <1>6, <2>1, <2>2 DEF Volume
<1>7. CASE GetDevicePathSize \/ GetPathSize \/ GetExecutableFilenameSize
  BY <1>6, <1>7
  DEF GetDevicePathSize, GetPathSize, GetExecutableFilenameSize
<1>8. CASE GetDevicePath \/ GetPath \/ GetExecutableFilename
  BY <1>1, <1>8
  DEF GetDevicePath, GetPath, GetExecutableFilename, PrintString, Volume
<1>9. CASE GetVolumeValues \/ FileEnds
  BY <1>1, <1>2, <1>9 DEF GetVolumeValues, FileEnds
<1>10. CASE GetFileInformation
  BY <1>1, <1>2, <1>10 DEF GetFileInformation, Refuses, Volume
<1>11. CASE VolumeEnds \/ VolumesEnd \/ PrintBegins
  BY <1>1, <1>11 DEF VolumeEnds, VolumesEnd, PrintBegins
<1>12. CASE GetSourceInformation
  BY <1>1, <1>12 DEF GetSourceInformation, Refuses
<1>13. CASE SourceEnds \/ PrintEnds
  BY <1>1, <1>13 DEF SourceEnds, PrintEnds
<1>14. CASE UNCHANGED vars
  BY <1>14 DEF vars, Volume
<1>15. QED
  BY <1>3, <1>4, <1>5, <1>7, <1>8, <1>9, <1>10, <1>11, <1>12, <1>13, <1>14
  DEF Next, FilePrint, Exited

-----------------------------------------------------------------------------
(* What the tool holds                                                      *)

LEMMA InitMemory == Init => MemoryTypes /\ MemoryInv
  BY DEF Init, MemoryTypes, MemoryInv, PrintLabels, VolumeLabels, FileLabels,
         StringLabels

LEMMA StepMemoryTypes ==
  PlaceTypes /\ HoldsInv /\ MemoryTypes /\ [Next]_vars => MemoryTypes'
<1> SUFFICES ASSUME PlaceTypes, HoldsInv, MemoryTypes, [Next]_vars
             PROVE  MemoryTypes'
  OBVIOUS
<1> USE DEF MemoryTypes, allocated
<1>1. CASE Main
  BY <1>1
  DEF Main, Options, InfoHandleInitialize, OpenInput, CloseInput,
      InfoHandleFree, MainOnError
<1>2. CASE PrintFails \/ MainFails \/ PrintOnError \/ PrintBegins
           \/ VolumesEnd
  BY <1>2 DEF PrintFails, MainFails, PrintOnError, PrintBegins, VolumesEnd
<1>3. CASE CloseFails
  BY <1>3 DEF CloseFails
<1>4. CASE UNCHANGED allocated
  BY <1>4
<1>5. CASE GetDevicePath \/ GetPath \/ GetExecutableFilename
  BY <1>5 DEF GetDevicePath, GetPath, GetExecutableFilename, PrintString
<1>6. ASSUME NEW size_label, NEW exists \in BOOLEAN, NEW copy_label,
             NEW next_label,
             AllocateString(size_label, exists, copy_label, next_label)
      PROVE  MemoryTypes'
  BY <1>6 DEF AllocateString
<1>7. CASE GetDevicePathSize \/ GetPathSize \/ GetExecutableFilenameSize
  <2>1. CASE GetDevicePathSize
    <3>1. Volume.path \in BOOLEAN
      BY <2>1, CurrentEntry
      DEF GetDevicePathSize, AllocateString, VolumeLabels
    <3>2. QED
      BY <1>6, <2>1, <3>1, Zenon DEF GetDevicePathSize
  <2>2. CASE GetPathSize
    <3>1. Volume.files[file_information] \in BOOLEAN
      BY <2>2, CurrentEntry DEF GetPathSize, AllocateString, FileLabels
    <3>2. QED
      BY <1>6, <2>2, <3>1, Zenon DEF GetPathSize
  <2>3. CASE GetExecutableFilenameSize
    <3>1. database.sources[source_information] \in BOOLEAN
      BY <2>3, CurrentEntry
      DEF GetExecutableFilenameSize, AllocateString, SourceLabels
    <3>2. QED
      BY <1>6, <2>3, <3>1, Zenon DEF GetExecutableFilenameSize
  <2>4. QED
    BY <1>7, <2>1, <2>2, <2>3
<1>8. QED
  BY <1>1, <1>2, <1>3, <1>4, <1>5, <1>7
  DEF Next, FilePrint, Exited, GetVolumeInformation, GetFileInformation,
      GetSourceInformation, GetVolumeValues, FileEnds, VolumeEnds, SourceEnds,
      PrintEnds, vars

LEMMA StepMemory ==
  PlaceTypes /\ HoldsInv /\ MemoryTypes /\ MemoryInv /\ [Next]_vars
    => MemoryInv'
<1> SUFFICES ASSUME PlaceTypes, HoldsInv, MemoryTypes, MemoryInv, [Next]_vars
             PROVE  MemoryInv'
  OBVIOUS
<1> USE DEF MemoryInv, PrintLabels, VolumeLabels, FileLabels, StringLabels,
            allocated, Goto
<1>1. CASE Main
  BY <1>1
  DEF Main, Options, InfoHandleInitialize, OpenInput, CloseInput,
      InfoHandleFree, MainOnError
<1>2. CASE PrintFails \/ MainFails
  BY <1>2 DEF PrintFails, MainFails
<1>3. CASE CloseFails
  BY <1>3 DEF CloseFails
<1>4. CASE PrintOnError
  BY <1>4 DEF PrintOnError
<1>5. CASE PrintBegins \/ VolumesEnd \/ PrintEnds
  BY <1>5 DEF PrintBegins, VolumesEnd, PrintEnds
<1>6. CASE GetVolumeInformation \/ GetFileInformation \/ GetSourceInformation
  BY <1>6
  DEF GetVolumeInformation, GetFileInformation, GetSourceInformation, Refuses
<1>7. ASSUME NEW size_label, NEW exists \in BOOLEAN, NEW copy_label,
             NEW next_label,
             AllocateString(size_label, exists, copy_label, next_label),
             <<size_label, copy_label, next_label>> \in
               {<<"device_path_size", "device_path", "volume_values">>,
                <<"path_size", "path", "file_ends">>,
                <<"executable_filename_size", "executable_filename",
                  "source_ends">>}
      PROVE  MemoryInv'
  BY <1>7 DEF AllocateString
<1>8. CASE GetDevicePathSize \/ GetPathSize \/ GetExecutableFilenameSize
  <2>1. CASE GetDevicePathSize
    <3>1. Volume.path \in BOOLEAN
      BY <2>1, CurrentEntry DEF GetDevicePathSize, AllocateString
    <3>2. QED
      BY <1>7, <2>1, <3>1, Zenon DEF GetDevicePathSize
  <2>2. CASE GetPathSize
    <3>1. Volume.files[file_information] \in BOOLEAN
      BY <2>2, CurrentEntry DEF GetPathSize, AllocateString
    <3>2. QED
      BY <1>7, <2>2, <3>1, Zenon DEF GetPathSize
  <2>3. CASE GetExecutableFilenameSize
    <3>1. database.sources[source_information] \in BOOLEAN
      BY <2>3, CurrentEntry
      DEF GetExecutableFilenameSize, AllocateString, SourceLabels
    <3>2. QED
      BY <1>7, <2>3, <3>1, Zenon DEF GetExecutableFilenameSize
  <2>4. QED
    BY <1>8, <2>1, <2>2, <2>3
<1>9. CASE GetDevicePath \/ GetPath \/ GetExecutableFilename
  BY <1>9 DEF GetDevicePath, GetPath, GetExecutableFilename, PrintString
<1>10. CASE GetVolumeValues \/ FileEnds \/ VolumeEnds \/ SourceEnds
  BY <1>10 DEF GetVolumeValues, FileEnds, VolumeEnds, SourceEnds
<1>11. CASE UNCHANGED vars
  BY <1>11 DEF vars
<1>12. QED
  BY <1>1, <1>2, <1>3, <1>4, <1>5, <1>6, <1>8, <1>9, <1>10, <1>11
  DEF Next, FilePrint, Exited

-----------------------------------------------------------------------------
(* What the tool has printed, and why it fails                              *)

PrintedOK == printed \in Seq(Headings \X Nat)
FaultTypes == fault \in {"none", "information_only", "usage", "call"}

LEMMA StepPrinted ==
  PlaceTypes /\ PrintedOK /\ [Next]_vars => PrintedOK'
<1> SUFFICES ASSUME PlaceTypes, PrintedOK, [Next]_vars
             PROVE  PrintedOK'
  OBVIOUS
<1>1. ASSUME NEW heading \in Headings, NEW number \in Nat,
             printed' = Append(printed, <<heading, number>>)
      PROVE  PrintedOK'
  <2>1. <<heading, number>> \in Headings \X Nat
    OBVIOUS
  <2>2. QED
    BY <1>1, <2>1 DEF PrintedOK
<1>2. CASE UNCHANGED printed
  BY <1>2 DEF PrintedOK
<1>3. /\ volume_information \in Nat /\ file_information \in Nat
      /\ source_information \in Nat /\ volume_index \in Nat
      /\ file_index \in Nat /\ source_index \in Nat
  <2>1. Len(database.volumes) \in Nat /\ Len(database.sources) \in Nat
    BY DatabaseFacts DEF PlaceTypes
  <2>2. QED
    BY <2>1 DEF PlaceTypes
<1>4. CASE GetDevicePath \/ GetPath \/ GetExecutableFilename
  <2>1. \E heading \in {"DevicePath", "Path", "ExecutableFilename"},
          number \in Nat : printed' = Append(printed, <<heading, number>>)
    BY <1>3, <1>4
    DEF GetDevicePath, GetPath, GetExecutableFilename, PrintString
  <2>2. {"DevicePath", "Path", "ExecutableFilename"} \subseteq Headings
    BY DEF Headings
  <2>3. QED
    BY <1>1, <2>1, <2>2, Zenon
<1>5. CASE GetVolumeInformation \/ GetFileInformation \/ GetSourceInformation
  <2>1. \/ UNCHANGED printed
        \/ \E heading \in {"Volume", "File", "Source"}, number \in Nat :
             printed' = Append(printed, <<heading, number>>)
    BY <1>3, <1>5
    DEF GetVolumeInformation, GetFileInformation, GetSourceInformation,
        Refuses
  <2>2. {"Volume", "File", "Source"} \subseteq Headings
    BY DEF Headings
  <2>3. QED
    BY <1>1, <1>2, <2>1, <2>2, Zenon
<1>6. QED
  BY <1>2, <1>4, <1>5
  DEF Next, Main, Options, InfoHandleInitialize, OpenInput, CloseInput,
      InfoHandleFree, MainOnError, FilePrint, PrintBegins, GetDevicePathSize,
      AllocateString, GetVolumeValues, GetPathSize, FileEnds, VolumeEnds,
      VolumesEnd, GetExecutableFilenameSize, SourceEnds, PrintEnds,
      PrintOnError, PrintFails, MainFails, CloseFails, Exited, vars

(* The library refuses no reference: at the getters none is held.           *)
LEMMA NoneRefused ==
  ASSUME HoldsInv
  PROVE  /\ GetVolumeInformation => volume_information = NULL
         /\ GetFileInformation => file_information = NULL
         /\ GetSourceInformation => source_information = NULL
  BY DEF HoldsInv, GetVolumeInformation, GetFileInformation,
         GetSourceInformation, VolumeLabels, FileLabels, SourceLabels

LEMMA StepFault ==
  HoldsInv /\ FaultTypes /\ FaultInv /\ [Next]_vars => FaultTypes' /\ FaultInv'
<1> SUFFICES ASSUME HoldsInv, FaultTypes, FaultInv, [Next]_vars
             PROVE  FaultTypes' /\ FaultInv'
  OBVIOUS
<1> USE DEF FaultTypes, FaultInv, Goto
<1>1. CASE Main
  BY <1>1
  DEF Main, Options, InfoHandleInitialize, OpenInput, CloseInput,
      InfoHandleFree, MainOnError
<1>2. CASE PrintFails \/ MainFails \/ CloseFails \/ PrintOnError
  BY <1>2 DEF PrintFails, MainFails, CloseFails, PrintOnError
<1>3. CASE GetVolumeInformation \/ GetFileInformation \/ GetSourceInformation
  BY <1>3, NoneRefused
  DEF GetVolumeInformation, GetFileInformation, GetSourceInformation
<1>4. CASE GetDevicePathSize \/ GetPathSize \/ GetExecutableFilenameSize
  BY <1>4
  DEF GetDevicePathSize, GetPathSize, GetExecutableFilenameSize,
      AllocateString
<1>5. CASE GetDevicePath \/ GetPath \/ GetExecutableFilename
  BY <1>5 DEF GetDevicePath, GetPath, GetExecutableFilename, PrintString
<1>6. CASE PrintBegins \/ GetVolumeValues \/ FileEnds \/ VolumeEnds
           \/ VolumesEnd \/ SourceEnds \/ PrintEnds
  BY <1>6
  DEF PrintBegins, GetVolumeValues, FileEnds, VolumeEnds, VolumesEnd,
      SourceEnds, PrintEnds
<1>7. CASE UNCHANGED vars
  BY <1>7 DEF vars
<1>8. QED
  BY <1>1, <1>2, <1>3, <1>4, <1>5, <1>6, <1>7 DEF Next, FilePrint, Exited

-----------------------------------------------------------------------------
(* The invariants of AgdbInfo                                               *)

IndInv ==
  /\ PlaceTypes /\ HoldsInv
  /\ MemoryTypes /\ MemoryInv
  /\ PrintedOK /\ FaultTypes /\ FaultInv

LEMMA InitIndInv == Init => IndInv
<1> SUFFICES ASSUME Init
             PROVE  IndInv
  OBVIOUS
<1>1. PrintedOK /\ FaultTypes /\ FaultInv
  BY DEF Init, PrintedOK, FaultTypes, FaultInv
<1>2. QED
  BY <1>1, InitPlace, InitMemory DEF IndInv

LEMMA StepIndInv == IndInv /\ [Next]_vars => IndInv'
  BY StepPlace, StepMemoryTypes, StepMemory, StepPrinted, StepFault, Zenon
  DEF IndInv

LEMMA AlwaysIndInv == Spec => []IndInv
  BY InitIndInv, StepIndInv, PTL DEF Spec

(* Every variable keeps its type; the tool never counts past the entries of *)
(* the database.                                                            *)
THEOREM TypeCorrect == Spec => []TypeOK
<1>1. IndInv => TypeOK
  BY TypesInParts, Zenon DEF IndInv, PrintedOK, FaultTypes
<1>2. QED
  BY <1>1, AlwaysIndInv, PTL

(* However the tool ends, by success, by help or by the failure of any      *)
(* call, it has released its handle, the file, the time and the string.     *)
THEOREM Released == Spec => []AllReleased
<1>1. IndInv => AllReleased
  BY DEF IndInv, AllReleased, MemoryTypes, MemoryInv, VolumeLabels, FileLabels,
         StringLabels
<1>2. QED
  BY <1>1, AlwaysIndInv, PTL

(* The tool fails only for a bad option or for a call that failed: the      *)
(* library never refuses it a reference.                                    *)
THEOREM FailsForCause == Spec => []FailureHasCause
<1>1. IndInv => FailureHasCause
  BY DEF IndInv, FailureHasCause, FaultInv
<1>2. QED
  BY <1>1, AlwaysIndInv, PTL

-----------------------------------------------------------------------------
(* The application's side of FileApi                                        *)

\* What FileApi sees of the tool.
View ==
  <<input_file, OpenEntries("volume", Len(database.volumes)),
    OpenEntries("source", Len(database.sources)), HeldEntries>>

LEMMA InitApi == Init => Api!Init
<1> SUFFICES ASSUME Init
             PROVE  Api!Init
  OBVIOUS
<1>1. HeldEntries = [volume |-> NoEntry, file |-> NoEntry, source |-> NoEntry]
  BY DEF Init, HeldEntries, HeldFile, Denotes
<1>2. Api!Nothing = HeldEntries
  BY <1>1 DEF Api!Nothing, Api!Kinds
<1>3. QED
  BY <1>2 DEF Init, Api!Init, OpenEntries

(* With no reference nothing is held.                                       *)
LEMMA HoldsNothing ==
  references = <<NULL, NULL, NULL>> => HeldEntries = Api!Nothing
<1> SUFFICES ASSUME references = <<NULL, NULL, NULL>>
             PROVE  HeldEntries = Api!Nothing
  OBVIOUS
<1>1. HeldEntries = [volume |-> NoEntry, file |-> NoEntry, source |-> NoEntry]
  BY DEF references, HeldEntries, HeldFile, Denotes
<1>2. QED
  BY <1>1 DEF Api!Nothing, Api!Kinds

\* A step that changes neither the file nor a reference is a stutter.
LEMMA ViewKept ==
  UNCHANGED <<database, input_file, references>> => UNCHANGED View
<1> SUFFICES ASSUME UNCHANGED <<database, input_file, references>>
             PROVE  UNCHANGED View
  OBVIOUS
<1>1. /\ database' = database /\ input_file' = input_file
      /\ volume_information' = volume_information
      /\ file_information' = file_information
      /\ source_information' = source_information
  BY DEF references
<1>2. UNCHANGED <<OpenEntries("volume", Len(database.volumes)),
                  OpenEntries("source", Len(database.sources))>>
  BY <1>1 DEF OpenEntries, Denotes
<1>3. UNCHANGED HeldEntries
  BY <1>1 DEF HeldEntries, HeldFile, Denotes
<1>4. QED
  BY <1>1, <1>2, <1>3 DEF View

LEMMA ReferencesKept ==
  UNCHANGED <<database, references>> => UNCHANGED HeldEntries
  BY DEF references, HeldEntries, HeldFile, Denotes

LEMMA InitializeApi ==
  MemoryInv /\ InfoHandleInitialize => Api!Initialize
<1> SUFFICES ASSUME MemoryInv, InfoHandleInitialize
             PROVE  Api!Initialize
  OBVIOUS
<1>1. input_file = "none" /\ input_file' = "closed"
  BY DEF MemoryInv, InfoHandleInitialize
<1>2. UNCHANGED HeldEntries
  BY ReferencesKept DEF InfoHandleInitialize, Goto
<1>3. QED
  BY <1>1, <1>2 DEF Api!Initialize, OpenEntries

LEMMA OpenApi ==
  PlaceTypes /\ MemoryInv /\ OpenInput => Api!Open(database)
<1> SUFFICES ASSUME PlaceTypes, MemoryInv, OpenInput
             PROVE  Api!Open(database)
  OBVIOUS
<1>1. /\ input_file = "closed" /\ input_file' = "open"
      /\ UNCHANGED <<database, references>>
  BY DEF MemoryInv, OpenInput, Goto
<1>2. ASSUME NEW kind, NEW n \in Nat
      PROVE  /\ OpenEntries(kind, n) = <<>>
             /\ OpenEntries(kind, n)' = Api!Entries(kind, database, n)
             /\ <<>> \o Api!Entries(kind, database, n)
                  = Api!Entries(kind, database, n)
  <2>1. OpenEntries(kind, n) = <<>>
    BY <1>1 DEF OpenEntries
  <2>2. OpenEntries(kind, n)' = [i \in 1 .. n |-> Denotes(kind, i)]
    BY <1>1 DEF OpenEntries, Denotes
  <2>3. \A i \in 1 .. n :
          Denotes(kind, i)
            = [kind |-> kind, database |-> database, index |-> i - 1]
    BY DEF Denotes, NULL
  <2>4. [i \in 1 .. n |-> Denotes(kind, i)] = Api!Entries(kind, database, n)
    BY <2>3 DEF Api!Entries
  <2>5. \A S : \A s \in Seq(S) : <<>> \o s = s
    OBVIOUS
  <2>6. Api!Entries(kind, database, n)
          \in Seq({[kind |-> kind, database |-> database, index |-> i - 1] :
                      i \in 1 .. n})
    <3>1. \A S : \A f \in [1 .. n -> S] : f \in Seq(S)
      OBVIOUS
    <3>2. Api!Entries(kind, database, n)
            \in [1 .. n ->
                   {[kind |-> kind, database |-> database, index |-> i - 1] :
                      i \in 1 .. n}]
      BY Zenon DEF Api!Entries
    <3>3. QED
      BY <3>1, <3>2, Zenon
  <2>7. QED
    BY <2>1, <2>2, <2>4, <2>5, <2>6, Zenon
<1>3. Len(database.volumes) \in Nat /\ Len(database.sources) \in Nat
  BY DatabaseFacts DEF PlaceTypes
<1>4. /\ OpenEntries("volume", Len(database.volumes))'
           = OpenEntries("volume", Len(database.volumes))
               \o Api!Entries("volume", database, Len(database.volumes))
      /\ OpenEntries("source", Len(database.sources))'
           = OpenEntries("source", Len(database.sources))
               \o Api!Entries("source", database, Len(database.sources))
  BY <1>1, <1>2, <1>3
<1>5. UNCHANGED HeldEntries
  BY <1>1, ReferencesKept
<1>6. QED
  BY <1>1, <1>4, <1>5, Zenon DEF Api!Open, VolumesIn, SourcesIn

(* Whoever closes or frees the file has given up every reference.           *)
LEMMA DropApi ==
  ASSUME references = <<NULL, NULL, NULL>>, UNCHANGED <<database, references>>,
         NEW s \in {"none", "closed"}, input_file' = s
  PROVE  Api!Drop(s)
<1>1. HeldEntries = Api!Nothing /\ UNCHANGED HeldEntries
  BY HoldsNothing, ReferencesKept
<1>2. /\ OpenEntries("volume", Len(database.volumes))' = <<>>
      /\ OpenEntries("source", Len(database.sources))' = <<>>
  BY DEF OpenEntries
<1>3. QED
  BY <1>1, <1>2, Zenon DEF Api!Drop

LEMMA NoReferencesInMain ==
  ASSUME HoldsInv, pc \in MainLabels
  PROVE  references = <<NULL, NULL, NULL>>
  BY DEF HoldsInv, MainLabels, VolumeLabels, FileLabels, SourceLabels,
         references

LEMMA CloseApi ==
  ASSUME IndInv,
         CloseInput \/ InfoHandleFree \/ MainOnError \/ CloseFails
  PROVE  Api!Close \/ Api!Free \/ UNCHANGED View
<1>1. /\ pc \in MainLabels
      /\ UNCHANGED <<database, references>>
  BY DEF CloseInput, InfoHandleFree, MainOnError, CloseFails, Goto, MainLabels
<1>2. references = <<NULL, NULL, NULL>>
  BY <1>1, NoReferencesInMain DEF IndInv
<1>3. \/ input_file = "open" /\ input_file' = "closed"
      \/ input_file # "none" /\ input_file' = "none"
      \/ input_file' = input_file
  BY DEF CloseInput, InfoHandleFree, MainOnError, CloseFails, IndInv,
         MemoryInv
<1>4. CASE input_file = "open" /\ input_file' = "closed"
  BY <1>1, <1>2, <1>4, DropApi DEF Api!Close
<1>5. CASE input_file # "none" /\ input_file' = "none"
  BY <1>1, <1>2, <1>5, DropApi DEF Api!Free
<1>6. CASE input_file' = input_file
  BY <1>1, <1>6, ViewKept
<1>7. QED
  BY <1>3, <1>4, <1>5, <1>6

-----------------------------------------------------------------------------
(* Entries are taken and given up                                           *)

LEMMA EntriesDiffer ==
  ASSUME NEW kind \in {"volume", "source"}, NEW reference \in Nat,
         reference # NULL
  PROVE  Denotes(kind, reference) # NoEntry
<1>1. Denotes(kind, reference).kind = kind
  BY DEF Denotes
<1>2. NoEntry.kind = "none"
  BY DEF NoEntry
<1>3. QED
  BY <1>1, <1>2

LEMMA VolumeApi ==
  ASSUME IndInv, GetVolumeInformation
  PROVE  Api!GetVolume
<1>1. /\ volume_information = NULL
      /\ volume_information' = volume_index + 1
      /\ UNCHANGED <<database, input_file, file_information,
                     source_information>>
      /\ file_information = NULL
  BY NoneRefused
  DEF GetVolumeInformation, Goto, allocated, IndInv, HoldsInv, FileLabels
<1>2. input_file = "open"
  BY DEF IndInv, MemoryInv, GetVolumeInformation, PrintLabels
<1>3. volume_index + 1 \in 1 .. Len(database.volumes)
  <2>1. Len(database.volumes) \in Nat
    BY DatabaseFacts DEF IndInv, PlaceTypes
  <2>2. QED
    BY <2>1 DEF IndInv, PlaceTypes, GetVolumeInformation
<1> DEFINE volumes == OpenEntries("volume", Len(database.volumes))
           i == volume_index + 1
<1>4. volumes = [j \in 1 .. Len(database.volumes) |-> Denotes("volume", j)]
  BY <1>2 DEF OpenEntries
<1>5. i \in DOMAIN volumes /\ volumes[i] = Denotes("volume", i)
  BY <1>3, <1>4
<1>6. HeldEntries.volume = NoEntry
  BY <1>1 DEF HeldEntries, Denotes
<1>7. HeldEntries' = [HeldEntries EXCEPT !["volume"] = Denotes("volume", i)]
  <2>1. /\ Denotes("volume", volume_information)' = Denotes("volume", i)
        /\ HeldFile' = HeldFile
        /\ Denotes("source", source_information)'
             = Denotes("source", source_information)
    BY <1>1 DEF Denotes, HeldFile
  <2>2. HeldEntries' = [volume |-> Denotes("volume", i),
                        file |-> HeldFile,
                        source |-> Denotes("source", source_information)]
    BY <2>1 DEF HeldEntries
  <2>3. QED
    BY <2>2 DEF HeldEntries
<1>8. UNCHANGED <<input_file, volumes,
                  OpenEntries("source", Len(database.sources))>>
  BY <1>1 DEF OpenEntries, Denotes
<1>9. Api!Hold("volume", volumes[i])
  BY <1>5, <1>6, <1>7, <1>8 DEF Api!Hold
<1>10. QED
  BY <1>5, <1>9 DEF Api!GetVolume

LEMMA SourceApi ==
  ASSUME IndInv, GetSourceInformation
  PROVE  Api!GetSource
<1>1. /\ source_information = NULL
      /\ source_information' = source_index + 1
      /\ UNCHANGED <<database, input_file, volume_information,
                     file_information>>
  BY NoneRefused
  DEF GetSourceInformation, Goto, allocated, IndInv
<1>2. input_file = "open"
  BY DEF IndInv, MemoryInv, GetSourceInformation, PrintLabels
<1>3. source_index + 1 \in 1 .. Len(database.sources)
  <2>1. Len(database.sources) \in Nat
    BY DatabaseFacts DEF IndInv, PlaceTypes
  <2>2. QED
    BY <2>1 DEF IndInv, PlaceTypes, GetSourceInformation
<1> DEFINE sources == OpenEntries("source", Len(database.sources))
           i == source_index + 1
<1>4. sources = [j \in 1 .. Len(database.sources) |-> Denotes("source", j)]
  BY <1>2 DEF OpenEntries
<1>5. i \in DOMAIN sources /\ sources[i] = Denotes("source", i)
  BY <1>3, <1>4
<1>6. HeldEntries.source = NoEntry
  BY <1>1 DEF HeldEntries, Denotes
<1>7. HeldEntries' = [HeldEntries EXCEPT !["source"] = Denotes("source", i)]
  <2>1. /\ Denotes("volume", volume_information)'
             = Denotes("volume", volume_information)
        /\ HeldFile' = HeldFile
        /\ Denotes("source", source_information)' = Denotes("source", i)
    BY <1>1 DEF Denotes, HeldFile
  <2>2. HeldEntries' = [volume |-> Denotes("volume", volume_information),
                        file |-> HeldFile,
                        source |-> Denotes("source", i)]
    BY <2>1 DEF HeldEntries
  <2>3. QED
    BY <2>2 DEF HeldEntries
<1>8. UNCHANGED <<input_file, OpenEntries("volume", Len(database.volumes)),
                  sources>>
  BY <1>1 DEF OpenEntries, Denotes
<1>9. Api!Hold("source", sources[i])
  BY <1>5, <1>6, <1>7, <1>8 DEF Api!Hold
<1>10. QED
  BY <1>5, <1>9 DEF Api!GetSource

LEMMA FileApiStep ==
  ASSUME IndInv, GetFileInformation
  PROVE  Api!GetFile
<1>1. /\ file_information = NULL
      /\ file_information' = file_index + 1
      /\ UNCHANGED <<database, input_file, volume_information,
                     source_information>>
      /\ pc \in VolumeLabels
  BY NoneRefused
  DEF GetFileInformation, Goto, allocated, IndInv, VolumeLabels
<1>2. volume_information \in Nat /\ volume_information # NULL
      /\ volume_information = volume_index + 1
  <2>1. Len(database.volumes) \in Nat
    BY DatabaseFacts DEF IndInv, PlaceTypes
  <2>2. QED
    BY <1>1, <2>1 DEF IndInv, HoldsInv, PlaceTypes, NULL
<1> DEFINE volume == Denotes("volume", volume_information)
           i == file_index + 1
           file == [volume |-> volume, index |-> i - 1]
<1>3. HeldEntries.volume = volume /\ HeldEntries.file = NoEntry
  BY <1>1 DEF HeldEntries, HeldFile
<1>4. volume # NoEntry
  BY <1>2, EntriesDiffer
<1>5. volume.database = database /\ volume.index + 1 = volume_information
  BY <1>2 DEF Denotes
<1>6. FilesIn(volume.database, volume.index) = Len(Volume.files)
  BY <1>5 DEF FilesIn, Volume
<1>7. i \in 1 .. FilesIn(volume.database, volume.index)
  <2>1. Len(Volume.files) \in Nat
    BY <1>1, CurrentEntry DEF IndInv
  <2>2. QED
    BY <1>6, <2>1 DEF IndInv, PlaceTypes, GetFileInformation
<1>8. HeldEntries' = [HeldEntries EXCEPT !["file"] = file]
  <2>1. HeldFile' = file
    <3>1. file_information' # NULL
      BY <1>1 DEF IndInv, PlaceTypes, NULL
    <3>2. Denotes("volume", volume_information)' = volume
      BY <1>1 DEF Denotes
    <3>3. QED
      BY <1>1, <3>1, <3>2 DEF HeldFile
  <2>2. /\ Denotes("volume", volume_information)' = volume
        /\ Denotes("source", source_information)'
             = Denotes("source", source_information)
    BY <1>1 DEF Denotes
  <2>3. HeldEntries' = [volume |-> volume, file |-> file,
                        source |-> Denotes("source", source_information)]
    BY <2>1, <2>2, Zenon DEF HeldEntries
  <2> HIDE DEF volume, file
  <2>4. HeldEntries = [volume |-> volume, file |-> HeldFile,
                       source |-> Denotes("source", source_information)]
    BY DEF HeldEntries, volume
  <2>5. QED
    BY <2>3, <2>4
<1>9. UNCHANGED <<input_file, OpenEntries("volume", Len(database.volumes)),
                  OpenEntries("source", Len(database.sources))>>
  BY <1>1 DEF OpenEntries, Denotes
<1>10. Api!Hold("file", file)
  <2> HIDE DEF file
  <2>1. HeldEntries["file"] = NoEntry
    BY <1>3
  <2>2. QED
    BY <1>8, <1>9, <2>1 DEF Api!Hold
<1>11. Api!Hold("file", [volume |-> HeldEntries.volume, index |-> i - 1])
  BY <1>3, <1>10
<1>12. /\ HeldEntries.volume # NoEntry
       /\ i \in 1 .. FilesIn(HeldEntries.volume.database,
                             HeldEntries.volume.index)
  BY <1>3, <1>4, <1>7
<1> HIDE DEF i, volume, file
<1>13. QED
  BY <1>11, <1>12, Zenon DEF Api!GetFile

(* The references a step gives up.                                          *)
LEMMA GiveUpApi ==
  ASSUME IndInv,
         FileEnds \/ VolumeEnds \/ SourceEnds \/ PrintOnError
  PROVE  Api!GiveUp
<1> DEFINE given_up == (IF volume_information' = NULL THEN {"volume"} ELSE {})
                  \cup (IF file_information' = NULL THEN {"file"} ELSE {})
                  \cup (IF source_information' = NULL THEN {"source"} ELSE {})
<1>1. /\ UNCHANGED <<database, input_file>>
      /\ volume_information' \in {volume_information, NULL}
      /\ file_information' \in {file_information, NULL}
      /\ source_information' \in {source_information, NULL}
  BY DEF FileEnds, VolumeEnds, SourceEnds, PrintOnError, Goto, allocated
<1>2. volume_information' = NULL => file_information' = NULL
  BY DEF FileEnds, VolumeEnds, SourceEnds, PrintOnError, IndInv, HoldsInv,
         FileLabels, VolumeLabels, SourceLabels
<1>3. UNCHANGED <<OpenEntries("volume", Len(database.volumes)),
                  OpenEntries("source", Len(database.sources))>>
  BY <1>1 DEF OpenEntries, Denotes
<1>4. Denotes("volume", volume_information)'
        = IF volume_information' = NULL THEN NoEntry
          ELSE Denotes("volume", volume_information)
  BY <1>1 DEF Denotes
<1>5. Denotes("source", source_information)'
        = IF source_information' = NULL THEN NoEntry
          ELSE Denotes("source", source_information)
  BY <1>1 DEF Denotes
<1>6. HeldFile' = IF file_information' = NULL THEN NoEntry ELSE HeldFile
  <2>1. CASE file_information' = NULL
    BY <2>1 DEF HeldFile
  <2>2. CASE file_information' # NULL
    <3>1. /\ volume_information' = volume_information
          /\ file_information' = file_information
      BY <1>1, <1>2, <2>2
    <3>2. Denotes("volume", volume_information)'
            = Denotes("volume", volume_information)
      BY <1>1, <3>1 DEF Denotes
    <3>3. QED
      BY <2>2, <3>1, <3>2 DEF HeldFile
  <2>3. QED
    BY <2>1, <2>2
<1>7. HeldEntries'
        = [k \in Api!Kinds |-> IF k \in given_up THEN NoEntry
                               ELSE HeldEntries[k]]
  BY <1>4, <1>5, <1>6 DEF HeldEntries, Api!Kinds
<1>8. given_up \in SUBSET Api!Kinds
  BY DEF Api!Kinds
<1> HIDE DEF given_up
<1>9. QED
  BY <1>1, <1>3, <1>7, <1>8, Zenon DEF Api!GiveUp

(* Every step of the tool is one of the application, or none that FileApi   *)
(* sees.                                                                    *)
LEMMA StepApi == IndInv /\ [Next]_vars => [Api!Next]_View
<1> SUFFICES ASSUME IndInv, [Next]_vars
             PROVE  [Api!Next]_View
  OBVIOUS
<1>1. CASE InfoHandleInitialize
  BY <1>1, InitializeApi DEF IndInv, Api!Next
<1>2. CASE OpenInput
  <2>1. database \in Databases /\ Api!Open(database)
    BY <1>2, OpenApi DEF IndInv, PlaceTypes
  <2>2. QED
    BY <2>1, Zenon DEF Api!Next
<1>3. CASE CloseInput \/ InfoHandleFree \/ MainOnError \/ CloseFails
  BY <1>3, CloseApi, Zenon DEF Api!Next
<1>4. CASE GetVolumeInformation
  BY <1>4, VolumeApi, Zenon DEF Api!Next
<1>5. CASE GetSourceInformation
  BY <1>5, SourceApi, Zenon DEF Api!Next
<1>6. CASE GetFileInformation
  BY <1>6, FileApiStep, Zenon DEF Api!Next
<1>7. CASE FileEnds \/ VolumeEnds \/ SourceEnds \/ PrintOnError
  BY <1>7, GiveUpApi, Zenon DEF Api!Next
<1>8. CASE UNCHANGED <<database, input_file, references>>
  BY <1>8, ViewKept, Zenon
<1>9. QED
  BY <1>1, <1>2, <1>3, <1>4, <1>5, <1>6, <1>7, <1>8
  DEF Next, Main, Options, FilePrint, PrintBegins, GetDevicePathSize,
      GetDevicePath, AllocateString, PrintString, GetVolumeValues,
      GetPathSize, GetPath, VolumesEnd, GetExecutableFilenameSize,
      GetExecutableFilename, PrintEnds, PrintFails, MainFails, Exited, Goto,
      allocated, vars

(* The tool keeps the application's side of FileApi, whatever fails and     *)
(* however many entries the database has.                                   *)
THEOREM KeepsApi == Spec => KeepsFileApi
<1>1. Init /\ [][Next]_vars => KeepsFileApi
  BY InitIndInv, StepIndInv, InitApi, StepApi, PTL
  DEF KeepsFileApi, Api!Spec, Api!vars, View
<1>2. QED
  BY <1>1, PTL DEF Spec

-----------------------------------------------------------------------------
(* Sequences of headings and strings                                       *)

Item == Headings \X Nat

\* s is how t begins.
Begins(s, t) ==
  s \in Seq(Item) /\ \E u \in Seq(Item) : t = s \o u

(* Sequences are put together in any order.                                 *)
LEMMA Joined ==
  ASSUME NEW s \in Seq(Item), NEW t \in Seq(Item)
  PROVE  /\ s \o t \in Seq(Item)
         /\ s \o <<>> = s /\ <<>> \o s = s
         /\ Begins(s, s \o t) /\ Begins(s, s)
<1>1. s \o t \in Seq(Item)
  BY ConcatProperties, Zenon
<1>2. s \o <<>> = s /\ <<>> \o s = s
  BY ConcatEmptySeq, Zenon
<1>3. <<>> \in Seq(Item)
  OBVIOUS
<1>4. QED
  BY <1>1, <1>2, <1>3, Zenon DEF Begins

LEMMA JoinedInAnyOrder ==
  ASSUME NEW s \in Seq(Item), NEW t \in Seq(Item), NEW u \in Seq(Item)
  PROVE  (s \o t) \o u = s \o (t \o u)
  BY ConcatAssociative

LEMMA BeginsTransitive ==
  ASSUME NEW s, NEW t, NEW w, Begins(s, t), Begins(t, w)
  PROVE  Begins(s, w)
<1>1. PICK u \in Seq(Item) : t = s \o u
  BY DEF Begins
<1>2. PICK v \in Seq(Item) : w = t \o v
  BY DEF Begins
<1>3. s \in Seq(Item)
  BY DEF Begins
<1>4. w = s \o (u \o v)
  BY <1>1, <1>2, <1>3, JoinedInAnyOrder, Zenon
<1>5. u \o v \in Seq(Item)
  BY Joined, Zenon
<1>6. QED
  BY <1>3, <1>4, <1>5, Zenon DEF Begins

LEMMA BeginsBehind ==
  ASSUME NEW r \in Seq(Item), NEW s, NEW t, Begins(s, t)
  PROVE  Begins(r \o s, r \o t)
<1>1. PICK u \in Seq(Item) : t = s \o u
  BY DEF Begins
<1>2. s \in Seq(Item)
  BY DEF Begins
<1>3. r \o t = (r \o s) \o u
  BY <1>1, <1>2, JoinedInAnyOrder, Zenon
<1>4. r \o s \in Seq(Item)
  BY <1>2, Joined, Zenon
<1>5. QED
  BY <1>3, <1>4, Zenon DEF Begins

LEMMA BeginsIsPrefix ==
  ASSUME NEW s, NEW t, Begins(s, t)
  PROVE  IsPrefix(s, t)
<1>1. PICK u \in Seq(Item) : t = s \o u
  BY DEF Begins
<1>2. s \in Seq(Item)
  BY DEF Begins
<1>3. /\ Len(t) = Len(s) + Len(u) /\ Len(s) \in Nat /\ Len(u) \in Nat
      /\ \A i \in 1 .. Len(s) : t[i] = s[i]
  BY <1>1, <1>2
<1>4. SubSeq(s, 1, Len(s)) = [i \in 1 .. Len(s) |-> s[i]]
  BY <1>2
<1>5. SubSeq(t, 1, Len(s)) = [i \in 1 .. Len(s) |-> t[i]]
  BY <1>1, <1>2, <1>3
<1>6. [i \in 1 .. Len(s) |-> s[i]] = [i \in 1 .. Len(s) |-> t[i]]
  BY <1>3, Zenon
<1>7. Len(s) <= Len(t)
  BY <1>3
<1>8. QED
  BY <1>4, <1>5, <1>6, <1>7, Zenon DEF IsPrefix

-----------------------------------------------------------------------------
(* The first parts of a sequence of parts                                   *)

(* A set of natural numbers that is not empty has a smallest.               *)
LEMMA SmallestNumber ==
  ASSUME NEW T \in SUBSET Nat, T # {}
  PROVE  \E n \in T : \A m \in T : n <= m
<1> DEFINE R == OpToRel(<, Nat)
<1>1. \A m, n \in Nat : m < n => <<m, n>> \in R
  BY DEF OpToRel
<1>2. IsWellFoundedOn(R, Nat)
  BY NatLessThanWellFounded
<1> HIDE DEF R
<1>3. PICK n \in T : \A m \in T : ~(<<m, n>> \in R)
  BY <1>2, WFMin
<1>4. ASSUME NEW m \in T PROVE n <= m
  <2>1. m \in Nat /\ n \in Nat
    OBVIOUS
  <2>2. ~(m < n)
    BY <1>1, <1>3, <2>1, Zenon
  <2>3. QED
    BY <2>1, <2>2
<1>5. QED
  BY <1>4

(* Induction over the natural numbers, for a set.                           *)
LEMMA Induction ==
  ASSUME NEW S, 0 \in S, \A n \in Nat : n \in S => n + 1 \in S
  PROVE  Nat \subseteq S
<1> DEFINE T == Nat \ S
<1> SUFFICES ASSUME T # {} PROVE FALSE
  OBVIOUS
<1>1. PICK n \in T : \A m \in T : n <= m
  BY SmallestNumber
<1>2. n # 0 /\ n - 1 \in Nat /\ n - 1 \notin T
  BY <1>1
<1>3. QED
  BY <1>2

\* What FlattenSeq makes of the parts up to each of them.
Flat(parts) ==
  LET flatten[i \in 1 .. Len(parts)] ==
        IF i = 1 THEN parts[i] ELSE flatten[i - 1] \o parts[i]
  IN  flatten

\* The first k parts, one behind the other.
First(parts, k) == IF k = 0 THEN <<>> ELSE Flat(parts)[k]

Unfolds(f, parts, m) ==
  \A i \in 1 .. m : f[i] = IF i = 1 THEN parts[i] ELSE f[i - 1] \o parts[i]

(* There is a function that puts the parts together.                        *)
LEMMA FlatExists ==
  ASSUME NEW parts, NEW m \in Nat
  PROVE  \E f : f = [i \in 1 .. m |-> f[i]] /\ Unfolds(f, parts, m)
<1> DEFINE Exists(k) == \E f : f = [i \in 1 .. k |-> f[i]] /\ Unfolds(f, parts, k)
           S == {k \in Nat : Exists(k)}
<1>1. Exists(0)
  <2> DEFINE f == [i \in 1 .. 0 |-> <<>>]
  <2>1. f = [i \in 1 .. 0 |-> f[i]] /\ Unfolds(f, parts, 0)
    BY DEF Unfolds
  <2> HIDE DEF f
  <2>2. QED
    BY <2>1
<1>2. ASSUME NEW k \in Nat, Exists(k) PROVE Exists(k + 1)
  <2>1. PICK f : Unfolds(f, parts, k)
    BY <1>2
  <2> DEFINE last == IF k = 0 THEN parts[1] ELSE f[k] \o parts[k + 1]
             g == [i \in 1 .. k + 1 |-> IF i = k + 1 THEN last ELSE f[i]]
  <2>2. \A i \in 1 .. k : g[i] = f[i]
    OBVIOUS
  <2>3. g[k + 1] = last
    OBVIOUS
  <2>4. g = [i \in 1 .. k + 1 |-> g[i]]
    OBVIOUS
  <2> HIDE DEF g, last
  <2>5. ASSUME NEW i \in 1 .. k + 1
        PROVE  g[i] = IF i = 1 THEN parts[i] ELSE g[i - 1] \o parts[i]
    <3>1. CASE i = k + 1 /\ k = 0
      BY <2>3, <3>1 DEF last
    <3>2. CASE i = k + 1 /\ k # 0
      <4>1. i # 1 /\ i - 1 = k /\ g[k] = f[k]
        BY <2>2, <3>2
      <4>2. QED
        BY <2>3, <3>2, <4>1 DEF last
    <3>3. CASE i \in 1 .. k
      <4>1. g[i] = f[i] /\ (i # 1 => g[i - 1] = f[i - 1])
        BY <2>2, <3>3
      <4>2. f[i] = IF i = 1 THEN parts[i] ELSE f[i - 1] \o parts[i]
        BY <2>1, <3>3 DEF Unfolds
      <4>3. QED
        BY <4>1, <4>2
    <3>4. QED
      BY <3>1, <3>2, <3>3
  <2>6. QED
    BY <2>4, <2>5 DEF Unfolds
<1> HIDE DEF Exists
<1>3. 0 \in S /\ \A k \in Nat : k \in S => k + 1 \in S
  BY <1>1, <1>2
<1>4. m \in S
  BY <1>3, Induction
<1>5. QED
  BY <1>4 DEF Exists

(* Flat is what its recursive function says.                                *)
LEMMA FlatUnfolds ==
  ASSUME NEW parts, Len(parts) \in Nat
  PROVE  Unfolds(Flat(parts), parts, Len(parts))
<1> DEFINE Body(f) == [i \in 1 .. Len(parts) |->
                         IF i = 1 THEN parts[i] ELSE f[i - 1] \o parts[i]]
<1>1. PICK f : f = [i \in 1 .. Len(parts) |-> f[i]]
               /\ Unfolds(f, parts, Len(parts))
  BY FlatExists
<1>2. f = Body(f)
  BY <1>1, Zenon DEF Unfolds
<1>3. Flat(parts) = Body(Flat(parts))
  BY <1>2, Zenon DEF Flat
<1> DEFINE h == Flat(parts)
<1> HIDE DEF h
<1>4. h = [i \in 1 .. Len(parts) |->
             IF i = 1 THEN parts[i] ELSE h[i - 1] \o parts[i]]
  BY <1>3 DEF h
<1>5. Unfolds(h, parts, Len(parts))
  BY <1>4, Zenon DEF Unfolds
<1>6. QED
  BY <1>5 DEF h

\* Each part goes behind those before it, and they are how the whole begins.
PutTogether(parts) ==
  /\ First(parts, 0) = <<>>
  /\ \A k \in 1 .. Len(parts) : First(parts, k) = First(parts, k - 1) \o parts[k]
  /\ \A k \in 0 .. Len(parts) : Begins(First(parts, k), FlattenSeq(parts))
  /\ FlattenSeq(parts) = First(parts, Len(parts))
  /\ FlattenSeq(parts) \in Seq(Item)

(* FlattenSeq puts the parts together.                                      *)
LEMMA PartsPutTogether ==
  ASSUME NEW parts \in Seq(Seq(Item))
  PROVE  PutTogether(parts)
<1>1. PICK m \in Nat : m = Len(parts)
  OBVIOUS
<1>2. \A i \in 1 .. m : parts[i] \in Seq(Item)
  BY <1>1
<1>3. \A i \in 1 .. m : Flat(parts)[i] =
        IF i = 1 THEN parts[i] ELSE Flat(parts)[i - 1] \o parts[i]
  BY <1>1, FlatUnfolds DEF Unfolds
<1>4. First(parts, 0) = <<>>
  BY DEF First
<1>5. ASSUME NEW k \in 1 .. m
      PROVE  First(parts, k) = First(parts, k - 1) \o parts[k]
  <2>1. k # 0
    OBVIOUS
  <2>2. CASE k = 1
    <3>1. k - 1 = 0 /\ First(parts, k) = parts[k]
      BY <1>3, <2>1, <2>2 DEF First
    <3>2. <<>> \o parts[k] = parts[k]
      BY <1>2, ConcatEmptySeq, Zenon
    <3>3. QED
      BY <1>4, <3>1, <3>2
  <2>3. CASE k # 1
    <3>1. k - 1 # 0
      BY <2>3
    <3>2. QED
      BY <1>3, <2>1, <2>3, <3>1 DEF First
  <2>4. QED
    BY <2>2, <2>3
<1> DEFINE S == {n \in Nat : n <= m => /\ First(parts, n) \in Seq(Item)
                                       /\ \A k \in 0 .. n :
                                            Begins(First(parts, k), First(parts, n))}
<1>6. 0 \in S
  <2>1. <<>> \in Seq(Item)
    OBVIOUS
  <2>2. Begins(<<>>, <<>>)
    BY <2>1, Joined, Zenon
  <2>3. \A k \in 0 .. 0 : k = 0
    OBVIOUS
  <2>4. QED
    BY <1>4, <2>1, <2>2, <2>3
<1>7. ASSUME NEW n \in Nat, n \in S PROVE n + 1 \in S
  <2>1. SUFFICES ASSUME n + 1 <= m
                 PROVE  /\ First(parts, n + 1) \in Seq(Item)
                        /\ \A k \in 0 .. n + 1 :
                             Begins(First(parts, k), First(parts, n + 1))
    OBVIOUS
  <2>2. n <= m /\ n + 1 \in 1 .. m /\ n + 1 - 1 = n
    BY <2>1
  <2>3. /\ First(parts, n) \in Seq(Item)
        /\ \A k \in 0 .. n : Begins(First(parts, k), First(parts, n))
    BY <1>7, <2>2
  <2>4. First(parts, n + 1) = First(parts, n) \o parts[n + 1]
    <3>1. PICK k \in 1 .. m : k = n + 1
      BY <2>2
    <3>2. First(parts, k) = First(parts, k - 1) \o parts[k]
      BY <1>5
    <3>3. k - 1 = n
      BY <3>1
    <3>4. QED
      BY <3>1, <3>2, <3>3
  <2>5. parts[n + 1] \in Seq(Item)
    BY <1>2, <2>2
  <2>6. First(parts, n + 1) \in Seq(Item)
        /\ Begins(First(parts, n), First(parts, n + 1))
        /\ Begins(First(parts, n + 1), First(parts, n + 1))
    <3> DEFINE a == First(parts, n)
               b == parts[n + 1]
    <3> HIDE DEF a, b
    <3>1. a \in Seq(Item) /\ b \in Seq(Item)
      BY <2>3, <2>5 DEF a, b
    <3>2. a \o b \in Seq(Item) /\ Begins(a, a \o b)
      BY <3>1, Joined, Zenon
    <3>3. Begins(a \o b, a \o b)
      BY <3>2, Joined, Zenon
    <3>4. QED
      BY <2>4, <3>2, <3>3, Zenon DEF a, b
  <2>7. ASSUME NEW k \in 0 .. n + 1
        PROVE  Begins(First(parts, k), First(parts, n + 1))
    <3>1. k = n + 1 \/ k \in 0 .. n
      OBVIOUS
    <3>2. QED
      BY <2>3, <2>6, <3>1, BeginsTransitive, Zenon
  <2>8. QED
    BY <2>6, <2>7
<1>8. m \in S
  BY <1>6, <1>7, Induction
<1>9. FlattenSeq(parts) = First(parts, m)
  <2>1. CASE m = 0
    <3>1. parts = <<>>
      BY <1>1, <2>1, EmptySeq
    <3>2. QED
      BY <1>1, <1>4, <2>1, <3>1 DEF FlattenSeq
  <2>2. CASE m # 0
    <3>1. Len(parts) # 0
      BY <1>1, <2>2
    <3>2. FlattenSeq(parts) = Flat(parts)[Len(parts)]
      BY <3>1, Zenon DEF FlattenSeq, Flat
    <3>3. QED
      BY <1>1, <2>2, <3>2 DEF First
  <2>3. QED
    BY <2>1, <2>2
<1>10. /\ First(parts, m) \in Seq(Item)
       /\ \A k \in 0 .. m : Begins(First(parts, k), First(parts, m))
  BY <1>8
<1>11. QED
  BY <1>1, <1>4, <1>5, <1>9, <1>10, Zenon DEF PutTogether

-----------------------------------------------------------------------------
(* The report in parts, and how far it has been printed                    *)

\* The parts of the report.
Parts(heading, label, strings) ==
  [i \in 1 .. Len(strings) |-> Entry(heading, label, i, strings[i])]

HeadOf(v) == Entry("Volume", "DevicePath", v, database.volumes[v].path)
FilesOf(v) == Parts("File", "Path", database.volumes[v].files)
VolumePart(v) ==
  HeadOf(v) \o Listing("File", "Path", database.volumes[v].files)

VolumeParts == [v \in 1 .. Len(database.volumes) |-> VolumePart(v)]
SourceParts == Parts("Source", "ExecutableFilename", database.sources)

FileEntry ==
  Entry("File", "Path", file_information, Volume.files[file_information])
SourceEntry ==
  Entry("Source", "ExecutableFilename", source_information,
        database.sources[source_information])

\* What has been printed when a volume, a file or a source is about to be.
AtVolume == First(VolumeParts, volume_index)
Inside(v, k) == (First(VolumeParts, v - 1) \o HeadOf(v)) \o First(FilesOf(v), k)
AtFile == Inside(volume_information, file_index)
AtSource == FlattenSeq(VolumeParts) \o First(SourceParts, source_index)

\* The beginning of the report that has been printed is told by where the tool
\* is, but in on_error.
VolumesPrinted ==
  /\ pc \in {"options", "initialize", "open", "print"} => printed = <<>>
  /\ pc = "volumes" => printed = AtVolume
  /\ pc \in {"device_path_size", "device_path"} =>
       printed = AtVolume \o <<<<"Volume", volume_information>>>>
  /\ pc = "device_path" => Volume.path
  /\ pc = "volume_values" => printed = AtVolume \o HeadOf(volume_information)

FilesPrinted ==
  /\ pc = "files" => file_index <= Len(Volume.files) /\ printed = AtFile
  /\ pc \in {"path_size", "path"} =>
       printed = AtFile \o <<<<"File", file_information>>>>
  /\ pc = "path" => Volume.files[file_information]
  /\ pc = "file_ends" => printed = AtFile \o FileEntry

SourcesPrinted ==
  /\ pc = "sources" => printed = AtSource
  /\ pc \in {"executable_filename_size", "executable_filename"} =>
       printed = AtSource \o <<<<"Source", source_information>>>>
  /\ pc = "executable_filename" => database.sources[source_information]
  /\ pc = "source_ends" => printed = AtSource \o SourceEntry

AllPrinted ==
  /\ pc \in {"close", "free"} => printed = Report
  /\ pc = "success" /\ fault = "none" => printed = Report

ReportInv ==
  /\ Begins(printed, Report)
  /\ VolumesPrinted /\ FilesPrinted /\ SourcesPrinted /\ AllPrinted

(* The heading of an entry, and its string behind it.                       *)
LEMMA EntryIs ==
  ASSUME NEW heading \in Headings, NEW label \in Headings, NEW i \in Nat,
         NEW exists
  PROVE  /\ <<<<heading, i>>>> \in Seq(Item) /\ <<<<label, i>>>> \in Seq(Item)
         /\ Entry(heading, label, i, exists) \in Seq(Item)
         /\ exists => Entry(heading, label, i, exists)
                        = <<<<heading, i>>>> \o <<<<label, i>>>>
         /\ ~exists => Entry(heading, label, i, exists) = <<<<heading, i>>>>
         /\ Begins(<<<<heading, i>>>>, Entry(heading, label, i, exists))
<1> DEFINE a == <<<<heading, i>>>>
           b == <<<<label, i>>>>
<1>1. a \in Seq(Item) /\ b \in Seq(Item)
  <2>1. <<heading, i>> \in Item /\ <<label, i>> \in Item
    BY DEF Item
  <2>2. QED
    BY <2>1
<1>2. Entry(heading, label, i, exists) = a \o (IF exists THEN b ELSE <<>>)
  BY DEF Entry
<1> HIDE DEF a, b
<1>3. a \o b \in Seq(Item) /\ a \o <<>> = a /\ Begins(a, a \o b) /\ Begins(a, a)
  BY <1>1, Joined, Zenon
<1>4. CASE exists
  <2>1. Entry(heading, label, i, exists) = a \o b
    BY <1>2, <1>4
  <2>2. QED
    BY <1>1, <1>3, <1>4, <2>1, Zenon DEF a, b
<1>5. CASE ~exists
  <2>1. Entry(heading, label, i, exists) = a
    BY <1>2, <1>3, <1>5
  <2>2. QED
    BY <1>1, <1>3, <1>5, <2>1, Zenon DEF a, b
<1>6. QED
  BY <1>4, <1>5

(* The entries of a list, one behind the other.                             *)
LEMMA PartsAre ==
  ASSUME NEW heading \in Headings, NEW label \in Headings,
         NEW strings \in Seq(BOOLEAN)
  PROVE  /\ PutTogether(Parts(heading, label, strings))
         /\ Len(Parts(heading, label, strings)) = Len(strings)
         /\ \A i \in 1 .. Len(strings) :
              Parts(heading, label, strings)[i]
                = Entry(heading, label, i, strings[i])
         /\ Listing(heading, label, strings)
              = FlattenSeq(Parts(heading, label, strings))
<1>1. PICK m \in Nat : m = Len(strings)
  OBVIOUS
<1>2. \A i \in 1 .. m : Entry(heading, label, i, strings[i]) \in Seq(Item)
  <2>1. \A i \in 1 .. m : i \in Nat
    OBVIOUS
  <2>2. QED
    BY <2>1, EntryIs, Zenon
<1> DEFINE p == Parts(heading, label, strings)
<1>3. p = [i \in 1 .. m |-> Entry(heading, label, i, strings[i])]
  BY <1>1 DEF Parts
<1> HIDE DEF p
<1>4. p \in [1 .. m -> Seq(Item)]
  BY <1>2, <1>3, Zenon
<1>5. p \in Seq(Seq(Item)) /\ Len(p) = m
  <2>1. \A W : \A f \in [1 .. m -> W] : f \in Seq(W) /\ Len(f) = m
    OBVIOUS
  <2>2. QED
    BY <1>4, <2>1, Zenon
<1>6. PutTogether(p)
  BY <1>5, PartsPutTogether
<1>7. \A i \in 1 .. m : p[i] = Entry(heading, label, i, strings[i])
  BY <1>3, Zenon
<1>8. Listing(heading, label, strings) = FlattenSeq(p)
  BY Zenon DEF Listing, Parts, p
<1>9. QED
  BY <1>1, <1>5, <1>6, <1>7, <1>8, Zenon DEF p

(* The headings, for the provers.                                           *)
LEMMA HeadingsAre ==
  {"Volume", "DevicePath", "File", "Path", "Source", "ExecutableFilename"}
    \subseteq Headings
  BY DEF Headings

(* The entries of a volume.                                                 *)
LEMMA VolumePartTyped ==
  ASSUME database \in Databases, NEW v \in 1 .. Len(database.volumes)
  PROVE  /\ database.volumes[v].files \in Seq(BOOLEAN)
         /\ v \in Nat
         /\ VolumePart(v) \in Seq(Item) /\ HeadOf(v) \in Seq(Item)
<1>1. /\ database.volumes \in Seq([path : BOOLEAN, files : Seq(BOOLEAN)])
      /\ Len(database.volumes) \in Nat
  BY DatabaseFacts
<1>2. \A W : \A s \in Seq(W) : \A i \in 1 .. Len(s) : s[i] \in W
  OBVIOUS
<1>3. database.volumes[v] \in [path : BOOLEAN, files : Seq(BOOLEAN)]
  BY <1>1, <1>2, Zenon
<1>4. database.volumes[v].files \in Seq(BOOLEAN)
  <2>1. \A W, X : \A r \in [path : W, files : X] : r.files \in X
    OBVIOUS
  <2>2. QED
    BY <1>3, <2>1, Zenon
<1>5. v \in Nat
  BY <1>1
<1>6. HeadOf(v) \in Seq(Item)
  BY <1>5, EntryIs, HeadingsAre, Zenon DEF HeadOf
<1>7. Listing("File", "Path", database.volumes[v].files) \in Seq(Item)
  <2>1. "File" \in Headings /\ "Path" \in Headings
    BY DEF Headings
  <2> DEFINE files == database.volumes[v].files
  <2>2. /\ PutTogether(Parts("File", "Path", files))
        /\ Listing("File", "Path", files)
             = FlattenSeq(Parts("File", "Path", files))
    BY <1>4, <2>1, PartsAre
  <2> HIDE DEF files
  <2>3. QED
    BY <2>2, Zenon DEF PutTogether, files
<1>8. QED
  BY <1>4, <1>5, <1>6, <1>7, Joined, Zenon DEF VolumePart

(* The parts of the report that the volumes make.                           *)
LEMMA VolumePartsAre ==
  ASSUME database \in Databases
  PROVE  /\ PutTogether(VolumeParts)
         /\ Len(VolumeParts) = Len(database.volumes)
         /\ \A v \in 1 .. Len(database.volumes) : VolumeParts[v] = VolumePart(v)
<1>1. PICK m \in Nat : m = Len(database.volumes)
  BY DatabaseFacts
<1>2. VolumeParts = [v \in 1 .. m |-> VolumePart(v)]
  BY <1>1 DEF VolumeParts
<1>3. \A v \in 1 .. m : VolumePart(v) \in Seq(Item)
  BY <1>1, VolumePartTyped
<1>4. VolumeParts \in [1 .. m -> Seq(Item)]
  BY <1>2, <1>3, Zenon
<1>5. VolumeParts \in Seq(Seq(Item)) /\ Len(VolumeParts) = m
  <2>1. \A W : \A f \in [1 .. m -> W] : f \in Seq(W) /\ Len(f) = m
    OBVIOUS
  <2>2. QED
    BY <1>4, <2>1, Zenon
<1>6. PutTogether(VolumeParts)
  BY <1>5, PartsPutTogether
<1>7. \A v \in 1 .. m : VolumeParts[v] = VolumePart(v)
  BY <1>2, Zenon
<1>8. QED
  BY <1>1, <1>5, <1>6, <1>7, Zenon

(* The parts of the report that the sources make.                           *)
LEMMA SourcePartsAre ==
  ASSUME database \in Databases
  PROVE  /\ PutTogether(SourceParts)
         /\ Len(SourceParts) = Len(database.sources)
         /\ \A i \in 1 .. Len(database.sources) :
              SourceParts[i] = Entry("Source", "ExecutableFilename", i,
                                     database.sources[i])
  BY DatabaseFacts, PartsAre, HeadingsAre, Zenon DEF SourceParts

(* The report is the volumes and then the sources.                          *)
LEMMA ReportIs ==
  ASSUME database \in Databases
  PROVE  /\ Report = FlattenSeq(VolumeParts) \o FlattenSeq(SourceParts)
         /\ Report \in Seq(Item)
         /\ Begins(FlattenSeq(VolumeParts), Report)
<1>1. Report = FlattenSeq(VolumeParts) \o FlattenSeq(SourceParts)
  BY Zenon DEF Report, VolumeParts, VolumePart, HeadOf, SourceParts, Listing, Parts
<1>2. /\ FlattenSeq(VolumeParts) \in Seq(Item)
      /\ FlattenSeq(SourceParts) \in Seq(Item)
  BY VolumePartsAre, SourcePartsAre, Zenon DEF PutTogether
<1>3. QED
  BY <1>1, <1>2, Joined, Zenon

-----------------------------------------------------------------------------
(* How the report begins                                                   *)

(* A part of the report begins with what comes before it, and its heading.  *)
LEMMA PartBegins ==
  ASSUME NEW parts, PutTogether(parts), NEW i \in 1 .. Len(parts), NEW head,
         Begins(head, parts[i])
  PROVE  /\ First(parts, i - 1) \in Seq(Item)
         /\ First(parts, i) = First(parts, i - 1) \o parts[i]
         /\ Begins(First(parts, i - 1) \o head, First(parts, i))
         /\ Begins(First(parts, i), FlattenSeq(parts))
         /\ Begins(First(parts, i - 1) \o head, FlattenSeq(parts))
<1>1. i - 1 \in 0 .. Len(parts) /\ i \in 0 .. Len(parts)
  OBVIOUS
<1>2. First(parts, i - 1) \in Seq(Item)
  BY <1>1, Zenon DEF PutTogether, Begins
<1>3. First(parts, i) = First(parts, i - 1) \o parts[i]
  BY Zenon DEF PutTogether
<1>4. Begins(First(parts, i), FlattenSeq(parts))
  BY <1>1, Zenon DEF PutTogether
<1>5. Begins(First(parts, i - 1) \o head, First(parts, i))
  BY <1>2, <1>3, BeginsBehind
<1>6. QED
  BY <1>2, <1>3, <1>4, <1>5, BeginsTransitive

(* How far the report goes when a volume is printed.                        *)
LEMMA VolumeBegins ==
  ASSUME database \in Databases, NEW v \in 1 .. Len(database.volumes)
  PROVE  /\ First(VolumeParts, v - 1) \in Seq(Item)
         /\ HeadOf(v) \in Seq(Item)
         /\ PutTogether(FilesOf(v))
         /\ Len(FilesOf(v)) = Len(database.volumes[v].files)
         /\ \A i \in 1 .. Len(FilesOf(v)) :
              FilesOf(v)[i] = Entry("File", "Path", i,
                                    database.volumes[v].files[i])
         /\ First(VolumeParts, v) = (First(VolumeParts, v - 1) \o HeadOf(v))
                                      \o FlattenSeq(FilesOf(v))
         /\ Begins(First(VolumeParts, v), Report)
         /\ Begins(First(VolumeParts, v - 1) \o HeadOf(v), Report)
<1>1. /\ PutTogether(VolumeParts) /\ v \in 1 .. Len(VolumeParts)
      /\ VolumeParts[v] = VolumePart(v)
  BY VolumePartsAre
<1>2. HeadOf(v) \in Seq(Item) /\ database.volumes[v].files \in Seq(BOOLEAN)
  BY VolumePartTyped
<1>3. "File" \in Headings /\ "Path" \in Headings
  BY DEF Headings
<1>4. /\ PutTogether(FilesOf(v))
      /\ Len(FilesOf(v)) = Len(database.volumes[v].files)
      /\ \A i \in 1 .. Len(database.volumes[v].files) :
           FilesOf(v)[i] = Entry("File", "Path", i,
                                 database.volumes[v].files[i])
      /\ Listing("File", "Path", database.volumes[v].files)
           = FlattenSeq(FilesOf(v))
  <2> DEFINE files == database.volumes[v].files
  <2> HIDE DEF files
  <2>1. files \in Seq(BOOLEAN)
    BY <1>2 DEF files
  <2>2. /\ PutTogether(Parts("File", "Path", files))
        /\ Len(Parts("File", "Path", files)) = Len(files)
        /\ \A i \in 1 .. Len(files) :
             Parts("File", "Path", files)[i] = Entry("File", "Path", i, files[i])
        /\ Listing("File", "Path", files)
             = FlattenSeq(Parts("File", "Path", files))
    BY <1>3, <2>1, PartsAre
  <2>3. QED
    BY <2>2, Zenon DEF FilesOf, files
<1>5. FlattenSeq(FilesOf(v)) \in Seq(Item)
  BY <1>4, Zenon DEF PutTogether
<1>6. VolumeParts[v] = HeadOf(v) \o FlattenSeq(FilesOf(v))
  BY <1>1, <1>4, Zenon DEF VolumePart
<1>7. Begins(HeadOf(v), VolumeParts[v])
  BY <1>2, <1>5, <1>6, Joined, Zenon
<1>8. /\ First(VolumeParts, v - 1) \in Seq(Item)
      /\ First(VolumeParts, v) = First(VolumeParts, v - 1) \o VolumeParts[v]
      /\ Begins(First(VolumeParts, v), FlattenSeq(VolumeParts))
      /\ Begins(First(VolumeParts, v - 1) \o HeadOf(v), FlattenSeq(VolumeParts))
  BY <1>1, <1>7, PartBegins
<1>9. First(VolumeParts, v) = (First(VolumeParts, v - 1) \o HeadOf(v))
                                \o FlattenSeq(FilesOf(v))
  <2> DEFINE a == First(VolumeParts, v - 1)
             b == HeadOf(v)
             c == FlattenSeq(FilesOf(v))
  <2> HIDE DEF a, b, c
  <2>1. a \in Seq(Item) /\ b \in Seq(Item) /\ c \in Seq(Item)
    BY <1>2, <1>5, <1>8 DEF a, b, c
  <2>2. (a \o b) \o c = a \o (b \o c)
    BY <2>1, JoinedInAnyOrder
  <2>3. First(VolumeParts, v) = a \o (b \o c)
    BY <1>6, <1>8, Zenon DEF a, b, c
  <2>4. QED
    BY <2>2, <2>3, Zenon DEF a, b, c
<1>10. /\ Begins(First(VolumeParts, v), Report)
       /\ Begins(First(VolumeParts, v - 1) \o HeadOf(v), Report)
  BY <1>8, ReportIs, BeginsTransitive, Zenon
<1>11. QED
  BY <1>2, <1>4, <1>8, <1>9, <1>10, Zenon

(* How far it goes when the name of a volume is.                            *)
LEMMA VolumeHeadBegins ==
  ASSUME database \in Databases, NEW v \in 1 .. Len(database.volumes)
  PROVE  Begins(First(VolumeParts, v - 1) \o <<<<"Volume", v>>>>, Report)
<1>1. v \in Nat
  BY VolumePartTyped
<1>2. "Volume" \in Headings /\ "DevicePath" \in Headings
  BY DEF Headings
<1>3. Begins(<<<<"Volume", v>>>>, HeadOf(v))
  BY <1>1, <1>2, EntryIs DEF HeadOf
<1>4. Begins(First(VolumeParts, v - 1) \o <<<<"Volume", v>>>>,
             First(VolumeParts, v - 1) \o HeadOf(v))
  BY <1>3, VolumeBegins, BeginsBehind
<1>5. QED
  BY <1>4, VolumeBegins, BeginsTransitive

(* How far it goes when a file of a volume is printed.                      *)
LEMMA FileBegins ==
  ASSUME database \in Databases, NEW v \in 1 .. Len(database.volumes),
         NEW i \in 1 .. Len(database.volumes[v].files)
  PROVE  LET entry == Entry("File", "Path", i, database.volumes[v].files[i])
         IN  /\ Inside(v, i - 1) \in Seq(Item)
             /\ Inside(v, i) = Inside(v, i - 1) \o entry
             /\ Begins(Inside(v, i - 1) \o <<<<"File", i>>>>, Report)
             /\ Begins(Inside(v, i - 1) \o entry, Report)
<1> DEFINE entry == Entry("File", "Path", i, database.volumes[v].files[i])
           parts == FilesOf(v)
           s == First(VolumeParts, v - 1) \o HeadOf(v)
<1>1. /\ PutTogether(parts) /\ i \in 1 .. Len(parts)
      /\ parts[i] = entry
  BY VolumeBegins
<1>2. /\ s \in Seq(Item)
      /\ First(VolumeParts, v) = s \o FlattenSeq(parts)
      /\ Begins(First(VolumeParts, v), Report)
  BY VolumeBegins, Joined, Zenon
<1>3. "File" \in Headings /\ "Path" \in Headings
  BY DEF Headings
<1>4. i \in Nat
  <2>1. Len(parts) \in Nat
    BY <1>1, VolumeBegins, VolumePartTyped
  <2>2. QED
    BY <1>1
<1>5. /\ Begins(<<<<"File", i>>>>, entry) /\ entry \in Seq(Item)
      /\ Begins(entry, entry)
  BY <1>3, <1>4, EntryIs, Joined
<1>6. Inside(v, i) = s \o First(parts, i) /\ Inside(v, i - 1) = s \o First(parts, i - 1)
  BY Zenon DEF Inside
<1> DEFINE h == <<<<"File", i>>>>
<1> HIDE DEF s, entry, parts, h
<1>7. /\ First(parts, i - 1) \in Seq(Item)
      /\ First(parts, i) = First(parts, i - 1) \o entry
      /\ Begins(First(parts, i - 1) \o h, FlattenSeq(parts))
      /\ Begins(First(parts, i - 1) \o entry, FlattenSeq(parts))
  <2>1. Begins(h, parts[i]) /\ Begins(entry, parts[i])
    BY <1>1, <1>5, Zenon DEF h
  <2>2. QED
    BY <1>1, <2>1, PartBegins
<1>8. s \o First(parts, i - 1) \in Seq(Item)
  BY <1>2, <1>7, Joined, Zenon
<1>9. s \o First(parts, i) = (s \o First(parts, i - 1)) \o entry
  <2>1. (s \o First(parts, i - 1)) \o entry = s \o (First(parts, i - 1) \o entry)
    BY <1>2, <1>5, <1>7, JoinedInAnyOrder, Zenon
  <2>2. QED
    BY <1>7, <2>1
<1>10. ASSUME NEW x \in Seq(Item),
              Begins(First(parts, i - 1) \o x, FlattenSeq(parts))
       PROVE  Begins((s \o First(parts, i - 1)) \o x, Report)
  <2>1. Begins(s \o (First(parts, i - 1) \o x), s \o FlattenSeq(parts))
    BY <1>2, <1>10, BeginsBehind, Zenon
  <2>2. s \o (First(parts, i - 1) \o x) = (s \o First(parts, i - 1)) \o x
    BY <1>2, <1>7, JoinedInAnyOrder, Zenon
  <2>3. QED
    BY <1>2, <2>1, <2>2, BeginsTransitive, Zenon
<1>11. h \in Seq(Item)
  BY <1>5, Zenon DEF Begins, h
<1>12. /\ Begins((s \o First(parts, i - 1)) \o h, Report)
       /\ Begins((s \o First(parts, i - 1)) \o entry, Report)
  BY <1>5, <1>7, <1>10, <1>11
<1>13. QED
  BY <1>6, <1>8, <1>9, <1>12, Zenon DEF entry, h

(* How far it goes when a source is printed.                                *)
LEMMA SourceBegins ==
  ASSUME database \in Databases, NEW i \in 1 .. Len(database.sources)
  PROVE  LET entry == Entry("Source", "ExecutableFilename", i,
                            database.sources[i])
             before == FlattenSeq(VolumeParts) \o First(SourceParts, i - 1)
         IN  /\ before \in Seq(Item)
             /\ FlattenSeq(VolumeParts) \o First(SourceParts, i)
                  = before \o entry
             /\ Begins(before \o <<<<"Source", i>>>>, Report)
             /\ Begins(before \o entry, Report)
<1> DEFINE entry == Entry("Source", "ExecutableFilename", i,
                          database.sources[i])
           parts == SourceParts
           s == FlattenSeq(VolumeParts)
           h == <<<<"Source", i>>>>
<1>1. /\ PutTogether(parts) /\ i \in 1 .. Len(parts)
      /\ parts[i] = entry
  BY SourcePartsAre
<1>2. s \in Seq(Item) /\ Report = s \o FlattenSeq(parts)
  BY VolumePartsAre, ReportIs, Zenon DEF PutTogether
<1>3. "Source" \in Headings /\ "ExecutableFilename" \in Headings
  BY DEF Headings
<1>4. i \in Nat
  BY DatabaseFacts
<1>5. /\ Begins(h, entry) /\ entry \in Seq(Item)
      /\ Begins(entry, entry) /\ h \in Seq(Item)
  BY <1>3, <1>4, EntryIs, Joined
<1> HIDE DEF s, entry, parts, h
<1>7. /\ First(parts, i - 1) \in Seq(Item)
      /\ First(parts, i) = First(parts, i - 1) \o entry
      /\ Begins(First(parts, i - 1) \o h, FlattenSeq(parts))
      /\ Begins(First(parts, i - 1) \o entry, FlattenSeq(parts))
  <2>1. Begins(h, parts[i]) /\ Begins(entry, parts[i])
    BY <1>1, <1>5, Zenon
  <2>2. QED
    BY <1>1, <2>1, PartBegins
<1>8. s \o First(parts, i - 1) \in Seq(Item)
  BY <1>2, <1>7, Joined, Zenon
<1>9. s \o First(parts, i) = (s \o First(parts, i - 1)) \o entry
  <2>1. (s \o First(parts, i - 1)) \o entry = s \o (First(parts, i - 1) \o entry)
    BY <1>2, <1>5, <1>7, JoinedInAnyOrder, Zenon
  <2>2. QED
    BY <1>7, <2>1
<1>10. ASSUME NEW x \in Seq(Item),
              Begins(First(parts, i - 1) \o x, FlattenSeq(parts))
       PROVE  Begins((s \o First(parts, i - 1)) \o x, Report)
  <2>1. Begins(s \o (First(parts, i - 1) \o x), s \o FlattenSeq(parts))
    BY <1>2, <1>10, BeginsBehind, Zenon
  <2>2. s \o (First(parts, i - 1) \o x) = (s \o First(parts, i - 1)) \o x
    BY <1>2, <1>7, JoinedInAnyOrder, Zenon
  <2>3. QED
    BY <1>2, <2>1, <2>2, Zenon
<1>12. /\ Begins((s \o First(parts, i - 1)) \o h, Report)
       /\ Begins((s \o First(parts, i - 1)) \o entry, Report)
  BY <1>5, <1>7, <1>10
<1>13. QED
  BY <1>8, <1>9, <1>12, Zenon DEF entry, h, s, parts

-----------------------------------------------------------------------------
(* Printing the report, step by step                                       *)

(* Printing one more line puts it behind what is printed.                   *)
LEMMA Appended ==
  ASSUME NEW s \in Seq(Item), NEW heading \in Headings, NEW i \in Nat
  PROVE  Append(s, <<heading, i>>) = s \o <<<<heading, i>>>>
<1>1. <<heading, i>> \in Item
  BY DEF Item
<1>2. QED
  BY <1>1

(* The report is one of the database.                                       *)
LEMMA SameReport ==
  ASSUME database' = database
  PROVE  /\ Report' = Report
         /\ VolumeParts' = VolumeParts /\ SourceParts' = SourceParts
         /\ \A v : HeadOf(v)' = HeadOf(v)
         /\ \A v, k : Inside(v, k)' = Inside(v, k)
<1>1. \A v : VolumePart(v)' = VolumePart(v)
  BY Zenon DEF VolumePart, HeadOf
<1>2. VolumeParts' = VolumeParts
  BY <1>1 DEF VolumeParts, VolumePart, HeadOf
<1>3. SourceParts' = SourceParts
  BY DEF SourceParts
<1>4. \A v : HeadOf(v)' = HeadOf(v) /\ FilesOf(v)' = FilesOf(v)
  BY DEF HeadOf, FilesOf
<1>5. Report' = Report
  BY DEF Report
<1>6. \A v, k : Inside(v, k)' = Inside(v, k)
  BY <1>2, <1>4 DEF Inside
<1>7. QED
  BY <1>2, <1>3, <1>4, <1>5, <1>6

(* In on_error what has been printed stays.                                 *)
LEMMA ErrorReport ==
  ASSUME database' = database, printed' = printed, ReportInv,
         pc' \in {"print_on_error", "main_on_error", "failure"}
  PROVE  ReportInv'
<1>1. Report' = Report
  BY SameReport
<1>2. Begins(printed, Report)'
  BY <1>1 DEF ReportInv
<1>3. QED
  BY <1>2 DEF ReportInv, VolumesPrinted, FilesPrinted, SourcesPrinted, AllPrinted

(* main, and the calls that fail, print nothing.                            *)
LEMMA MainReport ==
  ASSUME IndInv, ReportInv, Main \/ PrintFails \/ MainFails \/ CloseFails
  PROVE  ReportInv'
<1>1. database' = database /\ printed' = printed
  BY DEF Main, Options, InfoHandleInitialize, OpenInput, CloseInput,
         InfoHandleFree, MainOnError, PrintFails, MainFails, CloseFails, Goto
<1>2. Begins(printed, Report)' /\ Report' = Report
  BY <1>1, SameReport DEF ReportInv
<1>3. CASE pc' \in {"print_on_error", "main_on_error", "failure"}
  BY <1>1, <1>3, ErrorReport
<1>4. CASE Options
  BY <1>1, <1>2, <1>4
     DEF Options, Goto, ReportInv, VolumesPrinted, FilesPrinted,
         SourcesPrinted, AllPrinted
<1>5. CASE InfoHandleInitialize \/ OpenInput \/ CloseInput \/ InfoHandleFree
  BY <1>1, <1>2, <1>5
     DEF InfoHandleInitialize, OpenInput, CloseInput, InfoHandleFree, Goto,
         ReportInv, VolumesPrinted, FilesPrinted, SourcesPrinted, AllPrinted
<1>6. QED
  BY <1>3, <1>4, <1>5
     DEF Main, MainOnError, PrintFails, MainFails, CloseFails, Goto

(* The heading of a volume.                                                 *)
LEMMA VolumeReport ==
  ASSUME IndInv, ReportInv, GetVolumeInformation
  PROVE  ReportInv'
<1>1. /\ pc = "volumes" /\ pc' = "device_path_size"
      /\ volume_index < Len(database.volumes)
      /\ volume_information' = volume_index + 1
      /\ printed' = Append(printed, <<"Volume", volume_index + 1>>)
      /\ database' = database /\ volume_index' = volume_index
  BY NoneRefused DEF IndInv, GetVolumeInformation, Goto, indexes
<1>2. database \in Databases /\ volume_index \in 0 .. Len(database.volumes)
  BY DEF IndInv, PlaceTypes
<1>3. PICK v \in 1 .. Len(database.volumes) :
        v = volume_index + 1 /\ v - 1 = volume_index /\ v \in Nat
  <2>1. Len(database.volumes) \in Nat
    BY <1>2, DatabaseFacts
  <2>2. QED
    BY <1>1, <1>2, <2>1
<1>4. printed = First(VolumeParts, v - 1)
  BY <1>1, <1>3 DEF ReportInv, VolumesPrinted, AtVolume
<1>5. printed' = First(VolumeParts, v - 1) \o <<<<"Volume", v>>>>
  <2>1. First(VolumeParts, v - 1) \in Seq(Item)
    BY <1>2, VolumeBegins
  <2>2. "Volume" \in Headings
    BY DEF Headings
  <2>3. QED
    BY <1>1, <1>3, <1>4, <2>1, <2>2, Appended
<1>6. Begins(printed', Report)
  BY <1>2, <1>5, VolumeHeadBegins
<1>7. Begins(printed, Report)'
  BY <1>1, <1>6, SameReport
<1>8. printed' = (AtVolume \o <<<<"Volume", volume_information>>>>)'
  BY <1>1, <1>3, <1>5, SameReport DEF AtVolume
<1>9. QED
  BY <1>1, <1>7, <1>8
     DEF ReportInv, VolumesPrinted, FilesPrinted, SourcesPrinted, AllPrinted

(* The volume, the file and the source a reference is held to.              *)
LEMMA VolumeHeld ==
  ASSUME IndInv, pc \in VolumeLabels
  PROVE  /\ database \in Databases
         /\ volume_information \in 1 .. Len(database.volumes)
         /\ volume_information \in Nat
         /\ volume_information - 1 = volume_index
         /\ Volume = database.volumes[volume_information]
         /\ Len(Volume.files) \in Nat
         /\ Volume.path \in BOOLEAN
<1>1. database \in Databases /\ Len(database.volumes) \in Nat
  BY DatabaseFacts DEF IndInv, PlaceTypes
<1>2. /\ volume_information = volume_index + 1
      /\ volume_index < Len(database.volumes)
      /\ volume_index \in 0 .. Len(database.volumes)
  BY DEF IndInv, HoldsInv, PlaceTypes
<1>3. Len(Volume.files) \in Nat /\ Volume.path \in BOOLEAN
  BY CurrentEntry DEF IndInv
<1>4. QED
  BY <1>1, <1>2, <1>3 DEF Volume

LEMMA FileHeld ==
  ASSUME IndInv, pc \in FileLabels
  PROVE  /\ file_information \in 1 .. Len(Volume.files)
         /\ file_information \in Nat
         /\ file_information - 1 = file_index
         /\ Volume.files[file_information] \in BOOLEAN
<1>1. pc \in VolumeLabels
  BY DEF VolumeLabels
<1>2. Len(Volume.files) \in Nat
  BY <1>1, VolumeHeld
<1>3. Volume.files[file_information] \in BOOLEAN
  BY CurrentEntry DEF IndInv
<1>4. /\ file_information = file_index + 1 /\ file_index < Len(Volume.files)
      /\ file_index \in Nat
  BY DEF IndInv, HoldsInv, PlaceTypes
<1>5. QED
  BY <1>2, <1>3, <1>4

LEMMA SourceHeld ==
  ASSUME IndInv, pc \in SourceLabels
  PROVE  /\ database \in Databases
         /\ source_information \in 1 .. Len(database.sources)
         /\ source_information \in Nat
         /\ source_information - 1 = source_index
         /\ database.sources[source_information] \in BOOLEAN
<1>1. database \in Databases /\ Len(database.sources) \in Nat
  BY DatabaseFacts DEF IndInv, PlaceTypes
<1>2. /\ source_information = source_index + 1
      /\ source_index < Len(database.sources)
      /\ source_index \in 0 .. Len(database.sources)
  BY DEF IndInv, HoldsInv, PlaceTypes
<1>3. database.sources[source_information] \in BOOLEAN
  BY CurrentEntry DEF IndInv
<1>4. QED
  BY <1>1, <1>2, <1>3

(* The device path of a volume, when it has one.                            *)
LEMMA DevicePathReport ==
  ASSUME IndInv, ReportInv, GetDevicePathSize \/ GetDevicePath
  PROVE  ReportInv'
<1> DEFINE before == First(VolumeParts, volume_information - 1)
           h == <<<<"Volume", volume_information>>>>
           l == <<<<"DevicePath", volume_information>>>>
<1>1. /\ pc \in {"device_path_size", "device_path"} /\ pc \in VolumeLabels
      /\ database' = database /\ volume_index' = volume_index
      /\ volume_information' = volume_information
  BY DEF GetDevicePathSize, GetDevicePath, AllocateString, PrintString, Goto,
         references, indexes, VolumeLabels
<1>2. /\ database \in Databases
      /\ volume_information \in 1 .. Len(database.volumes)
      /\ volume_information \in Nat
      /\ volume_information - 1 = volume_index
      /\ Volume = database.volumes[volume_information]
      /\ Volume.path \in BOOLEAN
  BY <1>1, VolumeHeld
<1>3. before \in Seq(Item)
      /\ Begins(before \o HeadOf(volume_information), Report)
  BY <1>2, VolumeBegins
<1>4. printed = before \o h
  BY <1>1, <1>2 DEF ReportInv, VolumesPrinted, AtVolume
<1>5. /\ h \in Seq(Item) /\ l \in Seq(Item)
      /\ Volume.path => HeadOf(volume_information) = h \o l
      /\ ~Volume.path => HeadOf(volume_information) = h
  <2>1. "Volume" \in Headings /\ "DevicePath" \in Headings
    BY DEF Headings
  <2>2. HeadOf(volume_information)
          = Entry("Volume", "DevicePath", volume_information, Volume.path)
    BY <1>2, Zenon DEF HeadOf
  <2>3. QED
    BY <1>2, <2>1, <2>2, EntryIs
<1>6. /\ Report' = Report /\ AtVolume' = before
      /\ HeadOf(volume_information)' = HeadOf(volume_information)
      /\ Volume' = Volume
  BY <1>1, <1>2, SameReport DEF AtVolume, HeadOf, Volume
<1>7. CASE GetDevicePathSize
  <2>1. /\ pc' = IF Volume.path THEN "device_path" ELSE "volume_values"
        /\ printed' = printed
    BY <1>7 DEF GetDevicePathSize, AllocateString, Goto
  <2>2. Begins(printed, Report)'
    BY <1>6, <2>1 DEF ReportInv
  <2>3. CASE Volume.path
    BY <1>1, <1>4, <1>6, <2>1, <2>2, <2>3
       DEF ReportInv, VolumesPrinted, FilesPrinted, SourcesPrinted, AllPrinted
  <2>4. CASE ~Volume.path
    <3>1. printed' = before \o HeadOf(volume_information)
      BY <1>4, <1>5, <2>1, <2>4
    <3>2. QED
      BY <1>1, <1>6, <2>1, <2>2, <2>4, <3>1
         DEF ReportInv, VolumesPrinted, FilesPrinted, SourcesPrinted, AllPrinted
  <2>5. QED
    BY <2>3, <2>4
<1>8. CASE GetDevicePath
  <2>1. /\ pc = "device_path" /\ pc' = "volume_values"
        /\ printed' = Append(printed, <<"DevicePath", volume_information>>)
    BY <1>8 DEF GetDevicePath, PrintString, Goto
  <2>2. Volume.path
    BY <2>1 DEF ReportInv, VolumesPrinted
  <2>3. printed' = (before \o h) \o l
    <3>1. before \o h \in Seq(Item)
      BY <1>3, <1>5, Joined, Zenon
    <3>2. "DevicePath" \in Headings
      BY DEF Headings
    <3>3. QED
      BY <1>2, <1>4, <2>1, <3>1, <3>2, Appended
  <2>4. printed' = before \o HeadOf(volume_information)
    <3>1. (before \o h) \o l = before \o (h \o l)
      BY <1>3, <1>5, JoinedInAnyOrder, Zenon
    <3>2. QED
      BY <1>5, <2>2, <2>3, <3>1, Zenon
  <2>5. Begins(printed, Report)'
    BY <1>3, <1>6, <2>4
  <2>6. QED
    BY <1>1, <1>6, <2>1, <2>4, <2>5
       DEF ReportInv, VolumesPrinted, FilesPrinted, SourcesPrinted, AllPrinted
<1>9. QED
  BY <1>7, <1>8

(* Where the loops over the volumes and the files begin.                    *)
LEMMA LoopsReport ==
  ASSUME IndInv, ReportInv, PrintBegins \/ GetVolumeValues
  PROVE  ReportInv'
<1>1. database' = database /\ printed' = printed
  BY DEF PrintBegins, GetVolumeValues, Goto
<1>2. Begins(printed, Report)' /\ Report' = Report
  BY <1>1, SameReport DEF ReportInv
<1>3. CASE PrintBegins
  <2>1. /\ pc = "print" /\ pc' = "volumes" /\ volume_index' = 0
    BY <1>3 DEF PrintBegins, Goto
  <2>2. printed = <<>>
    BY <2>1 DEF ReportInv, VolumesPrinted
  <2>3. AtVolume' = <<>>
    BY <2>1 DEF AtVolume, First
  <2>4. QED
    BY <1>1, <1>2, <2>1, <2>2, <2>3
       DEF ReportInv, VolumesPrinted, FilesPrinted, SourcesPrinted, AllPrinted
<1>4. CASE GetVolumeValues
  <2>1. /\ pc = "volume_values" /\ pc' = "files" /\ file_index' = 0
        /\ volume_information' = volume_information
        /\ pc \in VolumeLabels
    BY <1>4 DEF GetVolumeValues, Goto, references, VolumeLabels
  <2> DEFINE v == volume_information
             s == First(VolumeParts, v - 1) \o HeadOf(v)
  <2>2. /\ database \in Databases /\ v \in 1 .. Len(database.volumes)
        /\ v - 1 = volume_index /\ Len(Volume.files) \in Nat
    BY <2>1, VolumeHeld
  <2>3. printed = s
    BY <2>1, <2>2 DEF ReportInv, VolumesPrinted, AtVolume
  <2>4. s \in Seq(Item)
    BY <2>2, VolumeBegins, Joined, Zenon
  <2>5. AtFile' = Inside(v, 0)
    BY <1>1, <2>1, SameReport DEF AtFile
  <2>6. Inside(v, 0) = s
    <3>1. Inside(v, 0) = s \o <<>>
      BY DEF Inside, First
    <3>2. QED
      BY <2>4, <3>1, Joined, Zenon
  <2>7. Len(Volume.files)' = Len(Volume.files)
    BY <1>1, <2>1 DEF Volume
  <2>8. (file_index <= Len(Volume.files) /\ printed = AtFile)'
    BY <1>1, <2>1, <2>2, <2>3, <2>5, <2>6, <2>7
  <2>9. QED
    BY <1>2, <2>1, <2>8
       DEF ReportInv, VolumesPrinted, FilesPrinted, SourcesPrinted, AllPrinted
<1>5. QED
  BY <1>3, <1>4

(* The heading of a file.                                                   *)
LEMMA FileReport ==
  ASSUME IndInv, ReportInv, GetFileInformation
  PROVE  ReportInv'
<1> DEFINE v == volume_information
<1>1. /\ pc = "files" /\ pc' = "path_size" /\ pc \in VolumeLabels
      /\ file_index < Len(Volume.files)
      /\ file_information' = file_index + 1
      /\ printed' = Append(printed, <<"File", file_index + 1>>)
      /\ database' = database /\ file_index' = file_index
      /\ volume_information' = v
  BY NoneRefused DEF IndInv, GetFileInformation, Goto, indexes, VolumeLabels
<1>2. /\ database \in Databases /\ v \in 1 .. Len(database.volumes)
      /\ Volume = database.volumes[v] /\ Len(Volume.files) \in Nat
  BY <1>1, VolumeHeld
<1>3. PICK i \in 1 .. Len(database.volumes[v].files) :
        i = file_index + 1 /\ i - 1 = file_index /\ i \in Nat
  <2>1. file_index \in Nat
    BY DEF IndInv, PlaceTypes
  <2>2. QED
    BY <1>1, <1>2, <2>1
<1>4. printed = Inside(v, i - 1)
  BY <1>1, <1>3 DEF ReportInv, FilesPrinted, AtFile
<1>5. /\ Inside(v, i - 1) \in Seq(Item)
      /\ Begins(Inside(v, i - 1) \o <<<<"File", i>>>>, Report)
  BY <1>2, FileBegins
<1>6. printed' = Inside(v, i - 1) \o <<<<"File", i>>>>
  <2>1. "File" \in Headings
    BY DEF Headings
  <2>2. QED
    BY <1>1, <1>3, <1>4, <1>5, <2>1, Appended
<1>7. Begins(printed, Report)'
  BY <1>1, <1>5, <1>6, SameReport
<1>8. printed' = (AtFile \o <<<<"File", file_information>>>>)'
  <2>1. AtFile' = Inside(v, file_index)
    BY <1>1, SameReport DEF AtFile
  <2>2. QED
    BY <1>1, <1>3, <1>6, <2>1
<1>9. QED
  BY <1>1, <1>7, <1>8
     DEF ReportInv, VolumesPrinted, FilesPrinted, SourcesPrinted, AllPrinted

(* The path of a file, when it has one.                                     *)
LEMMA PathReport ==
  ASSUME IndInv, ReportInv, GetPathSize \/ GetPath
  PROVE  ReportInv'
<1> DEFINE v == volume_information
           i == file_information
           before == Inside(v, i - 1)
           h == <<<<"File", i>>>>
           l == <<<<"Path", i>>>>
<1>1. /\ pc \in {"path_size", "path"}
      /\ pc \in FileLabels /\ pc \in VolumeLabels
      /\ database' = database /\ file_index' = file_index
      /\ volume_information' = v /\ file_information' = i
  BY DEF GetPathSize, GetPath, AllocateString, PrintString, Goto,
         references, indexes, VolumeLabels, FileLabels
<1>2. /\ database \in Databases /\ v \in 1 .. Len(database.volumes)
      /\ Volume = database.volumes[v]
  BY <1>1, VolumeHeld
<1>3. /\ i \in 1 .. Len(database.volumes[v].files) /\ i \in Nat
      /\ i - 1 = file_index /\ Volume.files[i] \in BOOLEAN
  BY <1>1, <1>2, FileHeld
<1>4. FileEntry = Entry("File", "Path", i, database.volumes[v].files[i])
  BY <1>2, Zenon DEF FileEntry
<1>5. before \in Seq(Item) /\ Begins(before \o FileEntry, Report)
  BY <1>2, <1>3, <1>4, FileBegins
<1>6. printed = before \o h
  BY <1>1, <1>3 DEF ReportInv, FilesPrinted, AtFile
<1>7. /\ h \in Seq(Item) /\ l \in Seq(Item)
      /\ Volume.files[i] => FileEntry = h \o l
      /\ ~Volume.files[i] => FileEntry = h
  <2>1. "File" \in Headings /\ "Path" \in Headings
    BY DEF Headings
  <2>2. FileEntry = Entry("File", "Path", i, Volume.files[i])
    BY DEF FileEntry
  <2>3. QED
    BY <1>3, <2>1, <2>2, EntryIs
<1>8. /\ Report' = Report /\ AtFile' = before
      /\ FileEntry' = FileEntry
      /\ Volume' = Volume
  <2>1. AtFile' = Inside(v, file_index)
    BY <1>1, SameReport DEF AtFile
  <2>2. QED
    BY <1>1, <1>3, <2>1, SameReport DEF FileEntry, Volume
<1>9. CASE GetPathSize
  <2>1. /\ pc' = IF Volume.files[i] THEN "path" ELSE "file_ends"
        /\ printed' = printed
    BY <1>9 DEF GetPathSize, AllocateString, Goto
  <2>2. Begins(printed, Report)'
    BY <1>8, <2>1 DEF ReportInv
  <2>3. CASE Volume.files[i]
    BY <1>1, <1>6, <1>8, <2>1, <2>2, <2>3
       DEF ReportInv, VolumesPrinted, FilesPrinted, SourcesPrinted, AllPrinted
  <2>4. CASE ~Volume.files[i]
    <3>1. printed' = before \o FileEntry
      BY <1>6, <1>7, <2>1, <2>4
    <3>2. QED
      BY <1>8, <2>1, <2>2, <2>4, <3>1
         DEF ReportInv, VolumesPrinted, FilesPrinted, SourcesPrinted, AllPrinted
  <2>5. QED
    BY <2>3, <2>4
<1>10. CASE GetPath
  <2>1. /\ pc = "path" /\ pc' = "file_ends"
        /\ printed' = Append(printed, <<"Path", i>>)
    BY <1>10 DEF GetPath, PrintString, Goto
  <2>2. Volume.files[i]
    BY <2>1 DEF ReportInv, FilesPrinted
  <2>3. printed' = (before \o h) \o l
    <3>1. before \o h \in Seq(Item)
      BY <1>5, <1>7, Joined, Zenon
    <3>2. "Path" \in Headings
      BY DEF Headings
    <3>3. QED
      BY <1>3, <1>6, <2>1, <3>1, <3>2, Appended
  <2>4. printed' = before \o FileEntry
    <3>1. (before \o h) \o l = before \o (h \o l)
      BY <1>5, <1>7, JoinedInAnyOrder, Zenon
    <3>2. QED
      BY <1>7, <2>2, <2>3, <3>1, Zenon
  <2>5. Begins(printed, Report)'
    BY <1>5, <1>8, <2>4
  <2>6. QED
    BY <1>8, <2>1, <2>4, <2>5
       DEF ReportInv, VolumesPrinted, FilesPrinted, SourcesPrinted, AllPrinted
<1>11. QED
  BY <1>9, <1>10

(* The loop goes on to the next file.                                       *)
LEMMA FileEndReport ==
  ASSUME IndInv, ReportInv, FileEnds
  PROVE  ReportInv'
<1> DEFINE v == volume_information
           i == file_information
<1>1. /\ pc = "file_ends" /\ pc' = "files"
      /\ pc \in FileLabels /\ pc \in VolumeLabels
      /\ file_index' = file_index + 1 /\ volume_information' = v
      /\ database' = database /\ printed' = printed
  BY DEF FileEnds, Goto, VolumeLabels, FileLabels
<1>2. /\ database \in Databases /\ v \in 1 .. Len(database.volumes)
      /\ Volume = database.volumes[v]
      /\ Len(Volume.files) \in Nat
  BY <1>1, VolumeHeld
<1>3. /\ i \in 1 .. Len(database.volumes[v].files) /\ i \in Nat
      /\ i - 1 = file_index
  BY <1>1, <1>2, FileHeld
<1>4. file_index \in Nat
  BY DEF IndInv, PlaceTypes
<1>5. file_index' = i /\ i <= Len(Volume.files)
  BY <1>1, <1>2, <1>3, <1>4
<1>6. printed = Inside(v, i - 1) \o FileEntry
  BY <1>1, <1>3 DEF ReportInv, FilesPrinted, AtFile
<1>7. printed = Inside(v, i)
  <2>1. FileEntry = Entry("File", "Path", i, database.volumes[v].files[i])
    BY <1>2, Zenon DEF FileEntry
  <2>2. QED
    BY <1>2, <1>3, <1>6, <2>1, FileBegins
<1>8. AtFile' = Inside(v, i) /\ Len(Volume.files)' = Len(Volume.files)
  BY <1>1, <1>5, SameReport DEF AtFile, Volume
<1>9. (file_index <= Len(Volume.files) /\ printed = AtFile)'
  BY <1>1, <1>5, <1>7, <1>8
<1>10. Begins(printed, Report)'
  BY <1>1, SameReport DEF ReportInv
<1>11. QED
  BY <1>1, <1>9, <1>10
     DEF ReportInv, VolumesPrinted, FilesPrinted, SourcesPrinted, AllPrinted

(* After the last file all of the volume has been printed.                  *)
LEMMA VolumeEndReport ==
  ASSUME IndInv, ReportInv, VolumeEnds
  PROVE  ReportInv'
<1> DEFINE v == volume_information
<1>1. /\ pc = "files" /\ pc' = "volumes" /\ pc \in VolumeLabels
      /\ file_index = Len(Volume.files)
      /\ volume_index' = volume_index + 1
      /\ database' = database /\ printed' = printed
  BY DEF VolumeEnds, Goto, VolumeLabels
<1>2. /\ database \in Databases /\ v \in 1 .. Len(database.volumes)
      /\ Volume = database.volumes[v] /\ v \in Nat
      /\ v - 1 = volume_index
  BY <1>1, VolumeHeld
<1>3. volume_index' = v
  <2>1. volume_index \in 0 .. Len(database.volumes) /\ Len(database.volumes) \in Nat
    BY DatabaseFacts DEF IndInv, PlaceTypes
  <2>2. QED
    BY <1>1, <1>2, <2>1
<1>4. printed = Inside(v, file_index)
  BY <1>1 DEF ReportInv, FilesPrinted, AtFile
<1>5. printed = First(VolumeParts, v)
  <2>1. /\ PutTogether(FilesOf(v))
        /\ Len(FilesOf(v)) = Len(database.volumes[v].files)
        /\ First(VolumeParts, v) = (First(VolumeParts, v - 1) \o HeadOf(v))
                                     \o FlattenSeq(FilesOf(v))
    BY <1>2, VolumeBegins
  <2>2. FlattenSeq(FilesOf(v)) = First(FilesOf(v), file_index)
    BY <1>1, <1>2, <2>1, Zenon DEF PutTogether
  <2>3. QED
    BY <1>4, <2>1, <2>2, Zenon DEF Inside
<1>6. AtVolume' = First(VolumeParts, v)
  BY <1>1, <1>3, SameReport DEF AtVolume
<1>7. Begins(printed, Report)'
  BY <1>1, SameReport DEF ReportInv
<1>8. QED
  BY <1>1, <1>5, <1>6, <1>7
     DEF ReportInv, VolumesPrinted, FilesPrinted, SourcesPrinted, AllPrinted

(* After the last volume come the sources.                                  *)
LEMMA VolumesEndReport ==
  ASSUME IndInv, ReportInv, VolumesEnd
  PROVE  ReportInv'
<1>1. /\ pc = "volumes" /\ pc' = "sources"
      /\ volume_index = Len(database.volumes)
      /\ source_index' = 0
      /\ database' = database /\ printed' = printed
  BY DEF VolumesEnd, Goto
<1>2. database \in Databases
  BY DEF IndInv, PlaceTypes
<1>3. /\ FlattenSeq(VolumeParts) = First(VolumeParts, volume_index)
      /\ FlattenSeq(VolumeParts) \in Seq(Item)
  BY <1>1, <1>2, VolumePartsAre, Zenon DEF PutTogether
<1>4. printed = FlattenSeq(VolumeParts)
  BY <1>1, <1>3 DEF ReportInv, VolumesPrinted, AtVolume
<1>5. First(SourceParts, 0) = <<>>
  BY DEF First
<1>6. AtSource' = FlattenSeq(VolumeParts) \o First(SourceParts, 0)
  BY <1>1, SameReport DEF AtSource
<1>7. printed' = AtSource'
  BY <1>1, <1>3, <1>4, <1>5, <1>6, Joined, Zenon
<1>8. Begins(printed, Report)'
  BY <1>1, SameReport DEF ReportInv
<1>9. QED
  BY <1>1, <1>7, <1>8
     DEF ReportInv, VolumesPrinted, FilesPrinted, SourcesPrinted, AllPrinted

(* The heading of a source.                                                 *)
LEMMA SourceReport ==
  ASSUME IndInv, ReportInv, GetSourceInformation
  PROVE  ReportInv'
<1>1. /\ pc = "sources" /\ pc' = "executable_filename_size"
      /\ source_index < Len(database.sources)
      /\ source_information' = source_index + 1
      /\ printed' = Append(printed, <<"Source", source_index + 1>>)
      /\ database' = database /\ source_index' = source_index
  BY NoneRefused DEF IndInv, GetSourceInformation, Goto, indexes
<1>2. database \in Databases /\ source_index \in 0 .. Len(database.sources)
  BY DEF IndInv, PlaceTypes
<1>3. PICK i \in 1 .. Len(database.sources) :
        i = source_index + 1 /\ i - 1 = source_index /\ i \in Nat
  <2>1. Len(database.sources) \in Nat
    BY <1>2, DatabaseFacts
  <2>2. QED
    BY <1>1, <1>2, <2>1
<1> DEFINE before == FlattenSeq(VolumeParts) \o First(SourceParts, i - 1)
<1>4. printed = before
  BY <1>1, <1>3 DEF ReportInv, SourcesPrinted, AtSource
<1>5. before \in Seq(Item) /\ Begins(before \o <<<<"Source", i>>>>, Report)
  BY <1>2, SourceBegins
<1>6. printed' = before \o <<<<"Source", i>>>>
  <2>1. "Source" \in Headings
    BY DEF Headings
  <2>2. QED
    BY <1>1, <1>3, <1>4, <1>5, <2>1, Appended
<1>7. Begins(printed, Report)'
  BY <1>1, <1>5, <1>6, SameReport
<1>8. printed' = (AtSource \o <<<<"Source", source_information>>>>)'
  <2>1. AtSource' = before
    BY <1>1, <1>3, SameReport DEF AtSource
  <2>2. QED
    BY <1>1, <1>3, <1>6, <2>1
<1>9. QED
  BY <1>1, <1>7, <1>8
     DEF ReportInv, VolumesPrinted, FilesPrinted, SourcesPrinted, AllPrinted

(* The executable filename of a source, when it has one.                    *)
LEMMA ExecutableReport ==
  ASSUME IndInv, ReportInv, GetExecutableFilenameSize \/ GetExecutableFilename
  PROVE  ReportInv'
<1> DEFINE i == source_information
           before == FlattenSeq(VolumeParts) \o First(SourceParts, i - 1)
           h == <<<<"Source", i>>>>
           l == <<<<"ExecutableFilename", i>>>>
<1>1. /\ pc \in {"executable_filename_size", "executable_filename"}
      /\ pc \in SourceLabels
      /\ database' = database /\ source_index' = source_index
      /\ source_information' = i
  BY DEF GetExecutableFilenameSize, GetExecutableFilename, AllocateString,
         PrintString, Goto, references, indexes, SourceLabels
<1>2. /\ database \in Databases /\ i \in 1 .. Len(database.sources)
      /\ i \in Nat /\ i - 1 = source_index
      /\ database.sources[i] \in BOOLEAN
  BY <1>1, SourceHeld
<1>3. SourceEntry = Entry("Source", "ExecutableFilename", i, database.sources[i])
  BY Zenon DEF SourceEntry
<1>4. before \in Seq(Item) /\ Begins(before \o SourceEntry, Report)
  BY <1>2, <1>3, SourceBegins
<1>5. printed = before \o h
  BY <1>1, <1>2 DEF ReportInv, SourcesPrinted, AtSource
<1>6. /\ h \in Seq(Item) /\ l \in Seq(Item)
      /\ database.sources[i] => SourceEntry = h \o l
      /\ ~database.sources[i] => SourceEntry = h
  <2>1. "Source" \in Headings /\ "ExecutableFilename" \in Headings
    BY DEF Headings
  <2>2. QED
    BY <1>2, <1>3, <2>1, EntryIs
<1>7. Report' = Report /\ AtSource' = before /\ SourceEntry' = SourceEntry
  BY <1>1, <1>2, SameReport DEF AtSource, SourceEntry
<1>8. CASE GetExecutableFilenameSize
  <2>1. /\ pc' = IF database.sources[i] THEN "executable_filename"
                 ELSE "source_ends"
        /\ printed' = printed
    BY <1>8 DEF GetExecutableFilenameSize, AllocateString, Goto
  <2>2. Begins(printed, Report)'
    BY <1>7, <2>1 DEF ReportInv
  <2>3. CASE database.sources[i]
    BY <1>1, <1>5, <1>7, <2>1, <2>2, <2>3
       DEF ReportInv, VolumesPrinted, FilesPrinted, SourcesPrinted, AllPrinted
  <2>4. CASE ~database.sources[i]
    <3>1. printed' = before \o SourceEntry
      BY <1>5, <1>6, <2>1, <2>4
    <3>2. QED
      BY <1>7, <2>1, <2>2, <2>4, <3>1
         DEF ReportInv, VolumesPrinted, FilesPrinted, SourcesPrinted, AllPrinted
  <2>5. QED
    BY <2>3, <2>4
<1>9. CASE GetExecutableFilename
  <2>1. /\ pc = "executable_filename" /\ pc' = "source_ends"
        /\ printed' = Append(printed, <<"ExecutableFilename", i>>)
    BY <1>9 DEF GetExecutableFilename, PrintString, Goto
  <2>2. database.sources[i]
    BY <2>1 DEF ReportInv, SourcesPrinted
  <2>3. printed' = (before \o h) \o l
    <3>1. before \o h \in Seq(Item)
      BY <1>4, <1>6, Joined, Zenon
    <3>2. "ExecutableFilename" \in Headings
      BY DEF Headings
    <3>3. QED
      BY <1>2, <1>5, <2>1, <3>1, <3>2, Appended
  <2>4. printed' = before \o SourceEntry
    <3>1. (before \o h) \o l = before \o (h \o l)
      BY <1>4, <1>6, JoinedInAnyOrder, Zenon
    <3>2. QED
      BY <1>6, <2>2, <2>3, <3>1, Zenon
  <2>5. Begins(printed, Report)'
    BY <1>4, <1>7, <2>4
  <2>6. QED
    BY <1>7, <2>1, <2>4, <2>5
       DEF ReportInv, VolumesPrinted, FilesPrinted, SourcesPrinted, AllPrinted
<1>10. QED
  BY <1>8, <1>9

(* The loop goes on to the next source.                                     *)
LEMMA SourceEndReport ==
  ASSUME IndInv, ReportInv, SourceEnds
  PROVE  ReportInv'
<1> DEFINE i == source_information
<1>1. /\ pc = "source_ends" /\ pc' = "sources" /\ pc \in SourceLabels
      /\ source_index' = source_index + 1
      /\ database' = database /\ printed' = printed
  BY DEF SourceEnds, Goto, SourceLabels
<1>2. /\ database \in Databases /\ i \in 1 .. Len(database.sources)
      /\ i \in Nat /\ i - 1 = source_index
  BY <1>1, SourceHeld
<1>3. source_index' = i
  <2>1. source_index \in 0 .. Len(database.sources) /\ Len(database.sources) \in Nat
    BY DatabaseFacts DEF IndInv, PlaceTypes
  <2>2. QED
    BY <1>1, <1>2, <2>1
<1>4. printed = (FlattenSeq(VolumeParts) \o First(SourceParts, i - 1))
                  \o SourceEntry
  BY <1>1, <1>2 DEF ReportInv, SourcesPrinted, AtSource
<1>5. printed = FlattenSeq(VolumeParts) \o First(SourceParts, i)
  BY <1>2, <1>4, SourceBegins DEF SourceEntry
<1>6. AtSource' = FlattenSeq(VolumeParts) \o First(SourceParts, i)
  BY <1>1, <1>3, SameReport DEF AtSource
<1>7. Begins(printed, Report)'
  BY <1>1, SameReport DEF ReportInv
<1>8. QED
  BY <1>1, <1>5, <1>6, <1>7
     DEF ReportInv, VolumesPrinted, FilesPrinted, SourcesPrinted, AllPrinted

(* After the last source all of the report has been printed.                *)
LEMMA PrintEndReport ==
  ASSUME IndInv, ReportInv, PrintEnds
  PROVE  ReportInv'
<1>1. /\ pc = "sources" /\ pc' = "close"
      /\ source_index = Len(database.sources)
      /\ database' = database /\ printed' = printed
  BY DEF PrintEnds, Goto
<1>2. database \in Databases
  BY DEF IndInv, PlaceTypes
<1>3. FlattenSeq(SourceParts) = First(SourceParts, source_index)
  BY <1>1, <1>2, SourcePartsAre, Zenon DEF PutTogether
<1>4. printed = Report
  <2>1. printed = AtSource
    BY <1>1 DEF ReportInv, SourcesPrinted
  <2>2. Report = FlattenSeq(VolumeParts) \o FlattenSeq(SourceParts)
    BY <1>2, ReportIs
  <2>3. QED
    BY <1>3, <2>1, <2>2, Zenon DEF AtSource
<1>5. Begins(printed, Report)' /\ printed' = Report'
  BY <1>1, <1>4, SameReport DEF ReportInv
<1>6. QED
  BY <1>1, <1>5
     DEF ReportInv, VolumesPrinted, FilesPrinted, SourcesPrinted, AllPrinted

(* Nothing has been printed at first.                                       *)
LEMMA InitReport == Init => ReportInv
<1> SUFFICES ASSUME Init PROVE ReportInv
  OBVIOUS
<1>1. pc = "options" /\ printed = <<>> /\ database \in Databases
  BY DEF Init
<1>2. Report \in Seq(Item)
  BY <1>1, ReportIs
<1>3. Begins(<<>>, Report)
  <2>1. <<>> \in Seq(Item)
    OBVIOUS
  <2>2. <<>> \o Report = Report
    BY <1>2, Joined, Zenon
  <2>3. QED
    BY <1>2, <2>1, <2>2, Zenon DEF Begins
<1>4. QED
  BY <1>1, <1>3
     DEF ReportInv, VolumesPrinted, FilesPrinted, SourcesPrinted, AllPrinted

(* Every step goes on with the report, or leaves it where it is.            *)
LEMMA StepReport == IndInv /\ ReportInv /\ [Next]_vars => ReportInv'
<1> SUFFICES ASSUME IndInv, ReportInv, [Next]_vars PROVE ReportInv'
  OBVIOUS
<1>1. CASE Main \/ PrintFails \/ MainFails \/ CloseFails
  BY <1>1, MainReport
<1>2. CASE PrintBegins \/ GetVolumeValues
  BY <1>2, LoopsReport
<1>3. CASE GetVolumeInformation
  BY <1>3, VolumeReport
<1>4. CASE GetDevicePathSize \/ GetDevicePath
  BY <1>4, DevicePathReport
<1>5. CASE GetFileInformation
  BY <1>5, FileReport
<1>6. CASE GetPathSize \/ GetPath
  BY <1>6, PathReport
<1>7. CASE FileEnds \/ VolumeEnds \/ VolumesEnd
  BY <1>7, FileEndReport, VolumeEndReport, VolumesEndReport
<1>8. CASE GetSourceInformation
  BY <1>8, SourceReport
<1>9. CASE GetExecutableFilenameSize \/ GetExecutableFilename
  BY <1>9, ExecutableReport
<1>10. CASE SourceEnds \/ PrintEnds
  BY <1>10, SourceEndReport, PrintEndReport
<1>11. CASE PrintOnError
  BY <1>11, ErrorReport DEF PrintOnError, Goto
<1>12. CASE Exited \/ UNCHANGED vars
  <2>1. /\ database' = database /\ references' = references
        /\ indexes' = indexes /\ pc' = pc /\ printed' = printed
        /\ fault' = fault
    BY <1>12 DEF Exited, vars
  <2>2. /\ AtVolume' = AtVolume /\ AtFile' = AtFile /\ AtSource' = AtSource
        /\ FileEntry' = FileEntry /\ SourceEntry' = SourceEntry
        /\ Volume' = Volume /\ Report' = Report
        /\ HeadOf(volume_information)' = HeadOf(volume_information)
    BY <2>1, SameReport
       DEF AtVolume, AtFile, AtSource, FileEntry, SourceEntry, Volume, HeadOf,
           references, indexes
  <2>3. /\ volume_information' = volume_information
        /\ file_information' = file_information
        /\ source_information' = source_information
        /\ file_index' = file_index
    BY <2>1 DEF references, indexes
  <2>4. VolumesPrinted'
    BY <2>1, <2>2, <2>3 DEF ReportInv, VolumesPrinted
  <2>5. FilesPrinted'
    BY <2>1, <2>2, <2>3 DEF ReportInv, FilesPrinted
  <2>6. SourcesPrinted'
    BY <2>1, <2>2, <2>3 DEF ReportInv, SourcesPrinted
  <2>7. AllPrinted' /\ Begins(printed, Report)'
    BY <2>1, <2>2 DEF ReportInv, AllPrinted
  <2>8. QED
    BY <2>4, <2>5, <2>6, <2>7 DEF ReportInv
<1>13. QED
  BY <1>1, <1>2, <1>3, <1>4, <1>5, <1>6, <1>7, <1>8, <1>9, <1>10, <1>11, <1>12
     DEF Next, FilePrint

(* What has been printed is how the report of the database begins, and it   *)
(* is all of it when the tool ends in success, whatever databases there are *)
(* (info_handle_file_fprint, main of agdbinfo).                             *)
THEOREM PrintsTheReport == Spec => []PrintsReport
<1>1. Spec => []ReportInv
  <2>1. Init => ReportInv
    BY InitReport
  <2>2. IndInv /\ ReportInv /\ [Next]_vars => ReportInv'
    BY StepReport
  <2>3. QED
    BY <2>1, <2>2, AlwaysIndInv, PTL DEF Spec
<1>2. ReportInv => PrintsReport
  BY BeginsIsPrefix, Zenon DEF ReportInv, AllPrinted, PrintsReport
<1>3. QED
  BY <1>1, <1>2, PTL
=============================================================================
