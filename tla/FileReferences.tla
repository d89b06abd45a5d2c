--------------------------- MODULE FileReferences ---------------------------
(***************************************************************************)
(* The entries an application holds: the functions of libagdb_file.c and   *)
(* libagdb_volume_information.c that hand out a volume, a file or a source *)
(* of a file by its number, composed with the life of that file.  What is  *)
(* handed out is the address of the object the file owns, the public free  *)
(* functions only forget it, and the object is gone after close and free.  *)
(***************************************************************************)
EXTENDS FileLifecycle

CONSTANT NumberOfFiles   \* NumberOfFiles[d][i]: of volume i of database d

ASSUME FilesAssumption ==
  /\ NumberOfFiles \in [Database -> Seq(Nat)]
  /\ \A d \in Database : Len(NumberOfFiles[d]) = NumberOfVolumes[d]

\* NULL is no entry, and no address of a volume with the number of a file.
ASSUME EntryAssumption == NULL \notin Info \cup (Object \X Nat)

VARIABLES
  volume_reference,   \* of the application: NULL or an address
  file_reference,     \* NULL, or the address of the volume and the number
  source_reference

references == <<volume_reference, file_reference, source_reference>>

InitReferences ==
  /\ Init
  /\ volume_reference = NULL /\ file_reference = NULL
  /\ source_reference = NULL

\* libcdata_array_get_entry_by_index
EntryByIndex(array, index) == array[index + 1]

\* All of them refuse a reference that is not NULL, and an index that is not
\* in the array.
GetVolumeInformation ==
  /\ pc = "idle" /\ file = "live"
  /\ volume_reference = NULL
  /\ \E index \in 0 .. Len(volumes_array) - 1 :
       volume_reference' = EntryByIndex(volumes_array, index)
  /\ UNCHANGED <<file_reference, source_reference, vars>>

GetSourceInformation ==
  /\ pc = "idle" /\ file = "live"
  /\ source_reference = NULL
  /\ \E index \in 0 .. Len(sources_array) - 1 :
       source_reference' = EntryByIndex(sources_array, index)
  /\ UNCHANGED <<volume_reference, file_reference, vars>>

FilesOf(volume) == NumberOfFiles[heap[volume].database][heap[volume].index + 1]

\* The files array of the volume has its files in order.
GetFileInformation ==
  /\ pc = "idle"
  /\ volume_reference # NULL /\ file_reference = NULL
  /\ \E index \in 0 .. FilesOf(volume_reference) - 1 :
       file_reference' = <<volume_reference, index>>
  /\ UNCHANGED <<volume_reference, source_reference, vars>>

\* libagdb_volume_information_free and its like.
VolumeInformationFree ==
  /\ pc = "idle"
  /\ volume_reference # NULL /\ volume_reference' = NULL
  /\ UNCHANGED <<file_reference, source_reference, vars>>

FileInformationFree ==
  /\ pc = "idle"
  /\ file_reference # NULL /\ file_reference' = NULL
  /\ UNCHANGED <<volume_reference, source_reference, vars>>

SourceInformationFree ==
  /\ pc = "idle"
  /\ source_reference # NULL /\ source_reference' = NULL
  /\ UNCHANGED <<volume_reference, file_reference, vars>>

NoReferences == references = <<NULL, NULL, NULL>>

\* The calls on the file, with references held except when it is closed or
\* freed.
FileStep ==
  /\ \/ OpenStep \/ Initialize \/ SignalAbort
     \/ \E h \in UserHandle : ApplicationHandle(h) \/ OpenFileIoHandle(h)
     \/ \E h \in LibraryHandle, d \in Database : Open(h, d) \/ OpenWide(h, d)
     \/ NoReferences /\ (Close \/ Free)
  /\ UNCHANGED references

NextReferences ==
  \/ FileStep
  \/ GetVolumeInformation \/ GetSourceInformation \/ GetFileInformation
  \/ VolumeInformationFree \/ FileInformationFree \/ SourceInformationFree

SpecReferences == InitReferences /\ [][NextReferences]_<<vars, references>>

-----------------------------------------------------------------------------
\* What an open that is running has appended does not count before it ends.
Before(array, appended) ==
  IF pc = "idle" THEN array ELSE SubSeq(array, 1, Len(array) - appended)

Contents(array) == [i \in DOMAIN array |-> heap[array[i]]]

Denotes(reference) == IF reference = NULL THEN NULL ELSE heap[reference]

Held ==
  [volume |-> Denotes(volume_reference),
   file |-> IF file_reference = NULL THEN NULL
            ELSE [volume |-> heap[file_reference[1]],
                  index |-> file_reference[2]],
   source |-> Denotes(source_reference)]

Status ==
  IF file = "null" THEN "none" ELSE IF IsOpen THEN "open" ELSE "closed"

Volumes == Contents(Before(volumes_array, volume_index))
Sources == Contents(Before(sources_array, source_index))

VolumesIn(d) == NumberOfVolumes[d]
SourcesIn(d) == NumberOfSources[d]
FilesIn(d, i) == NumberOfFiles[d][i + 1]

Api == INSTANCE FileApi WITH
  NumberOfVolumes <- VolumesIn,
  NumberOfSources <- SourcesIn,
  NumberOfFiles <- FilesIn,
  None <- NULL,
  status <- Status,
  volumes <- Volumes,
  sources <- Sources,
  held <- Held

(* The library keeps what FileApi promises: however an open goes, and       *)
(* whatever libagdb_file_open_read allocates, frees and appends on the way, *)
(* the application sees a file that opens or does not, an entry it holds is *)
(* the same entry of the same database until it is given up, and only close *)
(* and free take entries away.                                              *)
ImplementsFileApi == Api!Spec
=============================================================================
