------------------------------ MODULE AgdbInfo ------------------------------
(***************************************************************************)
(* The agdbinfo tool as a client of the library: it opens one database,    *)
(* prints its volumes with their files and then its sources, closes the    *)
(* database and releases what it holds.  Any call of a library can fail,   *)
(* and the tool then leaves through on_error of info_handle_file_fprint,   *)
(* of main, or of both.                                                    *)
(*                                                                         *)
(* A reference the library hands out is the number of the entry, from 1,   *)
(* and NULL is 0.  The public free functions of the entries only set the   *)
(* reference to NULL, and the functions that hand one out refuse to when   *)
(* the reference is not NULL.                                              *)
(***************************************************************************)
EXTENDS Integers, Sequences, SequencesExt

CONSTANT Databases
  \* [volumes, sources]: for each volume whether it has a device path and for
  \* each of its files whether it has a path, for each source whether it has
  \* an executable filename

ASSUME DatabaseAssumption ==
  Databases \subseteq
    [volumes : Seq([path : BOOLEAN, files : Seq(BOOLEAN)]),
     sources : Seq(BOOLEAN)]

VARIABLES
  database,
  input_file,                        \* of the library
  info_handle, filetime, value_string,   \* is it allocated?
  volume_information, file_information, source_information,
  volume_index, file_index, source_index,
  pc,
  printed,                           \* history: headings and strings
  fault                              \* history: what ended the tool early

allocated == <<input_file, info_handle, filetime, value_string>>
references == <<volume_information, file_information, source_information>>
indexes == <<volume_index, file_index, source_index>>
vars == <<database, allocated, references, indexes, pc, printed, fault>>

NULL == 0

Init ==
  /\ database \in Databases
  /\ input_file = "none"
  /\ info_handle = FALSE /\ filetime = FALSE /\ value_string = FALSE
  /\ volume_information = NULL /\ file_information = NULL
  /\ source_information = NULL
  /\ volume_index = 0 /\ file_index = 0 /\ source_index = 0
  /\ pc = "options" /\ printed = <<>> /\ fault = "none"

Goto(label) == pc' = label /\ UNCHANGED <<database, fault>>

-----------------------------------------------------------------------------
(* main                                                                    *)

\* -h and -V end in success, a bad option or no source in failure.
Options ==
  /\ pc = "options"
  /\ \/ Goto("initialize")
     \/ /\ pc' = "success" /\ fault' = "information_only"
        /\ UNCHANGED database
     \/ /\ pc' = "failure" /\ fault' = "usage"
        /\ UNCHANGED database
  /\ UNCHANGED <<allocated, references, indexes, printed>>

InfoHandleInitialize ==
  /\ pc = "initialize"
  /\ info_handle' = TRUE /\ input_file' = "closed"
  /\ Goto("open")
  /\ UNCHANGED <<filetime, value_string, references, indexes, printed>>

OpenInput ==
  /\ pc = "open"
  /\ input_file' = "open"
  /\ Goto("print")
  /\ UNCHANGED <<info_handle, filetime, value_string, references, indexes,
                 printed>>

CloseInput ==
  /\ pc = "close"
  /\ input_file' = "closed"
  /\ Goto("free")
  /\ UNCHANGED <<info_handle, filetime, value_string, references, indexes,
                 printed>>

\* libagdb_file_free closes a file that is still open.
InfoHandleFree ==
  /\ pc = "free"
  /\ info_handle' = FALSE /\ input_file' = "none"
  /\ Goto("success")
  /\ UNCHANGED <<filetime, value_string, references, indexes, printed>>

\* Mutant: on_error leaves the info handle to the end of the process.
MainOnErrorKeepsHandle ==
  /\ pc = "main_on_error"
  /\ Goto("failure")
  /\ UNCHANGED <<allocated, references, indexes, printed>>

\* The info handle is freed when it exists.
MainOnError ==
  /\ pc = "main_on_error"
  /\ info_handle' = FALSE /\ input_file' = "none"
  /\ Goto("failure")
  /\ UNCHANGED <<filetime, value_string, references, indexes, printed>>

-----------------------------------------------------------------------------
(* info_handle_file_fprint                                                 *)

PrintBegins ==
  /\ pc = "print"
  /\ filetime' = TRUE
  /\ volume_index' = 0
  /\ Goto("volumes")
  /\ UNCHANGED <<input_file, info_handle, value_string, references,
                 file_index, source_index, printed>>

\* The library hands out no reference while one is held already.
Refuses(reference) ==
  /\ reference # NULL
  /\ pc' = "print_on_error"
  /\ UNCHANGED <<database, fault, references, printed>>

\* Mutant: the loop over the volumes is one long.
GetVolumeInformationOneMore ==
  /\ pc = "volumes"
  /\ volume_index <= Len(database.volumes)
  /\ IF volume_information # NULL THEN Refuses(volume_information)
     ELSE /\ volume_information' = volume_index + 1
          /\ printed' = Append(printed, <<"Volume", volume_index + 1>>)
          /\ Goto("device_path_size")
          /\ UNCHANGED <<file_information, source_information>>
  /\ UNCHANGED <<allocated, indexes>>

GetVolumeInformation ==
  /\ pc = "volumes"
  /\ volume_index < Len(database.volumes)
  /\ IF volume_information # NULL THEN Refuses(volume_information)
     ELSE /\ volume_information' = volume_index + 1
          /\ printed' = Append(printed, <<"Volume", volume_index + 1>>)
          /\ Goto("device_path_size")
          /\ UNCHANGED <<file_information, source_information>>
  /\ UNCHANGED <<allocated, indexes>>

Volume == database.volumes[volume_information]

\* The string, if there is one, is copied to memory of the tool, printed and
\* freed before anything else is called.
AllocateString(size_label, exists, copy_label, next_label) ==
  /\ pc = size_label
  /\ value_string' = exists
  /\ Goto(IF exists THEN copy_label ELSE next_label)
  /\ UNCHANGED <<input_file, info_handle, filetime, references, indexes,
                 printed>>

PrintString(copy_label, heading, reference, next_label) ==
  /\ pc = copy_label
  /\ value_string' = FALSE
  /\ printed' = Append(printed, <<heading, reference>>)
  /\ Goto(next_label)
  /\ UNCHANGED <<input_file, info_handle, filetime, references, indexes>>

GetDevicePathSize ==
  AllocateString("device_path_size", Volume.path, "device_path",
                 "volume_values")

GetDevicePath ==
  PrintString("device_path", "DevicePath", volume_information,
              "volume_values")

\* The creation time by way of filetime, the serial number and the number of
\* files.
GetVolumeValues ==
  /\ pc = "volume_values" /\ filetime
  /\ file_index' = 0
  /\ Goto("files")
  /\ UNCHANGED <<allocated, references, volume_index, source_index, printed>>

GetFileInformation ==
  /\ pc = "files"
  /\ file_index < Len(Volume.files)
  /\ IF file_information # NULL THEN Refuses(file_information)
     ELSE /\ file_information' = file_index + 1
          /\ printed' = Append(printed, <<"File", file_index + 1>>)
          /\ Goto("path_size")
          /\ UNCHANGED <<volume_information, source_information>>
  /\ UNCHANGED <<allocated, indexes>>

GetPathSize ==
  AllocateString("path_size", Volume.files[file_information], "path",
                 "file_ends")

GetPath == PrintString("path", "Path", file_information, "file_ends")

\* Mutant: the reference to the file is not given up.
FileEndsKeepsReference ==
  /\ pc = "file_ends"
  /\ file_index' = file_index + 1
  /\ Goto("files")
  /\ UNCHANGED <<allocated, references, volume_index, source_index, printed>>

FileEnds ==
  /\ pc = "file_ends"
  /\ file_information' = NULL
  /\ file_index' = file_index + 1
  /\ Goto("files")
  /\ UNCHANGED <<allocated, volume_information, source_information,
                 volume_index, source_index, printed>>

\* Mutant: a volume ends only after a file.
VolumeEndsAfterFile ==
  /\ pc = "files"
  /\ file_index = Len(Volume.files) /\ file_index > 0
  /\ volume_information' = NULL
  /\ volume_index' = volume_index + 1
  /\ Goto("volumes")
  /\ UNCHANGED <<allocated, file_information, source_information, file_index,
                 source_index, printed>>

\* Mutant: the reference to the volume is not given up.
VolumeEndsKeepsReference ==
  /\ pc = "files"
  /\ file_index = Len(Volume.files)
  /\ volume_index' = volume_index + 1
  /\ Goto("volumes")
  /\ UNCHANGED <<allocated, references, file_index, source_index, printed>>

VolumeEnds ==
  /\ pc = "files"
  /\ file_index = Len(Volume.files)
  /\ volume_information' = NULL
  /\ volume_index' = volume_index + 1
  /\ Goto("volumes")
  /\ UNCHANGED <<allocated, file_information, source_information, file_index,
                 source_index, printed>>

VolumesEnd ==
  /\ pc = "volumes"
  /\ volume_index = Len(database.volumes)
  /\ filetime' = FALSE
  /\ source_index' = 0
  /\ Goto("sources")
  /\ UNCHANGED <<input_file, info_handle, value_string, references,
                 volume_index, file_index, printed>>

GetSourceInformation ==
  /\ pc = "sources"
  /\ source_index < Len(database.sources)
  /\ IF source_information # NULL THEN Refuses(source_information)
     ELSE /\ source_information' = source_index + 1
          /\ printed' = Append(printed, <<"Source", source_index + 1>>)
          /\ Goto("executable_filename_size")
          /\ UNCHANGED <<volume_information, file_information>>
  /\ UNCHANGED <<allocated, indexes>>

GetExecutableFilenameSize ==
  AllocateString("executable_filename_size",
                 database.sources[source_information], "executable_filename",
                 "source_ends")

GetExecutableFilename ==
  PrintString("executable_filename", "ExecutableFilename",
              source_information, "source_ends")

SourceEnds ==
  /\ pc = "source_ends"
  /\ source_information' = NULL
  /\ source_index' = source_index + 1
  /\ Goto("sources")
  /\ UNCHANGED <<allocated, volume_information, file_information,
                 volume_index, file_index, printed>>

\* Mutant: the loop over the sources is one short.
PrintEndsEarly ==
  /\ pc = "sources"
  /\ source_index + 1 >= Len(database.sources)
  /\ Goto("close")
  /\ UNCHANGED <<allocated, references, indexes, printed>>

PrintEnds ==
  /\ pc = "sources"
  /\ source_index = Len(database.sources)
  /\ Goto("close")
  /\ UNCHANGED <<allocated, references, indexes, printed>>

\* The references are locals: that to the file, which on_error does not set to
\* NULL, is gone with the others when the function returns.
PrintOnError ==
  /\ pc = "print_on_error"
  /\ volume_information' = NULL /\ file_information' = NULL
  /\ source_information' = NULL
  /\ value_string' = FALSE /\ filetime' = FALSE
  /\ Goto("main_on_error")
  /\ UNCHANGED <<input_file, info_handle, indexes, printed>>

-----------------------------------------------------------------------------
(* A call fails.                                                           *)

PrintLabels ==
  {"print", "volumes", "device_path_size", "device_path", "volume_values",
   "files", "path_size", "path", "file_ends", "sources",
   "executable_filename_size", "executable_filename", "source_ends"}

\* Of the library, of libfdatetime or of the allocator, while printing.
PrintFails ==
  /\ pc \in PrintLabels
  /\ pc' = "print_on_error" /\ fault' = "call"
  /\ UNCHANGED <<database, allocated, references, indexes, printed>>

\* Setting up the locale and the output, creating the handle or opening fails.
MainFails ==
  /\ pc \in {"options", "initialize", "open"}
  /\ pc' = "main_on_error" /\ fault' = "call"
  /\ UNCHANGED <<database, allocated, references, indexes, printed>>

\* Closing the file is carried out even when it returns an error, and so is
\* freeing the info handle, after which nothing is left for on_error to free.
CloseFails ==
  /\ pc \in {"close", "free"}
  /\ input_file' = IF pc = "close" THEN "closed" ELSE "none"
  /\ info_handle' = (pc = "close")
  /\ pc' = "main_on_error" /\ fault' = "call"
  /\ UNCHANGED <<database, filetime, value_string, references, indexes,
                 printed>>

\* The process has ended.
Exited ==
  /\ pc \in {"success", "failure"}
  /\ UNCHANGED vars

Main ==
  Options \/ InfoHandleInitialize \/ OpenInput \/ CloseInput
    \/ InfoHandleFree \/ MainOnError

FilePrint ==
  PrintBegins
    \/ GetVolumeInformation \/ GetDevicePathSize \/ GetDevicePath
    \/ GetVolumeValues
    \/ GetFileInformation \/ GetPathSize \/ GetPath \/ FileEnds
    \/ VolumeEnds \/ VolumesEnd
    \/ GetSourceInformation \/ GetExecutableFilenameSize
    \/ GetExecutableFilename \/ SourceEnds
    \/ PrintEnds \/ PrintOnError

Next ==
  Main \/ FilePrint \/ PrintFails \/ MainFails \/ CloseFails \/ Exited

\* Every call returns, and the tool goes on after it; that calls fail is not
\* assumed.
Spec == Init /\ [][Next]_vars /\ WF_vars(Main \/ FilePrint)

-----------------------------------------------------------------------------
Headings ==
  {"Volume", "DevicePath", "File", "Path", "Source", "ExecutableFilename"}

TypeOK ==
  /\ database \in Databases
  /\ input_file \in {"none", "closed", "open"}
  /\ {info_handle, filetime, value_string} \subseteq BOOLEAN
  /\ volume_information \in 0 .. Len(database.volumes)
  /\ file_information \in Nat
  /\ source_information \in 0 .. Len(database.sources)
  /\ volume_index \in 0 .. Len(database.volumes)
  /\ file_index \in Nat
  /\ source_index \in 0 .. Len(database.sources)
  /\ pc \in PrintLabels \cup
       {"options", "initialize", "open", "close", "free", "success",
        "failure", "print_on_error", "main_on_error"}
  /\ printed \in Seq(Headings \X Nat)
  /\ fault \in {"none", "information_only", "usage", "call"}

(* However the tool ends, its handle, the library's file, the time and the  *)
(* string have been released.                                               *)
AllReleased ==
  pc \in {"success", "failure"} =>
    /\ input_file = "none"
    /\ ~info_handle /\ ~filetime /\ ~value_string

\* What the tool has to print: a heading for every entry, followed by its
\* string when it has one, in the order of the database.
Entry(heading, label, i, exists) ==
  <<<<heading, i>>>> \o (IF exists THEN <<<<label, i>>>> ELSE <<>>)

Listing(heading, label, strings) ==
  FlattenSeq([i \in 1 .. Len(strings) |-> Entry(heading, label, i, strings[i])])

Report ==
  FlattenSeq([v \in 1 .. Len(database.volumes) |->
                Entry("Volume", "DevicePath", v, database.volumes[v].path)
                  \o Listing("File", "Path", database.volumes[v].files)])
    \o Listing("Source", "ExecutableFilename", database.sources)

(* What has been printed is the beginning of the report, and all of it when *)
(* the tool ends in success without having been asked for help.             *)
PrintsReport ==
  /\ IsPrefix(printed, Report)
  /\ pc = "success" /\ fault = "none" => printed = Report

(* The tool fails only for a reason: it never runs into a refusal of the    *)
(* library by holding on to a reference.                                    *)
FailureHasCause == pc = "failure" => fault \in {"usage", "call"}

VolumesIn(d) == Len(d.volumes)
SourcesIn(d) == Len(d.sources)
FilesIn(d, i) == Len(d.volumes[i + 1].files)

NoEntry == [kind |-> "none"]

Denotes(kind, reference) ==
  IF reference = NULL THEN NoEntry
  ELSE [kind |-> kind, database |-> database, index |-> reference - 1]

\* The entries of the open file, and those the tool holds a reference to.
OpenEntries(kind, n) ==
  IF input_file = "open" THEN [i \in 1 .. n |-> Denotes(kind, i)] ELSE <<>>

HeldFile ==
  IF file_information = NULL THEN NoEntry
  ELSE [volume |-> Denotes("volume", volume_information),
        index |-> file_information - 1]

HeldEntries ==
  [volume |-> Denotes("volume", volume_information),
   file |-> HeldFile,
   source |-> Denotes("source", source_information)]

Api == INSTANCE FileApi WITH
  Database <- Databases,
  NumberOfVolumes <- VolumesIn,
  NumberOfSources <- SourcesIn,
  NumberOfFiles <- FilesIn,
  None <- NoEntry,
  status <- input_file,
  volumes <- OpenEntries("volume", Len(database.volumes)),
  sources <- OpenEntries("source", Len(database.sources)),
  held <- HeldEntries

(* The tool keeps the application's side of FileApi, whatever fails: it     *)
(* takes entries only by numbers they have and from a file that is open,    *)
(* one of a kind at a time, and holds none when it closes or frees the      *)
(* file.                                                                    *)
KeepsFileApi == Api!Spec

(* Every run of the tool ends.                                              *)
Terminates == <>(pc \in {"success", "failure"})
=============================================================================
