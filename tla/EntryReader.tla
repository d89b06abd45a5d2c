----------------------------- MODULE EntryReader -----------------------------
(***************************************************************************)
(* How libagdb_file_open_read walks over the uncompressed data: the file   *)
(* header and database header, the volume information entries with their   *)
(* device paths and file information entries, and the source information   *)
(* entries.  Three functions keep an offset of their own, compute padding  *)
(* from it and report what they read to their caller in total_read_count,  *)
(* while the data stream has an offset too, which every read moves: an     *)
(* entry is read at the offset of the function, what belongs to it is read *)
(* wherever the stream then is.                                            *)
(*                                                                         *)
(* The fields of an entry are whatever the data holds, so they are members *)
(* of sets.  A read that the stream does not satisfy in full is an error.  *)
(***************************************************************************)
EXTENDS Integers, Sequences, FiniteSets

CONSTANTS
  StreamSizes,     \* sizes a data stream can have
  DataSizes,       \* values of the total size field of the file header
  HeaderSizes,     \* values of the header size field
  Parameters,      \* values of the entry sizes in the database header
  Counts,          \* values of the number of volumes, sources, files
  EntryCounts,     \* values of the number of sub entries of a file or source
  Characters,      \* values of device_path_number_of_characters
  PathFields,      \* values of path_number_of_characters of a file
  MaximumAllocation

ASSUME SizeAssumption ==
  /\ StreamSizes \subseteq Nat /\ DataSizes \subseteq Nat
  /\ HeaderSizes \subseteq Nat
  /\ Parameters \subseteq [volume : Nat, file : Nat, source : Nat,
                           type1 : Nat, type2 : Nat]
  /\ MaximumAllocation \in Nat

ASSUME FieldAssumption ==
  /\ Counts \subseteq Nat /\ EntryCounts \subseteq Nat
  /\ Characters \subseteq Nat /\ PathFields \subseteq Nat

VARIABLES
  stream_size,        \* of uncompressed_data_stream, fixed
  stream_offset,      \* of uncompressed_data_stream
  entry_size,         \* the entry sizes in the IO handle
  pc,                 \* the next step
  open_offset,        \* file_offset of libagdb_file_open_read
  volume_offset,      \* file_offset and total_read_count of the function that
  volume_total,       \*   reads a volume information
  file_offset,        \* the same of the one that reads a file information
  file_total,
  source_total,       \* total_read_count of libagdb_source_information_read
  number_of_volumes, number_of_sources, number_of_files, number_of_entries,
  volume_index, source_index, file_index, entry_index,
  path_size,          \* device_path_size or path_size
  declared_files, declared_entries,   \* history: what the entries announced
  log                 \* history: the reads [kind, offset, size]

ioVars     == <<stream_size, stream_offset, log>>
openVars   == <<open_offset, number_of_volumes, number_of_sources,
                volume_index, source_index>>
volumeVars == <<volume_offset, volume_total, number_of_files, file_index>>
fileVars   == <<file_offset, file_total>>
entryVars  == <<number_of_entries, entry_index, source_total>>
history    == <<declared_files, declared_entries>>
vars       == <<ioVars, entry_size, pc, openVars, volumeVars, fileVars,
                entryVars, path_size, history>>

NoSizes == [volume |-> 0, file |-> 0, source |-> 0, type1 |-> 0, type2 |-> 0]

Init ==
  /\ stream_size \in StreamSizes
  /\ stream_offset = 0 /\ log = <<>>
  /\ entry_size = NoSizes
  /\ pc = "file_header"
  /\ open_offset = 0 /\ number_of_volumes = 0 /\ number_of_sources = 0
  /\ volume_index = 0 /\ source_index = 0
  /\ volume_offset = 0 /\ volume_total = 0
  /\ number_of_files = 0 /\ file_index = 0
  /\ file_offset = 0 /\ file_total = 0
  /\ number_of_entries = 0 /\ entry_index = 0 /\ source_total = 0
  /\ path_size = 0
  /\ declared_files = 0 /\ declared_entries = 0

-----------------------------------------------------------------------------
(* The data stream                                                         *)

\* Mutant: a short read passes for a full one.
ReadAtAcceptsShort(kind, offset, size) ==
  /\ stream_offset' = offset + size
  /\ log' = Append(log, [kind |-> kind, offset |-> offset, size |-> size])
  /\ UNCHANGED stream_size

ReadAt(kind, offset, size) ==
  /\ offset + size <= stream_size
  /\ stream_offset' = offset + size
  /\ log' = Append(log, [kind |-> kind, offset |-> offset, size |-> size])
  /\ UNCHANGED stream_size

ReadNext(kind, size) == ReadAt(kind, stream_offset, size)

Padding(offset, alignment) == (alignment - (offset % alignment)) % alignment

Allocatable(size) == size > 0 /\ size <= MaximumAllocation

-----------------------------------------------------------------------------
(* The file header and the database header                                 *)

FileHeaderSize == 12
MinimumDatabaseHeaderSize == 60

\* The total size in the header has to be the size of the stream.  Of a
\* database whose first field is not 0x0e nothing more is read: it opens
\* without volumes and sources.
ReadFileHeader ==
  /\ pc = "file_header"
  /\ ReadAt("header", 0, FileHeaderSize)
  /\ \E data_size \in DataSizes : data_size = stream_size
  /\ pc' \in {"database_header", "ok"}
  /\ UNCHANGED <<entry_size, openVars, volumeVars, fileVars, entryVars,
                 path_size, history>>

ReadDatabaseHeader ==
  /\ pc = "database_header"
  /\ \E header_size \in HeaderSizes :
       LET size == header_size - FileHeaderSize
       IN  /\ size >= MinimumDatabaseHeaderSize
           /\ Allocatable(size)
           /\ ReadNext("database_header", size)
           /\ open_offset' = header_size
  /\ entry_size' \in Parameters
  /\ number_of_volumes' \in Counts /\ number_of_sources' \in Counts
  /\ pc' = "volumes"
  /\ UNCHANGED <<volume_index, source_index, volumeVars, fileVars, entryVars,
                 path_size, history>>

-----------------------------------------------------------------------------
(* The volume loop of libagdb_file_open_read                               *)

ReadVolumePadding ==
  /\ pc = "volumes"
  /\ volume_index < number_of_volumes
  /\ LET size == Padding(open_offset, 8)
     IN  /\ IF size = 0 THEN UNCHANGED ioVars ELSE ReadNext("padding", size)
         /\ open_offset' = open_offset + size
         /\ volume_offset' = open_offset + size
  /\ volume_total' = 0
  /\ pc' = "volume_entry"
  /\ UNCHANGED <<entry_size, number_of_volumes, number_of_sources,
                 volume_index, source_index, number_of_files, file_index,
                 fileVars, entryVars, path_size, history>>

\* Mutant: the paddings of the two formats are swapped.
VolumeAlignmentSwapped == IF entry_size.volume = 56 THEN 8 ELSE 4

VolumeAlignment == IF entry_size.volume = 56 THEN 4 ELSE 8

DevicePathSize(characters) ==
  IF characters = 0 THEN 0 ELSE (characters + 1) * 2

ReadVolumeEntry ==
  /\ pc = "volume_entry"
  /\ Allocatable(entry_size.volume)
  /\ entry_size.volume \in {56, 72}
  /\ ReadAt("volume", volume_offset, entry_size.volume)
  /\ volume_total' = volume_total + entry_size.volume
  /\ volume_offset' = volume_offset + entry_size.volume
  /\ number_of_files' \in Counts
  /\ declared_files' = declared_files + number_of_files'
  /\ \E characters \in Characters : path_size' = DevicePathSize(characters)
  /\ file_index' = 0
  /\ pc' = IF path_size' > 0 THEN "device_path" ELSE "files"
  /\ UNCHANGED <<entry_size, openVars, fileVars, entryVars,
                 declared_entries>>

ReadDevicePath ==
  /\ pc = "device_path"
  /\ Allocatable(path_size)
  /\ ReadNext("device_path", path_size)
  /\ volume_total' = volume_total + path_size
  /\ volume_offset' = volume_offset + path_size
  /\ pc' = "device_path_padding"
  /\ UNCHANGED <<entry_size, openVars, number_of_files, file_index, fileVars,
                 entryVars, path_size, history>>

ReadDevicePathPadding ==
  /\ pc = "device_path_padding"
  /\ LET size == Padding(volume_offset, VolumeAlignment)
     IN  /\ IF size = 0 THEN UNCHANGED ioVars ELSE ReadNext("padding", size)
         /\ volume_total' = volume_total + size
         /\ volume_offset' = volume_offset + size
  /\ pc' = "files"
  /\ UNCHANGED <<entry_size, openVars, number_of_files, file_index, fileVars,
                 entryVars, path_size, history>>

BeginFile ==
  /\ pc = "files"
  /\ file_index < number_of_files
  /\ file_offset' = volume_offset
  /\ file_total' = 0
  /\ pc' = "file_entry"
  /\ UNCHANGED <<ioVars, entry_size, openVars, volumeVars, entryVars,
                 path_size, history>>

\* The volume is read and appended: its total is added to the offset.
EndVolume ==
  /\ pc = "files"
  /\ file_index >= number_of_files
  /\ open_offset' = open_offset + volume_total
  /\ volume_index' = volume_index + 1
  /\ pc' = "volumes"
  /\ UNCHANGED <<ioVars, entry_size, number_of_volumes, number_of_sources,
                 source_index, volumeVars, fileVars, entryVars, path_size,
                 history>>

-----------------------------------------------------------------------------
(* One file information entry                                              *)

Sizes32 == {36, 52, 56, 72}
Sizes64 == {64, 88, 112}

FileAlignment == IF entry_size.file \in Sizes32 THEN 4 ELSE 8

\* Mutant: the two lowest bits are not cleared.
PathSizeKeepsBits(field) == IF field = 0 THEN 0 ELSE field \div 2 + 2

\* The path field: bits 2 and up count the characters.
PathSize(field) == IF field = 0 THEN 0 ELSE (field \div 4) * 2 + 2

ReadFileEntry ==
  /\ pc = "file_entry"
  /\ Allocatable(entry_size.file)
  /\ entry_size.file \in Sizes32 \cup Sizes64
  /\ ReadAt("file", file_offset, entry_size.file)
  /\ file_total' = file_total + entry_size.file
  /\ file_offset' = file_offset + entry_size.file
  /\ number_of_entries' \in EntryCounts
  /\ declared_entries' = declared_entries + number_of_entries'
  /\ entry_index' = 0
  /\ \E field \in PathFields : path_size' = PathSize(field)
  /\ pc' = IF path_size' > 0 THEN "path" ELSE "sub_entries"
  /\ UNCHANGED <<entry_size, openVars, volumeVars, source_total,
                 declared_files>>

ReadPath ==
  /\ pc = "path"
  /\ Allocatable(path_size)
  /\ ReadNext("path", path_size)
  /\ file_total' = file_total + path_size
  /\ file_offset' = file_offset + path_size
  /\ pc' = "path_padding"
  /\ UNCHANGED <<entry_size, openVars, volumeVars, entryVars, path_size,
                 history>>

\* Mutant: the padding is left out of the offset and the total.
ReadPathPaddingUncounted ==
  /\ pc = "path_padding"
  /\ LET size == Padding(file_offset, FileAlignment)
     IN  IF size = 0 THEN UNCHANGED ioVars ELSE ReadNext("padding", size)
  /\ pc' = "sub_entries"
  /\ UNCHANGED <<entry_size, openVars, volumeVars, fileVars, entryVars,
                 path_size, history>>

ReadPathPadding ==
  /\ pc = "path_padding"
  /\ LET size == Padding(file_offset, FileAlignment)
     IN  /\ IF size = 0 THEN UNCHANGED ioVars ELSE ReadNext("padding", size)
         /\ file_total' = file_total + size
         /\ file_offset' = file_offset + size
  /\ pc' = "sub_entries"
  /\ UNCHANGED <<entry_size, openVars, volumeVars, entryVars, path_size,
                 history>>

\* Mutant: one sub entry too many.
ReadSubEntryOneMore ==
  /\ pc = "sub_entries"
  /\ entry_index <= number_of_entries
  /\ entry_size.type1 \in {16, 24}
  /\ entry_size.type2 \in {16, 20, 24, 32}
  /\ ReadNext("sub_entry", entry_size.type1)
  /\ file_total' = file_total + entry_size.type1
  /\ file_offset' = file_offset + entry_size.type1
  /\ entry_index' = entry_index + 1
  /\ UNCHANGED <<entry_size, pc, openVars, volumeVars, number_of_entries,
                 source_total, path_size, history>>

\* Only the first type of sub entry is read.
ReadSubEntry ==
  /\ pc = "sub_entries"
  /\ entry_index < number_of_entries
  /\ entry_size.type1 \in {16, 24}
  /\ entry_size.type2 \in {16, 20, 24, 32}
  /\ ReadNext("sub_entry", entry_size.type1)
  /\ file_total' = file_total + entry_size.type1
  /\ file_offset' = file_offset + entry_size.type1
  /\ entry_index' = entry_index + 1
  /\ UNCHANGED <<entry_size, pc, openVars, volumeVars, number_of_entries,
                 source_total, path_size, history>>

\* The file is read and appended to the volume.
EndFile ==
  /\ pc = "sub_entries"
  /\ entry_index >= number_of_entries
  /\ volume_total' = volume_total + file_total
  /\ volume_offset' = volume_offset + file_total
  /\ file_index' = file_index + 1
  /\ pc' = "files"
  /\ UNCHANGED <<ioVars, entry_size, openVars, number_of_files, fileVars,
                 entryVars, path_size, history>>

-----------------------------------------------------------------------------
(* The source loop of libagdb_file_open_read                               *)

EndVolumes ==
  /\ pc = "volumes"
  /\ volume_index >= number_of_volumes
  /\ pc' = "sources"
  /\ UNCHANGED <<ioVars, entry_size, openVars, volumeVars, fileVars,
                 entryVars, path_size, history>>

\* A source with an executable filename has no sub entries.
ReadSourceEntry ==
  /\ pc = "sources"
  /\ source_index < number_of_sources
  /\ Allocatable(entry_size.source)
  /\ entry_size.source \in {60, 88, 100, 144}
  /\ ReadAt("source", open_offset, entry_size.source)
  /\ source_total' = entry_size.source
  /\ number_of_entries' \in
       (IF entry_size.source \in {60, 88} THEN EntryCounts ELSE {0})
  /\ declared_entries' = declared_entries + number_of_entries'
  /\ entry_index' = 0
  /\ pc' = "source_sub_entries"
  /\ UNCHANGED <<entry_size, openVars, volumeVars, fileVars, path_size,
                 declared_files>>

ReadSourceSubEntry ==
  /\ pc = "source_sub_entries"
  /\ entry_index < number_of_entries
  /\ entry_size.type2 \in {16, 24}
  /\ ReadNext("sub_entry", entry_size.type2)
  /\ source_total' = source_total + entry_size.type2
  /\ entry_index' = entry_index + 1
  /\ UNCHANGED <<entry_size, pc, openVars, volumeVars, fileVars,
                 number_of_entries, path_size, history>>

EndSource ==
  /\ pc = "source_sub_entries"
  /\ entry_index >= number_of_entries
  /\ open_offset' = open_offset + source_total
  /\ source_index' = source_index + 1
  /\ pc' = "sources"
  /\ UNCHANGED <<ioVars, entry_size, number_of_volumes, number_of_sources,
                 volume_index, volumeVars, fileVars, entryVars, path_size,
                 history>>

EndSources ==
  /\ pc = "sources"
  /\ source_index >= number_of_sources
  /\ pc' = "ok"
  /\ UNCHANGED <<ioVars, entry_size, openVars, volumeVars, fileVars,
                 entryVars, path_size, history>>

\* A read is not satisfied, a size is not supported, memory runs out: open_read
\* returns -1 whatever function it was in.
Fails ==
  /\ pc \notin {"ok", "error"}
  /\ pc' = "error"
  /\ UNCHANGED <<ioVars, entry_size, openVars, volumeVars, fileVars,
                 entryVars, path_size, history>>

Next ==
  \/ ReadFileHeader \/ ReadDatabaseHeader
  \/ ReadVolumePadding \/ ReadVolumeEntry \/ ReadDevicePath
  \/ ReadDevicePathPadding \/ BeginFile \/ EndVolume
  \/ ReadFileEntry \/ ReadPath \/ ReadPathPadding \/ ReadSubEntry \/ EndFile
  \/ EndVolumes \/ ReadSourceEntry \/ ReadSourceSubEntry \/ EndSource
  \/ EndSources \/ Fails

Spec == Init /\ [][Next]_vars

-----------------------------------------------------------------------------
VolumeSteps == {"device_path", "device_path_padding", "files"}
FileSteps   == {"path", "path_padding", "sub_entries"}
Steps == VolumeSteps \cup FileSteps \cup
         {"file_header", "database_header", "volumes", "volume_entry",
          "file_entry", "sources", "source_sub_entries", "ok", "error"}

Kinds == {"header", "database_header", "padding", "volume", "device_path",
          "file", "path", "sub_entry", "source"}

TypeOK ==
  /\ stream_size \in StreamSizes /\ stream_offset \in Nat
  /\ entry_size \in Parameters \cup {NoSizes}
  /\ pc \in Steps
  /\ open_offset \in Nat
  /\ volume_offset \in Nat /\ volume_total \in Nat
  /\ file_offset \in Nat /\ file_total \in Nat /\ source_total \in Nat
  /\ number_of_volumes \in Nat /\ number_of_sources \in Nat
  /\ number_of_files \in Nat /\ number_of_entries \in Nat
  /\ volume_index \in Nat /\ source_index \in Nat
  /\ file_index \in Nat /\ entry_index \in Nat
  /\ path_size \in Nat /\ path_size % 2 = 0
  /\ declared_files \in Nat /\ declared_entries \in Nat
  /\ log \in Seq([kind : Kinds, offset : Nat, size : Nat])

(* The offset each function keeps is the offset of the stream, and what a   *)
(* function has counted so far takes its caller to the same place: an entry *)
(* is read where the one before it ended, and padding is computed from the  *)
(* place it is read at.                                                     *)
CursorsAgree ==
  /\ pc \in {"volumes", "sources"} => open_offset = stream_offset
  /\ pc = "volume_entry" =>
       volume_offset = stream_offset /\ open_offset = stream_offset
  /\ pc \in VolumeSteps =>
       /\ volume_offset = stream_offset
       /\ open_offset + volume_total = stream_offset
  /\ pc = "file_entry" =>
       /\ file_offset = stream_offset /\ volume_offset = stream_offset
       /\ open_offset + volume_total = stream_offset
  /\ pc \in FileSteps =>
       /\ file_offset = stream_offset
       /\ volume_offset + file_total = stream_offset
       /\ open_offset + volume_total = volume_offset
  /\ pc = "source_sub_entries" =>
       open_offset + source_total = stream_offset

(* The reads cover the uncompressed data from its start without a gap and   *)
(* without reading a byte twice, and end within it.                         *)
ReadsTile ==
  /\ \A i \in 1 .. Len(log) :
       log[i].offset =
         IF i = 1 THEN 0 ELSE log[i - 1].offset + log[i - 1].size
  /\ stream_offset =
       IF log = <<>> THEN 0 ELSE log[Len(log)].offset + log[Len(log)].size
  /\ stream_offset <= stream_size

(* Entries lie where the format puts them: a volume at a multiple of 8, a   *)
(* file at a multiple of 4, and of 8 in a 64-bit database.                  *)
EntriesAligned ==
  \A i \in 1 .. Len(log) :
    /\ log[i].kind = "volume" => log[i].offset % 8 = 0
    /\ log[i].kind = "file" =>
         /\ log[i].offset % 4 = 0
         /\ entry_size.volume = 72 /\ entry_size.file \in Sizes64 =>
              log[i].offset % 8 = 0

Read(kind) == Cardinality({i \in 1 .. Len(log) : log[i].kind = kind})

(* When the open succeeds every volume, file, source and sub entry that the *)
(* headers announced has been read, none of them twice, however the counts  *)
(* of one entry overwrite those of the one before.                          *)
DeclaredIsRead ==
  pc = "ok" =>
    /\ Read("volume") = number_of_volumes
    /\ Read("source") = number_of_sources
    /\ Read("file") = declared_files
    /\ Read("sub_entry") = declared_entries
=============================================================================
