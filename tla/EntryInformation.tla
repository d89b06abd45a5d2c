--------------------------- MODULE EntryInformation ---------------------------
(***************************************************************************)
(* One information object, of a volume, a file or a source, from           *)
(* initialize to free: what reading its entry leaves in it, in production  *)
(* (read_file_io_handle, which takes the entry from the data stream step   *)
(* by step) and in the tests (read_data and read_path_data, which are      *)
(* given bytes), and what the functions that return its strings make of    *)
(* that.                                                                   *)
(*                                                                         *)
(* A volume has a device path and a file a path, which follow the entry in *)
(* the data as UTF-16 little-endian characters and are kept as allocated   *)
(* bytes; both are "string" here.  The executable filename of a source is  *)
(* an array of 16 bytes in the object itself, with its size next to it.    *)
(* The offsets in the stream are the subject of EntryReader.               *)
(***************************************************************************)
EXTENDS EntryLayout, FiniteSets

CONSTANTS
  Entries,             \* [kind, entry_size, structure, fields, text]
  SubEntrySizes        \* values of [type1, type2] in the IO handle

\* The structures the writer of a database has for an entry, and the fields it
\* gives it that are read.
Structures ==
  [volume |-> {VolumeInformation56, VolumeInformation72},
   file |-> {FileInformation36, FileInformation52, FileInformation56,
             FileInformation64, FileInformation72, FileInformation88,
             FileInformation112},
   source |-> {SourceInformation60, SourceInformation88,
               SourceInformation100, SourceInformation144}]

FieldsOf ==
  [volume |-> {"number_of_files", "creation_time", "serial_number",
               "device_path_number_of_characters"},
   file |-> {"number_of_entries", "path_number_of_characters"},
   source |-> {"unknown3", "executable_filename"}]

\* What the size field of a string counts, without the terminator.
CharactersGiven(e) ==
  IF e.kind = "volume"
  THEN LittleEndian(e.fields["device_path_number_of_characters"])
  ELSE LittleEndian(e.fields["path_number_of_characters"]) \div 4

\* The writer put the fields into a structure of the kind, which has the size
\* in the header unless that is one no structure has; and after it the string,
\* with a terminator behind as many characters as the entry gives.  That of a
\* source is in its structure.
CodeUnits == 0 .. 65535

WellWritten(e) ==
  /\ e.kind \in {"volume", "file", "source"}
  /\ e.entry_size \in Nat
  /\ e.structure \in Structures[e.kind]
  /\ e.entry_size = SizeOf(e.structure)
       \/ \A s \in Structures[e.kind] : e.entry_size # SizeOf(s)
  /\ FieldsOf[e.kind] \subseteq DOMAIN e.fields
  /\ Fits(e.structure, e.fields)
  /\ e.text \in Seq(CodeUnits)
  /\ IF e.kind = "source"
     THEN e.text = e.fields["executable_filename"] \o <<0>>
     ELSE Len(e.text) <= CharactersGiven(e) + 1

ASSUME EntryAssumption == \A e \in Entries : WellWritten(e)

VARIABLES
  entry,             \* what is being read
  sub_entry_size,    \* of the IO handle, as entry.entry_size is
  object,            \* NULL, or the fields of the internal structure
  allocated,         \* the blocks of memory that are in use
  number_of_entries, \* of the file, a local of the reader for a source
  index,             \* of the loop over files or sub entries
  pc, result,
  returned           \* {} or the string a getter returned

vars == <<entry, sub_entry_size, object, allocated, number_of_entries, index,
          pc, result, returned>>

kind == entry.kind
entry_size == entry.entry_size

\* A block of memory, of which a volume has several for its files.
Block(name) == <<name, 0>>
FileBlocks(n) == {"file"} \X (1 .. n)

Zeroes(n) == [i \in 1 .. n |-> 0]

\* memory_set; the array of files of a volume is allocated with it.
Blank ==
  [string |-> IF kind = "source" THEN Zeroes(16) ELSE NULL,
   string_size |-> 0,
   creation_time |-> 0, serial_number |-> 0, number_of_files |-> 0,
   files |-> 0]

Init ==
  /\ entry \in Entries /\ sub_entry_size \in SubEntrySizes
  /\ object = NULL /\ allocated = {}
  /\ number_of_entries = 0 /\ index = 0
  /\ pc = "idle" /\ result = "none" /\ returned = {}

Unread == UNCHANGED <<entry, sub_entry_size>>

-----------------------------------------------------------------------------
(* initialize and internal_free                                            *)

Initialize ==
  /\ pc = "idle" /\ object = NULL
  /\ object' = Blank
  /\ allocated' = {Block("object")}
       \cup (IF kind = "volume" THEN {Block("files_array")} ELSE {})
  /\ number_of_entries' = 0
  /\ result' = "new" /\ returned' = {}
  /\ UNCHANGED <<index, pc>> /\ Unread

\* Mutant: a string is freed only when the entry was read.
InternalFreeReadOnly ==
  /\ pc = "idle" /\ object # NULL
  /\ allocated' =
       allocated \ ({Block("object"), Block("files_array")}
                      \cup FileBlocks(object.files)
                      \cup IF result = "ok" THEN {Block("string")} ELSE {})
  /\ object' = NULL
  /\ result' = "none" /\ returned' = {}
  /\ UNCHANGED <<number_of_entries, index, pc>> /\ Unread

\* The string when there is one, the files with their array, the object.
InternalFree ==
  /\ pc = "idle" /\ object # NULL
  /\ allocated' =
       allocated \ ({Block("object"), Block("files_array")}
                      \cup FileBlocks(object.files)
                      \cup IF object.string # NULL THEN {Block("string")}
                                                   ELSE {})
  /\ object' = NULL
  /\ result' = "none" /\ returned' = {}
  /\ UNCHANGED <<number_of_entries, index, pc>> /\ Unread

-----------------------------------------------------------------------------
(* read_data                                                               *)

VolumeSizes == {56, 72}
FileSizes32 == {36, 52, 56, 72}
FileSizes64 == {64, 88, 112}
SourceSizes == {60, 88, 100, 144}

VolumeCast == IF entry_size = 56 THEN VolumeInformation56
                                 ELSE VolumeInformation72

\* Mutant: an entry of 56 bytes is taken for one of a 64-bit database.
FileCastByLength ==
  IF entry_size \in {36, 52} THEN FileInformation36 ELSE FileInformation64

\* The entries of a word size begin in the same way.
FileCast ==
  IF entry_size \in FileSizes32 THEN FileInformation36 ELSE FileInformation64

SourceCast ==
  IF entry_size = 60 THEN SourceInformation60
  ELSE IF entry_size = 88 THEN SourceInformation88
  ELSE IF entry_size = 100 THEN SourceInformation100
  ELSE SourceInformation144

DevicePathSize(characters) ==
  IF characters = 0 THEN 0 ELSE (characters + 1) * 2

\* Mutant: the flags are shifted out and the characters not doubled.
PathSizeInCharacters(field) == IF field = 0 THEN 0 ELSE field \div 4 + 2

\* The two low bits of the field are flags.
PathSize(field) ==
  IF field = 0 THEN 0 ELSE (field \div 4) * 2 + 2

\* The place of the first zero, 17 when there is none.
FilenameSize(filename) == SelectInSeq(filename \o <<0>>, LAMBDA byte : byte = 0)

\* A volume entry of another size sets nothing, and is refused later.
VolumeData(data) ==
  IF entry_size \notin VolumeSizes THEN object
  ELSE LET Field(name) == FieldValue(VolumeCast, data, name)
       IN [object EXCEPT
             !.number_of_files = Field("number_of_files"),
             !.creation_time = Field("creation_time"),
             !.serial_number = Field("serial_number"),
             !.string_size =
                DevicePathSize(Field("device_path_number_of_characters"))]

FileData(data) ==
  [object EXCEPT !.string_size =
     PathSize(FieldValue(FileCast, data, "path_number_of_characters"))]

SourceData(data) ==
  IF entry_size \in {60, 88} THEN object
  ELSE LET filename == FieldBytes(SourceCast, data, "executable_filename")
       IN [object EXCEPT !.string = filename,
                         !.string_size = FilenameSize(filename)]

\* Of a file the field goes into the object; of a source it is unknown3, in
\* the structures of Windows Vista and 7 only.
EntriesField(data) ==
  IF kind = "file" THEN FieldValue(FileCast, data, "number_of_entries")
  ELSE IF kind = "source" /\ entry_size \in {60, 88}
  THEN FieldValue(SourceCast, data, "unknown3")
  ELSE number_of_entries

Supported ==
  IF kind = "volume" THEN TRUE
  ELSE IF kind = "file" THEN entry_size \in FileSizes32 \cup FileSizes64
  ELSE entry_size \in SourceSizes

Data == Stored(entry.structure, entry.fields)

DecodeEntry ==
  /\ Supported
  /\ object' = IF kind = "volume" THEN VolumeData(Data)
               ELSE IF kind = "file" THEN FileData(Data)
               ELSE SourceData(Data)
  /\ number_of_entries' = EntriesField(Data)

\* Called by the tests, with the whole entry or with less than an entry.
ReadData ==
  /\ pc = "idle" /\ object # NULL /\ result \in {"new", "data"}
  /\ \/ DecodeEntry /\ result' = "data"
     \/ UNCHANGED <<object, number_of_entries, result>>
  /\ returned' = {}
  /\ UNCHANGED <<allocated, index, pc>> /\ Unread

-----------------------------------------------------------------------------
(* The string                                                              *)

\* The characters that follow the entry, as bytes, least significant first.
TextBytes ==
  FlattenSeq([i \in DOMAIN entry.text |->
                <<entry.text[i] % 256, entry.text[i] \div 256>>])

\* on_error of read_path_data and of read_file_io_handle; a source has only
\* its size to reset.
DropString ==
  /\ object' = IF kind = "source" THEN [object EXCEPT !.string_size = 0]
               ELSE [object EXCEPT !.string = NULL, !.string_size = 0]
  /\ allocated' = allocated \ {Block("string"), Block("data"), Block("new_file")}

Kept == [i \in 1 .. object.string_size |-> TextBytes[i]]

\* read_device_path_data and read_path_data, called by the tests with the
\* characters or with fewer bytes.  They refuse to read a string a second time
\* and leave the object alone when the bytes are too few.
ReadPathData ==
  /\ pc = "idle" /\ object # NULL /\ kind # "source" /\ result = "data"
  /\ \/ /\ object.string = NULL
        /\ Len(TextBytes) >= object.string_size
        /\ \/ /\ object.string_size = 0
              /\ UNCHANGED <<object, allocated, result>>
           \/ /\ object.string_size \in 1 .. MaximumAllocation
              /\ object' = [object EXCEPT !.string = Kept]
              /\ allocated' = allocated \cup {Block("string")}
              /\ UNCHANGED result
           \/ object.string_size > 0 /\ DropString /\ result' = "error"
     \/ UNCHANGED <<object, allocated, result>>
  /\ returned' = {}
  /\ UNCHANGED <<number_of_entries, index, pc>> /\ Unread

-----------------------------------------------------------------------------
(* read_file_io_handle (libagdb_source_information_read for a source)      *)

Goto(label) == pc' = label /\ UNCHANGED <<result, returned>> /\ Unread

\* Returns; what goes on is the caller's affair.
Return(outcome) ==
  pc' = "idle" /\ result' = outcome /\ returned' = {} /\ Unread

\* Production reads a new object once; a string that was read before is
\* refused, and so is an entry size that cannot be allocated.
BeginRead ==
  /\ pc = "idle" /\ object # NULL /\ result \in {"new", "data"}
  /\ \/ /\ kind = "source" \/ object.string = NULL
        /\ entry_size \in 1 .. MaximumAllocation
        /\ \/ allocated' = allocated \cup {Block("data")} /\ Goto("entry")
              /\ UNCHANGED object
           \/ DropString /\ Return("error")
     \/ /\ kind # "source" /\ object.string # NULL
        /\ Return("refused") /\ UNCHANGED <<object, allocated>>
     \/ /\ entry_size \notin 1 .. MaximumAllocation
        /\ Return("refused") /\ UNCHANGED <<object, allocated>>
  /\ index' = 0
  /\ UNCHANGED number_of_entries

ReadEntry ==
  /\ pc = "entry"
  /\ DecodeEntry
  /\ allocated' = allocated \ {Block("data")}
  /\ Goto(IF kind = "source" THEN "sub_entries" ELSE "string")
  /\ UNCHANGED index

Readable ==
  entry_size \in IF kind = "volume" THEN VolumeSizes
                                    ELSE FileSizes32 \cup FileSizes64

AllocateString ==
  /\ pc = "string" /\ Readable
  /\ \/ /\ object.string_size \in 1 .. MaximumAllocation
        /\ object' = [object EXCEPT !.string = Zeroes(object.string_size)]
        /\ allocated' = allocated \cup {Block("string")}
        /\ Goto("string_data")
     \/ /\ object.string_size = 0
        /\ UNCHANGED <<object, allocated>>
        /\ Goto(IF kind = "volume" THEN "files" ELSE "sub_entries")
  /\ UNCHANGED <<number_of_entries, index>>

\* The string, the hash of it, which is thrown away, and the padding.
ReadString ==
  /\ pc = "string_data"
  /\ Len(TextBytes) >= object.string_size
  /\ object' = [object EXCEPT !.string = Kept]
  /\ Goto(IF kind = "volume" THEN "files" ELSE "sub_entries")
  /\ UNCHANGED <<allocated, number_of_entries, index>>

\* Mutant: one file more than the entry says.
InitializeFileOneMore ==
  /\ pc = "files" /\ index <= object.number_of_files
  /\ allocated' = allocated \cup {Block("new_file")}
  /\ Goto("file")
  /\ UNCHANGED <<object, number_of_entries, index>>

InitializeFile ==
  /\ pc = "files" /\ index < object.number_of_files
  /\ allocated' = allocated \cup {Block("new_file")}
  /\ Goto("file")
  /\ UNCHANGED <<object, number_of_entries, index>>

\* A file that was read becomes an entry of the array.
AppendFile ==
  /\ pc = "file"
  /\ object' = [object EXCEPT !.files = @ + 1]
  /\ allocated' = (allocated \ {Block("new_file")})
                    \cup {<<"file", object.files + 1>>}
  /\ index' = index + 1
  /\ Goto("files")
  /\ UNCHANGED number_of_entries

SubEntrySizesKnown ==
  IF kind = "file"
  THEN sub_entry_size.type1 \in {16, 24} /\ sub_entry_size.type2 \in {16, 20, 24, 32}
  ELSE sub_entry_size.type2 \in {16, 24}

\* They are read and not kept.
ReadSubEntry ==
  /\ pc = "sub_entries"
  /\ index < number_of_entries /\ SubEntrySizesKnown
  /\ index' = index + 1
  /\ UNCHANGED <<object, allocated, number_of_entries>> /\ Goto(pc)

\* This error returns from the middle of the function: the string stays.
SubEntriesUnknown ==
  /\ pc = "sub_entries"
  /\ number_of_entries > 0 /\ ~SubEntrySizesKnown
  /\ Return("error")
  /\ UNCHANGED <<object, allocated, number_of_entries, index>>

ReadEnds ==
  /\ \/ pc = "files" /\ index = object.number_of_files
     \/ pc = "sub_entries" /\ index = number_of_entries
  /\ Return("ok")
  /\ UNCHANGED <<object, allocated, number_of_entries, index>>

\* The stream, the allocator, the array or a check of what was read can fail
\* wherever there is something left to do.
MayFail ==
  \/ pc \in {"entry", "string_data", "file"}
  \/ pc = "string" /\ (object.string_size > 0 \/ ~Readable)
  \/ pc = "files" /\ index < object.number_of_files
  \/ pc = "sub_entries" /\ index < number_of_entries /\ SubEntrySizesKnown

\* Mutant: on_error of a volume frees the string and keeps the pointer.
ReadFailsKeepsPointer ==
  /\ MayFail
  /\ object' = [object EXCEPT !.string_size = 0]
  /\ allocated' = allocated \ {Block("string"), Block("data"), Block("new_file")}
  /\ Return("error")
  /\ UNCHANGED <<number_of_entries, index>>

ReadFails ==
  /\ MayFail
  /\ DropString
  /\ Return("error")
  /\ UNCHANGED <<number_of_entries, index>>

Read ==
  BeginRead \/ ReadEntry \/ AllocateString \/ ReadString
    \/ InitializeFile \/ AppendFile \/ ReadSubEntry \/ SubEntriesUnknown
    \/ ReadEnds \/ ReadFails

-----------------------------------------------------------------------------
(* The getters                                                             *)

\* libuna reads as many bytes as it is told, up to the first character that is
\* zero: two bytes a character of a path, one of a filename.
Characters(bytes) ==
  [i \in 1 .. Len(bytes) \div 2 |->
     LittleEndian(SubSeq(bytes, 2 * (i - 1) + 1, 2 * i))]

\* A byte that is no ASCII character becomes U+FFFD.
ReplacementCharacter == 65533

AsciiCharacter(byte) == IF byte < 128 THEN byte ELSE ReplacementCharacter

AsciiCharacters(bytes) ==
  [i \in 1 .. Len(bytes) |-> AsciiCharacter(bytes[i])]

UpToEnd(characters) ==
  SubSeq(characters, 1,
         SelectInSeq(characters \o <<0>>, LAMBDA c : c = 0) - 1)

\* What lies after the array of a source is the size, the byte that comes
\* first being the low one or the high one.
Following ==
  {Bytes(object.string_size, 4), Reverse(Bytes(object.string_size, 4))}

\* An entry an application can have got hold of, or the tests.  libuna refuses
\* a NULL.
ReturnString(characters) ==
  /\ pc = "idle"
  /\ returned' = {UpToEnd(characters)}
  /\ UNCHANGED <<object, allocated, number_of_entries, index, pc, result>>
  /\ Unread

HasString ==
  object # NULL /\ result \in {"ok", "data"} /\ object.string # NULL

\* In UTF-8, in UTF-16, or the size of either.
GetDevicePath ==
  /\ kind = "volume" /\ HasString
  /\ ReturnString(Characters(object.string))

GetPath ==
  /\ kind = "file" /\ HasString
  /\ ReturnString(Characters(object.string))

GetExecutableFilename ==
  /\ kind = "source" /\ HasString /\ object.string_size > 0
  /\ \E after \in Following :
       ReturnString(AsciiCharacters(
                      SubSeq(object.string \o after, 1, object.string_size)))

Next == Initialize \/ InternalFree \/ ReadData \/ ReadPathData \/ Read
          \/ GetDevicePath \/ GetPath \/ GetExecutableFilename

Spec == Init /\ [][Next]_vars

-----------------------------------------------------------------------------
Labels == {"idle", "entry", "string", "string_data", "files", "file",
           "sub_entries"}

ObjectOK ==
  /\ object.string # NULL => object.string \in Seq(0 .. 255)
  /\ {object.string_size, object.creation_time, object.serial_number,
      object.number_of_files} \subseteq Nat
  /\ object.files \in 0 .. object.number_of_files

TypeOK ==
  /\ entry \in Entries /\ sub_entry_size \in SubEntrySizes
  /\ object # NULL => ObjectOK
  /\ allocated \subseteq
       {"object", "files_array", "data", "string", "new_file", "file"} \X Nat
  /\ number_of_entries \in Nat /\ index \in Nat
  /\ pc \in Labels
  /\ result \in {"none", "new", "data", "ok", "error", "refused"}
  /\ returned \subseteq Seq(Nat)

Written(name) == LittleEndian(entry.fields[name])

(* The fields of an entry that was read are those its writer stored, though *)
(* the reader casts seven structures of files to two and takes the size of  *)
(* the entry for its only guide: the offset of each field that is read is   *)
(* the same in the structure the entry has and in the one it is cast to.    *)
(* (read_data takes a volume of an unknown size for read; it is refused     *)
(* only afterwards.)                                                        *)
FieldsAsWritten ==
  /\ pc = "idle"
  /\ result = "ok" \/ (result = "data" /\ (kind = "volume" => Readable))
  =>
    IF kind = "volume"
    THEN /\ object.number_of_files = Written("number_of_files")
         /\ object.creation_time = Written("creation_time")
         /\ object.serial_number = Written("serial_number")
         /\ result = "ok" => object.files = object.number_of_files
    ELSE IF kind = "file" THEN number_of_entries = Written("number_of_entries")
    ELSE entry_size \in {60, 88} => number_of_entries = Written("unknown3")

(* A string a getter returns is the one in the database, up to the first    *)
(* character that is zero: neither cut nor followed by anything, whatever   *)
(* the flags in the size field, whether it was read from the stream or from *)
(* the bytes of a test.  A byte of a filename that is no ASCII character is *)
(* replaced, in its place: it neither ends the string nor gets lost.        *)
StringAsWritten ==
  returned \subseteq
    {IF kind = "source" THEN AsciiCharacters(UpToEnd(entry.text))
                        ELSE UpToEnd(entry.text)}

(* The size that goes with a string is that of the memory behind it,        *)
(* whatever failed and wherever reading stopped, the return from the middle *)
(* of the function included: what libuna is told to read exists.            *)
StringInsideMemory ==
  object # NULL /\ pc \in {"idle", "files", "file", "sub_entries"} =>
    IF kind = "source" THEN object.string_size <= 16
    ELSE /\ object.string # NULL <=> Block("string") \in allocated
         /\ object.string # NULL => Len(object.string) = object.string_size

\* The files array of a volume, its files, and the string of a volume or file.
Owned ==
  {Block("object")}
    \cup (IF kind = "volume" THEN {Block("files_array")} ELSE {})
    \cup (IF kind # "source" /\ object.string # NULL THEN {Block("string")}
                                                    ELSE {})
    \cup FileBlocks(object.files)

(* Between calls the memory in use is what the object holds, so that        *)
(* internal_free releases all of it and nothing else: the data of the entry *)
(* and a file that was being read do not outlive the call, and a read that  *)
(* failed in the middle of a volume keeps the files it has read so far.     *)
MemoryIsOwned ==
  pc = "idle" => allocated = IF object = NULL THEN {} ELSE Owned

(* What the getters promise ("Retrieves the UTF-8 encoded executable        *)
(* filename"): the filename, of up to 16 characters.  Not so for one of 16  *)
(* without a terminator, though they are ASCII.                             *)
FilenameAsWritten ==
  kind = "source" => returned \subseteq {UpToEnd(entry.text)}
=============================================================================
