------------------------- MODULE MCEntryInformation -------------------------
(* Entries of every size the library knows and of one it does not, with     *)
(* strings that are empty, short, cut by a zero, too long to allocate or    *)
(* not ASCII.                                                               *)
EXTENDS EntryInformation

Text(n) == [i \in 1 .. n |-> 300 + i] \o <<0>>
Cut == <<301, 0, 303, 0>>

VolumeStructure(size) ==
  IF size = 56 THEN VolumeInformation56 ELSE VolumeInformation72

Volume(size, files, characters, text) ==
  [kind |-> "volume", entry_size |-> size,
   structure |-> VolumeStructure(size), text |-> text,
   fields |-> [number_of_files |-> Bytes(files, 4),
               creation_time |-> Bytes(70000, 8),
               serial_number |-> Bytes(300, 4),
               device_path_number_of_characters |-> Bytes(characters, 2)]]

FileStructures ==
  {FileInformation36, FileInformation52, FileInformation56,
   FileInformation64, FileInformation72, FileInformation88,
   FileInformation112}

\* The field of the path: a number of characters and two flags.
File(structure, size, entries, field, text) ==
  [kind |-> "file", entry_size |-> size, structure |-> structure,
   text |-> text,
   fields |-> [number_of_entries |-> Bytes(entries, 4),
               flags |-> Bytes(65537, 4),
               path_number_of_characters |-> Bytes(field, 4)]]

SourceStructures ==
  {SourceInformation60, SourceInformation88, SourceInformation100,
   SourceInformation144}

Filename(n) == [i \in 1 .. 16 |-> IF i <= n THEN 64 + i ELSE 0]

\* The last ASCII character, and bytes that are none.
NotAscii == <<127, 128, 255, 65>> \o Zeroes(12)

Source(structure, size, entries, filename) ==
  [kind |-> "source", entry_size |-> size, structure |-> structure,
   text |-> filename \o <<0>>,
   fields |-> [unknown3 |-> Bytes(entries, 4),
               executable_filename |-> filename]]

Volumes ==
  {Volume(size, files, 3, text) :
     size \in {56, 72}, files \in {0, 2}, text \in {Text(3), Cut}}
  \cup {Volume(72, 1, 0, <<>>), Volume(60, 1, 3, Text(3)),
        Volume(56, 0, 100, Text(3))}

Files ==
  {File(s, SizeOf(s), 2, 4 * 3 + flags, text) :
     s \in FileStructures, flags \in {0, 3}, text \in {Text(3), Cut}}
  \cup {File(FileInformation88, 88, 0, 0, <<>>),
        File(FileInformation36, 36, 1, 1, Text(0)),
        File(FileInformation64, 64, 0, 400, Text(3)),
        File(FileInformation36, 40, 1, 12, Text(3)),
        File(FileInformation112, 0, 1, 12, Text(3))}

MCEntries ==
  Volumes \cup Files
    \cup {Source(s, SizeOf(s), entries, filename) :
            s \in SourceStructures, entries \in {0, 2},
            filename \in {Filename(0), Filename(5), Filename(15), NotAscii}}
    \cup {Source(SourceInformation60, 64, 1, Filename(5))}

\* A filename that fills its field.
MCFullFilename ==
  {Source(s, SizeOf(s), 0, Filename(16)) :
     s \in {SourceInformation100, SourceInformation144}}

MCSubEntrySizes ==
  {[type1 |-> 16, type2 |-> 16], [type1 |-> 24, type2 |-> 20],
   [type1 |-> 24, type2 |-> 32], [type1 |-> 12, type2 |-> 24]}
=============================================================================
