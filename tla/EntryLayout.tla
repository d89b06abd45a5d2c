----------------------------- MODULE EntryLayout -----------------------------
(***************************************************************************)
(* The structures of the uncompressed data (agdb_file_header.h,            *)
(* agdb_volume_information.h, agdb_file_information.h and                  *)
(* agdb_source_information.h), and how the library takes a field out of    *)
(* them: it casts the data to one of the structures and puts the bytes at  *)
(* the place of the field together, the least significant first.           *)
(*                                                                         *)
(* A structure is the sequence of its fields, each with its width in       *)
(* bytes.  Fields nobody reads keep the name they have in the source.      *)
(***************************************************************************)
EXTENDS Integers, Sequences, SequencesExt

CONSTANT MaximumAllocation   \* MEMORY_MAXIMUM_ALLOCATION_SIZE

ASSUME MaximumAssumption == MaximumAllocation \in Nat

\* No object, no string and no data: none of them is ever empty.
NULL == <<>>

FileHeader ==
  <<<<"unknown1", 4>>, <<"data_size", 4>>, <<"header_size", 4>>>>

DatabaseHeader ==
  <<<<"database_type", 4>>, <<"database_parameters", 36>>,
    <<"number_of_volumes", 4>>, <<"number_of_files", 4>>, <<"unknown3", 4>>,
    <<"number_of_sources", 4>>, <<"unknown4", 4>>, <<"unknown5", 4>>>>

\* The longer two go on with unknown fields.
DatabaseHeader116 ==
  DatabaseHeader \o
    <<<<"unknown6", 4>>, <<"unknown7", 4>>, <<"unknown8", 4>>,
      <<"unknown9", 4>>, <<"unknown10", 4>>, <<"unknown11", 4>>,
      <<"unknown12", 4>>, <<"unknown13", 4>>, <<"unknown14", 4>>,
      <<"unknown15", 4>>, <<"unknown16", 4>>, <<"unknown17", 4>>,
      <<"unknown18", 4>>>>

DatabaseHeader228 ==
  DatabaseHeader \o
    <<<<"unknown6", 4>>, <<"unknown7", 4>>, <<"unknown8", 4>>,
      <<"unknown9", 4>>, <<"unknown10", 4>>, <<"unknown11", 4>>,
      <<"unknown12", 4>>, <<"unknown13", 4>>, <<"unknown14", 4>>,
      <<"unknown15", 4>>, <<"unknown16", 4>>, <<"unknown17", 120>>>>

VolumeInformation56 ==
  <<<<"unknown1", 4>>, <<"unknown2", 4>>, <<"number_of_files", 4>>,
    <<"unknown3", 4>>, <<"unknown4", 8>>, <<"creation_time", 8>>,
    <<"serial_number", 4>>, <<"unknown5", 4>>, <<"unknown6", 4>>,
    <<"device_path_number_of_characters", 2>>, <<"unknown7", 2>>,
    <<"unknown9", 8>>>>

VolumeInformation72 ==
  <<<<"unknown1", 8>>, <<"unknown2", 8>>, <<"number_of_files", 4>>,
    <<"unknown3", 4>>, <<"unknown4", 8>>, <<"creation_time", 8>>,
    <<"serial_number", 4>>, <<"unknown5", 4>>, <<"unknown6", 8>>,
    <<"device_path_number_of_characters", 2>>, <<"unknown7", 2>>,
    <<"unknown8", 4>>, <<"unknown9", 8>>>>

FileInformation36 ==
  <<<<"unknown1", 4>>, <<"name_hash", 4>>, <<"number_of_entries", 4>>,
    <<"flags", 4>>, <<"unknown4a", 4>>, <<"unknown4b", 4>>,
    <<"unknown5", 4>>, <<"path_number_of_characters", 4>>,
    <<"unknown7", 4>>>>

FileInformation52 ==
  <<<<"unknown1", 4>>, <<"name_hash", 4>>, <<"number_of_entries", 4>>,
    <<"flags", 4>>, <<"unknown4a", 4>>, <<"unknown4b", 2>>,
    <<"unknown4c", 2>>, <<"unknown5a", 2>>, <<"unknown5b", 2>>,
    <<"path_number_of_characters", 4>>, <<"unknown7", 4>>,
    <<"unknown8", 2>>, <<"unknown9", 2>>, <<"unknown10", 2>>,
    <<"unknown11", 2>>, <<"unknown12", 4>>, <<"unknown13", 4>>>>

FileInformation56 ==
  <<<<"unknown1", 4>>, <<"name_hash", 4>>, <<"number_of_entries", 4>>,
    <<"flags", 4>>, <<"unknown4a", 4>>, <<"unknown4b", 4>>,
    <<"unknown5", 4>>, <<"path_number_of_characters", 4>>,
    <<"unknown7", 8>>, <<"unknown8a", 4>>, <<"unknown8b", 4>>,
    <<"file_reference", 8>>>>

FileInformation64 ==
  <<<<"unknown1", 8>>, <<"name_hash", 8>>, <<"number_of_entries", 4>>,
    <<"flags", 4>>, <<"unknown4a", 8>>, <<"unknown4b", 8>>,
    <<"unknown5a", 4>>, <<"unknown5b", 4>>,
    <<"path_number_of_characters", 4>>, <<"unknown6", 4>>,
    <<"unknown7", 8>>>>

FileInformation72 ==
  <<<<"unknown1", 4>>, <<"name_hash", 4>>, <<"number_of_entries", 4>>,
    <<"flags", 4>>, <<"unknown4a", 4>>, <<"unknown4b", 4>>,
    <<"unknown5", 4>>, <<"path_number_of_characters", 4>>,
    <<"unknown7a", 4>>, <<"unknown7b", 4>>, <<"unknown8a", 4>>,
    <<"unknown8b", 4>>, <<"unknown9a", 4>>, <<"unknown9b", 4>>,
    <<"unknown10a", 4>>, <<"unknown10b", 4>>, <<"unknown11a", 4>>,
    <<"unknown11b", 4>>>>

FileInformation88 ==
  <<<<"unknown1", 8>>, <<"name_hash", 8>>, <<"number_of_entries", 4>>,
    <<"flags", 4>>, <<"unknown4a", 8>>, <<"unknown4b", 4>>,
    <<"unknown4c", 4>>, <<"unknown5a", 4>>, <<"unknown5b", 4>>,
    <<"path_number_of_characters", 4>>, <<"unknown6", 4>>,
    <<"unknown7", 8>>, <<"unknown8a", 2>>, <<"unknown8b", 2>>,
    <<"unknown8c", 2>>, <<"unknown8d", 2>>, <<"unknown9", 8>>,
    <<"unknown10", 8>>>>

FileInformation112 ==
  <<<<"unknown1", 8>>, <<"name_hash", 8>>, <<"number_of_entries", 4>>,
    <<"flags", 4>>, <<"unknown4a", 8>>, <<"unknown4b", 8>>,
    <<"unknown5", 8>>, <<"path_number_of_characters", 4>>,
    <<"unknown6", 4>>, <<"unknown7", 8>>, <<"unknown8a", 4>>,
    <<"unknown8b", 4>>, <<"unknown9", 8>>, <<"unknown10", 8>>,
    <<"unknown11", 8>>, <<"unknown12", 8>>, <<"unknown13", 8>>>>

SourceInformation60 ==
  <<<<"unknown1", 4>>, <<"name_hash", 4>>, <<"unknown3", 4>>,
    <<"unknown4", 4>>, <<"unknown5", 4>>, <<"unknown6", 8>>,
    <<"unknown7", 4>>, <<"unknown8", 4>>, <<"unknown9", 4>>,
    <<"unknown10", 4>>, <<"unknown11", 16>>>>

SourceInformation88 ==
  <<<<"unknown1", 8>>, <<"name_hash", 8>>, <<"unknown3", 4>>,
    <<"unknown4", 4>>, <<"unknown5", 8>>, <<"unknown6", 16>>,
    <<"unknown7", 4>>, <<"unknown8", 4>>, <<"unknown9", 8>>,
    <<"unknown10", 8>>, <<"unknown11", 16>>>>

SourceInformation100 ==
  <<<<"unknown1", 4>>, <<"name_hash", 4>>, <<"unknown3", 4>>,
    <<"unknown4", 4>>, <<"unknown5", 12>>, <<"unknown6", 4>>,
    <<"unknown7", 4>>, <<"prefetch_hash", 4>>, <<"unknown9", 4>>,
    <<"executable_filename", 16>>, <<"unknown11", 4>>, <<"unknown12", 4>>,
    <<"unknown13", 4>>, <<"unknown14", 4>>, <<"unknown15", 4>>,
    <<"unknown16", 4>>, <<"unknown17", 4>>, <<"unknown18", 4>>,
    <<"unknown19", 4>>, <<"unknown20", 4>>>>

SourceInformation144 ==
  <<<<"unknown1", 8>>, <<"name_hash", 8>>, <<"unknown3", 4>>,
    <<"unknown4", 4>>, <<"unknown5", 24>>, <<"unknown6", 4>>,
    <<"unknown7", 4>>, <<"prefetch_hash", 8>>, <<"unknown9", 8>>,
    <<"executable_filename", 16>>, <<"unknown11", 8>>, <<"unknown12", 8>>,
    <<"unknown13", 4>>, <<"unknown14", 4>>, <<"unknown15", 4>>,
    <<"unknown16", 4>>, <<"unknown17", 4>>, <<"unknown18", 4>>,
    <<"unknown19", 8>>, <<"unknown20", 8>>>>

-----------------------------------------------------------------------------
\* Where each field ends, and with it the whole.
Ends(structure) ==
  LET end[i \in 0 .. Len(structure)] ==
        IF i = 0 THEN 0 ELSE end[i - 1] + structure[i][2]
  IN  end

SizeOf(structure) == Ends(structure)[Len(structure)]

FieldOf(structure, name) ==
  CHOOSE i \in DOMAIN structure : structure[i][1] = name

OffsetOf(structure, name) == Ends(structure)[FieldOf(structure, name) - 1]

WidthOf(structure, name) == structure[FieldOf(structure, name)][2]

\* ( (structure *) data )->name
FieldBytes(structure, data, name) ==
  SubSeq(data, OffsetOf(structure, name) + 1,
               OffsetOf(structure, name) + WidthOf(structure, name))

\* The number in each suffix of the bytes, from the empty one to all of them.
LittleEndians(bytes) ==
  LET number[i \in 0 .. Len(bytes)] ==
        IF i = 0 THEN 0
        ELSE bytes[Len(bytes) + 1 - i] + 256 * number[i - 1]
  IN  number

LittleEndian(bytes) == LittleEndians(bytes)[Len(bytes)]

FieldValue(structure, data, name) ==
  LittleEndian(FieldBytes(structure, data, name))

-----------------------------------------------------------------------------
(* What the writer of a database puts into a structure.                    *)

\* The bytes of a number, the least significant first.
Bytes(number, width) ==
  LET rest[i \in 0 .. width] == IF i = 0 THEN number ELSE rest[i - 1] \div 256
  IN  [i \in 1 .. width |-> rest[i - 1] % 256]

\* Fields are given bytes, as many as they have room for.
Fits(structure, fields) ==
  \A i \in DOMAIN structure :
    structure[i][1] \in DOMAIN fields =>
      /\ fields[structure[i][1]] \in Seq(0 .. 255)
      /\ Len(fields[structure[i][1]]) = structure[i][2]

Filler == 1   \* in a field the writer does not care for

Stored(structure, fields) ==
  FlattenSeq([i \in DOMAIN structure |->
    IF structure[i][1] \in DOMAIN fields THEN fields[structure[i][1]]
    ELSE [b \in 1 .. structure[i][2] |-> Filler]])
=============================================================================
