-------------------------- MODULE UncompressedHeader --------------------------
(***************************************************************************)
(* libagdb_io_handle_read_uncompressed_file_header: the file header and    *)
(* the database header at the start of the uncompressed data, from which   *)
(* everything libagdb_file_open_read does next is controlled: the sizes of *)
(* the entries, kept in the IO handle, and the numbers of volumes and      *)
(* sources.  One IO handle reads one database after the other, with a      *)
(* clear when the file is closed and none when an open fails.              *)
(***************************************************************************)
EXTENDS EntryLayout

CONSTANT Streams   \* uncompressed data: [structure, fields, file, size]

\* The fields the library reads.
HeaderFields == {"database_type", "database_parameters", "number_of_volumes",
                 "number_of_sources"}

\* A header structure has the fields of DatabaseHeader, but for the last, and
\* may go on with others.
StartsAsHeader(structure) ==
  /\ Len(structure) >= 7
  /\ \A i \in 1 .. 7 : structure[i] = DatabaseHeader[i]
  /\ \A i \in 8 .. Len(structure) : structure[i][1] \notin HeaderFields

\* A stream is a file header and a database header, which the writer gave
\* these fields, cut off or continued up to the size.  A database header that
\* lacks a field that is read is shorter, by the file header, than the place
\* of the last field.
StreamWellWritten(s) ==
  /\ s.size \in Nat
  /\ {"unknown1", "data_size", "header_size"} \subseteq DOMAIN s.file
  /\ Fits(FileHeader, s.file)
  /\ s.structure \in Seq(STRING \X Nat)
  /\ HeaderFields \subseteq DOMAIN s.fields
  /\ Fits(s.structure, s.fields)
  /\ \/ StartsAsHeader(s.structure)
     \/ LittleEndian(s.file["header_size"])
          < SizeOf(FileHeader) + OffsetOf(DatabaseHeader, "unknown5")

ASSUME StreamAssumption == \A s \in Streams : StreamWellWritten(s)

VARIABLES
  stream,                 \* the data stream of the open that is running
  io_handle,              \* the fields of it the header sets
  volumes_information_offset, number_of_volumes, number_of_sources,
  header_size,            \* local
  database_header_data,   \* NULL, or what was allocated and read
  header_pc, header_result

outputs == <<volumes_information_offset, number_of_volumes,
             number_of_sources>>
header_vars == <<stream, io_handle, outputs, header_size,
                 database_header_data, header_pc, header_result>>

Parameters ==
  <<"volume_information_entry_size", "file_information_entry_size",
    "source_information_entry_size", "file_information_sub_entry_type1_size",
    "file_information_sub_entry_type2_size">>

Cleared == [p \in ToSet(Parameters) \cup {"database_type"} |-> 0]

\* What a stream holds.
StreamData(s) ==
  LET written == Stored(FileHeader, s.file) \o Stored(s.structure, s.fields)
  IN  [i \in 1 .. s.size |->
         IF i <= Len(written) THEN written[i] ELSE Filler]

HeaderInit ==
  /\ stream \in Streams
  /\ io_handle = Cleared
  /\ volumes_information_offset = 0
  /\ number_of_volumes = 0 /\ number_of_sources = 0
  /\ header_size = 0
  /\ database_header_data = NULL
  /\ header_pc = "idle" /\ header_result = "none"

\* libagdb_file_open_read calls it with its locals zero.
Begin ==
  /\ header_pc = "idle"
  /\ stream' \in Streams
  /\ volumes_information_offset' = 0
  /\ number_of_volumes' = 0 /\ number_of_sources' = 0 /\ header_size' = 0
  /\ header_pc' = "file_header" /\ header_result' = "none"
  /\ UNCHANGED <<io_handle, database_header_data>>

\* A read of the stream or the allocation fails, or a check does.
Fails ==
  /\ header_pc \in {"file_header", "database_header", "read"}
  /\ database_header_data' = NULL
  /\ header_pc' = "idle" /\ header_result' = "error"
  /\ UNCHANGED <<stream, io_handle, outputs, header_size>>

FileHeaderField(name) == FieldValue(FileHeader, StreamData(stream), name)

\* Mutant: the file header is subtracted before the size is checked.
ReadFileHeaderSubtracts ==
  /\ header_pc = "file_header"
  /\ stream.size >= SizeOf(FileHeader)
  /\ FileHeaderField("data_size") = stream.size
  /\ FileHeaderField("unknown1") = 14
  /\ header_size' = FileHeaderField("header_size") - SizeOf(FileHeader)
  /\ header_pc' = "database_header"
  /\ UNCHANGED <<stream, io_handle, outputs, database_header_data,
                 header_result>>

\* The size field has to be the size of the stream, and a database of another
\* type (AgAppLaunch.db) is not read any further.
ReadFileHeader ==
  /\ header_pc = "file_header"
  /\ stream.size >= SizeOf(FileHeader)
  /\ FileHeaderField("data_size") = stream.size
  /\ IF FileHeaderField("unknown1") # 14
     THEN /\ header_pc' = "idle" /\ header_result' = "ok"
          /\ UNCHANGED header_size
     ELSE /\ header_size' = FileHeaderField("header_size")
          /\ header_pc' = "database_header"
          /\ UNCHANGED header_result
  /\ UNCHANGED <<stream, io_handle, outputs, database_header_data>>

\* Mutant: the check lets a header pass that ends before the last field read.
MinimumHeaderSizeTooSmall == 52

\* Of the 64 bytes of the structure the first 60.
MinimumHeaderSize == 60

DatabaseHeaderSize == header_size - SizeOf(FileHeader)

\* What the memory holds before it is read into is never looked at.
AllocateHeader ==
  /\ header_pc = "database_header"
  /\ header_size >= SizeOf(FileHeader)
  /\ DatabaseHeaderSize \in MinimumHeaderSize .. MaximumAllocation
  /\ database_header_data' = [i \in 1 .. DatabaseHeaderSize |-> Filler]
  /\ header_pc' = "read"
  /\ UNCHANGED <<stream, io_handle, outputs, header_size, header_result>>

ReadDatabaseHeader ==
  /\ header_pc = "read"
  /\ SizeOf(FileHeader) + DatabaseHeaderSize <= stream.size
  /\ database_header_data' =
       SubSeq(StreamData(stream), SizeOf(FileHeader) + 1, header_size)
  /\ header_pc' = "decode"
  /\ UNCHANGED <<stream, io_handle, outputs, header_size, header_result>>

\* &( ( (agdb_database_header_t *) data )->database_parameters[ 4 * i ] )
Parameter(data, i) ==
  LittleEndian(SubSeq(FieldBytes(DatabaseHeader, data, "database_parameters"),
                      4 * i + 1, 4 * i + 4))

\* Mutant: the sub entry sizes are taken one parameter too far.
DecodedParametersSkipOne(data) ==
  [p \in ToSet(Parameters) |->
     LET i == CHOOSE j \in DOMAIN Parameters : Parameters[j] = p
     IN  IF i > 3 THEN Parameter(data, i) ELSE Parameter(data, i - 1)]

DecodedParameters(data) ==
  [p \in ToSet(Parameters) |->
     Parameter(data, (CHOOSE j \in DOMAIN Parameters : Parameters[j] = p) - 1)]

DecodeDatabaseHeader ==
  /\ header_pc = "decode"
  /\ LET data == database_header_data
         Field(name) == FieldValue(DatabaseHeader, data, name)
     IN  /\ io_handle' =
              [p \in DOMAIN io_handle |->
                 IF p = "database_type" THEN Field("database_type")
                 ELSE DecodedParameters(data)[p]]
         /\ number_of_volumes' = Field("number_of_volumes")
         /\ number_of_sources' = Field("number_of_sources")
  /\ volumes_information_offset' = header_size
  /\ database_header_data' = NULL
  /\ header_pc' = "idle" /\ header_result' = "ok"
  /\ UNCHANGED <<stream, header_size>>

\* libagdb_io_handle_clear, when the file is closed.
Clear ==
  /\ header_pc = "idle"
  /\ io_handle' = Cleared
  /\ UNCHANGED <<stream, outputs, header_size, database_header_data, header_pc,
                 header_result>>

HeaderNext ==
  Begin \/ ReadFileHeader \/ AllocateHeader \/ ReadDatabaseHeader
    \/ DecodeDatabaseHeader \/ Fails \/ Clear

HeaderSpec == HeaderInit /\ [][HeaderNext]_header_vars

-----------------------------------------------------------------------------
HeaderTypeOK ==
  /\ stream \in Streams
  /\ io_handle \in [DOMAIN Cleared -> Nat]
  /\ {volumes_information_offset, number_of_volumes, number_of_sources,
      header_size} \subseteq Nat
  /\ database_header_data # NULL => database_header_data \in Seq(0 .. 255)
  /\ header_pc \in {"idle", "file_header", "database_header", "read", "decode"}
  /\ header_result \in {"none", "ok", "error"}

\* The bytes the writer gave a field of this stream, which has it in full.
HeaderWritten(name) == LittleEndian(stream.fields[name])
WrittenParameter(p) ==
  LET i == CHOOSE j \in DOMAIN Parameters : Parameters[j] = p
  IN  LittleEndian(SubSeq(stream.fields["database_parameters"],
                          4 * i - 3, 4 * i))

(* When reading the header ends well, what it returns and the entry sizes   *)
(* in the IO handle are what the writer put into this database, whichever   *)
(* of the header structures it used and whatever database the IO handle     *)
(* described before; of a database of another type nothing is returned, so  *)
(* that entry sizes left over from a failed open are of no use to anyone.   *)
HeaderAsWritten ==
  [][header_pc # "idle" /\ header_result' = "ok" =>
       IF FileHeaderField("unknown1") = 14
       THEN /\ number_of_volumes' = HeaderWritten("number_of_volumes")
            /\ number_of_sources' = HeaderWritten("number_of_sources")
            /\ volumes_information_offset' =
                 LittleEndian(stream.file["header_size"])
            /\ \A p \in ToSet(Parameters) :
                 io_handle'[p] = WrittenParameter(p)
       ELSE outputs' = <<0, 0, 0>>]_header_vars

(* Every field is taken from inside the memory that was allocated for the   *)
(* header: the check of its size is 4 bytes short of the structure it is    *)
(* cast to, and no field that is read lies in those.                        *)
ReadsInsideHeader ==
  database_header_data # NULL =>
    \A name \in HeaderFields :
      OffsetOf(DatabaseHeader, name) + WidthOf(DatabaseHeader, name)
        <= Len(database_header_data)
=============================================================================
