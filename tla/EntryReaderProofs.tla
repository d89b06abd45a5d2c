-------------------------- MODULE EntryReaderProofs --------------------------
(***************************************************************************)
(* Proofs about EntryReader: type correctness, the agreement of the three  *)
(* levels of offsets with the offset of the stream, the tiling of the data *)
(* by the reads, and the alignment of the entries.                         *)
(***************************************************************************)
EXTENDS EntryReader, FiniteSetTheorems, TLAPS

LEMMA SumIsNat == \A a, b \in Nat : a + b \in Nat
  OBVIOUS

LEMMA PaddingFacts ==
  ASSUME NEW offset \in Nat, NEW alignment \in {4, 8}
  PROVE  /\ Padding(offset, alignment) \in Nat
         /\ (offset + Padding(offset, alignment)) % alignment = 0
  BY DEF Padding

LEMMA AlignmentFacts == VolumeAlignment \in {4, 8} /\ FileAlignment \in {4, 8}
  BY DEF VolumeAlignment, FileAlignment

\* Paths are UTF-16 strings with their terminator.
LEMMA PathFacts ==
  /\ \A characters \in Characters :
       /\ DevicePathSize(characters) \in Nat
       /\ DevicePathSize(characters) % 2 = 0
  /\ \A field \in PathFields :
       /\ PathSize(field) \in Nat
       /\ PathSize(field) % 2 = 0
  BY FieldAssumption DEF DevicePathSize, PathSize

LEMMA SizeFacts ==
  ASSUME NEW sizes \in Parameters \cup {NoSizes}
  PROVE  /\ sizes.volume \in Nat /\ sizes.file \in Nat /\ sizes.source \in Nat
         /\ sizes.type1 \in Nat /\ sizes.type2 \in Nat
  BY SizeAssumption DEF NoSizes

\* What any read of the stream does to the types.
LEMMA ReadTypes ==
  ASSUME TypeOK, NEW kind \in Kinds, NEW offset \in Nat, NEW size \in Nat,
         ReadAt(kind, offset, size)
  PROVE  /\ stream_size' \in StreamSizes
         /\ stream_offset' \in Nat
         /\ log' \in Seq([kind : Kinds, offset : Nat, size : Nat])
  BY DEF TypeOK, ReadAt

LEMMA InitTypes == Init => TypeOK
  BY DEF Init, TypeOK, Steps

LEMMA StepTypes == TypeOK /\ [Next]_vars => TypeOK'
<1> SUFFICES ASSUME TypeOK, [Next]_vars
             PROVE  TypeOK'
  OBVIOUS
<1> USE DEF TypeOK, Steps, VolumeSteps, FileSteps, ioVars, openVars, volumeVars,
            fileVars, entryVars, history
<1>0. /\ entry_size.volume \in Nat /\ entry_size.file \in Nat
      /\ entry_size.source \in Nat
      /\ entry_size.type1 \in Nat /\ entry_size.type2 \in Nat
  BY SizeFacts
<1>1. CASE ReadFileHeader
  BY <1>1, ReadTypes DEF ReadFileHeader, FileHeaderSize, Kinds
<1>2. CASE ReadDatabaseHeader
  <2>1. PICK header_size \in HeaderSizes :
          LET size == header_size - FileHeaderSize
          IN  /\ size >= MinimumDatabaseHeaderSize
              /\ ReadNext("database_header", size)
              /\ open_offset' = header_size
    BY <1>2 DEF ReadDatabaseHeader
  <2>2. header_size \in Nat /\ header_size - FileHeaderSize \in Nat
    BY <2>1, SizeAssumption DEF FileHeaderSize, MinimumDatabaseHeaderSize
  <2>3. /\ stream_size' \in StreamSizes /\ stream_offset' \in Nat
        /\ log' \in Seq([kind : Kinds, offset : Nat, size : Nat])
    BY <2>1, <2>2, ReadTypes DEF ReadNext, Kinds
  <2>4. QED
    BY <1>2, <2>1, <2>2, <2>3, FieldAssumption DEF ReadDatabaseHeader
<1>3. CASE ReadVolumePadding
  <2>1. Padding(open_offset, 8) \in Nat
    BY PaddingFacts
  <2>2. QED
    BY <1>3, <2>1, ReadTypes DEF ReadVolumePadding, ReadNext, Kinds
<1>4. CASE ReadVolumeEntry
  <2>1. /\ stream_size' \in StreamSizes /\ stream_offset' \in Nat
        /\ log' \in Seq([kind : Kinds, offset : Nat, size : Nat])
    BY <1>0, <1>4, ReadTypes DEF ReadVolumeEntry, Kinds
  <2>2. number_of_files' \in Nat /\ path_size' \in Nat /\ path_size' % 2 = 0
    BY <1>4, PathFacts, FieldAssumption DEF ReadVolumeEntry
  <2>3. declared_files' \in Nat
    <3>1. declared_files' = declared_files + number_of_files'
      BY <1>4 DEF ReadVolumeEntry
    <3>2. declared_files \in Nat /\ number_of_files' \in Nat
      BY <2>2
    <3>3. QED
      BY ONLY <3>1, <3>2, SumIsNat, Zenon
  <2>4. volume_offset' \in Nat /\ volume_total' \in Nat
    BY <1>0, <1>4 DEF ReadVolumeEntry
  <2>5. QED
    BY <1>4, <2>1, <2>2, <2>3, <2>4 DEF ReadVolumeEntry
<1>5. CASE ReadDevicePath
  BY <1>5, ReadTypes DEF ReadDevicePath, ReadNext, Kinds
<1>6. CASE ReadDevicePathPadding
  <2>1. Padding(volume_offset, VolumeAlignment) \in Nat
    BY PaddingFacts, AlignmentFacts
  <2>2. QED
    BY <1>6, <2>1, ReadTypes DEF ReadDevicePathPadding, ReadNext, Kinds
<1>7. CASE BeginFile
  BY <1>7 DEF BeginFile
<1>8. CASE EndVolume
  BY <1>8 DEF EndVolume
<1>9. CASE ReadFileEntry
  <2>1. /\ stream_size' \in StreamSizes /\ stream_offset' \in Nat
        /\ log' \in Seq([kind : Kinds, offset : Nat, size : Nat])
    BY <1>0, <1>9, ReadTypes DEF ReadFileEntry, Kinds
  <2>2. number_of_entries' \in Nat /\ path_size' \in Nat /\ path_size' % 2 = 0
    BY <1>9, PathFacts, FieldAssumption DEF ReadFileEntry
  <2>3. declared_entries' \in Nat
    <3>1. declared_entries' = declared_entries + number_of_entries'
      BY <1>9 DEF ReadFileEntry
    <3>2. declared_entries \in Nat /\ number_of_entries' \in Nat
      BY <2>2
    <3>3. QED
      BY ONLY <3>1, <3>2, SumIsNat, Zenon
  <2>4. file_offset' \in Nat /\ file_total' \in Nat
    BY <1>0, <1>9 DEF ReadFileEntry
  <2>5. QED
    BY <1>9, <2>1, <2>2, <2>3, <2>4 DEF ReadFileEntry
<1>10. CASE ReadPath
  BY <1>10, ReadTypes DEF ReadPath, ReadNext, Kinds
<1>11. CASE ReadPathPadding
  <2>1. Padding(file_offset, FileAlignment) \in Nat
    BY PaddingFacts, AlignmentFacts
  <2>2. QED
    BY <1>11, <2>1, ReadTypes DEF ReadPathPadding, ReadNext, Kinds
<1>12. CASE ReadSubEntry
  <2>1. /\ stream_size' \in StreamSizes /\ stream_offset' \in Nat
        /\ log' \in Seq([kind : Kinds, offset : Nat, size : Nat])
    BY <1>0, <1>12, ReadTypes DEF ReadSubEntry, ReadNext, Kinds
  <2>2. QED
    BY <1>0, <1>12, <2>1 DEF ReadSubEntry
<1>13. CASE EndFile
  BY <1>13 DEF EndFile
<1>14. CASE EndVolumes
  BY <1>14 DEF EndVolumes
<1>15. CASE ReadSourceEntry
  <2>1. /\ stream_size' \in StreamSizes /\ stream_offset' \in Nat
        /\ log' \in Seq([kind : Kinds, offset : Nat, size : Nat])
    BY <1>0, <1>15, ReadTypes DEF ReadSourceEntry, Kinds
  <2>2. number_of_entries' \in Nat
    BY <1>15, PathFacts, FieldAssumption DEF ReadSourceEntry
  <2>3. declared_entries' \in Nat
    <3>1. declared_entries' = declared_entries + number_of_entries'
      BY <1>15 DEF ReadSourceEntry
    <3>2. declared_entries \in Nat /\ number_of_entries' \in Nat
      BY <2>2
    <3>3. QED
      BY ONLY <3>1, <3>2, SumIsNat, Zenon
  <2>4. source_total' \in Nat
    BY <1>0, <1>15 DEF ReadSourceEntry
  <2>5. QED
    BY <1>15, <2>1, <2>2, <2>3, <2>4 DEF ReadSourceEntry
<1>16. CASE ReadSourceSubEntry
  BY <1>0, <1>16, ReadTypes DEF ReadSourceSubEntry, ReadNext, Kinds
<1>17. CASE EndSource
  BY <1>17 DEF EndSource
<1>18. CASE EndSources
  BY <1>18 DEF EndSources
<1>19. CASE Fails
  BY <1>19 DEF Fails
<1>20. CASE UNCHANGED vars
  BY <1>20 DEF vars
<1>21. QED
  BY <1>1, <1>2, <1>3, <1>4, <1>5, <1>6, <1>7, <1>8, <1>9, <1>10, <1>11,
     <1>12, <1>13, <1>14, <1>15, <1>16, <1>17, <1>18, <1>19, <1>20 DEF Next

(* Type correctness of the walk, for any sizes, counts and fields.          *)
THEOREM TypeCorrect == Spec => []TypeOK
<1>1. QED
  BY InitTypes, StepTypes, PTL DEF Spec

-----------------------------------------------------------------------------
(* The offsets.  CursorsAgree says nothing of the two header steps, where   *)
(* the stream stands at 0 and at the end of the file header, and it leaves  *)
(* out that a function begins with a total of 0.                            *)
Beginnings ==
  /\ pc = "file_header" => stream_offset = 0
  /\ pc = "database_header" => stream_offset = FileHeaderSize
  /\ pc = "volume_entry" => volume_total = 0
  /\ pc = "file_entry" => file_total = 0

Cursors == TypeOK /\ Beginnings /\ CursorsAgree

LEMMA InitCursors == Init => Cursors
  BY InitTypes DEF Init, Cursors, Beginnings, CursorsAgree, VolumeSteps,
                   FileSteps

\* The numbers the offsets are made of, in the state before a step.
LEMMA OffsetTypes ==
  ASSUME TypeOK
  PROVE  /\ stream_offset \in Nat /\ open_offset \in Nat
         /\ volume_offset \in Nat /\ volume_total \in Nat
         /\ file_offset \in Nat /\ file_total \in Nat /\ source_total \in Nat
         /\ path_size \in Nat
         /\ entry_size.volume \in Nat /\ entry_size.file \in Nat
         /\ entry_size.source \in Nat
         /\ entry_size.type1 \in Nat /\ entry_size.type2 \in Nat
  BY SizeFacts DEF TypeOK

LEMMA StepCursors == Cursors /\ [Next]_vars => Cursors'
<1> SUFFICES ASSUME Cursors, [Next]_vars
             PROVE  (Beginnings /\ CursorsAgree)'
  BY StepTypes DEF Cursors
<1> USE DEF Beginnings, CursorsAgree, VolumeSteps, FileSteps, ioVars,
            openVars, volumeVars, fileVars, entryVars, history
<1>0. TypeOK /\ Beginnings /\ CursorsAgree
  BY DEF Cursors
<1>1. CASE ReadFileHeader
  BY <1>1 DEF ReadFileHeader, ReadAt, FileHeaderSize
<1>2. CASE ReadDatabaseHeader
  <2>1. PICK header_size \in HeaderSizes :
          /\ ReadNext("database_header", header_size - FileHeaderSize)
          /\ open_offset' = header_size
    BY <1>2 DEF ReadDatabaseHeader
  <2>2. header_size \in Nat
    BY SizeAssumption
  <2>3. stream_offset' = header_size
    BY <1>0, <1>2, <2>1, <2>2
       DEF ReadDatabaseHeader, ReadNext, ReadAt, FileHeaderSize
  <2>4. QED
    BY <1>2, <2>1, <2>3 DEF ReadDatabaseHeader
<1>3. CASE ReadVolumePadding
  <2>1. Padding(open_offset, 8) \in Nat
    BY <1>0, OffsetTypes, PaddingFacts
  <2>2. QED
    BY <1>0, <1>3, <2>1, OffsetTypes DEF ReadVolumePadding, ReadNext, ReadAt
<1>4. CASE ReadVolumeEntry
  <2>1. /\ pc' \in {"device_path", "files"}
        /\ volume_offset' = stream_offset'
        /\ open_offset' = open_offset
        /\ volume_offset' = volume_offset + entry_size.volume
        /\ volume_total' = volume_total + entry_size.volume
    BY <1>4 DEF ReadVolumeEntry, ReadAt
  <2>2. volume_total = 0 /\ volume_offset = open_offset
    BY <1>0, <1>4 DEF ReadVolumeEntry
  <2>3. QED
    BY <1>0, <2>1, <2>2, OffsetTypes
<1>5. CASE ReadDevicePath
  BY <1>0, <1>5, OffsetTypes DEF ReadDevicePath, ReadNext, ReadAt
<1>6. CASE ReadDevicePathPadding
  <2>1. Padding(volume_offset, VolumeAlignment) \in Nat
    BY <1>0, OffsetTypes, PaddingFacts, AlignmentFacts
  <2>2. QED
    BY <1>0, <1>6, <2>1, OffsetTypes
       DEF ReadDevicePathPadding, ReadNext, ReadAt
<1>7. CASE BeginFile
  BY <1>0, <1>7, OffsetTypes DEF BeginFile
<1>8. CASE EndVolume
  BY <1>0, <1>8, OffsetTypes DEF EndVolume
<1>9. CASE ReadFileEntry
  <2>1. /\ pc' \in {"path", "sub_entries"}
        /\ file_offset' = stream_offset'
        /\ open_offset' = open_offset
        /\ volume_offset' = volume_offset
        /\ volume_total' = volume_total
        /\ file_offset' = file_offset + entry_size.file
        /\ file_total' = file_total + entry_size.file
    BY <1>9 DEF ReadFileEntry, ReadAt
  <2>2. /\ file_total = 0 /\ file_offset = volume_offset
        /\ open_offset + volume_total = volume_offset
    BY <1>0, <1>9 DEF ReadFileEntry
  <2>3. QED
    BY <1>0, <2>1, <2>2, OffsetTypes
<1>10. CASE ReadPath
  BY <1>0, <1>10, OffsetTypes DEF ReadPath, ReadNext, ReadAt
<1>11. CASE ReadPathPadding
  <2>1. Padding(file_offset, FileAlignment) \in Nat
    BY <1>0, OffsetTypes, PaddingFacts, AlignmentFacts
  <2>2. QED
    <3> DEFINE padding == Padding(file_offset, FileAlignment)
    <3>1. /\ pc = "path_padding" /\ pc' = "sub_entries"
          /\ file_offset' = file_offset + padding
          /\ file_total' = file_total + padding
          /\ open_offset' = open_offset
          /\ volume_offset' = volume_offset
          /\ volume_total' = volume_total
      BY <1>11 DEF ReadPathPadding
    <3>2. stream_offset' = stream_offset + padding
      BY <1>0, <1>11, OffsetTypes DEF ReadPathPadding, ReadNext, ReadAt
    <3>3. QED
      BY <1>0, <2>1, <3>1, <3>2, OffsetTypes
<1>12. CASE ReadSubEntry
  <2>1. /\ pc = "sub_entries" /\ pc' = pc
        /\ file_offset' = file_offset + entry_size.type1
        /\ file_total' = file_total + entry_size.type1
        /\ stream_offset' = stream_offset + entry_size.type1
        /\ open_offset' = open_offset
        /\ volume_offset' = volume_offset
        /\ volume_total' = volume_total
    BY <1>12 DEF ReadSubEntry, ReadNext, ReadAt
  <2>2. QED
    BY <1>0, <2>1, OffsetTypes
<1>13. CASE EndFile
  BY <1>0, <1>13, OffsetTypes DEF EndFile
<1>14. CASE EndVolumes
  BY <1>0, <1>14 DEF EndVolumes
<1>15. CASE ReadSourceEntry
  BY <1>0, <1>15, OffsetTypes DEF ReadSourceEntry, ReadAt
<1>16. CASE ReadSourceSubEntry
  BY <1>0, <1>16, OffsetTypes DEF ReadSourceSubEntry, ReadNext, ReadAt
<1>17. CASE EndSource
  BY <1>0, <1>17, OffsetTypes DEF EndSource
<1>18. CASE EndSources
  BY <1>18 DEF EndSources
<1>19. CASE Fails
  BY <1>19 DEF Fails
<1>20. CASE UNCHANGED vars
  BY <1>0, <1>20 DEF vars
<1>21. QED
  BY <1>1, <1>2, <1>3, <1>4, <1>5, <1>6, <1>7, <1>8, <1>9, <1>10, <1>11,
     <1>12, <1>13, <1>14, <1>15, <1>16, <1>17, <1>18, <1>19, <1>20 DEF Next

(* The three offsets of the functions and the offset of the stream never    *)
(* come apart, for any sizes and counts in the data.                        *)
THEOREM OffsetsAgree == Spec => []CursorsAgree
<1>1. Cursors => CursorsAgree
  BY DEF Cursors
<1>2. QED
  BY InitCursors, StepCursors, <1>1, PTL DEF Spec

-----------------------------------------------------------------------------
(* The reads.  Wherever a step reads, it reads where the stream stands: this *)
(* is what the agreement of the offsets is for.                              *)
LEMMA EveryRead ==
  ASSUME Cursors, [Next]_vars
  PROVE  \/ UNCHANGED ioVars
         \/ \E kind \in Kinds, size \in Nat : ReadAt(kind, stream_offset, size)
<1> USE DEF Kinds
<1>0. TypeOK /\ Beginnings /\ CursorsAgree
  BY DEF Cursors
<1>1. CASE ReadFileHeader
  BY <1>0, <1>1 DEF ReadFileHeader, Beginnings, FileHeaderSize
<1>2. CASE ReadDatabaseHeader
  <2>1. PICK size \in Nat : ReadNext("database_header", size)
    <3>1. PICK header_size \in HeaderSizes :
            /\ header_size - FileHeaderSize >= MinimumDatabaseHeaderSize
            /\ ReadNext("database_header", header_size - FileHeaderSize)
      BY <1>2 DEF ReadDatabaseHeader
    <3>2. header_size - FileHeaderSize \in Nat
      BY <3>1, SizeAssumption DEF FileHeaderSize, MinimumDatabaseHeaderSize
    <3>3. QED
      BY <3>1, <3>2
  <2>2. QED
    BY <2>1 DEF ReadNext
<1>3. CASE ReadVolumePadding
  <2>1. Padding(open_offset, 8) \in Nat
    BY <1>0, OffsetTypes, PaddingFacts
  <2>2. QED
    BY <1>3, <2>1 DEF ReadVolumePadding, ReadNext
<1>4. CASE ReadVolumeEntry
  BY <1>0, <1>4, OffsetTypes DEF ReadVolumeEntry, CursorsAgree
<1>5. CASE ReadDevicePath
  BY <1>0, <1>5, OffsetTypes DEF ReadDevicePath, ReadNext
<1>6. CASE ReadDevicePathPadding
  <2>1. Padding(volume_offset, VolumeAlignment) \in Nat
    BY <1>0, OffsetTypes, PaddingFacts, AlignmentFacts
  <2>2. QED
    BY <1>6, <2>1 DEF ReadDevicePathPadding, ReadNext
<1>7. CASE ReadFileEntry
  BY <1>0, <1>7, OffsetTypes DEF ReadFileEntry, CursorsAgree
<1>8. CASE ReadPath
  BY <1>0, <1>8, OffsetTypes DEF ReadPath, ReadNext
<1>9. CASE ReadPathPadding
  <2>1. Padding(file_offset, FileAlignment) \in Nat
    BY <1>0, OffsetTypes, PaddingFacts, AlignmentFacts
  <2>2. QED
    BY <1>9, <2>1 DEF ReadPathPadding, ReadNext
<1>10. CASE ReadSubEntry
  BY <1>0, <1>10, OffsetTypes DEF ReadSubEntry, ReadNext
<1>11. CASE ReadSourceEntry
  BY <1>0, <1>11, OffsetTypes DEF ReadSourceEntry, CursorsAgree
<1>12. CASE ReadSourceSubEntry
  BY <1>0, <1>12, OffsetTypes DEF ReadSourceSubEntry, ReadNext
<1>13. CASE BeginFile \/ EndVolume \/ EndFile \/ EndVolumes \/ EndSource
            \/ EndSources \/ Fails \/ UNCHANGED vars
  BY <1>13 DEF BeginFile, EndVolume, EndFile, EndVolumes, EndSource,
               EndSources, Fails, vars
<1>14. QED
  BY <1>1, <1>2, <1>3, <1>4, <1>5, <1>6, <1>7, <1>8, <1>9, <1>10, <1>11,
     <1>12, <1>13 DEF Next

LEMMA InitTiles == Init => ReadsTile
  BY SizeAssumption DEF Init, ReadsTile

LEMMA ReadKeepsTiling ==
  ASSUME TypeOK, ReadsTile, NEW kind \in Kinds, NEW size \in Nat,
         ReadAt(kind, stream_offset, size)
  PROVE  ReadsTile'
<1> DEFINE entry == [kind |-> kind, offset |-> stream_offset, size |-> size]
<1>1. /\ log \in Seq([kind : Kinds, offset : Nat, size : Nat])
      /\ entry \in [kind : Kinds, offset : Nat, size : Nat]
      /\ stream_offset \in Nat /\ stream_size \in Nat
  BY SizeAssumption DEF TypeOK
<1>2. /\ log' = Append(log, entry)
      /\ stream_offset' = stream_offset + size
      /\ stream_offset + size <= stream_size
      /\ stream_size' = stream_size
  BY DEF ReadAt
<1>3. /\ Len(log') = Len(log) + 1
      /\ log'[Len(log) + 1] = entry
      /\ \A i \in 1 .. Len(log) : log'[i] = log[i]
  BY <1>1, <1>2
<1>4. stream_offset' = log'[Len(log')].offset + log'[Len(log')].size
  BY <1>1, <1>2, <1>3
<1>5. ASSUME NEW i \in 1 .. Len(log')
      PROVE  log'[i].offset =
               IF i = 1 THEN 0 ELSE log'[i - 1].offset + log'[i - 1].size
  <2>1. CASE i \in 1 .. Len(log)
    <3>0. Len(log) \in Nat
      BY <1>1
    <3>1. log'[i] = log[i] /\ (i # 1 => log'[i - 1] = log[i - 1])
      <4>1. i # 1 => i - 1 \in 1 .. Len(log)
        BY <2>1, <3>0
      <4>2. QED
        BY <1>3, <2>1, <4>1, Zenon
    <3>2. log[i].offset = IF i = 1 THEN 0
                          ELSE log[i - 1].offset + log[i - 1].size
      BY <2>1 DEF ReadsTile
    <3>3. QED
      BY <3>1, <3>2
  <2>2. CASE i = Len(log) + 1
    <3>1. CASE log = <<>>
      BY <1>1, <1>3, <2>2, <3>1 DEF ReadsTile
    <3>2. CASE log # <<>>
      <4>1. Len(log) \in 1 .. Len(log) /\ i - 1 = Len(log) /\ i # 1
        BY <1>1, <2>2, <3>2
      <4>2. stream_offset = log[Len(log)].offset + log[Len(log)].size
        BY <3>2 DEF ReadsTile
      <4>3. log'[i].offset = stream_offset
        BY <1>3, <2>2
      <4>4. log'[i - 1] = log[Len(log)]
        BY <1>3, <4>1
      <4>5. QED
        BY <4>1, <4>2, <4>3, <4>4
    <3>3. QED
      BY <3>1, <3>2
  <2>3. QED
    BY <1>1, <1>3, <2>1, <2>2
<1>6. log' # <<>>
  BY <1>1, <1>2
<1>7. QED
  BY <1>2, <1>4, <1>5, <1>6 DEF ReadsTile

(* The reads of the open cover the data from its start without a gap and    *)
(* without reading a byte twice, whatever the sizes and the counts say.     *)
THEOREM EveryByteOnce == Spec => []ReadsTile
<1>1. Cursors /\ ReadsTile /\ [Next]_vars => ReadsTile'
  <2> SUFFICES ASSUME Cursors, ReadsTile, [Next]_vars
               PROVE  ReadsTile'
    OBVIOUS
  <2>1. CASE UNCHANGED ioVars
    BY <2>1 DEF ioVars, ReadsTile
  <2>2. CASE \E kind \in Kinds, size \in Nat : ReadAt(kind, stream_offset, size)
    BY <2>2, ReadKeepsTiling DEF Cursors
  <2>3. QED
    BY <2>1, <2>2, EveryRead
<1>2. QED
  BY InitCursors, StepCursors, InitTiles, <1>1, PTL DEF Spec

-----------------------------------------------------------------------------
(* The alignment of the entries.                                            *)
Aligned(offset) ==
  /\ offset % 4 = 0
  /\ entry_size.volume = 72 /\ entry_size.file \in Sizes64 => offset % 8 = 0

\* Where the offset of a function is aligned.  The entry sizes are set when
\* no entry has been read.
OffsetsAligned ==
  /\ pc \in {"file_header", "database_header"} =>
       \A i \in 1 .. Len(log) : log[i].kind = "header"
  /\ pc = "volume_entry" => volume_offset % 8 = 0
  /\ pc = "files" => Aligned(volume_offset)
  /\ pc = "file_entry" => Aligned(file_offset)
  /\ pc = "sub_entries" => Aligned(file_offset)

Alignment == OffsetsAligned /\ EntriesAligned

LEMMA InitAlignment == Init => Alignment
  BY DEF Init, Alignment, OffsetsAligned, EntriesAligned

LEMMA AlignedByEight ==
  ASSUME NEW offset \in Nat, offset % 8 = 0
  PROVE  Aligned(offset)
<1>1. offset % 4 = 0
  OBVIOUS
<1>2. QED
  BY <1>1 DEF Aligned

LEMMA SumsModulo ==
  ASSUME NEW a \in Nat, NEW b \in Nat
  PROVE  /\ a % 4 = 0 /\ b % 4 = 0 => (a + b) % 4 = 0
         /\ a % 8 = 0 /\ b % 8 = 0 => (a + b) % 8 = 0
  OBVIOUS

\* The sum of an aligned offset and the size of a file or sub entry.
LEMMA AlignedSum ==
  ASSUME NEW offset \in Nat, NEW size \in Nat, Aligned(offset),
         \/ size % 8 = 0
         \/ size % 4 = 0 /\ entry_size.file \notin Sizes64
  PROVE  Aligned(offset + size)
  BY SumsModulo DEF Aligned

\* A padded path takes a function to an aligned offset.
LEMMA AlignedByPadding ==
  ASSUME TypeOK, NEW offset \in Nat
  PROVE  /\ Aligned(offset + Padding(offset, VolumeAlignment))
         /\ Aligned(offset + Padding(offset, FileAlignment))
<1>1. Padding(offset, VolumeAlignment) \in Nat
      /\ Padding(offset, FileAlignment) \in Nat
  BY AlignmentFacts, PaddingFacts
<1>2. (offset + Padding(offset, VolumeAlignment)) % VolumeAlignment = 0
  BY AlignmentFacts, PaddingFacts
<1>3. (offset + Padding(offset, FileAlignment)) % FileAlignment = 0
  BY AlignmentFacts, PaddingFacts
<1>4. Aligned(offset + Padding(offset, VolumeAlignment))
  <2>1. CASE entry_size.volume = 56
    <3>1. VolumeAlignment = 4 /\ entry_size.volume # 72
      BY <2>1 DEF VolumeAlignment
    <3>2. QED
      BY <1>2, <3>1 DEF Aligned
  <2>2. CASE entry_size.volume # 56
    <3>1. VolumeAlignment = 8
      BY <2>2 DEF VolumeAlignment
    <3>2. offset + Padding(offset, VolumeAlignment) \in Nat
      BY <1>1, SumIsNat
    <3>3. (offset + Padding(offset, VolumeAlignment)) % 8 = 0
      BY <1>2, <3>1
    <3>4. QED
      BY <3>2, <3>3, AlignedByEight
  <2>3. QED
    BY <2>1, <2>2
<1>5. Aligned(offset + Padding(offset, FileAlignment))
  <2>1. CASE entry_size.file \in Sizes32
    <3>1. FileAlignment = 4 /\ entry_size.file \notin Sizes64
      BY <2>1 DEF FileAlignment, Sizes32, Sizes64
    <3>2. QED
      BY <1>3, <3>1 DEF Aligned
  <2>2. CASE entry_size.file \notin Sizes32
    <3>1. FileAlignment = 8
      BY <2>2 DEF FileAlignment
    <3>2. offset + Padding(offset, FileAlignment) \in Nat
      BY <1>1, SumIsNat
    <3>3. (offset + Padding(offset, FileAlignment)) % 8 = 0
      BY <1>3, <3>1
    <3>4. QED
      BY <3>2, <3>3, AlignedByEight
  <2>3. QED
    BY <2>1, <2>2
<1>6. QED
  BY <1>4, <1>5

\* Reading an entry where the format puts it keeps the entries aligned.
LEMMA AlignedRead ==
  ASSUME TypeOK, EntriesAligned, UNCHANGED entry_size,
         NEW kind \in Kinds, NEW offset \in Nat, NEW size \in Nat,
         ReadAt(kind, offset, size),
         kind = "volume" => offset % 8 = 0,
         kind = "file" => Aligned(offset)
  PROVE  EntriesAligned'
<1> DEFINE entry == [kind |-> kind, offset |-> offset, size |-> size]
<1>1. /\ log \in Seq([kind : Kinds, offset : Nat, size : Nat])
      /\ entry \in [kind : Kinds, offset : Nat, size : Nat]
  BY DEF TypeOK
<1>2. log' = Append(log, entry)
  BY DEF ReadAt
<1>3. /\ Len(log') = Len(log) + 1 /\ Len(log) \in Nat
      /\ log'[Len(log) + 1] = entry
      /\ \A i \in 1 .. Len(log) : log'[i] = log[i]
  BY <1>1, <1>2
<1>4. ASSUME NEW i \in 1 .. Len(log')
      PROVE  \/ i \in 1 .. Len(log) /\ log'[i] = log[i]
             \/ log'[i] = entry
  BY <1>3
<1>5. QED
  BY <1>4 DEF EntriesAligned, Aligned

\* A step that reads nothing, or no entry, only has to align its offsets.
LEMMA OtherRead ==
  ASSUME TypeOK, EntriesAligned, UNCHANGED entry_size,
         \/ UNCHANGED log
         \/ \E kind \in Kinds \ {"volume", "file"}, size \in Nat :
              ReadAt(kind, stream_offset, size)
  PROVE  EntriesAligned'
<1>1. CASE UNCHANGED log
  BY <1>1 DEF EntriesAligned
<1>2. CASE \E kind \in Kinds \ {"volume", "file"}, size \in Nat :
             ReadAt(kind, stream_offset, size)
  <2>1. PICK kind \in Kinds \ {"volume", "file"}, size \in Nat :
          ReadAt(kind, stream_offset, size)
    BY <1>2
  <2>2. stream_offset \in Nat /\ kind \in Kinds
        /\ kind # "volume" /\ kind # "file"
    BY OffsetTypes
  <2>3. QED
    BY <2>1, <2>2, AlignedRead
<1>3. QED
  BY <1>1, <1>2

\* Before the entry sizes are known only the headers have been read.
LEMMA HeadersAligned ==
  ASSUME TypeOK, \A i \in 1 .. Len(log) : log[i].kind = "header",
         NEW kind \in {"header", "database_header"},
         NEW offset \in Nat, NEW size \in Nat,
         ReadAt(kind, offset, size)
  PROVE  /\ EntriesAligned'
         /\ kind = "header" =>
              \A i \in 1 .. Len(log') : log'[i].kind = "header"
<1> DEFINE entry == [kind |-> kind, offset |-> offset, size |-> size]
<1>1. /\ log \in Seq([kind : Kinds, offset : Nat, size : Nat])
      /\ entry \in [kind : Kinds, offset : Nat, size : Nat]
  BY DEF TypeOK, Kinds
<1>2. log' = Append(log, entry)
  BY DEF ReadAt
<1>3. /\ Len(log') = Len(log) + 1 /\ Len(log) \in Nat
      /\ log'[Len(log) + 1] = entry
      /\ \A i \in 1 .. Len(log) : log'[i] = log[i]
  BY <1>1, <1>2
<1>4. ASSUME NEW i \in 1 .. Len(log')
      PROVE  /\ log'[i].kind \in {"header", "database_header"}
             /\ kind = "header" => log'[i].kind = "header"
  BY <1>3
<1>5. QED
  BY <1>4 DEF EntriesAligned

LEMMA StepAlignment == Cursors /\ Alignment /\ [Next]_vars => Alignment'
<1> SUFFICES ASSUME Cursors, Alignment, [Next]_vars
             PROVE  OffsetsAligned' /\ EntriesAligned'
  BY DEF Alignment
<1>0. TypeOK /\ CursorsAgree /\ OffsetsAligned /\ EntriesAligned
  BY DEF Cursors, Alignment
<1>1. CASE ReadFileHeader
  BY <1>0, <1>1, HeadersAligned
     DEF ReadFileHeader, OffsetsAligned, FileHeaderSize
<1>2. CASE ReadDatabaseHeader
  <2>1. PICK size \in Nat : ReadAt("database_header", stream_offset, size)
    <3>1. PICK header_size \in HeaderSizes :
            /\ header_size - FileHeaderSize >= MinimumDatabaseHeaderSize
            /\ ReadNext("database_header", header_size - FileHeaderSize)
      BY <1>2 DEF ReadDatabaseHeader
    <3>2. header_size - FileHeaderSize \in Nat
      BY <3>1, SizeAssumption DEF FileHeaderSize, MinimumDatabaseHeaderSize
    <3>3. QED
      BY <3>1, <3>2 DEF ReadNext
  <2>2. pc = "database_header" /\ pc' = "volumes"
    BY <1>2 DEF ReadDatabaseHeader
  <2>3. EntriesAligned'
    BY <1>0, <2>1, <2>2, OffsetTypes, HeadersAligned DEF OffsetsAligned
  <2>4. QED
    BY <2>2, <2>3 DEF OffsetsAligned
<1>3. CASE ReadVolumePadding
  <2>1. /\ Padding(open_offset, 8) \in Nat
        /\ (open_offset + Padding(open_offset, 8)) % 8 = 0
    BY <1>0, OffsetTypes, PaddingFacts
  <2>2. EntriesAligned'
    BY <1>0, <1>3, <2>1, OtherRead DEF ReadVolumePadding, ReadNext, ioVars, Kinds
  <2>3. /\ volume_offset' = open_offset + Padding(open_offset, 8)
        /\ pc' = "volume_entry"
    BY <1>3 DEF ReadVolumePadding
  <2>4. QED
    BY <2>1, <2>2, <2>3 DEF OffsetsAligned
<1>4. CASE ReadVolumeEntry
  <2>1. /\ volume_offset % 8 = 0 /\ volume_offset \in Nat
        /\ entry_size.volume \in {56, 72} /\ entry_size.volume \in Nat
        /\ ReadAt("volume", volume_offset, entry_size.volume)
        /\ volume_offset' = volume_offset + entry_size.volume
        /\ UNCHANGED entry_size
        /\ pc' \in {"device_path", "files"}
    BY <1>0, <1>4, OffsetTypes DEF ReadVolumeEntry, OffsetsAligned
  <2>2. EntriesAligned'
    BY <1>0, <2>1, AlignedRead DEF Kinds
  <2>3. Aligned(volume_offset + entry_size.volume)
    <3>1. entry_size.volume % 8 = 0
      BY <2>1
    <3>2. QED
      BY <2>1, <3>1, AlignedByEight, AlignedSum
  <2>4. QED
    BY <2>1, <2>2, <2>3 DEF OffsetsAligned, Aligned
<1>5. CASE ReadDevicePath
  <2>1. EntriesAligned'
    BY <1>0, <1>5, OffsetTypes, OtherRead DEF ReadDevicePath, ReadNext, Kinds
  <2>2. QED
    BY <1>5, <2>1 DEF ReadDevicePath, OffsetsAligned
<1>6. CASE ReadDevicePathPadding
  <2>1. Padding(volume_offset, VolumeAlignment) \in Nat
    BY <1>0, OffsetTypes, PaddingFacts, AlignmentFacts
  <2>2. EntriesAligned'
    BY <1>0, <1>6, <2>1, OtherRead
       DEF ReadDevicePathPadding, ReadNext, ioVars, Kinds
  <2>3. /\ volume_offset' =
             volume_offset + Padding(volume_offset, VolumeAlignment)
        /\ UNCHANGED entry_size /\ pc' = "files"
    BY <1>6 DEF ReadDevicePathPadding
  <2>4. Aligned(volume_offset + Padding(volume_offset, VolumeAlignment))
    BY <1>0, OffsetTypes, AlignedByPadding
  <2>5. QED
    BY <2>2, <2>3, <2>4 DEF OffsetsAligned, Aligned
<1>7. CASE BeginFile
  <2>1. EntriesAligned'
    BY <1>0, <1>7, OtherRead DEF BeginFile, ioVars
  <2>2. QED
    BY <1>0, <1>7, <2>1 DEF BeginFile, OffsetsAligned, Aligned
<1>8. CASE ReadFileEntry
  <2>1. /\ Aligned(file_offset) /\ file_offset \in Nat
        /\ entry_size.file \in Sizes32 \cup Sizes64 /\ entry_size.file \in Nat
        /\ ReadAt("file", file_offset, entry_size.file)
        /\ file_offset' = file_offset + entry_size.file
        /\ UNCHANGED entry_size
        /\ pc' \in {"path", "sub_entries"}
    BY <1>0, <1>8, OffsetTypes DEF ReadFileEntry, OffsetsAligned
  <2>2. EntriesAligned'
    BY <1>0, <2>1, AlignedRead DEF Kinds
  <2>3. Aligned(file_offset + entry_size.file)
    <3>1. \/ entry_size.file % 8 = 0
          \/ entry_size.file % 4 = 0 /\ entry_size.file \notin Sizes64
      BY <2>1 DEF Sizes32, Sizes64
    <3>2. QED
      BY <2>1, <3>1, AlignedSum
  <2>4. QED
    BY <2>1, <2>2, <2>3 DEF OffsetsAligned, Aligned
<1>9. CASE ReadPath
  <2>1. EntriesAligned'
    BY <1>0, <1>9, OffsetTypes, OtherRead DEF ReadPath, ReadNext, Kinds
  <2>2. QED
    BY <1>9, <2>1 DEF ReadPath, OffsetsAligned
<1>10. CASE ReadPathPadding
  <2>1. Padding(file_offset, FileAlignment) \in Nat
    BY <1>0, OffsetTypes, PaddingFacts, AlignmentFacts
  <2>2. EntriesAligned'
    BY <1>0, <1>10, <2>1, OtherRead
       DEF ReadPathPadding, ReadNext, ioVars, Kinds
  <2>3. /\ file_offset' = file_offset + Padding(file_offset, FileAlignment)
        /\ UNCHANGED entry_size /\ pc' = "sub_entries"
    BY <1>10 DEF ReadPathPadding
  <2>4. Aligned(file_offset + Padding(file_offset, FileAlignment))
    BY <1>0, OffsetTypes, AlignedByPadding
  <2>5. QED
    BY <2>2, <2>3, <2>4 DEF OffsetsAligned, Aligned
<1>11. CASE ReadSubEntry
  <2>1. /\ Aligned(file_offset) /\ file_offset \in Nat
        /\ entry_size.type1 \in {16, 24} /\ entry_size.type1 \in Nat
        /\ ReadAt("sub_entry", stream_offset, entry_size.type1)
        /\ file_offset' = file_offset + entry_size.type1
        /\ UNCHANGED entry_size /\ pc' = "sub_entries"
    BY <1>0, <1>11, OffsetTypes DEF ReadSubEntry, ReadNext, OffsetsAligned
  <2>2. EntriesAligned'
    BY <1>0, <2>1, OtherRead DEF Kinds
  <2>3. entry_size.type1 % 8 = 0
    BY <2>1
  <2>4. Aligned(file_offset + entry_size.type1)
    BY <2>1, <2>3, AlignedSum
  <2>5. QED
    BY <2>1, <2>2, <2>4 DEF OffsetsAligned, Aligned
<1>12. CASE EndFile
  <2>1. EntriesAligned'
    BY <1>0, <1>12, OtherRead DEF EndFile, ioVars
  <2>2. /\ volume_offset' = file_offset /\ Aligned(file_offset)
        /\ UNCHANGED entry_size /\ pc' = "files"
    BY <1>0, <1>12 DEF EndFile, OffsetsAligned, CursorsAgree, FileSteps
  <2>3. QED
    BY <2>1, <2>2 DEF OffsetsAligned, Aligned
<1>13. CASE ReadSourceEntry
  <2>1. EntriesAligned'
    <3>1. open_offset \in Nat /\ entry_size.source \in Nat
          /\ ReadAt("source", open_offset, entry_size.source)
          /\ UNCHANGED entry_size
      BY <1>0, <1>13, OffsetTypes DEF ReadSourceEntry
    <3>2. QED
      BY <1>0, <3>1, AlignedRead DEF Kinds
  <2>2. QED
    BY <1>13, <2>1 DEF ReadSourceEntry, OffsetsAligned
<1>14. CASE ReadSourceSubEntry
  <2>1. EntriesAligned'
    BY <1>0, <1>14, OffsetTypes, OtherRead
       DEF ReadSourceSubEntry, ReadNext, Kinds
  <2>2. QED
    BY <1>14, <2>1 DEF ReadSourceSubEntry, OffsetsAligned
<1>15. CASE EndVolume \/ EndVolumes \/ EndSource \/ EndSources \/ Fails
  <2>1. UNCHANGED <<log, entry_size>>
        /\ pc' \in {"volumes", "sources", "ok", "error"}
    BY <1>15 DEF EndVolume, EndVolumes, EndSource, EndSources, Fails, ioVars
  <2>2. QED
    BY <1>0, <2>1, OtherRead DEF OffsetsAligned
<1>16. CASE UNCHANGED vars
  BY <1>0, <1>16 DEF vars, ioVars, openVars, volumeVars, fileVars,
                     OffsetsAligned, EntriesAligned, Aligned
<1>17. QED
  BY <1>1, <1>2, <1>3, <1>4, <1>5, <1>6, <1>7, <1>8, <1>9, <1>10, <1>11,
     <1>12, <1>13, <1>14, <1>15, <1>16 DEF Next

(* A volume is read at a multiple of 8 and a file at a multiple of 4, or of *)
(* 8 in a 64-bit database, whatever paths and sub entries lie before it.    *)
THEOREM AllEntriesAligned == Spec => []EntriesAligned
<1>1. Alignment => EntriesAligned
  BY DEF Alignment
<1>2. QED
  BY InitCursors, StepCursors, InitAlignment, StepAlignment, <1>1, PTL DEF Spec

-----------------------------------------------------------------------------
(* The counts.  What one kind of entry announces is read or still to be     *)
(* read: pending says how much is outstanding at each step.                 *)
InVolume == VolumeSteps \cup {"file_entry"} \cup FileSteps
InFile   == FileSteps \cup {"source_sub_entries"}

One(condition) == IF condition THEN 1 ELSE 0

VolumesCounted ==
  /\ Read("volume") = volume_index + One(pc \in InVolume)
  /\ volume_index + One(pc \in InVolume \cup {"volume_entry"})
       <= number_of_volumes
  /\ pc \in {"sources", "source_sub_entries", "ok"} =>
       volume_index = number_of_volumes

SourcesCounted ==
  /\ Read("source") = source_index + One(pc = "source_sub_entries")
  /\ source_index + One(pc = "source_sub_entries") <= number_of_sources
  /\ pc = "ok" => source_index = number_of_sources

FilesCounted ==
  /\ pc \in InVolume =>
       /\ file_index + One(pc \notin VolumeSteps) <= number_of_files
       /\ Read("file") + (number_of_files - file_index)
            = declared_files + One(pc \in FileSteps)
  /\ pc \notin InVolume => Read("file") = declared_files

SubEntriesCounted ==
  /\ pc \in InFile =>
       /\ entry_index <= number_of_entries
       /\ Read("sub_entry") + (number_of_entries - entry_index)
            = declared_entries
  /\ pc \notin InFile => Read("sub_entry") = declared_entries

NothingCounted ==
  pc \in {"file_header", "database_header"} =>
    /\ volume_index = 0 /\ number_of_volumes = 0
    /\ source_index = 0 /\ number_of_sources = 0

\* After an error nothing is promised.
Counted ==
  pc # "error" => /\ VolumesCounted /\ SourcesCounted /\ FilesCounted
                  /\ SubEntriesCounted /\ NothingCounted

\* One more read of a kind counts once, for its own kind.
LEMMA ReadCounts ==
  ASSUME TypeOK, NEW kind \in Kinds, NEW offset \in Nat, NEW size \in Nat,
         ReadAt(kind, offset, size), NEW k \in Kinds
  PROVE  Read(k)' = Read(k) + One(k = kind)
<1> DEFINE entry == [kind |-> kind, offset |-> offset, size |-> size]
           reads == {i \in 1 .. Len(log) : log[i].kind = k}
<1>1. /\ log \in Seq([kind : Kinds, offset : Nat, size : Nat])
      /\ entry \in [kind : Kinds, offset : Nat, size : Nat]
  BY DEF TypeOK
<1>2. log' = Append(log, entry)
  BY DEF ReadAt
<1>3. /\ Len(log') = Len(log) + 1 /\ Len(log) \in Nat
      /\ log'[Len(log) + 1] = entry
      /\ \A i \in 1 .. Len(log) : log'[i] = log[i]
  BY <1>1, <1>2
<1>4. IsFiniteSet(reads) /\ Cardinality(reads) \in Nat
  <2>1. IsFiniteSet(1 .. Len(log))
    BY <1>3, FS_Interval
  <2>2. QED
    BY <2>1, FS_Subset, FS_CardinalityType
<1>5. CASE k = kind
  <2>1. {i \in 1 .. Len(log') : log'[i].kind = k} = reads \cup {Len(log) + 1}
    BY <1>3, <1>5
  <2>2. Len(log) + 1 \notin reads
    BY <1>3
  <2>3. Cardinality(reads \cup {Len(log) + 1}) = Cardinality(reads) + 1
    BY <1>4, <2>2, FS_AddElement
  <2>4. QED
    BY <1>5, <2>1, <2>3 DEF Read, One
<1>6. CASE k # kind
  <2>1. {i \in 1 .. Len(log') : log'[i].kind = k} = reads
    BY <1>3, <1>6
  <2>2. QED
    <3>1. Read(k)' = Cardinality(reads) /\ Read(k) = Cardinality(reads)
      BY <2>1 DEF Read
    <3>2. One(k = kind) = 0
      BY <1>6 DEF One
    <3>3. QED
      BY <1>4, <3>1, <3>2
<1>7. QED
  BY <1>5, <1>6

LEMMA ReadType == ASSUME TypeOK, NEW k \in Kinds PROVE Read(k) \in Nat
<1>1. Len(log) \in Nat
  BY DEF TypeOK
<1>2. IsFiniteSet(1 .. Len(log))
  BY <1>1, FS_Interval
<1>3. QED
  BY <1>2, FS_Subset, FS_CardinalityType DEF Read

LEMMA NothingRead == ASSUME UNCHANGED log, NEW k PROVE Read(k)' = Read(k)
  BY DEF Read

LEMMA InitCounted == Init => Counted
<1> SUFFICES ASSUME Init PROVE Counted
  OBVIOUS
<1>1. ASSUME NEW k \in Kinds PROVE Read(k) = 0
  <2>1. {i \in 1 .. Len(log) : log[i].kind = k} = {}
    BY DEF Init
  <2>2. QED
    BY <2>1, FS_EmptySet DEF Read
<1>2. Read("volume") = 0 /\ Read("source") = 0 /\ Read("file") = 0
      /\ Read("sub_entry") = 0
  BY <1>1 DEF Kinds
<1>3. QED
  BY <1>2 DEF Init, Counted, VolumesCounted, SourcesCounted, FilesCounted,
              SubEntriesCounted, NothingCounted, InVolume, InFile, One,
              VolumeSteps, FileSteps

\* What a step reads of the four kinds that are announced.
ReadsOf(volumes, sources, files, sub_entries) ==
  /\ Read("volume")' = Read("volume") + volumes
  /\ Read("source")' = Read("source") + sources
  /\ Read("file")' = Read("file") + files
  /\ Read("sub_entry")' = Read("sub_entry") + sub_entries

LEMMA ReadOne ==
  ASSUME TypeOK, NEW kind \in Kinds, NEW offset \in Nat, NEW size \in Nat,
         ReadAt(kind, offset, size)
  PROVE  ReadsOf(One(kind = "volume"), One(kind = "source"),
                 One(kind = "file"), One(kind = "sub_entry"))
<1>1. \A k \in Kinds : Read(k)' = Read(k) + One(k = kind)
  BY ReadCounts
<1>2. QED
  BY <1>1 DEF ReadsOf, One, Kinds

LEMMA ReadNone ==
  ASSUME TypeOK,
         \/ UNCHANGED log
         \/ \E kind \in Kinds \ {"volume", "source", "file", "sub_entry"},
               size \in Nat : ReadAt(kind, stream_offset, size)
  PROVE  ReadsOf(0, 0, 0, 0)
<1>1. \A k \in Kinds : Read(k) \in Nat
  BY ReadType
<1>2. CASE UNCHANGED log
  <2>1. \A k \in Kinds : Read(k)' = Read(k)
    BY <1>2, NothingRead
  <2>2. QED
    BY <1>1, <2>1 DEF ReadsOf, Kinds
<1>3. CASE \E kind \in Kinds \ {"volume", "source", "file", "sub_entry"},
              size \in Nat : ReadAt(kind, stream_offset, size)
  <2>1. PICK kind \in Kinds \ {"volume", "source", "file", "sub_entry"},
             size \in Nat : ReadAt(kind, stream_offset, size)
    BY <1>3
  <2>2. stream_offset \in Nat
    BY OffsetTypes
  <2>3. QED
    BY <2>1, <2>2, ReadOne DEF One
<1>4. QED
  BY <1>2, <1>3

\* The headers and the paths and paddings announce nothing.
LEMMA OtherReads ==
  ASSUME Cursors,
         \/ ReadFileHeader \/ ReadDatabaseHeader \/ ReadVolumePadding
         \/ ReadDevicePath \/ ReadDevicePathPadding \/ ReadPath
         \/ ReadPathPadding \/ BeginFile \/ EndVolume \/ EndFile
         \/ EndVolumes \/ EndSource \/ EndSources \/ UNCHANGED vars
  PROVE  ReadsOf(0, 0, 0, 0)
<1> USE DEF Kinds, ReadNext
<1>0. TypeOK /\ Beginnings
  BY DEF Cursors
<1>1. CASE ReadFileHeader
  BY <1>0, <1>1, ReadNone DEF ReadFileHeader, FileHeaderSize, Beginnings
<1>2. CASE ReadDatabaseHeader
  <2>1. PICK size \in Nat : ReadAt("database_header", stream_offset, size)
    <3>1. PICK header_size \in HeaderSizes :
            /\ header_size - FileHeaderSize >= MinimumDatabaseHeaderSize
            /\ ReadNext("database_header", header_size - FileHeaderSize)
      BY <1>2 DEF ReadDatabaseHeader
    <3>2. header_size - FileHeaderSize \in Nat
      BY <3>1, SizeAssumption DEF FileHeaderSize, MinimumDatabaseHeaderSize
    <3>3. QED
      BY <3>1, <3>2
  <2>2. QED
    BY <1>0, <2>1, ReadNone
<1>3. CASE ReadVolumePadding
  <2>1. Padding(open_offset, 8) \in Nat
    BY <1>0, OffsetTypes, PaddingFacts
  <2>2. QED
    BY <1>0, <1>3, <2>1, ReadNone DEF ReadVolumePadding, ioVars
<1>4. CASE ReadDevicePath
  BY <1>0, <1>4, OffsetTypes, ReadNone DEF ReadDevicePath
<1>5. CASE ReadDevicePathPadding
  <2>1. Padding(volume_offset, VolumeAlignment) \in Nat
    BY <1>0, OffsetTypes, PaddingFacts, AlignmentFacts
  <2>2. QED
    BY <1>0, <1>5, <2>1, ReadNone DEF ReadDevicePathPadding, ioVars
<1>6. CASE ReadPath
  BY <1>0, <1>6, OffsetTypes, ReadNone DEF ReadPath
<1>7. CASE ReadPathPadding
  <2>1. Padding(file_offset, FileAlignment) \in Nat
    BY <1>0, OffsetTypes, PaddingFacts, AlignmentFacts
  <2>2. QED
    BY <1>0, <1>7, <2>1, ReadNone DEF ReadPathPadding, ioVars
<1>8. CASE BeginFile \/ EndVolume \/ EndFile \/ EndVolumes \/ EndSource
           \/ EndSources \/ UNCHANGED vars
  BY <1>0, <1>8, ReadNone
     DEF BeginFile, EndVolume, EndFile, EndVolumes, EndSource, EndSources,
         vars, ioVars
<1>9. QED
  BY <1>1, <1>2, <1>3, <1>4, <1>5, <1>6, <1>7, <1>8

\* The indexes and counts a step starts from.
LEMMA CountTypes ==
  ASSUME TypeOK
  PROVE  /\ Read("volume") \in Nat /\ Read("source") \in Nat
         /\ Read("file") \in Nat /\ Read("sub_entry") \in Nat
         /\ number_of_volumes \in Nat /\ number_of_sources \in Nat
         /\ number_of_files \in Nat /\ number_of_entries \in Nat
         /\ volume_index \in Nat /\ source_index \in Nat
         /\ file_index \in Nat /\ entry_index \in Nat
         /\ declared_files \in Nat /\ declared_entries \in Nat
<1>1. {"volume", "source", "file", "sub_entry"} \subseteq Kinds
  BY DEF Kinds
<1>2. QED
  BY <1>1, ReadType DEF TypeOK

LEMMA StepCounted == Cursors /\ Counted /\ [Next]_vars => Counted'
<1> SUFFICES ASSUME Cursors, Counted, [Next]_vars, pc' # "error"
             PROVE  (VolumesCounted /\ SourcesCounted /\ FilesCounted
                     /\ SubEntriesCounted /\ NothingCounted)'
  BY DEF Counted
<1> USE DEF openVars, volumeVars, fileVars, entryVars, history
<1>t. TypeOK
  BY DEF Cursors
<1>p. /\ number_of_volumes' \in Nat /\ number_of_sources' \in Nat
      /\ number_of_files' \in Nat /\ number_of_entries' \in Nat
  BY <1>t, StepTypes DEF TypeOK
<1>c. pc # "error" =>
        VolumesCounted /\ SourcesCounted /\ FilesCounted /\ SubEntriesCounted
        /\ NothingCounted
  BY DEF Counted
<1> USE DEF VolumesCounted, SourcesCounted, FilesCounted, SubEntriesCounted,
            NothingCounted, ReadsOf, One, InVolume, InFile, VolumeSteps,
            FileSteps
<1>1. CASE ReadFileHeader
  <2>1. ReadsOf(0, 0, 0, 0)
    BY <1>1, OtherReads
  <2>2. QED
    BY <1>t, <1>c, <1>1, <2>1, CountTypes DEF ReadFileHeader
<1>2. CASE ReadDatabaseHeader
  <2>1. ReadsOf(0, 0, 0, 0)
    BY <1>2, OtherReads
  <2>2. QED
    BY <1>t, <1>c, <1>p, <1>2, <2>1, CountTypes DEF ReadDatabaseHeader
<1>3. CASE ReadVolumePadding
  <2>1. ReadsOf(0, 0, 0, 0)
    BY <1>3, OtherReads
  <2>2. QED
    BY <1>t, <1>c, <1>3, <2>1, CountTypes DEF ReadVolumePadding
<1>4. CASE ReadDevicePath
  <2>1. ReadsOf(0, 0, 0, 0)
    BY <1>4, OtherReads
  <2>2. QED
    BY <1>t, <1>c, <1>4, <2>1, CountTypes DEF ReadDevicePath
<1>5. CASE ReadDevicePathPadding
  <2>1. ReadsOf(0, 0, 0, 0)
    BY <1>5, OtherReads
  <2>2. QED
    BY <1>t, <1>c, <1>5, <2>1, CountTypes DEF ReadDevicePathPadding
<1>6. CASE ReadPath
  <2>1. ReadsOf(0, 0, 0, 0)
    BY <1>6, OtherReads
  <2>2. QED
    BY <1>t, <1>c, <1>6, <2>1, CountTypes DEF ReadPath
<1>7. CASE ReadPathPadding
  <2>1. ReadsOf(0, 0, 0, 0)
    BY <1>7, OtherReads
  <2>2. QED
    BY <1>t, <1>c, <1>7, <2>1, CountTypes DEF ReadPathPadding
<1>8. CASE BeginFile
  <2>1. ReadsOf(0, 0, 0, 0)
    BY <1>8, OtherReads
  <2>2. QED
    BY <1>t, <1>c, <1>8, <2>1, CountTypes DEF BeginFile
<1>9. CASE EndVolume
  <2>1. ReadsOf(0, 0, 0, 0)
    BY <1>9, OtherReads
  <2>2. QED
    BY <1>t, <1>c, <1>9, <2>1, CountTypes DEF EndVolume
<1>10. CASE EndFile
  <2>1. ReadsOf(0, 0, 0, 0)
    BY <1>10, OtherReads
  <2>2. QED
    BY <1>t, <1>c, <1>10, <2>1, CountTypes DEF EndFile
<1>11. CASE EndVolumes
  <2>1. ReadsOf(0, 0, 0, 0)
    BY <1>11, OtherReads
  <2>2. QED
    BY <1>t, <1>c, <1>11, <2>1, CountTypes DEF EndVolumes
<1>12. CASE EndSource
  <2>1. ReadsOf(0, 0, 0, 0)
    BY <1>12, OtherReads
  <2>2. QED
    BY <1>t, <1>c, <1>12, <2>1, CountTypes DEF EndSource
<1>13. CASE EndSources
  <2>1. ReadsOf(0, 0, 0, 0)
    BY <1>13, OtherReads
  <2>2. QED
    BY <1>t, <1>c, <1>13, <2>1, CountTypes DEF EndSources
<1>14. CASE ReadVolumeEntry
  <2>1. ReadAt("volume", volume_offset, entry_size.volume)
    BY <1>14 DEF ReadVolumeEntry, ReadNext
  <2>2. ReadsOf(1, 0, 0, 0)
    BY <1>t, <2>1, OffsetTypes, ReadOne DEF Kinds
  <2>3. QED
    BY <1>t, <1>c, <1>p, <1>14, <2>2, CountTypes DEF ReadVolumeEntry
<1>15. CASE ReadFileEntry
  <2>1. ReadAt("file", file_offset, entry_size.file)
    BY <1>15 DEF ReadFileEntry, ReadNext
  <2>2. ReadsOf(0, 0, 1, 0)
    BY <1>t, <2>1, OffsetTypes, ReadOne DEF Kinds
  <2>3. QED
    <3>1. /\ pc = "file_entry" /\ pc' \in {"path", "sub_entries"}
          /\ declared_entries' = declared_entries + number_of_entries'
          /\ entry_index' = 0
          /\ UNCHANGED <<volume_index, number_of_volumes, source_index,
                         number_of_sources, file_index, number_of_files,
                         declared_files>>
      BY <1>15 DEF ReadFileEntry
    <3>2. (VolumesCounted /\ SourcesCounted)'
      BY <1>t, <1>c, <2>2, <3>1, CountTypes
    <3>3. FilesCounted'
      BY <1>t, <1>c, <2>2, <3>1, CountTypes
    <3>4. SubEntriesCounted'
      BY <1>t, <1>c, <1>p, <2>2, <3>1, CountTypes
    <3>5. QED
      BY <3>1, <3>2, <3>3, <3>4
<1>16. CASE ReadSubEntry
  <2>1. ReadAt("sub_entry", stream_offset, entry_size.type1)
    BY <1>16 DEF ReadSubEntry, ReadNext
  <2>2. ReadsOf(0, 0, 0, 1)
    BY <1>t, <2>1, OffsetTypes, ReadOne DEF Kinds
  <2>3. QED
    BY <1>t, <1>c, <1>p, <1>16, <2>2, CountTypes DEF ReadSubEntry
<1>17. CASE ReadSourceEntry
  <2>1. ReadAt("source", open_offset, entry_size.source)
    BY <1>17 DEF ReadSourceEntry, ReadNext
  <2>2. ReadsOf(0, 1, 0, 0)
    BY <1>t, <2>1, OffsetTypes, ReadOne DEF Kinds
  <2>3. QED
    BY <1>t, <1>c, <1>p, <1>17, <2>2, CountTypes DEF ReadSourceEntry
<1>18. CASE ReadSourceSubEntry
  <2>1. ReadAt("sub_entry", stream_offset, entry_size.type2)
    BY <1>18 DEF ReadSourceSubEntry, ReadNext
  <2>2. ReadsOf(0, 0, 0, 1)
    BY <1>t, <2>1, OffsetTypes, ReadOne DEF Kinds
  <2>3. QED
    BY <1>t, <1>c, <1>p, <1>18, <2>2, CountTypes DEF ReadSourceSubEntry
<1>19. CASE Fails
  BY <1>19 DEF Fails
<1>20. CASE UNCHANGED vars
  <2>1. ReadsOf(0, 0, 0, 0)
    BY <1>20, OtherReads
  <2>2. QED
    BY <1>t, <1>c, <1>20, <2>1, CountTypes DEF vars
<1>21. QED
  BY <1>1, <1>2, <1>3, <1>4, <1>5, <1>6, <1>7, <1>8, <1>9, <1>10, <1>11, <1>12, <1>13, <1>14, <1>15, <1>16, <1>17, <1>18, <1>19, <1>20 DEF Next

(* When the open succeeds every entry that the headers announced has been   *)
(* read, and none twice, for any number of volumes, files and sub entries.  *)
THEOREM AllDeclaredIsRead == Spec => []DeclaredIsRead
<1>1. TypeOK /\ Counted => DeclaredIsRead
  BY CountTypes
     DEF Counted, DeclaredIsRead, VolumesCounted, SourcesCounted, FilesCounted,
         SubEntriesCounted, InVolume, InFile, One, VolumeSteps, FileSteps
<1>2. QED
  BY TypeCorrect, InitCursors, StepCursors, InitCounted, StepCounted, <1>1, PTL
     DEF Spec
=============================================================================
