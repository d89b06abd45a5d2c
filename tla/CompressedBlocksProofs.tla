----------------------- MODULE CompressedBlocksProofs -----------------------
(* Proofs about CompressedBlocks, for every file, every data size and every *)
(* content of the size fields.                                              *)
EXTENDS CompressedBlocks, BlockList, TLAPS

(* A block is never mapped to more than the data that is left nor to more   *)
(* than one uncompressed block.                                             *)
LEMMA MappedSizeBounds ==
  ASSUME TypeOK
  PROVE  /\ MappedSize(uncompressed_data_size) \in Nat
         /\ MappedSize(uncompressed_data_size) <= uncompressed_data_size
         /\ MappedSize(uncompressed_data_size) <= BlockSizes[file_type]
         /\ \/ MappedSize(uncompressed_data_size) = BlockSizes[file_type]
            \/ MappedSize(uncompressed_data_size) = uncompressed_data_size
  BY SizeAssumption DEF TypeOK, MappedSize

(* What a size field yields, and where the data starts, are naturals.       *)
LEMMA BlockSizeTypes ==
  ASSUME TypeOK, NEW field \in Field
  PROVE  CompressedSize(field) \in Nat /\ DataOffset \in Nat
<1>1. field \in Nat /\ field % SizeMask \in Nat
  BY SizeAssumption
<1>2. QED
  BY <1>1, FileTypeAssumption DEF TypeOK, CompressedSize, DataOffset

(* Every reachable state has its type: in particular the remaining data     *)
(* size, an unsigned integer in the code, never drops below 0.              *)
THEOREM TypeCorrect == Spec => []TypeOK
<1>1. Init => TypeOK
  BY SizeAssumption, FileTypeAssumption DEF Init, TypeOK, HeaderSize
<1>2. TypeOK /\ [Next]_vars => TypeOK'
  <2> SUFFICES ASSUME TypeOK, [Next]_vars PROVE TypeOK'
    OBVIOUS
  <2>1. CASE ReadBlock
    <3>1. PICK field \in Field :
            /\ blocks' = Append(blocks, Block(field))
            /\ file_offset' = DataOffset + CompressedSize(field)
      BY <2>1 DEF ReadBlock
    <3>2. CompressedSize(field) \in Nat /\ DataOffset \in Nat
      BY BlockSizeTypes
    <3>3. uncompressed_data_size' \in 0 .. data_size
      BY <2>1, MappedSizeBounds DEF ReadBlock, TypeOK
    <3>4. Block(field) \in BlockRecord
      BY <3>2, MappedSizeBounds DEF TypeOK, Block, BlockRecord
    <3>5. QED
      BY <2>1, <3>1, <3>2, <3>3, <3>4 DEF ReadBlock, TypeOK, fixed
  <2>2. CASE ReadBlockFails
    BY <2>2 DEF ReadBlockFails, TypeOK, fixed
  <2>3. CASE EndOfFile
    BY <2>3 DEF EndOfFile, TypeOK, fixed
  <2>4. CASE UNCHANGED vars
    BY <2>4 DEF vars, fixed, TypeOK
  <2>5. QED
    BY <2>1, <2>2, <2>3, <2>4 DEF Next
<1>3. QED
  BY <1>1, <1>2, PTL DEF Spec

(* What one round of the loop does to the list.                             *)
LEMMA ReadBlockAppends ==
  ASSUME TypeOK, ReadBlock
  PROVE  /\ Len(blocks') = Len(blocks) + 1
         /\ \A i \in 1 .. Len(blocks) : blocks'[i] = blocks[i]
         /\ blocks'[Len(blocks) + 1].start = data_size - uncompressed_data_size
         /\ blocks'[Len(blocks) + 1].mapped =
              MappedSize(uncompressed_data_size)
         /\ blocks'[Len(blocks) + 1].offset = DataOffset
         /\ blocks'[Len(blocks) + 1].size \in Nat \ {0}
         /\ file_offset' = DataOffset + blocks'[Len(blocks) + 1].size
<1>1. PICK field \in Field :
        /\ CompressedSize(field) # 0
        /\ blocks' = Append(blocks, Block(field))
        /\ file_offset' = DataOffset + CompressedSize(field)
  BY DEF ReadBlock
<1>2. blocks \in Seq(BlockRecord)
  BY DEF TypeOK
<1>3. /\ Len(blocks') = Len(blocks) + 1
      /\ \A i \in 1 .. Len(blocks) : blocks'[i] = blocks[i]
      /\ blocks'[Len(blocks) + 1] = Block(field)
  BY <1>1, <1>2
<1>4. CompressedSize(field) \in Nat
  BY BlockSizeTypes
<1>5. QED
  BY <1>1, <1>3, <1>4 DEF Block

(* BlocksPartitionData is inductive together with TypeOK: while the loop is *)
(* still reading, the last element is a full block.                         *)
PartitionInv ==
  /\ BlocksPartitionData
  /\ state = "reading" => blocks = <<>> \/ uncompressed_data_size > 0

(* The listed blocks cut the uncompressed data as the format describes it,  *)
(* for every data size and block size.                                      *)
THEOREM Partition == Spec => []BlocksPartitionData
<1>1. Init => PartitionInv
  BY SizeAssumption
  DEF Init, PartitionInv, BlocksPartitionData
<1>2. TypeOK /\ PartitionInv /\ [Next]_vars => PartitionInv'
  <2> SUFFICES ASSUME TypeOK, PartitionInv, [Next]_vars PROVE PartitionInv'
    OBVIOUS
  <2>1. CASE ReadBlock
    <3> DEFINE n == Len(blocks)
               m == MappedSize(uncompressed_data_size)
    <3>1. /\ n \in Nat
          /\ Len(blocks') = n + 1
          /\ \A i \in 1 .. n : blocks'[i] = blocks[i]
          /\ blocks'[n + 1].start = data_size - uncompressed_data_size
          /\ blocks'[n + 1].mapped = m
      BY <2>1, ReadBlockAppends DEF TypeOK
    <3>2. /\ m \in Nat /\ m <= uncompressed_data_size
          /\ m <= BlockSizes[file_type]
          /\ m = BlockSizes[file_type] \/ m = uncompressed_data_size
      BY MappedSizeBounds
    <3>3. /\ uncompressed_data_size' = uncompressed_data_size - m
          /\ state' = IF uncompressed_data_size' = 0 THEN "ok" ELSE "reading"
          /\ state = "reading"
          /\ UNCHANGED <<file_type, data_size>>
      BY <2>1 DEF ReadBlock, fixed
    <3>4. /\ data_size \in Nat /\ uncompressed_data_size \in 0 .. data_size
          /\ BlockSizes[file_type] \in Nat \ {0}
      BY SizeAssumption DEF TypeOK
    <3> HIDE DEF m
    <3>5. n > 0 =>
            /\ blocks[n].start + blocks[n].mapped
                 = data_size - uncompressed_data_size
            /\ blocks[n].mapped = BlockSizes[file_type]
      <4> SUFFICES ASSUME n > 0
                   PROVE  /\ blocks[n].start + blocks[n].mapped
                               = data_size - uncompressed_data_size
                          /\ blocks[n].mapped = BlockSizes[file_type]
        OBVIOUS
      <4>1. n \in 1 .. n
        BY <3>1
      <4>2. QED
        BY <4>1, <3>1, <3>3, <3>4
        DEF PartitionInv, BlocksPartitionData, TypeOK
    <3>6. BlocksPartitionData'
      <4> SUFFICES ASSUME NEW i \in 1 .. n + 1
                   PROVE  /\ i = 1 => blocks'[i].start = 0
                          /\ i < n + 1 =>
                               /\ blocks'[i].mapped = BlockSizes[file_type]
                               /\ blocks'[i].start + blocks'[i].mapped
                                    = blocks'[i + 1].start
                          /\ i = n + 1 =>
                               /\ blocks'[i].start + blocks'[i].mapped
                                    = data_size - uncompressed_data_size'
                               /\ \/ blocks'[i].mapped = BlockSizes[file_type]
                                  \/ /\ blocks'[i].mapped
                                          < BlockSizes[file_type]
                                     /\ uncompressed_data_size' = 0
        BY <3>1, <3>3 DEF BlocksPartitionData
      <4>1. CASE i = n + 1
        <5>1. n = 0 => uncompressed_data_size = data_size
          BY DEF PartitionInv, BlocksPartitionData, TypeOK
        <5>2. QED
          BY <4>1, <5>1, <3>1, <3>2, <3>3, <3>4
      <4>2. CASE i = n
        BY <4>2, <3>1, <3>5 DEF PartitionInv, BlocksPartitionData
      <4>3. CASE i < n
        BY <4>3, <3>1 DEF PartitionInv, BlocksPartitionData
      <4>4. QED
        BY <4>1, <4>2, <4>3, <3>1
    <3>7. QED
      BY <3>2, <3>3, <3>4, <3>6 DEF PartitionInv
  <2>2. CASE ReadBlockFails
    BY <2>2 DEF ReadBlockFails, PartitionInv, BlocksPartitionData, fixed
  <2>3. CASE EndOfFile
    BY <2>3 DEF EndOfFile, PartitionInv, BlocksPartitionData, fixed
  <2>4. CASE UNCHANGED vars
    BY <2>4 DEF vars, fixed, PartitionInv, BlocksPartitionData
  <2>5. QED
    BY <2>1, <2>2, <2>3, <2>4 DEF Next
<1>3. PartitionInv => BlocksPartitionData
  BY DEF PartitionInv
<1>4. QED
  BY <1>1, <1>2, <1>3, TypeCorrect, PTL DEF Spec

\* The listed blocks as the data stream sees them, when reading the i-th and
\* decompressing it gives yields[i].
Decompressed(yields) ==
  [i \in 1 .. Len(blocks) |->
     [start |-> blocks[i].start, mapped |-> blocks[i].mapped,
      yields |-> yields[i]]]

ListPartitions ==
  \A yields \in [1 .. Len(blocks) -> Int] :
    (\A i \in 1 .. Len(blocks) : yields[i] \in -1 .. blocks[i].mapped)
    => Partitions(Decompressed(yields), BlockSizes[file_type])

(* What is listed, at any moment and so also in the end, is a list the data *)
(* stream may be built on: each block starts where the one before it ends   *)
(* and is no larger than the memory it is decompressed into, whatever the   *)
(* decompression gives that fits there.                                     *)
THEOREM ListIsStream == Spec => []ListPartitions
<1>1. ASSUME TypeOK, BlocksPartitionData,
             NEW yields \in [1 .. Len(blocks) -> Int],
             \A i \in 1 .. Len(blocks) : yields[i] \in -1 .. blocks[i].mapped
      PROVE  Partitions(Decompressed(yields), BlockSizes[file_type])
  <2>1. /\ Len(blocks) \in Nat
        /\ Len(Decompressed(yields)) = Len(blocks)
        /\ BlockSizes[file_type] \in Nat
    BY <1>1, SizeAssumption, FileTypeAssumption DEF TypeOK, Decompressed
  <2> SUFFICES ASSUME NEW i \in 1 .. Len(blocks)
               PROVE  /\ blocks[i].mapped \in 0 .. BlockSizes[file_type]
                      /\ i = 1 => blocks[i].start = 0
                      /\ i # 1 => blocks[i].start =
                                    blocks[i - 1].start + blocks[i - 1].mapped
    BY <1>1, <2>1 DEF Partitions, Decompressed
  <2>2. blocks[i] \in BlockRecord
    BY <1>1 DEF TypeOK
  <2>3. blocks[i].mapped \in 0 .. BlockSizes[file_type]
    BY <1>1, <2>1, <2>2 DEF BlocksPartitionData, BlockRecord
  <2>4. ASSUME i # 1
        PROVE  blocks[i].start = blocks[i - 1].start + blocks[i - 1].mapped
    <3>1. PICK k \in 1 .. Len(blocks) : k < Len(blocks) /\ k + 1 = i
      BY <2>1, <2>4
    <3>2. i - 1 = k
      BY <3>1
    <3>3. QED
      BY <1>1, <3>1, <3>2 DEF BlocksPartitionData
  <2>5. QED
    BY <1>1, <2>3, <2>4 DEF BlocksPartitionData
<1>2. TypeOK /\ BlocksPartitionData => ListPartitions
  BY <1>1 DEF ListPartitions
<1>3. QED
  BY <1>2, TypeCorrect, Partition, PTL

(* BlocksTileFile in the words of the loop: there is always a whole size    *)
(* field between the header and the next block.                             *)
TileInv ==
  /\ BlocksTileFile
  /\ blocks = <<>> => file_offset = HeaderSize(file_type)

(* The listed blocks follow one another in the file, every one holds data,  *)
(* and only the last can run past the end of the file.                      *)
THEOREM Tiling == Spec => []BlocksTileFile
<1>1. Init => TileInv
  BY DEF Init, TileInv, BlocksTileFile
<1>2. TypeOK /\ TileInv /\ [Next]_vars => TileInv'
  <2> SUFFICES ASSUME TypeOK, TileInv, [Next]_vars PROVE TileInv'
    OBVIOUS
  <2>1. CASE ReadBlock
    <3> DEFINE n == Len(blocks)
    <3>1. /\ n \in Nat
          /\ Len(blocks') = n + 1
          /\ \A i \in 1 .. n : blocks'[i] = blocks[i]
          /\ blocks'[n + 1].offset = DataOffset
          /\ blocks'[n + 1].size \in Nat \ {0}
          /\ file_offset' = DataOffset + blocks'[n + 1].size
      BY <2>1, ReadBlockAppends DEF TypeOK
    <3>2. /\ DataOffset = file_offset + Gap
          /\ file_offset < file_size
          /\ UNCHANGED <<file_type, file_size>>
          /\ Gap' = Gap /\ HeaderSize(file_type)' = HeaderSize(file_type)
      BY <2>1 DEF ReadBlock, fixed, DataOffset, Gap, HeaderSize, TypeOK
    <3>3. file_offset \in Nat /\ Gap \in Nat /\ HeaderSize(file_type) \in Nat
      BY DEF TypeOK, Gap, HeaderSize
    <3>4. \A i \in 1 .. n :
            blocks[i].offset \in Nat /\ blocks[i].size \in Nat
      <4>1. \A i \in 1 .. n : blocks[i] \in BlockRecord
        BY DEF TypeOK
      <4>2. QED
        BY <4>1 DEF BlockRecord
    <3>5. n > 0 => blocks[n].offset + blocks[n].size = file_offset
      BY <3>1 DEF TileInv, BlocksTileFile
    <3>6. n = 0 => file_offset = HeaderSize(file_type)
      BY DEF TileInv, TypeOK
    <3>7. blocks' # <<>>
      BY <3>1
    <3>8. BlocksTileFile'
      <4> SUFFICES ASSUME NEW i \in 1 .. n + 1
                   PROVE  /\ blocks'[i].size > 0
                          /\ i = 1 => blocks'[i].offset =
                                        HeaderSize(file_type) + Gap
                          /\ i < n + 1 =>
                               /\ blocks'[i].offset + blocks'[i].size + Gap
                                    = blocks'[i + 1].offset
                               /\ blocks'[i].offset + blocks'[i].size
                                    < file_size
                          /\ i = n + 1 =>
                               blocks'[i].offset + blocks'[i].size
                                 = file_offset'
        BY <3>1, <3>2 DEF BlocksTileFile
      <4> HIDE DEF n
      <4>1. CASE i = n + 1
        BY <4>1, <3>1, <3>2, <3>3, <3>6
      <4>2. CASE i = n
        <5>1. n \in 1 .. n /\ blocks'[n] = blocks[n]
          BY <4>2, <3>1
        <5>2. /\ blocks[n].size > 0
              /\ n = 1 => blocks[n].offset = HeaderSize(file_type) + Gap
          BY <5>1 DEF TileInv, BlocksTileFile, n
        <5>3. QED
          BY <4>2, <5>1, <5>2, <3>1, <3>2, <3>3, <3>4, <3>5
      <4>3. CASE i < n
        BY <4>3, <3>1, <3>4 DEF TileInv, BlocksTileFile, n
      <4>4. QED
        BY <4>1, <4>2, <4>3, <3>1
    <3>9. QED
      BY <3>7, <3>8 DEF TileInv
  <2>2. CASE ReadBlockFails
    BY <2>2
    DEF ReadBlockFails, TileInv, BlocksTileFile, fixed, Gap, HeaderSize
  <2>3. CASE EndOfFile
    BY <2>3 DEF EndOfFile, TileInv, BlocksTileFile, fixed, Gap, HeaderSize
  <2>4. CASE UNCHANGED vars
    BY <2>4 DEF vars, fixed, TileInv, BlocksTileFile, Gap, HeaderSize
  <2>5. QED
    BY <2>1, <2>2, <2>3, <2>4 DEF Next
<1>3. TileInv => BlocksTileFile
  BY DEF TileInv
<1>4. QED
  BY <1>1, <1>2, <1>3, TypeCorrect, PTL DEF Spec

(* A Windows 8 file stays at its first size field.                          *)
ListInv ==
  /\ ListedOrTruncated
  /\ file_type = "win8" /\ state = "reading" => file_offset < file_size

(* Success is a complete list or a file that ended; never a Windows 8 file. *)
THEOREM Listing == Spec => []ListedOrTruncated
<1>1. Init => ListInv
  BY SizeAssumption DEF Init, ListInv, ListedOrTruncated, HeaderSize
<1>2. TypeOK /\ ListInv /\ [Next]_vars => ListInv'
  <2> SUFFICES ASSUME TypeOK, ListInv, [Next]_vars PROVE ListInv'
    OBVIOUS
  <2>1. CASE ReadBlock
    <3>1. file_type # "win8"
      BY <2>1 DEF ReadBlock, CompressedSize
    <3>2. QED
      BY <2>1, <3>1 DEF ReadBlock, ListInv, ListedOrTruncated, fixed
  <2>2. CASE ReadBlockFails
    BY <2>2 DEF ReadBlockFails, ListInv, ListedOrTruncated, fixed
  <2>3. CASE EndOfFile
    BY <2>3, SizeAssumption
    DEF EndOfFile, ListInv, ListedOrTruncated, fixed, TypeOK
  <2>4. CASE UNCHANGED vars
    BY <2>4 DEF vars, fixed, ListInv, ListedOrTruncated
  <2>5. QED
    BY <2>1, <2>2, <2>3, <2>4 DEF Next
<1>3. ListInv => ListedOrTruncated
  BY DEF ListInv
<1>4. QED
  BY <1>1, <1>2, <1>3, TypeCorrect, PTL DEF Spec
=============================================================================
