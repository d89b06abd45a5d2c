-------------------------- MODULE CompressedBlocks --------------------------
(***************************************************************************)
(* libagdb_io_handle_read_compressed_blocks: the walk over the compressed  *)
(* blocks of a database that builds compressed_blocks_list before anything *)
(* is decompressed.  The size field of a block is whatever the file holds, *)
(* so it is an arbitrary member of Field; no offset is read twice.         *)
(*                                                                         *)
(* An element of the list is a record of the range of the block in the     *)
(* file (offset, size) and of the range it stands for in the uncompressed  *)
(* data (start, mapped); libfdata keeps start as the sum of the mapped     *)
(* sizes before it.                                                        *)
(***************************************************************************)
EXTENDS Integers, Sequences

CONSTANTS
  FileTypes,   \* the compressed file types that are checked
  BlockSizes,  \* uncompressed_block_size by file type
  FileSizes,   \* sizes a file whose 8 byte header was read can have
  DataSizes,   \* values of the total uncompressed data size in the header
  Field,       \* values of a compressed block size field
  SizeMask     \* 0x0fff + 1: what a Vista size field is reduced to

ASSUME FileTypeAssumption == FileTypes \subseteq {"vista", "win7", "win8"}

ASSUME SizeAssumption ==
  /\ BlockSizes \in [FileTypes -> Nat \ {0}]
  /\ FileSizes \subseteq {s \in Nat : s >= 8}
  /\ DataSizes \subseteq Nat
  /\ Field \subseteq Nat
  /\ SizeMask \in Nat \ {0}

VARIABLES
  file_type, file_size, data_size,  \* the io_handle fields, fixed
  file_offset,             \* where the next size field is read
  uncompressed_data_size,  \* the data no block stands for yet
  blocks,                  \* compressed_blocks_list
  state                    \* "reading", "ok" (returned 1) or "error" (-1)

fixed == <<file_type, file_size, data_size>>
vars  == <<fixed, file_offset, uncompressed_data_size, blocks, state>>

HeaderSize(t) == IF t = "win8" THEN 4 ELSE 8
ReadSize(t)   == IF t = "vista" THEN 2 ELSE 4

\* The header of a Windows 8 file is not read, its data size stays 0.
Init ==
  /\ file_type \in FileTypes
  /\ file_size \in FileSizes
  /\ data_size \in (IF file_type = "win8" THEN {0} ELSE DataSizes)
  /\ file_offset = HeaderSize(file_type)
  /\ uncompressed_data_size = data_size
  /\ blocks = <<>>
  /\ state = "reading"

\* Mutant: the last block keeps the full block size.
MappedSizeAlwaysFull(remaining) == BlockSizes[file_type]

\* The uncompressed size of the next block.
MappedSize(remaining) ==
  IF remaining < BlockSizes[file_type] THEN remaining
                                       ELSE BlockSizes[file_type]

\* The compressed size: on Vista the chunk size plus 3 with 0 not allowed, on
\* Windows 7 the field itself; on Windows 8 it stays 0.
CompressedSize(field) ==
  CASE file_type = "vista" -> IF field % SizeMask = 0 THEN 0
                              ELSE (field % SizeMask) + 3
    [] file_type = "win7"  -> field
    [] file_type = "win8"  -> 0

\* Mutant: the Windows 7 size field is left inside the block.
DataOffsetAtField == file_offset

\* On Windows 7 the size field precedes the data, on Vista it is part of it.
DataOffset == IF file_type = "win7" THEN file_offset + 4 ELSE file_offset

Block(field) ==
  [offset |-> DataOffset, size |-> CompressedSize(field),
   start  |-> data_size - uncompressed_data_size,
   mapped |-> MappedSize(uncompressed_data_size)]

\* Mutant: the remaining size is not reduced.
ReadBlockForgetsRemaining ==
  /\ state = "reading"
  /\ file_offset < file_size
  /\ file_offset + ReadSize(file_type) <= file_size
  /\ \E field \in Field :
       /\ CompressedSize(field) # 0
       /\ blocks' = Append(blocks, Block(field))
       /\ file_offset' = DataOffset + CompressedSize(field)
  /\ state' = IF uncompressed_data_size = 0 THEN "ok" ELSE "reading"
  /\ UNCHANGED <<fixed, uncompressed_data_size>>

\* One round of the loop: the size field is there and acceptable.
ReadBlock ==
  /\ state = "reading"
  /\ file_offset < file_size
  /\ file_offset + ReadSize(file_type) <= file_size
  /\ \E field \in Field :
       /\ CompressedSize(field) # 0
       /\ blocks' = Append(blocks, Block(field))
       /\ file_offset' = DataOffset + CompressedSize(field)
  /\ uncompressed_data_size' =
       uncompressed_data_size - MappedSize(uncompressed_data_size)
  /\ state' = IF uncompressed_data_size' = 0 THEN "ok" ELSE "reading"
  /\ UNCHANGED fixed

\* Mutant: a size field that is cut off ends the list instead of failing.
ReadBlockFailsEndsList ==
  /\ state = "reading"
  /\ file_offset < file_size
  /\ \/ /\ file_offset + ReadSize(file_type) > file_size
        /\ state' = "ok"
     \/ /\ \E field \in Field : CompressedSize(field) = 0
        /\ state' = "error"
  /\ UNCHANGED <<fixed, file_offset, uncompressed_data_size, blocks>>

\* The size field is cut off by the end of the file, or is 0.
ReadBlockFails ==
  /\ state = "reading"
  /\ file_offset < file_size
  /\ \/ file_offset + ReadSize(file_type) > file_size
     \/ \E field \in Field : CompressedSize(field) = 0
  /\ state' = "error"
  /\ UNCHANGED <<fixed, file_offset, uncompressed_data_size, blocks>>

\* The loop condition fails: the file ended, whatever data is left.
EndOfFile ==
  /\ state = "reading"
  /\ file_offset >= file_size
  /\ state' = "ok"
  /\ UNCHANGED <<fixed, file_offset, uncompressed_data_size, blocks>>

Next == ReadBlock \/ ReadBlockFails \/ EndOfFile

Spec == Init /\ [][Next]_vars

-----------------------------------------------------------------------------
BlockRecord == [offset : Nat, size : Nat, start : Nat, mapped : Nat]

TypeOK ==
  /\ file_type \in FileTypes
  /\ file_size \in FileSizes
  /\ data_size \in Nat
  /\ file_offset \in Nat
  /\ uncompressed_data_size \in 0 .. data_size
  /\ blocks \in Seq(BlockRecord)
  /\ state \in {"reading", "ok", "error"}

(* The ranges the elements stand for are the uncompressed data cut as the   *)
(* format describes it: they start at 0, follow one another without a gap   *)
(* or an overlap, each is one full uncompressed block, and only the block   *)
(* that ends the data is shorter.                                           *)
BlocksPartitionData ==
  /\ blocks = <<>> => uncompressed_data_size = data_size
  /\ \A i \in 1 .. Len(blocks) :
       /\ i = 1 => blocks[i].start = 0
       /\ i < Len(blocks) =>
            /\ blocks[i].mapped = BlockSizes[file_type]
            /\ blocks[i].start + blocks[i].mapped = blocks[i + 1].start
       /\ i = Len(blocks) =>
            /\ blocks[i].start + blocks[i].mapped
                 = data_size - uncompressed_data_size
            /\ \/ blocks[i].mapped = BlockSizes[file_type]
               \/ /\ blocks[i].mapped < BlockSizes[file_type]
                  /\ uncompressed_data_size = 0

\* The size field that lies outside the compressed range.
Gap == IF file_type = "win7" THEN 4 ELSE 0

(* The ranges in the file follow the header and one another, separated only *)
(* by the size field of Windows 7; every one holds data, and only the last  *)
(* block can run past the end of the file.                                  *)
BlocksTileFile ==
  \A i \in 1 .. Len(blocks) :
    /\ blocks[i].size > 0
    /\ i = 1 => blocks[i].offset = HeaderSize(file_type) + Gap
    /\ i < Len(blocks) =>
         /\ blocks[i].offset + blocks[i].size + Gap = blocks[i + 1].offset
         /\ blocks[i].offset + blocks[i].size < file_size
    /\ i = Len(blocks) => blocks[i].offset + blocks[i].size = file_offset

(* Success means that the blocks account for all of the data, or that the   *)
(* file held nothing after the last block: such a file is cut off, and the  *)
(* listing does not notice.  A Windows 8 file is never listed.              *)
ListedOrTruncated ==
  state = "ok" =>
    /\ file_type # "win8"
    /\ uncompressed_data_size = 0 \/ file_offset >= file_size
=============================================================================
