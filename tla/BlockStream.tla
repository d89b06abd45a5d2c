---------------------------- MODULE BlockStream ----------------------------
(***************************************************************************)
(* The uncompressed data stream of an open file.  For a compressed file it *)
(* is built by libagdb_compressed_blocks_stream_initialize: one segment    *)
(* per listed block, a data handle with an offset of its own, and a cache  *)
(* of decompressed blocks.  For an uncompressed file it is one segment     *)
(* whose data handle is the libbfio handle.                                *)
(*                                                                         *)
(* The stream, the list and the cache are libfdata and libfcache; they are *)
(* modelled as this code uses them: a read of the stream is cut at the     *)
(* segment boundaries, the seek callback may be skipped when the read goes *)
(* on where the last callback stopped, and after a callback that returned  *)
(* less than asked the stream may stop or go on.                           *)
(***************************************************************************)
EXTENDS BlockList

CONSTANTS
  BlockSize,     \* io_handle->uncompressed_block_size
  Streams,       \* the streams that are checked, see StreamAssumption
  CacheEntries,  \* LIBAGDB_MAXIMUM_CACHE_ENTRIES_COMPRESSED_BLOCKS
  MaxOffset,     \* bound on the offsets a reader seeks to
  MaxRead        \* bound on the size of a read

\* The elements of a list that libagdb_io_handle_read_compressed_blocks built.
ASSUME StreamAssumption ==
  /\ Streams \subseteq
       [kind : {"blocks", "file"},
        blocks : Seq([start : Nat, mapped : Nat, yields : Int])]
  /\ \A s \in Streams :
       /\ s.kind = "blocks" => Partitions(s.blocks, BlockSize)
       /\ s.kind = "file" =>
            /\ Len(s.blocks) = 1
            /\ s.blocks[1].start = 0
            /\ s.blocks[1].yields = s.blocks[1].mapped

ASSUME BoundAssumption ==
  /\ BlockSize \in Nat \ {0}
  /\ CacheEntries \in Nat \ {0}
  /\ MaxOffset \in Nat /\ MaxRead \in Nat

VARIABLES
  kind, blocks,     \* the stream, fixed; a "file" is a single block
  segments,         \* segments of the libfdata stream
  segment_offset,   \* local of compressed_blocks_stream_initialize
  stream_size,      \* libfdata: sum of the segment sizes
  stream_offset,    \* libfdata: offset of the stream
  current_offset,   \* offset of the data handle of the callbacks
  positioned,       \* 1 when libfdata may read without seeking first
  cache,            \* compressed_blocks_cache
  state,            \* "segments", "ready", "reading" or "failed"
  read_size,        \* bytes the last read asked for
  wanted,           \* bytes the read that is going on still wants
  buffer,           \* bytes it has
  outcome           \* of the last read

fixed     == <<kind, blocks>>
buildVars == <<segments, segment_offset, stream_size>>
readVars  == <<stream_offset, current_offset, positioned, cache, read_size,
               wanted, buffer, outcome>>
vars      == <<fixed, buildVars, readVars, state>>

NoBlock == [index |-> 0, data_size |-> 0]

Init ==
  /\ \E s \in Streams : kind = s.kind /\ blocks = s.blocks
  /\ segments = <<>> /\ segment_offset = 0 /\ stream_size = 0
  /\ stream_offset = 0 /\ current_offset = 0 /\ positioned = 0
  /\ cache = [s \in 0 .. CacheEntries - 1 |-> NoBlock]
  /\ state = "segments"
  /\ read_size = 0 /\ wanted = 0 /\ buffer = <<>> /\ outcome = "none"

-----------------------------------------------------------------------------
(* Building the stream                                                     *)

\* Mutant: every segment is given offset 0.
AppendSegmentForgetsOffset ==
  /\ state = "segments"
  /\ Len(segments) < Len(blocks)
  /\ LET size == blocks[Len(segments) + 1].mapped
     IN  /\ segments' = Append(segments, [start  |-> stream_size,
                                          offset |-> segment_offset,
                                          size   |-> size])
         /\ stream_size' = stream_size + size
  /\ UNCHANGED <<fixed, readVars, state, segment_offset>>

\* The segment gets the mapped size of the next list element.
AppendSegment ==
  /\ state = "segments"
  /\ Len(segments) < Len(blocks)
  /\ LET size == blocks[Len(segments) + 1].mapped
     IN  /\ segments' = Append(segments, [start  |-> stream_size,
                                          offset |-> segment_offset,
                                          size   |-> size])
         /\ stream_size' = stream_size + size
         /\ segment_offset' = segment_offset + size
  /\ UNCHANGED <<fixed, readVars, state>>

StreamComplete ==
  /\ state = "segments"
  /\ Len(segments) = Len(blocks)
  /\ state' = "ready"
  /\ UNCHANGED <<fixed, buildVars, readVars>>

\* A libfdata call fails: the stream is freed.
StreamFails ==
  /\ state = "segments"
  /\ state' = "failed"
  /\ segments' = <<>> /\ stream_size' = 0
  /\ UNCHANGED <<fixed, readVars, segment_offset>>

-----------------------------------------------------------------------------
(* Reading: libfdata_stream_read_buffer[_at_offset]                        *)

\* The segment at the stream offset, the offset libfdata seeks to in it and
\* the part of the read that lies in it.
Segment  == CHOOSE k \in 1 .. Len(segments) :
              /\ segments[k].start <= stream_offset
              /\ stream_offset < segments[k].start + segments[k].size
Position == segments[Segment].offset + (stream_offset - segments[Segment].start)
Part     == LET left == segments[Segment].start + segments[Segment].size
                          - stream_offset
            IN  IF wanted < left THEN wanted ELSE left

SeekStream(offset) ==
  /\ state = "ready"
  /\ stream_offset' = offset
  /\ positioned' = 0
  /\ UNCHANGED <<fixed, buildVars, state, current_offset, cache, read_size,
                 wanted, buffer, outcome>>

BeginRead(size) ==
  /\ state = "ready"
  /\ state' = "reading"
  /\ read_size' = size /\ wanted' = size
  /\ buffer' = <<>>
  /\ outcome' = "none"
  /\ UNCHANGED <<fixed, buildVars, stream_offset, current_offset, positioned,
                 cache>>

InSegment == state = "reading" /\ wanted > 0 /\ stream_offset < stream_size

SeekSegmentOffset ==
  /\ InSegment /\ positioned = 0
  /\ current_offset' = Position
  /\ positioned' = 1
  /\ UNCHANGED <<fixed, buildVars, state, stream_offset, cache, read_size,
                 wanted, buffer, outcome>>

\* libfdata counts what the callback returned.
Advance(count) ==
  /\ stream_offset' = stream_offset + count
  /\ \/ wanted' = wanted - count
     \/ count < Part /\ wanted' = 0
  /\ positioned' \in {0, 1}

\* libfdata_list_get_element_value_at_offset and the cache slot it looks in.
InElement(i) == /\ blocks[i].start <= current_offset
                /\ current_offset < blocks[i].start + blocks[i].mapped
HasElement   == \E i \in 1 .. Len(blocks) : InElement(i)
Element      == CHOOSE i \in 1 .. Len(blocks) : InElement(i)
Slot(i)      == i % CacheEntries
IsCached(i)  == cache[Slot(i)].index = i

\* libagdb_compressed_block_initialize: a buffer of the mapped size.
BlockInitialize(i) == blocks[i].mapped > 0

\* libagdb_compressed_block_read: all of the block is read and decompressed.
BlockRead(i) == blocks[i].yields >= 0

\* Mutant: the size that the decompression returned is ignored.
ReadElementDataKeepsSize(i) ==
  /\ blocks[i].mapped <= BlockSize
  /\ BlockInitialize(i) /\ BlockRead(i)
  /\ cache' = [cache EXCEPT ![Slot(i)] =
                 [index |-> i, data_size |-> blocks[i].mapped]]

\* The new block, of the size its decompression gave, replaces what the slot
\* of the cache held.
ReadElementData(i) ==
  /\ blocks[i].mapped <= BlockSize
  /\ BlockInitialize(i) /\ BlockRead(i)
  /\ cache' = [cache EXCEPT ![Slot(i)] =
                 [index |-> i, data_size |-> blocks[i].yields]]

GetElementValue(i) ==
  IF IsCached(i) THEN UNCHANGED cache ELSE ReadElementData(i)

Bytes(i, offset, count) == [j \in 1 .. count |-> <<i, offset + j - 1>>]

\* Mutant: the offset in the block is not compared with its size.
ReadSegmentDataUnchecked ==
  /\ InSegment /\ positioned = 1 /\ kind = "blocks"
  /\ HasElement
  /\ GetElementValue(Element)
  /\ LET value       == cache'[Slot(Element)]
         data_offset == current_offset - blocks[Element].start
         count       == IF data_offset + Part > value.data_size
                        THEN value.data_size - data_offset ELSE Part
     IN  /\ buffer' = buffer \o Bytes(value.index, data_offset, count)
         /\ current_offset' = current_offset + count
         /\ Advance(count)
  /\ UNCHANGED <<fixed, buildVars, state, read_size, outcome>>

\* Mutant: a read at the end of the block returns 0 instead of failing.
ReadSegmentDataReturnsZero ==
  /\ InSegment /\ positioned = 1 /\ kind = "blocks"
  /\ HasElement
  /\ GetElementValue(Element)
  /\ LET value       == cache'[Slot(Element)]
         data_offset == current_offset - blocks[Element].start
         count       == IF data_offset >= value.data_size THEN 0
                        ELSE IF data_offset + Part > value.data_size
                        THEN value.data_size - data_offset ELSE Part
     IN  /\ buffer' = buffer \o Bytes(value.index, data_offset, count)
         /\ current_offset' = current_offset + count
         /\ Advance(count)
  /\ UNCHANGED <<fixed, buildVars, state, read_size, outcome>>

\* Mutant: the data handle stays where it was.
ReadSegmentDataStays ==
  /\ InSegment /\ positioned = 1 /\ kind = "blocks"
  /\ HasElement
  /\ GetElementValue(Element)
  /\ LET value       == cache'[Slot(Element)]
         data_offset == current_offset - blocks[Element].start
         count       == IF data_offset + Part > value.data_size
                        THEN value.data_size - data_offset ELSE Part
     IN  /\ data_offset < value.data_size
         /\ buffer' = buffer \o Bytes(value.index, data_offset, count)
         /\ Advance(count)
  /\ UNCHANGED <<fixed, buildVars, state, read_size, outcome, current_offset>>

\* The read callback of a compressed file: from the block at current_offset,
\* up to the end of the data the block has.
ReadSegmentData ==
  /\ InSegment /\ positioned = 1 /\ kind = "blocks"
  /\ HasElement
  /\ GetElementValue(Element)
  /\ LET value       == cache'[Slot(Element)]
         data_offset == current_offset - blocks[Element].start
         count       == IF data_offset + Part > value.data_size
                        THEN value.data_size - data_offset ELSE Part
     IN  /\ data_offset < value.data_size
         /\ buffer' = buffer \o Bytes(value.index, data_offset, count)
         /\ current_offset' = current_offset + count
         /\ Advance(count)
  /\ UNCHANGED <<fixed, buildVars, state, read_size, outcome>>

\* The read callback of an uncompressed file: all of the part or nothing.
ReadFileData ==
  /\ InSegment /\ positioned = 1 /\ kind = "file"
  /\ current_offset + Part <= blocks[1].mapped
  /\ buffer' = buffer \o Bytes(1, current_offset, Part)
  /\ current_offset' = current_offset + Part
  /\ Advance(Part)
  /\ UNCHANGED <<fixed, buildVars, state, cache, read_size, outcome>>

\* A callback fails.  A short read of the file may have moved its offset.  A
\* block that was read stays in the cache when the offset is behind its data.
ReadFails ==
  /\ InSegment
  /\ \/ /\ kind = "file"
        /\ \/ UNCHANGED current_offset
           \/ /\ positioned = 1
              /\ \E moved \in 1 .. Part :
                   /\ current_offset + moved <= blocks[1].mapped
                   /\ current_offset' = current_offset + moved
        /\ UNCHANGED cache
     \/ /\ kind = "blocks" /\ positioned = 1
        /\ \/ /\ HasElement => ~IsCached(Element)
              /\ UNCHANGED cache
           \/ /\ HasElement
              /\ GetElementValue(Element)
              /\ current_offset - blocks[Element].start
                   >= cache'[Slot(Element)].data_size
        /\ UNCHANGED current_offset
  /\ state' = "ready"
  /\ wanted' = 0
  /\ positioned' = 0
  /\ outcome' = "error"
  /\ UNCHANGED <<fixed, buildVars, stream_offset, read_size, buffer>>

EndRead ==
  /\ state = "reading"
  /\ wanted = 0 \/ stream_offset >= stream_size
  /\ state' = "ready"
  /\ wanted' = 0
  /\ outcome' = "ok"
  /\ UNCHANGED <<fixed, buildVars, stream_offset, current_offset, positioned,
                 cache, read_size, buffer>>

ReadStep ==
  SeekSegmentOffset \/ ReadSegmentData \/ ReadFileData \/ ReadFails \/ EndRead

Next ==
  \/ AppendSegment \/ StreamComplete \/ StreamFails
  \/ \E offset \in 0 .. MaxOffset : SeekStream(offset)
  \/ \E size \in 1 .. MaxRead : BeginRead(size)
  \/ ReadStep

\* The reading thread runs on; nothing obliges a caller to read.
Spec == Init /\ [][Next]_vars /\ WF_vars(ReadStep)

-----------------------------------------------------------------------------
Byte == (1 .. Len(blocks)) \X Nat

TypeOK ==
  /\ [kind |-> kind, blocks |-> blocks] \in Streams
  /\ segments \in Seq([start : Nat, offset : Nat, size : Nat])
  /\ segment_offset \in Nat /\ stream_size \in Nat
  /\ stream_offset \in Nat /\ current_offset \in Nat
  /\ positioned \in {0, 1}
  /\ cache \in [0 .. CacheEntries - 1 -> [index : 0 .. Len(blocks),
                                          data_size : Nat]]
  /\ state \in {"segments", "ready", "reading", "failed"}
  /\ buffer \in Seq(Byte)
  /\ read_size \in 0 .. MaxRead
  /\ wanted \in Nat /\ Len(buffer) + wanted <= read_size
  /\ outcome \in {"none", "ok", "error"}

(* The three cursors of a read agree: whenever the read callback may run    *)
(* without a seek, the offset of its data handle is the offset of the       *)
(* stream, after short reads, failed reads and seeks of the reader too, and *)
(* segment boundaries lie where the boundaries of the blocks are.           *)
CursorsAgree ==
  /\ positioned = 1 => current_offset = stream_offset
  /\ InSegment => Position = stream_offset

(* A block in the cache is the block its slot says, with no more data than  *)
(* its decompression gave: what is copied out of it is never what the       *)
(* allocation held before.                                                  *)
CacheHoldsItsBlocks ==
  \A s \in DOMAIN cache :
    cache[s] # NoBlock =>
      /\ Slot(cache[s].index) = s
      /\ cache[s].data_size = blocks[cache[s].index].yields

Missing == <<0, 0>>

\* The byte at offset x of the uncompressed data.
ByteAt(x) ==
  LET i == CHOOSE k \in 1 .. Len(blocks) :
             blocks[k].start <= x /\ x < blocks[k].start + blocks[k].mapped
  IN  IF x - blocks[i].start < blocks[i].yields
      THEN <<i, x - blocks[i].start>> ELSE Missing

DataSize == IF blocks = <<>> THEN 0
            ELSE blocks[Len(blocks)].start + blocks[Len(blocks)].mapped

Data == [x \in 0 .. DataSize - 1 |-> ByteAt(x)]

\* While a read goes on, it is seen where it began and with nothing returned.
ReadOffset ==
  IF state = "reading" THEN stream_offset - Len(buffer) ELSE stream_offset

Asked    == IF state = "reading" THEN read_size ELSE 0
Returned == IF outcome = "ok" THEN buffer ELSE <<>>

Bytestream == INSTANCE ByteStream WITH
  data <- Data, offset <- ReadOffset, asked <- Asked, returned <- Returned

(* Whatever the block sizes, the cache hits and the failures, what a read   *)
(* of the stream returns are the bytes of the uncompressed data at the      *)
(* stream offset, each once and in order, and a read is short only where    *)
(* the data ends or a block decompressed to less than its size.             *)
ImplementsByteStream == Bytestream!Spec

(* A read of the stream comes to an end: every callback makes progress or   *)
(* fails, also at the end of a block that decompressed short.               *)
ReadEnds == state = "reading" ~> state = "ready"
=============================================================================
