------------------------- MODULE BlockStreamProofs -------------------------
(* Proofs about BlockStream, for every stream of a list of blocks of any    *)
(* number and sizes, every cache size and every sequence of reads and       *)
(* seeks.                                                                   *)
EXTENDS BlockStream, SequenceTheorems, TLAPS

\* The inductive invariant, in parts that are proved one by one.
StreamInv == [kind |-> kind, blocks |-> blocks] \in Streams

Covers(k, x) == /\ segments[k].start <= x
                /\ x < segments[k].start + segments[k].size

SegmentTypes == segments \in Seq([start : Nat, offset : Nat, size : Nat])

\* The segments so far lie one behind the other where the blocks are.
BuildInv ==
  /\ segment_offset \in Nat /\ stream_size \in Nat
  /\ Len(segments) \in 0 .. Len(blocks)
  /\ state \in {"segments", "ready", "reading", "failed"}
  /\ state \in {"ready", "reading"} => Len(segments) = Len(blocks)
  /\ state = "failed" => segments = <<>>
  /\ state # "failed" => segment_offset = stream_size
  /\ \A k \in 1 .. Len(segments) :
       /\ segments[k].start = blocks[k].start
       /\ segments[k].offset = blocks[k].start
       /\ segments[k].size = blocks[k].mapped
       /\ segments[k].start + segments[k].size <= stream_size
       /\ \A j \in 1 .. k - 1 :
            segments[j].start + segments[j].size <= segments[k].start
  /\ Len(segments) = 0 => stream_size = 0
  /\ Len(segments) # 0 =>
       stream_size = blocks[Len(segments)].start + blocks[Len(segments)].mapped
  /\ \A x \in 0 .. stream_size - 1 : \E k \in 1 .. Len(segments) : Covers(k, x)

CursorInv ==
  /\ stream_offset \in Nat /\ current_offset \in Nat
  /\ positioned \in {0, 1}
  /\ positioned = 1 => current_offset = stream_offset

\* A cached block is one of the list, in its slot, with the data it yields.
CacheInv ==
  /\ cache \in [0 .. CacheEntries - 1 -> [index : 0 .. Len(blocks),
                                          data_size : Nat]]
  /\ \A s \in 0 .. CacheEntries - 1 :
       \/ cache[s] = NoBlock
       \/ /\ cache[s].index \in 1 .. Len(blocks)
          /\ Slot(cache[s].index) = s
          /\ cache[s].data_size = blocks[cache[s].index].yields

\* The uncompressed data goes on at offset x.
Present(x) == x \in 0 .. DataSize - 1 /\ ByteAt(x) # Missing

\* What a read has delivered so far are the bytes before the stream offset.
BufferMatches ==
  /\ Len(buffer) <= stream_offset
  /\ \A j \in 1 .. Len(buffer), x \in Nat :
       x + Len(buffer) + 1 = stream_offset + j =>
         Present(x) /\ buffer[j] = ByteAt(x)

\* A read gives up only where the data stops.
BufferInv ==
  /\ buffer \in Seq(Byte)
  /\ read_size \in 0 .. MaxRead
  /\ wanted \in Nat /\ Len(buffer) + wanted <= read_size
  /\ outcome \in {"none", "ok", "error"}
  /\ state \in {"segments", "failed"} => outcome = "none"
  /\ state = "reading" =>
       /\ read_size > 0
       /\ outcome = "none"
       /\ BufferMatches
       /\ \/ Len(buffer) + wanted = read_size
          \/ wanted = 0 /\ ~Present(stream_offset)

StreamParts ==
  /\ StreamInv /\ SegmentTypes /\ BuildInv
  /\ CursorInv /\ CacheInv /\ BufferInv

LEMMA SlotInCache ==
  ASSUME NEW i \in Nat
  PROVE  Slot(i) \in 0 .. CacheEntries - 1
  BY BoundAssumption DEF Slot

LEMMA BlockFacts ==
  ASSUME StreamInv
  PROVE  /\ kind \in {"blocks", "file"}
         /\ blocks \in Seq([start : Nat, mapped : Nat, yields : Int])
         /\ Len(blocks) \in Nat
         /\ \A i \in 1 .. Len(blocks) :
              /\ blocks[i].start \in Nat
              /\ blocks[i].mapped \in Nat
              /\ blocks[i].yields \in Int
              /\ blocks[i].yields <= blocks[i].mapped
              /\ i = 1 => blocks[i].start = 0
              /\ i > 1 => blocks[i].start
                            = blocks[i - 1].start + blocks[i - 1].mapped
         /\ kind = "file" => /\ Len(blocks) = 1
                             /\ blocks[1].yields = blocks[1].mapped
<1> DEFINE B == Seq([start : Nat, mapped : Nat, yields : Int])
           s == [kind |-> kind, blocks |-> blocks]
<1>1. Streams \subseteq [kind : {"blocks", "file"}, blocks : B]
  BY StreamAssumption
<1>2. kind \in {"blocks", "file"} /\ blocks \in B
  <2> HIDE DEF B
  <2>1. QED
    BY <1>1 DEF StreamInv
<1>3. /\ kind = "blocks" => Partitions(blocks, BlockSize)
      /\ kind = "file" => /\ Len(blocks) = 1
                          /\ blocks[1].start = 0
                          /\ blocks[1].yields = blocks[1].mapped
  <2>1. s.kind = kind /\ s.blocks = blocks
    OBVIOUS
  <2>2. s \in Streams
    BY DEF StreamInv
  <2> HIDE DEF s
  <2>3. QED
    BY <2>1, <2>2, StreamAssumption
<1>4. \A i \in 1 .. Len(blocks) :
        /\ blocks[i].start \in Nat /\ blocks[i].mapped \in Nat
        /\ blocks[i].yields \in Int
  <2>1. \A S : \A q \in Seq(S) : \A i \in 1 .. Len(q) : q[i] \in S
    OBVIOUS
  <2>2. \A i \in 1 .. Len(blocks) :
          blocks[i] \in [start : Nat, mapped : Nat, yields : Int]
    BY <1>2, <2>1, Zenon
  <2>3. QED
    BY <2>2
<1>5. Len(blocks) \in Nat
  <2>1. \A S : \A q \in Seq(S) : Len(q) \in Nat
    OBVIOUS
  <2>2. QED
    BY <1>2, <2>1
<1>6. CASE kind = "file"
  <2>1. \A i \in 1 .. Len(blocks) : i = 1
    BY <1>3, <1>6
  <2>2. QED
    BY <1>2, <1>3, <1>4, <1>5, <1>6, <2>1
<1>7. CASE kind = "blocks"
  <2>1. \A i \in 1 .. Len(blocks) :
          /\ blocks[i].mapped \in 0 .. BlockSize
          /\ blocks[i].yields \in -1 .. blocks[i].mapped
          /\ blocks[i].start =
               IF i = 1 THEN 0 ELSE blocks[i - 1].start + blocks[i - 1].mapped
    BY <1>3, <1>7 DEF Partitions
  <2>2. QED
    BY <1>2, <1>4, <1>5, <1>7, <2>1
<1>8. QED
  BY <1>2, <1>6, <1>7

-----------------------------------------------------------------------------
(* Building the stream                                                      *)

LEMMA InitStream == Init => StreamInv
<1> SUFFICES ASSUME NEW s \in Streams, kind = s.kind, blocks = s.blocks
             PROVE  StreamInv
  BY DEF Init
<1> DEFINE B == Seq([start : Nat, mapped : Nat, yields : Int])
<1>1. Streams \subseteq [kind : {"blocks", "file"}, blocks : B]
  BY StreamAssumption
<1>2. s = [kind |-> s.kind, blocks |-> s.blocks]
  <2> HIDE DEF B
  <2>1. QED
    BY <1>1
<1>3. QED
  BY <1>2 DEF StreamInv

LEMMA InitBuild == Init => SegmentTypes /\ BuildInv
<1> SUFFICES ASSUME Init
             PROVE  SegmentTypes /\ BuildInv
  OBVIOUS
<1>1. Len(blocks) \in Nat
  BY InitStream, BlockFacts
<1>2. /\ segments = <<>> /\ segment_offset = 0 /\ stream_size = 0
      /\ state = "segments"
  BY DEF Init
<1>3. segments \in Seq([start : Nat, offset : Nat, size : Nat])
      /\ Len(segments) = 0
  BY <1>2
<1>4. QED
  BY <1>1, <1>2, <1>3 DEF SegmentTypes, BuildInv

LEMMA StepStream == StreamInv /\ [Next]_vars => StreamInv'
<1> SUFFICES ASSUME StreamInv, [Next]_vars
             PROVE  StreamInv'
  OBVIOUS
<1>1. UNCHANGED fixed
  BY DEF Next, AppendSegment, StreamComplete, StreamFails, SeekStream,
         BeginRead, ReadStep, SeekSegmentOffset, ReadSegmentData,
         ReadFileData, ReadFails, EndRead, vars
<1>2. QED
  BY <1>1 DEF StreamInv, fixed

LEMMA AppendBuilds ==
  ASSUME StreamInv, SegmentTypes, BuildInv, AppendSegment
  PROVE  SegmentTypes' /\ BuildInv'
<1>a. PICK n : n = Len(segments) + 1
  OBVIOUS
<1> DEFINE new == [start |-> stream_size, offset |-> segment_offset,
                   size |-> blocks[n].mapped]
<1>0. /\ Len(blocks) \in Nat
      /\ \A k \in 1 .. Len(blocks) :
           blocks[k].start \in Nat /\ blocks[k].mapped \in Nat
  BY BlockFacts
<1>1. /\ state = "segments" /\ state' = state
      /\ blocks' = blocks
      /\ segments' = Append(segments, new)
      /\ stream_size' = stream_size + blocks[n].mapped
      /\ segment_offset' = segment_offset + blocks[n].mapped
      /\ Len(segments) < Len(blocks)
  BY <1>a DEF AppendSegment, fixed
<1>2. n \in 1 .. Len(blocks) /\ Len(segments) \in Nat
  BY <1>a, <1>0, <1>1 DEF BuildInv
<1>3. blocks[n].start = stream_size
  <2>1. CASE n = 1
    BY <1>a, <1>2, <2>1, BlockFacts DEF BuildInv
  <2>2. CASE n > 1
    <3>1. n - 1 = Len(segments) /\ Len(segments) # 0
      BY <1>a, <1>2, <2>2
    <3>2. stream_size = blocks[n - 1].start + blocks[n - 1].mapped
      BY <3>1 DEF BuildInv
    <3>3. QED
      BY <1>0, <1>2, <2>2, <3>2, BlockFacts
  <2>3. QED
    BY <1>2, <2>1, <2>2
<1>4. blocks[n].mapped \in Nat /\ stream_size \in Nat /\ Len(blocks) \in Nat
      /\ segment_offset = stream_size
  BY <1>1, <1>2, BlockFacts DEF BuildInv
<1>5. new \in [start : Nat, offset : Nat, size : Nat]
  BY <1>4
<1>6. /\ new.start = stream_size /\ new.offset = stream_size
      /\ new.size = blocks[n].mapped
  BY <1>4
<1> HIDE DEF new
<1>7. /\ segments' \in Seq([start : Nat, offset : Nat, size : Nat])
      /\ Len(segments') = n
      /\ \A k \in 1 .. Len(segments) : segments'[k] = segments[k]
      /\ segments'[n] = new
  <2> DEFINE S == [start : Nat, offset : Nat, size : Nat]
  <2>1. new \in S /\ segments \in Seq(S)
    BY <1>5 DEF SegmentTypes
  <2> HIDE DEF S
  <2>2. /\ Append(segments, new) \in Seq(S)
        /\ Len(Append(segments, new)) = Len(segments) + 1
        /\ \A k \in 1 .. Len(segments) : Append(segments, new)[k] = segments[k]
        /\ Append(segments, new)[Len(segments) + 1] = new
    BY <2>1
  <2>3. segments' = Append(segments, new)
    BY <1>1
  <2>4. QED
    BY <1>a, <2>2, <2>3, Zenon DEF S
<1>8. \A k \in 1 .. Len(segments) :
        /\ segments[k].start \in Nat /\ segments[k].size \in Nat
        /\ segments[k].start = blocks[k].start
        /\ segments[k].offset = blocks[k].start
        /\ segments[k].size = blocks[k].mapped
        /\ segments[k].start + segments[k].size <= stream_size
        /\ \A j \in 1 .. k - 1 :
             segments[j].start + segments[j].size <= segments[k].start
  <2>1. \A k \in 1 .. Len(segments) : k \in 1 .. Len(blocks)
    BY <1>0, <1>2 DEF BuildInv
  <2>2. QED
    BY <1>0, <1>2, <2>1 DEF BuildInv
<1>9. \A k \in 1 .. n :
        /\ segments'[k].start = blocks[k].start
        /\ segments'[k].offset = blocks[k].start
        /\ segments'[k].size = blocks[k].mapped
        /\ segments'[k].start + segments'[k].size <= stream_size'
        /\ \A j \in 1 .. k - 1 :
             segments'[j].start + segments'[j].size <= segments'[k].start
  <2>1. ASSUME NEW k \in 1 .. Len(segments)
        PROVE  /\ segments'[k].start = blocks[k].start
               /\ segments'[k].offset = blocks[k].start
               /\ segments'[k].size = blocks[k].mapped
               /\ segments'[k].start + segments'[k].size <= stream_size'
               /\ \A j \in 1 .. k - 1 :
                    segments'[j].start + segments'[j].size
                      <= segments'[k].start
    <3>1. k \in Nat /\ k <= Len(segments) /\ segments'[k] = segments[k]
      BY <1>2, <1>7
    <3>2. ASSUME NEW j \in 1 .. k - 1
          PROVE  segments'[j].start + segments'[j].size <= segments'[k].start
      <4>1. j \in 1 .. Len(segments)
        BY <1>2, <3>1
      <4>2. segments'[j] = segments[j]
        BY <1>7, <4>1
      <4>3. QED
        BY <1>8, <3>1, <4>2
    <3>3. segments'[k].start + segments'[k].size <= stream_size'
      BY <1>1, <1>4, <1>8, <3>1
    <3>4. QED
      BY <1>8, <3>1, <3>2, <3>3
  <2>2. /\ segments'[n].start = blocks[n].start
        /\ segments'[n].offset = blocks[n].start
        /\ segments'[n].size = blocks[n].mapped
        /\ segments'[n].start + segments'[n].size <= stream_size'
        /\ \A j \in 1 .. n - 1 :
             segments'[j].start + segments'[j].size <= segments'[n].start
    <3>1. /\ segments'[n].start = stream_size
          /\ segments'[n].offset = stream_size
          /\ segments'[n].size = blocks[n].mapped
      BY <1>6, <1>7
    <3>2. segments'[n].start + segments'[n].size <= stream_size'
      BY <1>1, <1>4, <3>1
    <3>3. ASSUME NEW j \in 1 .. n - 1
          PROVE  segments'[j].start + segments'[j].size <= segments'[n].start
      <4>1. j \in 1 .. Len(segments)
        BY <1>a, <1>2
      <4>2. segments'[j] = segments[j]
        BY <1>7, <4>1
      <4>3. QED
        BY <1>8, <3>1, <4>1, <4>2
    <3>4. QED
      BY <1>3, <3>1, <3>2, <3>3
  <2>3. QED
    BY <1>a, <1>2, <2>1, <2>2
<1>10. \A x \in 0 .. stream_size' - 1 :
         \E k \in 1 .. n : Covers(k, x)'
  <2> SUFFICES ASSUME NEW x \in 0 .. stream_size' - 1
               PROVE  \E k \in 1 .. n : Covers(k, x)'
    OBVIOUS
  <2>1. CASE x < stream_size
    <3>1. PICK k \in 1 .. Len(segments) : Covers(k, x)
      BY <2>1, <1>1, <1>4 DEF BuildInv
    <3>2. Covers(k, x)'
      BY <3>1, <1>7 DEF Covers
    <3>3. QED
      BY <1>a, <1>2, <3>2
  <2>2. CASE x >= stream_size
    <3>1. Covers(n, x)'
      BY <2>2, <1>1, <1>4, <1>6, <1>7 DEF Covers
    <3>2. QED
      BY <1>2, <3>1
  <2>3. QED
    BY <1>1, <1>4, <2>1, <2>2
<1>11. stream_size' \in Nat /\ segment_offset' = stream_size'
  BY <1>1, <1>4
<1>12. stream_size' = blocks[n].start + blocks[n].mapped
  BY <1>1, <1>3
<1>13. n <= Len(blocks) /\ n # 0
  BY <1>2
<1>14. SegmentTypes'
  BY <1>7 DEF SegmentTypes
<1>15. /\ segment_offset' \in Nat /\ stream_size' \in Nat
       /\ Len(segments)' \in 0 .. Len(blocks)'
  BY <1>0, <1>1, <1>2, <1>7, <1>11
<1>16. QED
  BY <1>1, <1>7, <1>9, <1>10, <1>11, <1>12, <1>13, <1>14, <1>15
  DEF BuildInv

LEMMA StepBuild ==
  StreamInv /\ SegmentTypes /\ BuildInv /\ [Next]_vars
    => SegmentTypes' /\ BuildInv'
<1> SUFFICES ASSUME StreamInv, SegmentTypes, BuildInv, [Next]_vars
             PROVE  SegmentTypes' /\ BuildInv'
  OBVIOUS
<1>1. CASE AppendSegment
  BY <1>1, AppendBuilds
<1>2. CASE StreamFails
  <2>1. /\ state = "segments" /\ state' = "failed" /\ segments' = <<>>
        /\ stream_size' = 0
        /\ UNCHANGED <<blocks, segment_offset>>
    BY <1>2 DEF StreamFails, fixed
  <2>2. segments' \in Seq([start : Nat, offset : Nat, size : Nat])
        /\ Len(segments') = 0
    BY <2>1
  <2>3. Len(blocks) \in Nat
    BY BlockFacts
  <2>4. QED
    BY <2>1, <2>2, <2>3 DEF SegmentTypes, BuildInv
<1>3. CASE UNCHANGED <<fixed, buildVars>>
           /\ \/ UNCHANGED state
              \/ StreamComplete
              \/ state \in {"ready", "reading"} /\ state' \in {"ready", "reading"}
  <2>1. \A k, x : Covers(k, x)' <=> Covers(k, x)
    BY <1>3 DEF Covers, buildVars
  <2>2. QED
    BY <1>3, <2>1 DEF SegmentTypes, BuildInv, StreamComplete, fixed, buildVars
<1>4. CASE (\E offset \in 0 .. MaxOffset : SeekStream(offset))
           \/ (\E size \in 1 .. MaxRead : BeginRead(size))
           \/ ReadStep \/ StreamComplete \/ UNCHANGED vars
  BY <1>3, <1>4
  DEF SeekStream, BeginRead, ReadStep, SeekSegmentOffset, ReadSegmentData,
      ReadFileData, ReadFails, EndRead, InSegment, StreamComplete, vars
<1>5. QED
  BY <1>1, <1>2, <1>4 DEF Next

-----------------------------------------------------------------------------
(* Where a read is                                                          *)

\* Block i holds offset x of the stream.
InBlock(i, x) == /\ blocks[i].start <= x
                 /\ x < blocks[i].start + blocks[i].mapped

(* Once the stream is built, its segments are the blocks, which lie behind  *)
(* each other without a gap.                                                *)
LEMMA BuiltStream ==
  ASSUME StreamInv, BuildInv, state \in {"ready", "reading"}
  PROVE  /\ Len(segments) = Len(blocks) /\ Len(blocks) \in Nat
         /\ stream_size = DataSize /\ DataSize \in Nat
         /\ \A k \in 1 .. Len(blocks) :
              /\ blocks[k].start \in Nat /\ blocks[k].mapped \in Nat
              /\ blocks[k].yields \in Int
              /\ blocks[k].yields <= blocks[k].mapped
              /\ segments[k].start = blocks[k].start
              /\ segments[k].offset = blocks[k].start
              /\ segments[k].size = blocks[k].mapped
              /\ blocks[k].start + blocks[k].mapped <= DataSize
              /\ \A j \in 1 .. k - 1 :
                   blocks[j].start + blocks[j].mapped <= blocks[k].start
         /\ \A x \in 0 .. DataSize - 1 :
              \E k \in 1 .. Len(blocks) : InBlock(k, x)
<1>1. Len(segments) = Len(blocks) /\ Len(blocks) \in Nat
  BY BlockFacts DEF BuildInv
<1>2. \A k \in 1 .. Len(blocks) :
        /\ blocks[k].start \in Nat /\ blocks[k].mapped \in Nat
        /\ blocks[k].yields \in Int
        /\ blocks[k].yields <= blocks[k].mapped
  BY BlockFacts
<1>3. \A k \in 1 .. Len(blocks) :
        /\ segments[k].start = blocks[k].start
        /\ segments[k].offset = blocks[k].start
        /\ segments[k].size = blocks[k].mapped
        /\ segments[k].start + segments[k].size <= stream_size
        /\ \A j \in 1 .. k - 1 :
             segments[j].start + segments[j].size <= segments[k].start
  BY <1>1 DEF BuildInv
<1>4. \A k \in 1 .. Len(blocks) : \A j \in 1 .. k - 1 :
        blocks[j].start + blocks[j].mapped <= blocks[k].start
  <2> SUFFICES ASSUME NEW k \in 1 .. Len(blocks), NEW j \in 1 .. k - 1
               PROVE  blocks[j].start + blocks[j].mapped <= blocks[k].start
    OBVIOUS
  <2>1. j \in 1 .. Len(blocks)
    BY <1>1
  <2>2. QED
    BY <1>3, <2>1
<1>5. stream_size = DataSize /\ DataSize \in Nat
  <2>1. CASE Len(blocks) = 0
    <3>1. \A S : \A q \in Seq(S) : Len(q) = 0 => q = <<>>
      OBVIOUS
    <3>2. blocks = <<>>
      BY <2>1, <3>1, BlockFacts, Zenon
    <3>3. QED
      BY <1>1, <2>1, <3>2 DEF DataSize, BuildInv
  <2>2. CASE Len(blocks) # 0
    <3>1. blocks # <<>>
      BY <2>2
    <3>2. stream_size = blocks[Len(blocks)].start + blocks[Len(blocks)].mapped
      BY <1>1, <2>2 DEF BuildInv
    <3>3. QED
      BY <3>1, <3>2 DEF DataSize, BuildInv
  <2>3. QED
    BY <2>1, <2>2
<1>6. \A x \in 0 .. DataSize - 1 :
        \E k \in 1 .. Len(blocks) : InBlock(k, x)
  <2> SUFFICES ASSUME NEW x \in 0 .. DataSize - 1
               PROVE  \E k \in 1 .. Len(blocks) : InBlock(k, x)
    OBVIOUS
  <2>1. PICK k \in 1 .. Len(segments) : Covers(k, x)
    BY <1>5 DEF BuildInv
  <2>2. QED
    BY <1>1, <1>3, <2>1 DEF Covers, InBlock
<1>7. QED
  BY <1>1, <1>2, <1>3, <1>4, <1>5, <1>6

(* No two blocks hold the same offset, and what the stream has there is     *)
(* what its block yields.                                                   *)
LEMMA OneBlock ==
  ASSUME StreamInv, BuildInv, state \in {"ready", "reading"},
         NEW x \in Nat, NEW i \in 1 .. Len(blocks), InBlock(i, x)
  PROVE  /\ \A k \in 1 .. Len(blocks) : InBlock(k, x) <=> k = i
         /\ x \in 0 .. DataSize - 1
         /\ ByteAt(x) = IF x - blocks[i].start < blocks[i].yields
                        THEN <<i, x - blocks[i].start>> ELSE Missing
<1>1. \A k \in 1 .. Len(blocks) : InBlock(k, x) <=> k = i
  <2> SUFFICES ASSUME NEW k \in 1 .. Len(blocks), InBlock(k, x), k # i
               PROVE  FALSE
    OBVIOUS
  <2>1. CASE k < i
    <3>1. k \in 1 .. i - 1
      BY <2>1, BuiltStream
    <3>2. blocks[k].start + blocks[k].mapped <= blocks[i].start
      BY <3>1, BuiltStream
    <3>3. QED
      BY <3>2, BuiltStream DEF InBlock
  <2>2. CASE i < k
    <3>1. i \in 1 .. k - 1
      BY <2>2, BuiltStream
    <3>2. blocks[i].start + blocks[i].mapped <= blocks[k].start
      BY <3>1, BuiltStream
    <3>3. QED
      BY <3>2, BuiltStream DEF InBlock
  <2>3. QED
    BY <2>1, <2>2, BuiltStream
<1>2. x \in 0 .. DataSize - 1
  BY BuiltStream DEF InBlock
<1>3. i = CHOOSE k \in 1 .. Len(blocks) : InBlock(k, x)
  BY <1>1
<1>4. QED
  BY <1>1, <1>2, <1>3 DEF ByteAt, InBlock

\* The block at the stream offset and how much of it the read can use.
Current(i) ==
  /\ i \in 1 .. Len(blocks) /\ InBlock(i, stream_offset)
  /\ Segment = i
  /\ Part \in 1 .. wanted
  /\ stream_offset + Part <= blocks[i].start + blocks[i].mapped

LEMMA SegmentAtOffset ==
  ASSUME StreamInv, BuildInv, stream_offset \in Nat, wanted \in Nat, InSegment
  PROVE  /\ Current(Segment)
         /\ Position = stream_offset
<1>1. state \in {"ready", "reading"}
  BY DEF InSegment
<1>2. stream_offset \in 0 .. DataSize - 1
  BY <1>1, BuiltStream DEF InSegment
<1>3. PICK i \in 1 .. Len(blocks) : InBlock(i, stream_offset)
  BY <1>1, <1>2, BuiltStream
<1>4. \A k \in 1 .. Len(blocks) : InBlock(k, stream_offset) <=> k = i
  BY <1>1, <1>3, OneBlock
<1>5. \A k \in 1 .. Len(segments) :
        (/\ segments[k].start <= stream_offset
         /\ stream_offset < segments[k].start + segments[k].size)
          <=> k = i
  BY <1>1, <1>4, BuiltStream DEF InBlock
<1>6. i \in 1 .. Len(segments)
  BY <1>1, <1>3, BuiltStream
<1>7. Segment = i
  BY <1>5, <1>6 DEF Segment
<1>8. /\ segments[i].start = blocks[i].start
      /\ segments[i].offset = blocks[i].start
      /\ segments[i].size = blocks[i].mapped
      /\ blocks[i].start \in Nat /\ blocks[i].mapped \in Nat
  BY <1>1, <1>3, BuiltStream
<1>9. Position = stream_offset
  BY <1>7, <1>8 DEF Position
<1> DEFINE left == blocks[i].start + blocks[i].mapped - stream_offset
<1>10. Part = IF wanted < left THEN wanted ELSE left
  BY <1>7, <1>8 DEF Part
<1>11. left \in Nat /\ left > 0
  BY <1>3, <1>8 DEF InBlock
<1>12. wanted > 0
  BY DEF InSegment
<1>13. Part \in 1 .. wanted /\ Part <= left
  <2> HIDE DEF left
  <2>1. QED
    BY <1>10, <1>11, <1>12
<1>14. stream_offset + Part <= blocks[i].start + blocks[i].mapped
  BY <1>8, <1>13
<1>15. QED
  BY <1>3, <1>7, <1>9, <1>13, <1>14 DEF Current

-----------------------------------------------------------------------------
(* What a callback delivers                                                 *)

LEMMA SlotOfBlock ==
  ASSUME StreamInv, NEW i \in 1 .. Len(blocks)
  PROVE  i \in Nat /\ Slot(i) \in 0 .. CacheEntries - 1
  BY BlockFacts, SlotInCache

(* After a block has been asked for, its slot holds it, with what it        *)
(* yields.                                                                  *)
LEMMA ValueOfBlock ==
  ASSUME StreamInv, CacheInv, NEW i \in 1 .. Len(blocks), GetElementValue(i)
  PROVE  /\ cache'[Slot(i)].index = i
         /\ cache'[Slot(i)].data_size = blocks[i].yields
<1>1. /\ Slot(i) \in 0 .. CacheEntries - 1 /\ i # 0
      /\ DOMAIN cache = 0 .. CacheEntries - 1
  BY SlotOfBlock DEF CacheInv
<1>2. CASE IsCached(i)
  <2>1. cache' = cache /\ cache[Slot(i)].index = i
    BY <1>2 DEF GetElementValue, IsCached
  <2>2. cache[Slot(i)] # NoBlock
    BY <1>1, <2>1 DEF NoBlock
  <2>3. QED
    BY <1>1, <2>1, <2>2 DEF CacheInv
<1>3. CASE ~IsCached(i)
  <2>1. cache' = [cache EXCEPT ![Slot(i)] =
                    [index |-> i, data_size |-> blocks[i].yields]]
    BY <1>3 DEF GetElementValue, ReadElementData
  <2>2. QED
    BY <1>1, <2>1
<1>4. QED
  BY <1>2, <1>3

LEMMA CacheKept ==
  ASSUME StreamInv, CacheInv, NEW i \in 1 .. Len(blocks), GetElementValue(i),
         blocks' = blocks
  PROVE  CacheInv'
<1>1. CASE IsCached(i)
  BY <1>1 DEF GetElementValue, CacheInv, Slot
<1>2. CASE ~IsCached(i)
  <2> DEFINE block == [index |-> i, data_size |-> blocks[i].yields]
             Value == [index : 0 .. Len(blocks), data_size : Nat]
  <2>1. /\ blocks[i].yields >= 0
        /\ cache' = [cache EXCEPT ![Slot(i)] = block]
    BY <1>2 DEF GetElementValue, ReadElementData, BlockRead
  <2>2. block \in Value /\ block.index = i /\ block.data_size = blocks[i].yields
    BY <2>1, BlockFacts
  <2>3. cache \in [0 .. CacheEntries - 1 -> Value]
    BY DEF CacheInv
  <2> HIDE DEF block, Value
  <2>4. cache' \in [0 .. CacheEntries - 1 -> Value]
    BY <2>1, <2>2, <2>3
  <2>5. \A s \in 0 .. CacheEntries - 1 :
          \/ cache'[s] = NoBlock
          \/ /\ cache'[s].index \in 1 .. Len(blocks)
             /\ Slot(cache'[s].index) = s
             /\ cache'[s].data_size = blocks[cache'[s].index].yields
    <3> SUFFICES ASSUME NEW s \in 0 .. CacheEntries - 1
                 PROVE  \/ cache'[s] = NoBlock
                        \/ /\ cache'[s].index \in 1 .. Len(blocks)
                           /\ Slot(cache'[s].index) = s
                           /\ cache'[s].data_size
                                = blocks[cache'[s].index].yields
      OBVIOUS
    <3>1. CASE s = Slot(i)
      <4>1. cache'[s] = block
        BY <2>1, <2>3, <3>1
      <4>2. QED
        BY <2>2, <3>1, <4>1
    <3>2. CASE s # Slot(i)
      <4>1. cache'[s] = cache[s]
        BY <2>1, <2>3, <3>2
      <4>2. QED
        BY <4>1 DEF CacheInv
    <3>3. QED
      BY <3>1, <3>2
  <2>6. QED
    BY <2>4, <2>5 DEF CacheInv, Value, Slot
<1>3. QED
  BY <1>1, <1>2

\* A callback delivers count bytes of block i: all of the part, or what is
\* left of the data of the block.
Delivers(i, count) ==
  /\ Current(i)
  /\ count \in 1 .. Part
  /\ stream_offset - blocks[i].start + count <= blocks[i].yields
  /\ count < Part =>
       stream_offset + count = blocks[i].start + blocks[i].yields
  /\ buffer' = buffer \o Bytes(i, stream_offset - blocks[i].start, count)
  /\ stream_offset' = stream_offset + count
  /\ current_offset' = current_offset + count
  /\ positioned' \in {0, 1}
  /\ wanted' = wanted - count \/ (count < Part /\ wanted' = 0)
  /\ UNCHANGED <<fixed, buildVars, state, read_size, outcome>>

LEMMA CallbackDelivers ==
  ASSUME StreamInv, BuildInv, CursorInv, CacheInv, wanted \in Nat,
         ReadSegmentData \/ ReadFileData
  PROVE  /\ \E i \in 1 .. Len(blocks), count \in Nat : Delivers(i, count)
         /\ CacheInv'
<1>1. /\ InSegment /\ positioned = 1 /\ state = "reading"
      /\ UNCHANGED <<fixed, buildVars, state, read_size, outcome>>
  BY DEF ReadSegmentData, ReadFileData, InSegment
<1>2. current_offset = stream_offset /\ stream_offset \in Nat
  BY <1>1 DEF CursorInv
<1>3. Current(Segment)
  BY <1>1, <1>2, SegmentAtOffset
<1>4. PICK i \in 1 .. Len(blocks) : i = Segment /\ Current(i)
  BY <1>3 DEF Current
<1>5. /\ blocks[i].start \in Nat /\ blocks[i].mapped \in Nat
      /\ blocks[i].yields \in Int /\ Len(blocks) \in Nat
      /\ Part \in Nat /\ Part >= 1
      /\ stream_offset - blocks[i].start \in Nat
      /\ stream_offset + Part <= blocks[i].start + blocks[i].mapped
  BY <1>1, <1>2, <1>4, BlockFacts DEF Current, InBlock
<1>6. CASE ReadSegmentData
  <2>1. Element = i
    <3>1. \A k \in 1 .. Len(blocks) : InElement(k) <=> k = i
      BY <1>1, <1>2, <1>4, OneBlock DEF Current, InBlock, InElement
    <3>2. QED
      BY <3>1 DEF Element
  <2>2. GetElementValue(i)
    BY <1>6, <2>1 DEF ReadSegmentData
  <2>3. CacheInv'
    BY <1>1, <2>2, CacheKept DEF fixed
  <2> DEFINE value == cache'[Slot(i)]
             data_offset == stream_offset - blocks[i].start
             count == IF data_offset + Part > value.data_size
                      THEN value.data_size - data_offset ELSE Part
  <2>4. value.index = i /\ value.data_size = blocks[i].yields
    BY <2>2, ValueOfBlock
  <2>5. /\ data_offset < value.data_size
        /\ buffer' = buffer \o Bytes(value.index, data_offset, count)
        /\ current_offset' = current_offset + count
        /\ Advance(count)
    BY <1>2, <1>6, <2>1 DEF ReadSegmentData
  <2> HIDE DEF value
  <2>6. /\ count \in Nat /\ count \in 1 .. Part
        /\ data_offset + count <= blocks[i].yields
        /\ count < Part => stream_offset + count
                             = blocks[i].start + blocks[i].yields
    <3>1. /\ data_offset \in Nat /\ value.data_size \in Int
          /\ value.data_size = blocks[i].yields
          /\ data_offset < value.data_size
          /\ Part \in Nat /\ Part >= 1
      BY <1>2, <1>5, <2>4, <2>5
    <3>2. stream_offset = blocks[i].start + data_offset
      BY <1>2, <1>5
    <3>3. CASE data_offset + Part > value.data_size
      <4>1. count = value.data_size - data_offset
        BY <3>3
      <4> HIDE DEF count, data_offset
      <4>2. \A c, d, y, p \in Int :
              c = y - d /\ d < y /\ d + p > y
                => c \in 1 .. p /\ c \in Nat /\ d + c = y
        OBVIOUS
      <4>3. count \in 1 .. Part /\ count \in Nat
            /\ data_offset + count = blocks[i].yields
        BY <1>5, <3>1, <3>3, <4>1, <4>2
      <4>4. stream_offset + count = blocks[i].start + blocks[i].yields
        <5>1. \A b, c, d \in Int : (b + d) + c = b + (d + c)
          OBVIOUS
        <5>2. QED
          BY <1>5, <3>1, <3>2, <4>3, <5>1
      <4>5. QED
        BY <1>5, <3>1, <4>3, <4>4
    <3>4. CASE ~(data_offset + Part > value.data_size)
      <4>1. count = Part
        BY <3>4
      <4> HIDE DEF count, data_offset
      <4>2. QED
        BY <3>1, <3>4, <4>1
    <3>5. QED
      BY <3>3, <3>4
  <2> HIDE DEF count
  <2>7. Delivers(i, count)
    BY <1>1, <1>4, <2>4, <2>5, <2>6 DEF Delivers, Advance
  <2>8. QED
    BY <2>3, <2>6, <2>7
<1>7. CASE ReadFileData
  <2>1. CacheInv'
    BY <1>1, <1>7 DEF ReadFileData, CacheInv, fixed, Slot
  <2>2. i = 1 /\ blocks[1].start = 0 /\ blocks[1].yields = blocks[1].mapped
    <3>1. kind = "file"
      BY <1>7 DEF ReadFileData
    <3>2. Len(blocks) = 1 /\ blocks[1].yields = blocks[1].mapped
      BY <3>1, BlockFacts
    <3>3. i = 1
      BY <3>2
    <3>4. blocks[i].start = 0
      BY <3>3, BlockFacts
    <3>5. QED
      BY <3>2, <3>3, <3>4
  <2>3. /\ buffer' = buffer \o Bytes(1, stream_offset, Part)
        /\ current_offset' = current_offset + Part
        /\ Advance(Part)
    BY <1>2, <1>7 DEF ReadFileData
  <2>4. Delivers(i, Part)
    <3>1. /\ stream_offset' = stream_offset + Part
          /\ wanted' = wanted - Part
          /\ positioned' \in {0, 1}
      BY <1>5, <2>3 DEF Advance
    <3>2. stream_offset - blocks[i].start = stream_offset
      BY <1>2, <2>2
    <3>3. stream_offset + Part <= blocks[i].yields
      BY <1>5, <2>2
    <3>4. Part \in 1 .. Part /\ ~(Part < Part)
      BY <1>5
    <3>5. QED
      BY <1>1, <1>4, <2>2, <2>3, <3>1, <3>2, <3>3, <3>4, Zenon DEF Delivers
  <2>5. QED
    BY <1>5, <2>1, <2>4
<1>8. QED
  BY <1>6, <1>7

(* The bytes of a block in the stream.                                      *)
LEMMA PresentInBlock ==
  ASSUME StreamInv, BuildInv, state \in {"ready", "reading"},
         NEW x \in Nat, NEW i \in 1 .. Len(blocks), InBlock(i, x)
  PROVE  IF x - blocks[i].start < blocks[i].yields
         THEN Present(x) /\ ByteAt(x) = <<i, x - blocks[i].start>>
         ELSE ~Present(x)
<1>1. /\ x \in 0 .. DataSize - 1
      /\ ByteAt(x) = IF x - blocks[i].start < blocks[i].yields
                     THEN <<i, x - blocks[i].start>> ELSE Missing
  BY OneBlock
<1>2. <<i, x - blocks[i].start>> # Missing
  BY DEF Missing
<1>3. QED
  BY <1>1, <1>2 DEF Present

LEMMA BytesOfBlock ==
  ASSUME NEW i, NEW offset \in Nat, NEW count \in Nat, i \in 1 .. Len(blocks)
  PROVE  /\ Bytes(i, offset, count) \in Seq(Byte)
         /\ Len(Bytes(i, offset, count)) = count
         /\ \A j \in 1 .. count :
              Bytes(i, offset, count)[j] = <<i, offset + j - 1>>
<1>1. \A j \in 1 .. count : <<i, offset + j - 1>> \in Byte
  BY DEF Byte
<1>2. Bytes(i, offset, count) \in [1 .. count -> Byte]
  BY <1>1 DEF Bytes
<1>3. \A S : \A f \in [1 .. count -> S] : f \in Seq(S) /\ Len(f) = count
  OBVIOUS
<1>4. QED
  BY <1>2, <1>3, Zenon DEF Bytes

LEMMA DataKept ==
  ASSUME blocks' = blocks, NEW x
  PROVE  (Present(x)' <=> Present(x)) /\ ByteAt(x)' = ByteAt(x)
  BY DEF Present, ByteAt, DataSize

LEMMA DeliveredMatches ==
  ASSUME StreamInv, BuildInv, CursorInv, buffer \in Seq(Byte), BufferMatches,
         state = "reading",
         NEW i \in 1 .. Len(blocks), NEW count \in Nat, Delivers(i, count)
  PROVE  /\ buffer' \in Seq(Byte)
         /\ Len(buffer') = Len(buffer) + count
         /\ BufferMatches'
<1> DEFINE n == Len(buffer)
           d == stream_offset - blocks[i].start
           new == Bytes(i, d, count)
<1>1. /\ n \in Nat /\ stream_offset \in Nat /\ count >= 1
      /\ blocks[i].start \in Nat /\ blocks[i].mapped \in Nat
      /\ blocks[i].yields \in Int /\ Len(blocks) \in Nat /\ d \in Nat
      /\ d + count <= blocks[i].yields
      /\ blocks[i].yields <= blocks[i].mapped
      /\ stream_offset = blocks[i].start + d
  <2>1. n \in Nat
    BY LenProperties
  <2>2. count \in 1 .. Part /\ Part \in Nat
    BY BlockFacts DEF Delivers, Current
  <2>3. d + count <= blocks[i].yields /\ InBlock(i, stream_offset)
    BY DEF Delivers, Current
  <2>4. /\ stream_offset \in Nat
        /\ blocks[i].start \in Nat /\ blocks[i].mapped \in Nat
        /\ blocks[i].yields \in Int /\ Len(blocks) \in Nat
        /\ blocks[i].yields <= blocks[i].mapped
    BY BlockFacts DEF CursorInv
  <2>5. d \in Nat /\ stream_offset = blocks[i].start + d
    BY <2>3, <2>4 DEF InBlock
  <2>6. QED
    BY <2>1, <2>2, <2>3, <2>4, <2>5
<1> HIDE DEF d
<1>2. /\ new \in Seq(Byte) /\ Len(new) = count
      /\ \A j \in 1 .. count : new[j] = <<i, d + j - 1>>
  BY <1>1, BytesOfBlock
<1>3. /\ buffer' = buffer \o new /\ blocks' = blocks
      /\ stream_offset' = stream_offset + count
  BY DEF Delivers, fixed, d
<1> HIDE DEF new
<1>4. /\ buffer' \in Seq(Byte) /\ Len(buffer') = n + count
      /\ \A j \in 1 .. n + count :
           buffer'[j] = IF j <= n THEN buffer[j] ELSE new[j - n]
  BY <1>2, <1>3, ConcatProperties
<1>5. ASSUME NEW j \in 1 .. n + count, NEW x \in Nat,
             x + (n + count) + 1 = stream_offset' + j
      PROVE  Present(x) /\ buffer'[j] = ByteAt(x)
  <2>0. \A b, c, e, f, g \in Int :
          /\ b + (c + e) + 1 = (f + e) + g => b + c + 1 = f + g
          /\ b + c + 1 = f + g => b + 1 = f + (g - c)
    OBVIOUS
  <2> HIDE DEF n
  <2>1. j \in Nat /\ j >= 1 /\ j <= n + count /\ n \in Int
        /\ stream_offset \in Int
    BY <1>1
  <2>2. x + n + 1 = stream_offset + j
    <3>1. x + (n + count) + 1 = (stream_offset + count) + j
      BY <1>3, <1>5
    <3>2. QED
      BY <2>0, <2>1, <3>1
  <2>3. CASE j <= n
    <3>1. Present(x) /\ buffer[j] = ByteAt(x)
      BY <1>1, <2>1, <2>2, <2>3 DEF BufferMatches, n
    <3>2. QED
      BY <1>4, <2>1, <2>3, <3>1
  <2>4. CASE j > n
    <3> DEFINE k == j - n
    <3>1. k \in 1 .. count /\ x + 1 = stream_offset + k
      BY <2>0, <2>1, <2>2, <2>4
    <3>2. buffer'[j] = new[k]
      BY <1>4, <2>1, <2>4
    <3> HIDE DEF k
    <3>3. buffer'[j] = <<i, d + k - 1>>
      BY <1>2, <3>1, <3>2
    <3>4. /\ InBlock(i, x) /\ x - blocks[i].start = d + k - 1
          /\ d + k - 1 < blocks[i].yields
      <4>1. /\ blocks[i].start \in Int /\ blocks[i].mapped \in Int
            /\ blocks[i].yields \in Int /\ stream_offset \in Int /\ d \in Int
            /\ blocks[i].mapped >= blocks[i].yields
            /\ d + count <= blocks[i].yields
            /\ stream_offset = blocks[i].start + d /\ d >= 0
        BY <1>1
      <4>2. /\ blocks[i].start <= x /\ x < blocks[i].start + blocks[i].mapped
            /\ x - blocks[i].start = d + k - 1 /\ d + k - 1 < blocks[i].yields
        <5>1. PICK b \in Int : b = blocks[i].start
          BY <4>1
        <5>2. PICK m \in Int : m = blocks[i].mapped
          BY <4>1
        <5>3. PICK y \in Int : y = blocks[i].yields
          BY <4>1
        <5>4. PICK e \in Int : e = d
          BY <4>1
        <5>5. m >= y /\ e + count <= y /\ e >= 0 /\ x + 1 = (b + e) + k
          BY <3>1, <4>1, <5>1, <5>2, <5>3, <5>4
        <5>6. b <= x /\ x < b + m /\ x - b = e + k - 1 /\ e + k - 1 < y
          BY <3>1, <5>5
        <5>7. QED
          BY <5>1, <5>2, <5>3, <5>4, <5>6
      <4>3. QED
        BY <4>2 DEF InBlock
    <3>5. Present(x) /\ ByteAt(x) = <<i, d + k - 1>>
      BY <3>4, PresentInBlock
    <3>6. QED
      BY <3>3, <3>5
  <2>5. QED
    BY <2>1, <2>3, <2>4
<1>6. Len(buffer') <= stream_offset'
  BY <1>1, <1>3, <1>4 DEF BufferMatches
<1>7. ASSUME NEW j \in 1 .. Len(buffer'), NEW x \in Nat,
             x + Len(buffer') + 1 = stream_offset' + j
      PROVE  Present(x)' /\ buffer'[j] = ByteAt(x)'
  <2>1. Present(x) /\ buffer'[j] = ByteAt(x)
    BY <1>4, <1>5, <1>7
  <2>2. QED
    BY <1>3, <2>1, DataKept
<1>8. QED
  BY <1>4, <1>6, <1>7 DEF BufferMatches

LEMMA DeliverKeepsBuffer ==
  ASSUME StreamInv, BuildInv, CursorInv, BufferInv, state = "reading",
         NEW i \in 1 .. Len(blocks), NEW count \in Nat, Delivers(i, count)
  PROVE  BufferInv'
<1>1. BufferMatches
  BY DEF BufferInv
<1>2. /\ buffer' \in Seq(Byte) /\ Len(buffer') = Len(buffer) + count
      /\ BufferMatches' /\ Len(buffer) \in Nat
  BY <1>1, DeliveredMatches, LenProperties DEF BufferInv
<1>3. /\ Part \in 1 .. wanted /\ count \in 1 .. Part
      /\ UNCHANGED <<blocks, state, read_size, outcome>>
      /\ wanted' = wanted - count \/ (count < Part /\ wanted' = 0)
      /\ stream_offset' = stream_offset + count
  BY DEF Delivers, Current, fixed
<1>4. /\ wanted \in Nat /\ wanted > 0 /\ count <= wanted
      /\ read_size \in 0 .. MaxRead /\ MaxRead \in Nat
      /\ Len(buffer) + wanted = read_size
  BY <1>3, BoundAssumption DEF BufferInv
<1>5. wanted' \in Nat /\ Len(buffer') + wanted' <= read_size
  BY <1>2, <1>3, <1>4
<1>6. CASE wanted' = wanted - count
  <2>1. Len(buffer') + wanted' = read_size
    BY <1>2, <1>3, <1>4, <1>6
  <2>2. QED
    BY <1>2, <1>3, <1>4, <1>5, <2>1 DEF BufferInv, Byte
<1>7. CASE count < Part /\ wanted' = 0
  <2>1. /\ stream_offset + count = blocks[i].start + blocks[i].yields
        /\ stream_offset + Part <= blocks[i].start + blocks[i].mapped
        /\ InBlock(i, stream_offset)
    BY <1>7 DEF Delivers, Current
  <2>2. /\ stream_offset \in Nat /\ blocks[i].start \in Nat
        /\ blocks[i].mapped \in Nat /\ blocks[i].yields \in Int
    BY BlockFacts DEF CursorInv
  <2>3. PICK x \in Nat : x = stream_offset + count
    BY <2>2
  <2>4. InBlock(i, x) /\ ~(x - blocks[i].start < blocks[i].yields)
    <3>1. PICK b \in Nat, m \in Nat, y \in Int :
            b = blocks[i].start /\ m = blocks[i].mapped /\ y = blocks[i].yields
      BY <2>2
    <3>2. PICK o \in Nat, part \in Int : o = stream_offset /\ part = Part
      BY <1>3, <1>4, <2>2
    <3>3. b <= o /\ x = o + count
      BY <2>1, <2>3, <3>1, <3>2 DEF InBlock
    <3>4. o + count = b + y /\ o + part <= b + m /\ count < part
      BY <1>7, <2>1, <3>1, <3>2
    <3>5. b <= x /\ x < b + m /\ ~(x - b < y)
      BY <3>3, <3>4
    <3>6. QED
      BY <3>1, <3>5 DEF InBlock
  <2>5. ~Present(x)
    BY <2>4, PresentInBlock
  <2>6. ~Present(stream_offset)'
    BY <1>3, <2>3, <2>5 DEF Present, ByteAt, DataSize
  <2>7. QED
    BY <1>2, <1>3, <1>4, <1>5, <1>7, <2>6 DEF BufferInv, Byte
<1>8. QED
  BY <1>3, <1>6, <1>7

-----------------------------------------------------------------------------
(* The invariant                                                            *)

LEMMA InitReading == Init => CursorInv /\ CacheInv /\ BufferInv
<1> SUFFICES ASSUME Init
             PROVE  CursorInv /\ CacheInv /\ BufferInv
  OBVIOUS
<1>1. CursorInv
  BY DEF Init, CursorInv
<1>2. CacheInv
  <2>1. cache = [s \in 0 .. CacheEntries - 1 |-> NoBlock]
    BY DEF Init
  <2>2. NoBlock \in [index : 0 .. Len(blocks), data_size : Nat]
    <3>1. 0 \in 0 .. Len(blocks)
      BY InitStream, BlockFacts
    <3>2. QED
      BY <3>1 DEF NoBlock
  <2>3. QED
    BY <2>1, <2>2 DEF CacheInv
<1>3. BufferInv
  <2>1. buffer = <<>> /\ Len(<<>>) = 0 /\ <<>> \in Seq(Byte)
    BY DEF Init
  <2>2. QED
    BY <2>1, BoundAssumption DEF Init, BufferInv
<1>4. QED
  BY <1>1, <1>2, <1>3

LEMMA StepCursor ==
  ASSUME StreamInv, BuildInv, CursorInv, CacheInv, BufferInv, [Next]_vars
  PROVE  CursorInv' /\ CacheInv'
<1>1. CASE UNCHANGED <<blocks, stream_offset, current_offset, positioned, cache>>
  BY <1>1 DEF CursorInv, CacheInv, Slot
<1>2. CASE \E offset \in 0 .. MaxOffset : SeekStream(offset)
  BY <1>2 DEF SeekStream, CursorInv, CacheInv, Slot, fixed
<1>3. CASE SeekSegmentOffset
  <2>1. Position = stream_offset
    BY <1>3, SegmentAtOffset DEF SeekSegmentOffset, CursorInv, BufferInv
  <2>2. QED
    BY <1>3, <2>1 DEF SeekSegmentOffset, CursorInv, CacheInv, Slot, fixed
<1>4. CASE ReadSegmentData \/ ReadFileData
  <2>1. wanted \in Nat
    BY DEF BufferInv
  <2>2. PICK i \in 1 .. Len(blocks), count \in Nat : Delivers(i, count)
    BY <1>4, <2>1, CallbackDelivers
  <2>3. CacheInv'
    BY <1>4, <2>1, CallbackDelivers
  <2>4. positioned = 1
    BY <1>4 DEF ReadSegmentData, ReadFileData
  <2>5. CursorInv'
    BY <2>2, <2>4 DEF CursorInv, Delivers
  <2>6. QED
    BY <2>3, <2>5
<1>5. CASE ReadFails
  <2>1. Part \in Nat
    BY <1>5, SegmentAtOffset DEF ReadFails, CursorInv, BufferInv, Current
  <2>2. current_offset' \in Nat
    BY <1>5, <2>1 DEF ReadFails, CursorInv
  <2>3. CursorInv'
    BY <1>5, <2>2 DEF ReadFails, CursorInv
  <2>4. blocks' = blocks
    BY <1>5 DEF ReadFails, fixed
  <2>5. ASSUME UNCHANGED cache
        PROVE  CacheInv'
    BY <2>4, <2>5 DEF CacheInv, Slot
  <2>6. ASSUME HasElement, GetElementValue(Element)
        PROVE  CacheInv'
    <3>1. PICK i \in 1 .. Len(blocks) : i = Element
      BY <2>6 DEF HasElement, Element
    <3>2. QED
      BY <2>4, <2>6, <3>1, CacheKept
  <2>7. QED
    BY <1>5, <2>3, <2>5, <2>6 DEF ReadFails
<1>6. QED
  BY <1>1, <1>2, <1>3, <1>4, <1>5
  DEF Next, AppendSegment, StreamComplete, StreamFails, BeginRead, ReadStep,
      EndRead, fixed, readVars, vars

LEMMA MatchesKept ==
  ASSUME blocks' = blocks, stream_offset' = stream_offset, buffer' = buffer
  PROVE  /\ BufferMatches' <=> BufferMatches
         /\ Present(stream_offset)' <=> Present(stream_offset)
<1>1. Present(stream_offset)' <=> Present(stream_offset)
  BY DEF Present, ByteAt, DataSize
<1>2. \A x : (Present(x)' <=> Present(x)) /\ ByteAt(x)' = ByteAt(x)
  BY DataKept, Zenon
<1>3. BufferMatches' <=> BufferMatches
  BY <1>2 DEF BufferMatches
<1>4. QED
  BY <1>1, <1>3

LEMMA StepBuffer ==
  ASSUME StreamInv, BuildInv, CursorInv, CacheInv, BufferInv, [Next]_vars
  PROVE  BufferInv'
<1>1. CASE UNCHANGED <<fixed, readVars>>
           /\ (state = "reading" => state' = "reading")
           /\ (state' = "reading" => state = "reading")
           /\ (state' \in {"segments", "failed"} => state = "segments"
                                                     \/ state = "failed")
  BY <1>1, MatchesKept DEF BufferInv, Byte, fixed, readVars
<1>2. CASE \E offset \in 0 .. MaxOffset : SeekStream(offset)
  BY <1>2 DEF SeekStream, BufferInv, Byte, fixed
<1>3. CASE \E size \in 1 .. MaxRead : BeginRead(size)
  <2>1. PICK size \in 1 .. MaxRead : BeginRead(size)
    BY <1>3
  <2>2. /\ buffer' = <<>> /\ <<>> \in Seq(Byte) /\ Len(<<>>) = 0
        /\ state' = "reading" /\ read_size' = size /\ wanted' = size
        /\ outcome' = "none"
        /\ UNCHANGED <<blocks, stream_offset>>
    BY <2>1 DEF BeginRead, fixed
  <2>3. size \in Nat /\ size > 0 /\ size \in 0 .. MaxRead
    BY BoundAssumption
  <2>4. BufferMatches'
    BY <2>2 DEF BufferMatches, CursorInv
  <2>5. QED
    BY <2>2, <2>3, <2>4 DEF BufferInv, Byte
<1>4. CASE SeekSegmentOffset
  <2>1. UNCHANGED <<fixed, stream_offset, state, read_size, wanted, buffer,
                    outcome>>
    BY <1>4 DEF SeekSegmentOffset
  <2>2. QED
    BY <2>1, MatchesKept DEF BufferInv, Byte, fixed
<1>5. CASE ReadSegmentData \/ ReadFileData
  <2>1. wanted \in Nat /\ state = "reading"
    BY <1>5 DEF BufferInv, ReadSegmentData, ReadFileData, InSegment
  <2>2. PICK i \in 1 .. Len(blocks), count \in Nat : Delivers(i, count)
    BY <1>5, <2>1, CallbackDelivers
  <2>3. QED
    BY <2>1, <2>2, DeliverKeepsBuffer
<1>6. CASE ReadFails \/ EndRead
  <2>1. /\ state = "reading" /\ state' = "ready" /\ wanted' = 0
        /\ outcome' \in {"error", "ok"}
        /\ UNCHANGED <<blocks, read_size, buffer>>
    BY <1>6 DEF ReadFails, EndRead, InSegment, fixed
  <2>2. Len(buffer) \in Nat
    BY LenProperties DEF BufferInv
  <2>3. Len(buffer) <= read_size
    BY <2>2, BoundAssumption DEF BufferInv
  <2>4. QED
    BY <2>1, <2>2, <2>3 DEF BufferInv, Byte
<1>7. QED
  BY <1>1, <1>2, <1>3, <1>4, <1>5, <1>6
  DEF Next, AppendSegment, StreamComplete, StreamFails, ReadStep, fixed,
      readVars, vars

LEMMA InitParts == Init => StreamParts
  BY InitStream, InitBuild, InitReading DEF StreamParts

LEMMA StepParts == StreamParts /\ [Next]_vars => StreamParts'
  BY StepStream, StepBuild, StepCursor, StepBuffer DEF StreamParts

LEMMA AlwaysParts == Spec => []StreamParts
  BY InitParts, StepParts, PTL DEF Spec

-----------------------------------------------------------------------------
(* The invariants of BlockStream                                            *)

(* Every variable keeps its type; a read never returns more than was asked  *)
(* for, and an offset is never negative.                                    *)
THEOREM TypeCorrect == Spec => []TypeOK
<1>1. StreamParts => TypeOK
  BY DEF StreamParts, StreamInv, SegmentTypes, BuildInv, CursorInv, CacheInv,
         BufferInv, TypeOK
<1>2. QED
  BY <1>1, AlwaysParts, PTL

(* Whatever block sizes the list has and however a read, a seek or a        *)
(* failure before it went, the data handle of the callbacks is where the    *)
(* stream is when libfdata does not seek, and a seek puts it there.         *)
THEOREM CursorsMatch == Spec => []CursorsAgree
<1>1. StreamParts => CursorsAgree
  BY SegmentAtOffset
  DEF StreamParts, CursorInv, BufferInv, CursorsAgree
<1>2. QED
  BY <1>1, AlwaysParts, PTL

(* Whatever its number of entries, the cache holds blocks of the list, each *)
(* in its slot and with the data its decompression gave.                    *)
THEOREM CacheIsSound == Spec => []CacheHoldsItsBlocks
<1>1. StreamParts => CacheHoldsItsBlocks
  BY DEF StreamParts, CacheInv, CacheHoldsItsBlocks
<1>2. QED
  BY <1>1, AlwaysParts, PTL

-----------------------------------------------------------------------------
(* The stream implements ByteStream                                         *)

\* What ByteStream sees of a stream.
View == <<Data, ReadOffset, Asked, Returned, outcome>>

LEMMA DataFixed == blocks' = blocks => Data' = Data
  BY DEF Data, ByteAt, DataSize

LEMMA PresentMeans ==
  ASSUME NEW x
  PROVE  /\ Bytestream!Present(x) <=> Present(x)
         /\ Present(x) => Data[x] = ByteAt(x)
<1>1. DOMAIN Data = 0 .. DataSize - 1
  BY DEF Data
<1>2. x \in 0 .. DataSize - 1 => Data[x] = ByteAt(x)
  BY DEF Data
<1>3. QED
  BY <1>1, <1>2, Zenon DEF Bytestream!Present, Present

LEMMA InitView == Init => Bytestream!Init
<1> SUFFICES ASSUME Init
             PROVE  Bytestream!Init
  OBVIOUS
<1>1. ReadOffset = 0 /\ Asked = 0 /\ Returned = <<>> /\ outcome = "none"
  BY DEF Init, ReadOffset, Asked, Returned
<1>2. QED
  BY <1>1 DEF Bytestream!Init

\* A step that delivers, seeks or builds is not seen while the read goes on.
LEMMA ViewKept ==
  ASSUME blocks' = blocks, ReadOffset' = ReadOffset,
         (state = "reading") <=> (state' = "reading"),
         read_size' = read_size, outcome' = outcome,
         outcome = "none" \/ buffer' = buffer
  PROVE  UNCHANGED View
<1>1. Data' = Data
  BY DataFixed
<1>2. Asked' = Asked
  BY DEF Asked
<1>3. Returned' = Returned
  BY DEF Returned
<1>4. QED
  BY <1>1, <1>2, <1>3 DEF View

LEMMA DeliveryUnseen ==
  ASSUME StreamParts, ReadSegmentData \/ ReadFileData
  PROVE  UNCHANGED View
<1>1. state = "reading" /\ wanted \in Nat /\ outcome = "none"
      /\ buffer \in Seq(Byte) /\ BufferMatches
  BY DEF StreamParts, BufferInv, ReadSegmentData, ReadFileData, InSegment
<1>2. PICK i \in 1 .. Len(blocks), count \in Nat : Delivers(i, count)
  BY <1>1, CallbackDelivers DEF StreamParts
<1>3. Len(buffer') = Len(buffer) + count /\ Len(buffer) \in Nat
  BY <1>1, <1>2, DeliveredMatches, LenProperties DEF StreamParts
<1>4. /\ UNCHANGED <<blocks, state, read_size, outcome>>
      /\ stream_offset' = stream_offset + count
  BY <1>2 DEF Delivers, fixed
<1>5. stream_offset \in Nat
  BY DEF StreamParts, CursorInv
<1>6. ReadOffset' = ReadOffset
  BY <1>1, <1>3, <1>4, <1>5 DEF ReadOffset
<1>7. QED
  BY <1>1, <1>4, <1>6, ViewKept

LEMMA SeekIsSeen ==
  ASSUME NEW offset \in 0 .. MaxOffset, SeekStream(offset)
  PROVE  Bytestream!Seek
<1>1. /\ state = "ready" /\ state' = "ready" /\ stream_offset' = offset
      /\ UNCHANGED <<blocks, outcome, buffer>>
  BY DEF SeekStream, fixed
<1>2. offset \in Nat
  BY BoundAssumption
<1>3. Asked = 0 /\ Asked' = 0 /\ ReadOffset' = offset
  BY <1>1 DEF Asked, ReadOffset
<1>4. Data' = Data /\ Returned' = Returned
  BY <1>1, DataFixed DEF Returned
<1>5. QED
  BY <1>1, <1>2, <1>3, <1>4 DEF Bytestream!Seek

LEMMA AskIsSeen ==
  ASSUME StreamParts, NEW size \in 1 .. MaxRead, BeginRead(size)
  PROVE  Bytestream!Ask
<1>1. /\ state = "ready" /\ state' = "reading" /\ read_size' = size
      /\ buffer' = <<>> /\ outcome' = "none"
      /\ UNCHANGED <<blocks, stream_offset>>
  BY DEF BeginRead, fixed
<1>2. size \in Nat \ {0}
  BY BoundAssumption
<1>3. stream_offset \in Nat
  BY DEF StreamParts, CursorInv
<1>4. /\ Asked = 0 /\ Asked' = size
      /\ Returned' = <<>> /\ ReadOffset' = ReadOffset
  BY <1>1, <1>3 DEF Asked, Returned, ReadOffset
<1>5. Data' = Data
  BY <1>1, DataFixed
<1>6. QED
  BY <1>1, <1>2, <1>4, <1>5 DEF Bytestream!Ask

LEMMA RefusalIsSeen ==
  ASSUME StreamParts, ReadFails
  PROVE  Bytestream!Refuse
<1>1. /\ state = "reading" /\ state' = "ready" /\ outcome' = "error"
      /\ UNCHANGED <<blocks, stream_offset>>
  BY DEF ReadFails, InSegment, fixed
<1>2. /\ stream_offset \in Nat /\ read_size > 0
  BY <1>1 DEF StreamParts, CursorInv, BufferInv
<1>3. /\ Asked > 0 /\ Asked' = 0
      /\ Returned' = <<>> /\ ReadOffset' \in Nat
  BY <1>1, <1>2 DEF Asked, Returned, ReadOffset
<1>4. Data' = Data
  BY <1>1, DataFixed
<1>5. QED
  BY <1>1, <1>3, <1>4 DEF Bytestream!Refuse

(* What a read returns is what the data has where the read began, and it is *)
(* short only where the data stops.                                         *)
LEMMA DeliveryIsSeen ==
  ASSUME StreamParts, EndRead
  PROVE  Bytestream!Deliver
<1>1. /\ state = "reading" /\ state' = "ready" /\ outcome' = "ok"
      /\ wanted = 0 \/ stream_offset >= stream_size
      /\ UNCHANGED <<blocks, stream_offset, buffer>>
  BY DEF EndRead, fixed
<1>2. /\ stream_offset \in Nat /\ read_size > 0
      /\ read_size \in Nat /\ wanted \in Nat
      /\ Len(buffer) \in Nat /\ Len(buffer) <= stream_offset
      /\ Len(buffer) + wanted <= read_size
      /\ \A j \in 1 .. Len(buffer), x \in Nat :
           x + Len(buffer) + 1 = stream_offset + j =>
             Present(x) /\ buffer[j] = ByteAt(x)
      /\ \/ Len(buffer) + wanted = read_size
         \/ wanted = 0 /\ ~Present(stream_offset)
  BY <1>1, LenProperties, BoundAssumption
  DEF StreamParts, CursorInv, BufferInv, BufferMatches
<1>3. /\ Asked = read_size /\ Asked' = 0 /\ Returned' = buffer
      /\ ReadOffset = stream_offset - Len(buffer)
      /\ ReadOffset' = stream_offset
  BY <1>1 DEF Asked, Returned, ReadOffset
<1>4. stream_size = DataSize /\ DataSize \in Nat
  BY <1>1, BuiltStream DEF StreamParts
<1>5. ASSUME NEW j \in 1 .. Len(buffer)
      PROVE  /\ Bytestream!Present(ReadOffset + j - 1)
             /\ buffer[j] = Data[ReadOffset + j - 1]
  <2>1. PICK x \in Nat : x = ReadOffset + j - 1
    <3>1. ReadOffset \in Nat
      BY <1>2, <1>3
    <3>2. j \in Nat /\ j >= 1
      BY <1>2
    <3>3. ReadOffset + j - 1 \in Nat
      BY <3>1, <3>2
    <3>4. QED
      BY <3>3
  <2>2. x + Len(buffer) + 1 = stream_offset + j
    BY <1>2, <1>3, <2>1
  <2>3. Present(x) /\ buffer[j] = ByteAt(x)
    BY <1>2, <2>2
  <2>4. QED
    BY <2>1, <2>3, PresentMeans
<1>6. ASSUME Len(buffer) < read_size
      PROVE  ~Bytestream!Present(ReadOffset + Len(buffer))
  <2>1. PICK x \in Nat : x = stream_offset
    BY <1>2
  <2>2. ReadOffset + Len(buffer) = x
    BY <1>2, <1>3, <2>1
  <2>3. CASE stream_offset >= stream_size
    BY <1>2, <1>4, <2>1, <2>2, <2>3, PresentMeans DEF Present
  <2>4. CASE wanted = 0
    BY <1>2, <1>6, <2>1, <2>2, <2>4, PresentMeans
  <2>5. QED
    BY <1>1, <2>3, <2>4
<1>7. ReadOffset' = ReadOffset + Len(buffer)
  BY <1>2, <1>3
<1>8. Data' = Data
  BY <1>1, DataFixed
<1>9. Len(buffer) <= read_size /\ Asked > 0
  BY <1>2, <1>3
<1>10. QED
  BY <1>1, <1>3, <1>5, <1>6, <1>7, <1>8, <1>9 DEF Bytestream!Deliver

LEMMA StepView ==
  StreamParts /\ [Next]_vars => [Bytestream!Next]_View
<1> SUFFICES ASSUME StreamParts, [Next]_vars
             PROVE  [Bytestream!Next]_View
  OBVIOUS
<1>1. CASE AppendSegment \/ StreamComplete \/ StreamFails
           \/ SeekSegmentOffset \/ UNCHANGED vars
  <2>1. /\ UNCHANGED <<blocks, stream_offset, read_size, buffer, outcome>>
        /\ (state = "reading") <=> (state' = "reading")
    BY <1>1
    DEF AppendSegment, StreamComplete, StreamFails, SeekSegmentOffset, fixed,
        readVars, vars
  <2>2. ReadOffset' = ReadOffset
    BY <2>1 DEF ReadOffset
  <2>3. QED
    BY <2>1, <2>2, ViewKept
<1>2. CASE \E offset \in 0 .. MaxOffset : SeekStream(offset)
  BY <1>2, SeekIsSeen DEF Bytestream!Next
<1>3. CASE \E size \in 1 .. MaxRead : BeginRead(size)
  BY <1>3, AskIsSeen DEF Bytestream!Next
<1>4. CASE ReadSegmentData \/ ReadFileData
  BY <1>4, DeliveryUnseen
<1>5. CASE ReadFails
  BY <1>5, RefusalIsSeen DEF Bytestream!Next
<1>6. CASE EndRead
  BY <1>6, DeliveryIsSeen DEF Bytestream!Next
<1>7. QED
  BY <1>1, <1>2, <1>3, <1>4, <1>5, <1>6 DEF Next, ReadStep

(* Whatever the list, the cache, the reads and the failures, a read of the  *)
(* stream returns the bytes of the uncompressed data at its offset, each    *)
(* once and in order, and is short only where the data stops.               *)
THEOREM RefinesByteStream == Spec => ImplementsByteStream
<1>1. Init /\ [][Next]_vars => ImplementsByteStream
  BY InitParts, StepParts, InitView, StepView, PTL
  DEF ImplementsByteStream, Bytestream!Spec, View
<1>2. QED
  BY <1>1, PTL DEF Spec
=============================================================================
