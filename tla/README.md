# A TLA+ verification project for libagdb

libagdb is a C library that reads Windows SuperFetch databases (`.db` files),
with a small tool, `agdbinfo`, on top. This directory holds TLA+ modules
translated from its source, TLC configurations that model-check them on small
instances, and theorems about them that TLAPS proves for every value of the
constants. Paths below are relative to the repository.

    tlc -workers 2 -config MCFileReferences.cfg MCFileReferences
    tlapm FileLifecycleProofs.tla

## 1. The system

The library is sequential: a function returns 1 or -1 and cleans up behind
`goto on_error`. What makes it hard is not parallelism but (a) that *every*
call can fail, in the middle of a dozen calls that each leave state behind,
(b) the ownership of handles and objects across the library boundary, (c) four
levels of offsets that must agree over data whose sizes come from the file, and
(d) a flag that another thread or a signal handler may set at any time.

| Component | Source | State it keeps | Operations |
|---|---|---|---|
| File handle | `libagdb/libagdb_file.c` | the libbfio handle and two flags (created, opened in library), the blocks list, the cache, the data stream, two arrays of entries, the IO handle | initialize, free, signal_abort, open, open_wide, open_file_io_handle, close, getters |
| IO handle and block listing | `libagdb/libagdb_io_handle.c` | file type, sizes, abort flag, entry sizes | clear, read_compressed_blocks, read_uncompressed_file_header, plain file callbacks |
| Compressed file header | `libagdb/libagdb_compressed_file_header.c` | file type, block size, data size | read |
| Uncompressed data stream | `libagdb/libagdb_compressed_blocks_stream.c`, `..._data_handle.c`, `libagdb_compressed_block.c` | offset of the data handle, the blocks in the cache | initialize, seek and read callback, read a block |
| Entries | `libagdb/libagdb_volume_information.c`, `_file_information.c`, `_source_information.c` | decoded fields, paths, array of files | read at an offset, getters |
| Path hash | `libagdb/libagdb_hash.c` | none | calculate |
| Signature check | `libagdb/libagdb_support.c` | none of its own, opens and closes a handle | check_file_signature (three forms) |
| Tool | `agdbtools/agdbinfo.c`, `info_handle.c` | an info handle with one file | open, print, close, signal_abort |

How they interact: `libagdb_file_open*` stores a libbfio handle and calls
`libagdb_file_open_read`, which reads the compressed file header, lists the
blocks (compressed files), builds the data stream over the list and the cache,
reads the uncompressed header through the stream, and then reads all volumes
(each with its files) and all sources through it. Every read of the stream goes
through libfdata, which calls back into the data handle, which asks the list
for an element, which on a cache miss calls back into
`libagdb_compressed_block_read_element_data`. After the open nothing is read any
more; the getters hand out addresses of entries. The application may lend its
own libbfio handle, which comes back at close.

libbfio, libfdata, libfcache, libcdata, libfwnt, libuna are not in the
repository; they are modelled from the calls and marked external.

What makes each component correct, and what is hard to test:

* **File handle.** A handle is closed iff opened here and freed iff created
  here, on every failure path; entries live until close; nothing leaks or is
  freed twice; an open yields exactly the entries of its database.
* **Block listing.** Elements partition the data and tile the file, for a last
  block of any size and for files that are cut off.
* **Data stream.** What a read returns are the bytes of the data, across
  blocks, evictions, short and failing decompression; every read ends.
* **Entries.** Three functions and the stream each keep an offset: they agree
  whenever one of them is used. Entries are aligned as the format says, all
  that headers announce is read, and nothing twice. Seven structures of files,
  two of volumes and four of sources are told apart by an entry size: the fields
  and strings that come out are those that were put in, the size of a string is
  that of the memory behind it, and whatever call failed, free releases what the
  object holds.
* **Headers.** What an open goes on with are the numbers and entry sizes of the
  database it opens, not those of one the IO handle described before.
* **Hash.** The loop unrolled by eight is the byte by byte hash modulo 2^32.
* **Signature check.** Leaves a handle the way it found it.
* **Tool.** Gives up each reference before the file is closed, prints everything
  or fails, and always ends.

The complete list, at the line where each bites, is in `PROJECT.json`
(`hazards`).

## 2. Modules

| Module | Models | Status |
|---|---|---|
| `FileLifecycle` | `libagdb_file.c`: the life of one `libagdb_file_t` | checked, proved about |
| `FileLifecycleProofs` | theorems about it and `FileReferences` | proved |
| `CompressedBlocks` | `libagdb_io_handle_read_compressed_blocks` | checked, proved about |
| `CompressedBlocksProofs` | theorems about it | proved |
| `BlockList` | what the data stream relies on in a list of blocks | used by the two around it |
| `ByteStream` | abstract: what `open_read` relies on when it reads the stream | refined by `BlockStream` |
| `BlockStream` | the data stream, its callbacks, the block and its cache | checked, proved about |
| `BlockStreamProofs` | theorems about it, its refinement of `ByteStream` included | proved |
| `EntryReader` | headers, volume, file and source entries: offsets, padding, counts | checked, proved about |
| `EntryReaderProofs` | theorems about it | proved |
| `PathHash` | `libagdb_hash_calculate` | checked, proved about |
| `PathHashProofs` | theorems about it | proved |
| `SignatureCheck` | `libagdb_check_file_signature*` and the reader of the compressed file header | checked, proved about |
| `SignatureCheckProofs` | theorems about it | proved |
| `EntryLayout` | the structures of `agdb_*.h` and how a field is taken out of them | used by the next two, proved about |
| `UncompressedHeader` | `libagdb_io_handle_read_uncompressed_file_header` with its values | checked, proved about |
| `EntryInformation` | a volume, file or source object: reading, strings, memory | checked, proved about |
| `EntryInformationProofs` | theorems about it, `UncompressedHeader` and the layouts | proved |
| `FileApi` | abstract: what a file promises the application, and the reverse | implemented by the next two |
| `FileReferences` | `FileLifecycle` with the entries an application holds | checked, proved about |
| `AgdbInfo` | `agdbinfo.c` and `info_handle.c`: the tool as a client of the library | checked, proved about |
| `AgdbInfoProofs` | theorems about it, its refinement of `FileApi` included | proved |
| `MC*` | instances for TLC | |

Each module takes over where the one before it stops: `CompressedBlocks` ends
with a list whose elements partition the data (`BlocksPartitionData`, proved),
which is what `BlockStream` assumes of the streams it is given
(`StreamAssumption`; that the one gives the other is `ListIsStream`);
`BlockStream` implements `ByteStream`, and `EntryReader` reads a stream that
delivers in full or fails, which is how `open_read` treats a `ByteStream`;
`FileLifecycle` treats all of it as steps that succeed or fail.
`PathHash` is called by the readers of volumes and files when they have read a
path; `SignatureCheck` runs before an open, on the same handle.
`UncompressedHeader` and `EntryInformation` model the same functions as
`EntryReader`, with the bytes for values where `EntryReader` has the offsets for
places: what the one leaves open (any size field, any count) the other fixes,
and the other way round. `FileReferences` extends `FileLifecycle` by the getters
and the application; it implements the library's side of `FileApi`, and
`AgdbInfo` keeps the application's side, so that the two fit together without a
model that has both in full.

### FileLifecycle

State: the fields of `libagdb_internal_file_t` (the handle, the flags, which
helper objects exist, the two arrays as sequences of addresses), the parts of
the IO handle that have a say (`file_type`, `abort`), the locals of a running
open (`pc`, `handle_is_open`, the loop variables and the two object pointers),
and the world outside: `bfio` gives the state of every libbfio handle, `heap`
what is allocated at every address. `lent_state` is a history variable: the
state a handle had when it was passed in.

Actions: `Initialize`, `Free`, `Close`, `SignalAbort`, `Open`, `OpenWide`,
`OpenFileIoHandle` are the calls of the API. An open is not one action: it runs
through `OpenHandle`, `BeginOpenRead`, `ReadCompressedFileHeader`,
`PrepareStream` (five calls), the two loops (`VolumeInitialize`, `VolumeRead`,
...) and ends in `OpenSucceeds`, `OpenHandleFails` or, from any step,
`OpenReadFails`, which is `on_error` of `open_read` followed by that of its
callers. Between any two steps `SignalAbort` may happen; the other calls need
`pc = "idle"`, since the library gives no protection against concurrent calls on
one file and its users do not make them. `ApplicationHandle` is the application
using its own handles, those it has not lent. Addresses are reused after a free,
so a dangling reference would meet a new object.

### CompressedBlocks

One action per outcome of a round of the loop: `ReadBlock`, `ReadBlockFails`,
`EndOfFile`. Size fields are arbitrary members of `Field`, so every file content
is a behaviour. The list is kept as records of the file range and the data range
of each element; libfdata keeps the latter as the running sum of mapped sizes.

### ByteStream and BlockStream

`ByteStream` has four actions: seek, ask, deliver, refuse. A delivery is the
bytes at the offset, all that were asked for unless the data stops there.
`BlockStream` builds the segments (`AppendSegment`, `StreamComplete`,
`StreamFails`) and then serves reads segment by segment: `SeekSegmentOffset` and
`ReadSegmentData` (or `ReadFileData` for an uncompressed file) are the
callbacks; `GetElementValue` looks in the cache slot or reads and decompresses
the block. Each block carries `yields`: the size its decompression gives, or -1.
A byte is the pair of its block and its offset in it, so a wrong block or a
wrong offset shows. libfdata may or may not call the seek callback when a read
goes on (`positioned`), and may stop or go on after a callback that returned
less than asked: the model allows both. `ReadFails` is a callback that fails:
before the block is there, or after it, at the check of the offset against the
data the block has, when the block is in the cache already and another may be
out of it.

### EntryReader

The three offsets (`open_offset`, `volume_offset`, `file_offset`) and totals are
variables beside the offset of the stream. `ReadAt` is
`libfdata_stream_read_buffer_at_offset`, used for entries; `ReadNext` is
`libfdata_stream_read_buffer`, used for paths, padding and sub entries. All
fields of the data are members of sets. `Fails` stands for any failing call: the
whole open then fails (what is freed is `FileLifecycle`'s subject). `log` and the
`declared_...` counters are history.

### EntryLayout, UncompressedHeader and EntryInformation

`EntryLayout` writes each C structure down as the sequence of its fields with
their widths. The writer of a database (`Stored`) puts bytes into a structure
field by field; the code takes them out by the offset in the structure it casts
to, least significant byte first. The two use the layout in opposite directions,
and often different layouts: a file entry of 52 bytes is read as one of 36.

`UncompressedHeader` is one IO handle that reads one stream after the other.
`Begin` starts a read; `ReadFileHeader`, `AllocateHeader`, `ReadDatabaseHeader`
and `DecodeDatabaseHeader` are its steps, `Fails` is `on_error`, `Clear` is what
close does. The IO handle is not cleared when an open fails. Its definitions
have names of their own (`HeaderSpec`, `header_pc`), so that one module can prove
things about it and about `EntryInformation`, with which it shares the layouts.

`EntryInformation` is one object of one of the three kinds. `entry` says in which
structure its data was written, with which fields, and which characters follow.
`object` is the internal structure (`string` and `string_size` stand for
`device_path`, `path` and `executable_filename` with their sizes), `allocated`
names the blocks of memory in use. `Read` is the reader of the stream, one action
per call that can fail; `ReadData` and `ReadPathData` are the functions that are
given bytes, called by the tests. `ReadFails` is `on_error`, `SubEntriesUnknown`
the return from the middle of the function that goes past it. `WellWritten` says
what the writer of a database does: it puts bytes of the right width into the
fields of one of the structures, and a terminator no further behind an entry than
the number of characters says; every other byte, and the entry size when no
structure has it, is arbitrary. `GetDevicePath`,
`GetPath` and `GetExecutableFilename` each stand for four getters, which differ
in how libuna encodes the same characters. Which characters it takes from the
bytes is modelled: pairs of bytes of a path (`Characters`), and of a filename,
which it is told is ASCII, one for each byte, U+FFFD for a byte from 128 on
(`AsciiCharacters`). Values are below 2^31, the integers TLC has.

### FileApi and FileReferences

`FileApi` has a status, the entries that the getters count and hand out, and
what the application holds. An open adds the entries of its database; one that
fails may leave some of them (finding 1), which is why its `Open` appends. The
application may close or free only when it holds nothing.

`FileReferences` adds three references to `FileLifecycle`: what the getters give
is the address of an object. The application may hold references while it makes
further calls on the file, opens that are refused or fail included, and gives
them up between calls. Under the refinement mapping the status comes from `file`
and `IsOpen`, an address becomes the record of the entry it denotes, and what a
running open has appended does not count before the open ends.

### PathHash

One action per loop. `Modulus` is the number of values of a word, 2^32 in the
code, and the constants are parameters; C computes the products with `UL`
constants in 64 bits and cuts the result to 32, which is the same value modulo
2^32. The definition it is compared with (`Hashes`) is the second loop alone, as
a recursive function of how many bytes it has taken.

### SignatureCheck

One action per call to libbfio of
`libagdb_check_file_signature_file_io_handle`, and `Check` for the two forms by
name, which work on a handle of their own. `Fails` is `on_error` of both
functions. `ReadHeader` is the reader of the compressed file header on the same
contents, which has its own code for recognising a database. Contents are what
the first eight bytes and the size tell: the signature, the size field and the
size. `found` and `stuck` are history: the state of the application's handle at
the call, and that libbfio failed to close it.

### AgdbInfo

One action per library call that changes what the tool holds, from the loop head
of volumes, files and sources to the free of the reference. `value_string` is
allocated only between `AllocateString` and `PrintString`. `PrintOnError` and
`MainOnError` are the two cleanups. The getters refuse a reference that is not
NULL (`Refuses`). `printed` is history: the headings and strings written, and
`fault` says what ended the tool early. `KeepsFileApi` is the refinement of
`FileApi`: every step of the tool is one that a well-behaved application makes.

## 3. What the runs show

| Run | Checks | Result |
|---|---|---|
| `lifecycle` | type, `HandleOwnership`, `HelpersMatchFile`, `HeapExact`, `OpenFileHasItsEntries`, `HandedBackAsLent`, `ImplementsFileApi` | hold |
| `lifecycle_stale` | `OpenFileHasOnlyItsEntries` | violated, see findings |
| `lifecycle_abort` | `AbortStopsOpen` | violated, see findings |
| `blocks` | type, `BlocksPartitionData`, `BlocksTileFile`, `ListedOrTruncated` | hold |
| `stream` | type, `CursorsAgree`, `CacheHoldsItsBlocks`, `ImplementsByteStream`, `ReadEnds` | hold |
| `entries` | type, `CursorsAgree`, `ReadsTile`, `EntriesAligned`, `DeclaredIsRead` | hold |
| `hash` | `PrefixHashed` | hold |
| `signature` | type, `HandleLeftAsFound`, `OwnHandleFreed`, `CheckAgreesWithReader` | hold |
| `header` | type, `HeaderAsWritten`, `ReadsInsideHeader` | hold |
| `information` | type, `FieldsAsWritten`, `StringAsWritten`, `StringInsideMemory`, `MemoryIsOwned` | hold |
| `information_filename` | `FilenameAsWritten` | violated, see findings |
| `agdbinfo` | type, `AllReleased`, `PrintsReport`, `FailureHasCause`, `KeepsFileApi`, `Terminates` | hold |

Every property stands in its module with a comment that says what it means for
the code, and has a mutant: a definition of the same module with a plausible bug
(named "Mutant" in its comment, used by nothing) for which TLC finds the
property violated.

Findings:

1. *Entries of a failed open stay* (`libagdb_file.c:1378`). `on_error` of
   `open_read` does not empty the arrays, and since the file has no handle
   afterwards, close is refused. The next open of the same file object appends:
   the getters count and return entries of another database, in front of the
   right ones. That the right ones are complete and last is
   `OpenFileHasItsEntries`, which holds.
2. *signal_abort does nothing* (`libagdb_file.c:301`, `984`). The flag is set,
   and cleared at the next open; no loop reads it.
3. *A full executable filename comes back longer*
   (`libagdb_source_information.c:746`). The field has 16 bytes; a name without
   a terminator gets the size 17, and libuna is given the array with that size.
   The byte behind the array is the first of the size itself, so that a name of
   16 characters is returned with a 17th, of value 17 on a little-endian machine
   (on a big-endian one it is zero and ends the name in time). The format
   document speaks of at most 15 characters and a terminator. For those
   `StringAsWritten` holds.

### Bounds

* `lifecycle`: one handle of the application, one of the library, four
  addresses, three databases: one compressed with two volumes (the second with a
  file) and a source, one uncompressed with a volume, one Windows 8 file, which
  never opens. Two databases with entries are needed for one open to disturb
  another, and four addresses suffice to hold the entries of one database and an
  object of the next; memory runs out beyond that, a failure the code handles.
  The application holds one entry of each kind at a time. Counts of opens are
  not bounded. The two runs of the findings use `FileLifecycle` alone with the
  same databases.
* `blocks`: blocks of 3 and 4 bytes for 4096 and 65536, data sizes up to three
  blocks and a rest, file sizes that cut the data in every place that matters,
  a Vista mask of 8 for 0x1000. The algorithm compares and adds these numbers;
  the proofs cover all of them.
* `stream`: blocks of 3 bytes, a cache of 2 (for 8) under lists of 3 blocks, so
  that blocks 1 and 3 evict each other; seeks up to 9, past the end of the data
  (8); reads up to 7, which cross two block boundaries.
* `entries`: the entry sizes of the formats (four sets), counts 0 to 2 on each
  level, streams of 12, 72, 80, 300 and 480 bytes, which end in the header, at
  its end, in every kind of entry, and after a complete database with two
  volumes; header sizes below, at and above the minimum, one of them no
  multiple of 8; path fields with the flag bits 2 and 3 set.
* `hash`: words of 12 bits, with the constants of the code reduced to 12 bits:
  TLC computes with 32-bit integers, and the proof covers the real width.
  Lengths 0 to 26 take the unrolled loop up to three times and end with every
  rest; one byte at every place is 1 or 255 before a background of 0 or 254.
* `signature`: every signature, those of an uncompressed database with a size
  field that is and is not the size of the file, and files shorter than eight
  bytes. Calls are not bounded.
* `header`: every header structure, two that are cut off after the sources and
  before them (the check lets the first pass), sizes that fit and do not, a
  database of another type, 32-bit and 64-bit entry sizes; any number of reads in
  a row, with and without a clear between them.
* `information`: entries in each of the thirteen structures and of sizes the code
  does not know, strings of no, three and too many characters and one with a zero
  inside, filenames of no, five and fifteen characters and one that is not
  ASCII, all flags of the size field, volumes of up to two files, sub entries of
  known and unknown sizes. Memory beyond 150 bytes is refused, for
  `MEMORY_MAXIMUM_ALLOCATION_SIZE`.
* `agdbinfo`: up to two volumes with up to two files each and up to two sources,
  with and without strings: a loop that does not clean up shows in its second
  round.

Runs with `CHECK_DEADLOCK FALSE` are those of a function that returns (`blocks`,
`entries`, `hash`) or of a stream whose building failed (`stream`).

### Fairness

`BlockStream` assumes weak fairness of `ReadStep`: a read runs on the thread
that called it, so its steps go on until it returns. Nothing obliges a caller to
seek or to read, and nothing is assumed of success: callbacks may fail every
time.

`AgdbInfo` assumes weak fairness of the steps of the tool other than failures:
it is one thread, every call returns, and the tool then goes on. A failure is
never counted on to end a loop.

## 4. What is proved

All theorems hold for any constants that satisfy the named assumptions of the
modules, which TLC evaluates on its instances.

`FileLifecycleProofs` (assumptions: `DatabaseAssumption`, counts are naturals;
`HandleAssumption`, the two kinds of handles are disjoint and NULL is no
address; for the last two theorems `FilesAssumption`, a number of files for each
volume, and `EntryAssumption`, NULL is not the record or the place of an entry):

* `TypeCorrect`. `TypeOK` is not inductive alone: a step of an open looks up
  `bfio[file_io_handle]` and `heap[volume_information]`. `ControlInv` adds what
  each `pc` guarantees: while a call runs there is a handle, a file's handle is
  a live one, and an object is being read exactly in the read steps.
* `Ownership`. `HandleOwnership` is inductive relative to those two; the only
  delicate steps are the ones that share `CloseFile` and `AbandonHandle`.
* `HandedBack`. The action property follows from a small invariant that relates
  `handle_is_open`, the `opened` flag and `lent_state` while a handle is lent.
* `Memory`. `HeapExact` with the two facts on sequences it needs, what `Append`
  does to the range and to injectivity (`RangeOfAppend`).
* `HelpersMatch`. `HelpersInv` says which helper objects exist at each step of
  an open, and that the file type is that of the database as soon as its header
  was read. It needs that the database behind a handle does not change while the
  file is open (`SameDatabase`), though the application uses its own handles.
* `OpenIsComplete`. `EntriesInv` is the loop invariant of both loops: the last
  `volume_index` volumes and `source_index` sources of the arrays are those of
  the database, and the object in hand is still blank. That the other steps
  leave it alone rests on `HeapExact`: they touch no address of the arrays.
* `LifeOfFile`, `RefinesFileApi`. A step of `FileReferences` is one of
  `FileLifecycle`, so that the invariants above hold of it. `ReferenceInv` adds
  that a reference is the address of an entry in an array. An address then
  denotes the same entry for as long as the application holds it: each call maps
  to its action of `FileApi`, the end of an open to one that appends what the
  arrays have gained, and the steps in between to none.

`BlockStreamProofs` (assumptions: `StreamAssumption`, a list partitions the data
into blocks no larger than the block size, and an uncompressed file is one block;
`BoundAssumption`, the sizes are positive):

* `TypeCorrect`, `CursorsMatch`, `CacheIsSound` follow from `StreamParts`. Its
  parts are the segments, which lie where the blocks are, in order and without a
  gap (`BuildInv`: the induction over their number is over the steps that append
  them); the offsets (`CursorInv`); the cache (`CacheInv`); and what a read has
  delivered so far (`BufferInv`): the bytes before the offset of the stream, and
  when it gives up with less than it was asked for, the data stops there.
* `RefinesByteStream`. Seeking, asking, delivering and refusing are steps of
  `ByteStream`, the callbacks and the building of the segments are none. The
  fairness of `Spec` is not used: `ByteStream` promises no progress.

`CompressedBlocksProofs` (assumption: sizes are naturals, block sizes and the
mask positive): `TypeCorrect`, `Partition`, `Tiling`, `Listing`. Each property
is inductive relative to the type invariant; the work is in the arithmetic of
the appended element. `ListIsStream` follows from `Partition`: whatever the
blocks yield when they are decompressed, up to the memory they are given, the
list satisfies `Partitions`, on which the proofs about `BlockStream` rest.

`EntryReaderProofs` (assumptions: sizes, counts and fields are naturals):

* `TypeCorrect`. The only arithmetic is that the size of a path is even.
* `OffsetsAgree`. `CursorsAgree` says where the offsets stand when they are
  used; `Beginnings` adds where they start: at 0, at the end of the file header,
  and with a total of 0 in each function. Together they are inductive.
* `EveryByteOnce`. From the offsets follows that every step that reads, reads
  where the stream stands (`EveryRead`), and such a read keeps the tiling.
* `AllEntriesAligned`. `OffsetsAligned` says which offset is aligned at which
  step. It rests on what padding does (`PaddingFacts`), on the entry sizes being
  multiples of 8 (of 4 in a 32-bit database), and on `CursorsAgree`: the volume
  goes on at the offset where the file ended.
* `AllDeclaredIsRead`. `Counted` is what is still outstanding at each step: the
  reads of a kind and the rest of the loop add up to what was announced. A read
  counts once, for its own kind (`ReadCounts`, by the cardinality of an
  enlarged set).

`PathHashProofs` (assumption: the constants are words and the data are bytes):

* `UnrolledIsEightRounds`. The body of the unrolled loop is eight rounds, in
  words of 32 bits with the constants of the code. A round commutes with
  reduction modulo the word, so the eight rounds are one polynomial in 37, whose
  two highest coefficients are compared with the constants: 37^7 is 0x1a617d0d
  and 37^8 is minus 0x2fe8ed1f modulo 2^32.
* `LoopsComputeHash`. The two loops together compute `Hashes`, for data of any
  length. `PrefixHashed` is inductive: a round of the second loop is one step of
  the recursion, a round of the unrolled one eight of them
  (`UnrolledIsEightRounds`). What takes work is that `Hashes` is the function its
  recursion describes, an induction over the length of the data.
* `TypeCorrect`, for any width.

`SignatureCheckProofs` (assumption: the contents are records of a signature and
two sizes): `TypeCorrect`, `OwnFreed`, `CheckAgrees`, `LeftAsFound`. The
invariant has two parts: `Control` relates the state of the handle, the flag and
the handle as it was found at each step, and `Verdicts` says that a result and a
header are those of the contents.

`AgdbInfoProofs` (assumption: `DatabaseAssumption`, a database has sequences of
volumes and sources):

* `TypeCorrect`, `Released`, `FailsForCause`. What the tool holds is told by
  where it is (`HoldsInv`, `MemoryInv`), except in the two cleanups, which have
  to release whatever they find. From `HoldsInv` follows that no getter is given
  a reference that is not NULL: the refusals, which `FailureHasCause` rules out
  as a cause, never happen, and `FaultInv` carries the cause to the end.
* `KeepsApi`. Every step is one of `FileApi` with the references mapped to the
  entries of the database: close and free come when nothing is held any more.
* `PrintsTheReport`. `ReportInv` says, for every place in the tool, which part of
  the report has been printed: the volumes before the one in hand, of that one
  its heading, its device path and the files before the one in hand, and so on
  (`AtVolume`, `Inside`, `AtSource`). The report is put together by
  `FlattenSeq`, whose recursion is unfolded by induction (`PartsPutTogether`);
  that a step only ever prints what comes next then follows from the entries
  being where they are (`VolumeBegins`, `FileBegins`, `SourceBegins`). Which
  entries have a string is not kept in a variable: it is told by the label the
  tool goes to, and `ReportInv` remembers it.

`EntryInformationProofs` (assumptions: `EntryAssumption` and `StreamAssumption`,
an entry or a stream of data is what a writer of a database has stored, in one of
the structures and with its fields; `MaximumAssumption`, what can be allocated is
a natural number):

* The layouts. The place of a field is defined by recursion over the fields
  before it, its number by recursion over its bytes, and the writer's bytes by
  `FlattenSeq`; each is unfolded by induction (`EndsDefined`,
  `LittleEndiansDefined`, `Flattened`). `FieldRead` then says that a field which
  lies at the same place in the structure written and in the one read comes back
  as it was stored. One lemma for each structure gives the places
  (`FileInformation72Layout`, ...): whether a cast is right is decided there.
* `ObjectOwnsMemory`. `MemoryInv` is `MemoryIsOwned` at every step: the memory in
  use is what the object refers to and what the read in progress has not handed
  over yet (`Pending`).
* `StringHasItsSize`, for volumes and files. The memory of a string is
  allocated with the size that the entry gives, and `string_size` is that size
  even when the bytes of an entry are read a second time into the same object
  (`StringInv`).
* `TypeCorrect`, `FieldsReadAsWritten`. `FieldsInv` says what the object holds of
  an entry that was read, `CountInv` how far the loop over the files of a volume
  is. Both survive a second read and the failure of any call.
* `StringReadAsWritten`, `StringsInsideMemory`. `TextInv` says that a string is
  all of the bytes of the text, and that the filename of a source has the size up
  to its terminator. From the size, which comes out of the size field, follows
  that the string ends at the first zero of the text (`PathReturned`): the sum of
  what the shifts, the widths of a character and the terminator contribute. That
  libuna replaces bytes of a filename does not move its end (`AsciiUpToEnd`). Both
  theorems have the hypothesis `TerminatedFilenames`, that a filename leaves
  room for a terminator in its field, as the format document says. It cannot be
  left out: a filename that fills the field is finding 3. Device paths and paths
  have no such hypothesis.
* `HeaderTypeCorrect`, `HeaderReadInside`, `HeaderReadAsWritten`. `HeaderInv`
  keeps, from the file header on, that the size is the one the writer gave
  (`HeaderFound`), that there is memory of that size (`HeaderAllocated`) and what
  is in it (`HeaderRead`); a database that is cut off before a field it has is
  excluded by the two checks together, that of the size of the header and that of
  the size of the stream. `NothingReturned` is what an open that ends without a
  database header relies on. None of it mentions what the IO handle held before,
  which is why a failed open needs no clear.

Inductions over data are carried out over sets of numbers (`Induction`, from the
well-foundedness of the natural numbers), since the theorems of the library take
an operator as a parameter, which none of the provers here can instantiate.

Only model-checked: liveness, `ReadEnds` of the data stream and `Terminates` of
the tool, and the three properties that are violated (the findings). All other
properties of the runs are stated by a theorem; `StringAsWritten` and the part of
`StringInsideMemory` that is about sources under the hypothesis named above.

## 5. What is not modelled

* Fields of the structures that the code only prints, and how libuna
  encodes a character (UTF-8 and UTF-16, surrogates that do not pair included):
  no state depends on them.
* Debug output, error stacks, notification, the codepage functions of the API,
  which nothing uses when a filename is read, version.
* In the tool: output formats; `agdbtools_getopt.c`, compiled only where the
  platform has no getopt (`AgdbInfo` has the options as one step that may refuse
  them); the signal handler with `agdbtools_signal.c`, which `main` never
  attaches; `info_handle_set_ascii_codepage` and `agdbinput.c`, which nothing
  calls.
* Tests, fuzzers, build files, m4 and Visual Studio projects.
* Allocation failures are modelled where a function can fail at all, not call by
  call; a failing `memory_copy` or `memory_set` is not told apart from them.

## 6. Plan

Done in this order, most important behaviour first: `FileLifecycle`,
`CompressedBlocks`, `ByteStream`/`BlockStream`, `EntryReader`, `PathHash`,
`SignatureCheck`, `AgdbInfo`, `UncompressedHeader`, `EntryInformation`,
`FileApi` with `FileReferences`; then theorems: the life cycle with its
refinement of `FileApi`, the tool, the data stream with its refinement of
`ByteStream`, the list of blocks it is given, the memory and strings of the
entries, the layouts with the fields of entries and headers, the hash over data
of any length, and the report of the tool. What could follow is liveness by the
rules of TLA, for `ReadEnds`: it needs ENABLED, which these provers do not have.
