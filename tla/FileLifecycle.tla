--------------------------- MODULE FileLifecycle ---------------------------
(***************************************************************************)
(* The life of one libagdb_file_t (libagdb/libagdb_file.c): initialize,    *)
(* open by name or on a libbfio handle of the application, the steps of    *)
(* libagdb_file_open_read, close, free and signal_abort.                   *)
(*                                                                         *)
(* Every library call that open_read makes is a step of its own, because   *)
(* each can fail (I/O, corrupt data, out of memory) and because the abort  *)
(* signal arrives between them.  What the property can tell apart is kept: *)
(* who created, opened, closed and freed the libbfio handle, which helper  *)
(* objects exist, and which volume and source objects are on the heap and  *)
(* which database they were read from.  The bytes are the subject of the   *)
(* other modules.                                                          *)
(***************************************************************************)
EXTENDS Naturals, Sequences, SequencesExt, Functions

CONSTANTS
  Database,         \* the files on disk a handle can name
  FileType,         \* FileType[d]: LIBAGDB_FILE_TYPE_xxx of d
  NumberOfVolumes,  \* the counts the uncompressed file header of d yields
  NumberOfSources,
  UserHandle,       \* libbfio handles of the application
  LibraryHandle,    \* libbfio handles libagdb_file_open can be given
  Object,           \* addresses of volume and source information objects
  NULL

FileTypes == {"uncompressed", "vista", "win7", "win8"}

ASSUME DatabaseAssumption ==
  /\ FileType \in [Database -> FileTypes]
  /\ NumberOfVolumes \in [Database -> Nat]
  /\ NumberOfSources \in [Database -> Nat]

ASSUME HandleAssumption ==
  /\ UserHandle \cap LibraryHandle = {}
  /\ NULL \notin UserHandle \cup LibraryHandle
  /\ NULL \notin Object
  /\ NULL \notin Database

VARIABLES
  file,                      \* *file: "null" or "live"
  file_io_handle,            \* internal_file->file_io_handle
  created_in_library,        \* file_io_handle_created_in_library, 0 or 1
  opened_in_library,         \* file_io_handle_opened_in_library, 0 or 1
  helpers,                   \* which of the helper objects exist
  volumes_array,             \* sequences of addresses
  sources_array,
  io_handle,                 \* file_type and abort of the IO handle
  api,                       \* the open function that is running
  pc,                        \* its next step, or "idle"
  handle_is_open,            \* local file_io_handle_is_open
  volume_information,        \* locals of libagdb_file_open_read
  source_information,
  volume_index,
  source_index,
  result,                    \* return value of the last finished call
  bfio,                      \* libbfio: the handles
  heap,                      \* the allocated information objects
  lent_state                 \* history: handle state when passed to open

fileVars   == <<file, file_io_handle, created_in_library, opened_in_library>>
arrayVars  == <<volumes_array, sources_array, heap>>
localVars  == <<volume_information, source_information, volume_index,
                source_index>>
callVars   == <<api, pc, handle_is_open, result, lent_state>>
vars       == <<fileVars, helpers, arrayVars, localVars, callVars,
                io_handle, bfio>>

Handle  == UserHandle \cup LibraryHandle
Helpers == {"compressed_blocks_list", "compressed_blocks_cache",
            "uncompressed_data_stream"}
NoInfo  == [kind |-> "free", database |-> NULL, index |-> 0]
Info    == [kind : {"volume", "source"}, database : Database \cup {NULL},
            index : Nat]
NoBfio  == [state |-> "none", database |-> NULL]
Bfio    == [state : {"closed", "open", "stuck"}, database : Database]
Cleared == [file_type |-> "unset", abort |-> 0]

ReadSteps == {"open_read", "file_header", "list", "blocks", "cache",
              "stream", "data_header", "volumes", "volume_read", "sources",
              "source_read"}

OpenDatabase == bfio[file_io_handle].database

Init ==
  /\ file = "null"
  /\ file_io_handle = NULL
  /\ created_in_library = 0 /\ opened_in_library = 0
  /\ helpers = {}
  /\ volumes_array = <<>> /\ sources_array = <<>>
  /\ io_handle = Cleared
  /\ api = "none" /\ pc = "idle" /\ handle_is_open = 0 /\ result = "none"
  /\ volume_information = NULL /\ source_information = NULL
  /\ volume_index = 0 /\ source_index = 0
  /\ bfio = [h \in Handle |-> NoBfio]
  /\ heap = [o \in Object |-> NoInfo]
  /\ lent_state = "none"

-----------------------------------------------------------------------------
(* libbfio as the library uses it.  A handle is stuck when closing it      *)
(* failed: it still counts as open.                                        *)

BfioIsOpen(h) == IF bfio[h].state \in {"open", "stuck"} THEN 1 ELSE 0

\* The application works on handles of its own, never on one it has lent.
ApplicationHandle(h) ==
  /\ pc = "idle"
  /\ h # file_io_handle
  /\ \/ bfio[h] = NoBfio
        /\ \E d \in Database :
             bfio' = [bfio EXCEPT ![h] = [state |-> "closed", database |-> d]]
     \/ bfio[h].state = "closed" /\ bfio' = [bfio EXCEPT ![h].state = "open"]
     \/ BfioIsOpen(h) = 1 /\ bfio' = [bfio EXCEPT ![h].state = "closed"]
     \/ bfio[h].state = "closed" /\ bfio' = [bfio EXCEPT ![h] = NoBfio]
  /\ UNCHANGED <<fileVars, helpers, arrayVars, localVars, callVars,
                 io_handle>>

-----------------------------------------------------------------------------
(* The calls that take no steps of their own                               *)

\* On failure the partly built structure is freed again.
Initialize ==
  /\ pc = "idle" /\ file = "null"
  /\ \/ file' = "live" /\ result' = "ok"
     \/ file' = "null" /\ result' = "error"
  /\ UNCHANGED <<file_io_handle, created_in_library, opened_in_library,
                 helpers, arrayVars, localVars, api, pc, handle_is_open,
                 lent_state, io_handle, bfio>>

SignalAbort ==
  /\ file = "live"
  /\ io_handle' = [io_handle EXCEPT !.abort = 1]
  /\ UNCHANGED <<fileVars, helpers, arrayVars, localVars, callVars, bfio>>

\* Mutant: the handle is closed whoever opened it.
CloseBfioAlways(h, closes) == IF closes THEN "closed" ELSE "stuck"

\* Closing the handle when the library opened it; closes says whether libbfio
\* succeeds.
CloseBfio(h, closes) ==
  IF opened_in_library # 0 THEN IF closes THEN "closed" ELSE "stuck"
                           ELSE bfio[h].state

FreeEntries ==
  /\ volumes_array' = <<>>
  /\ sources_array' = <<>>
  /\ heap' = [o \in Object |->
                IF o \in Range(volumes_array) \cup Range(sources_array)
                THEN NoInfo ELSE heap[o]]

\* The part of libagdb_file_close after its guard: close when opened here,
\* free when created here, then clear everything and go on after a failure.
CloseFile(closes) ==
  /\ bfio' = [bfio EXCEPT ![file_io_handle] =
                IF created_in_library # 0 THEN NoBfio
                ELSE [@ EXCEPT !.state = CloseBfio(file_io_handle, closes)]]
  /\ opened_in_library' = 0
  /\ created_in_library' = 0
  /\ file_io_handle' = NULL
  /\ io_handle' = Cleared
  /\ helpers' = {}
  /\ FreeEntries
  /\ result' = IF opened_in_library # 0 /\ ~closes THEN "error" ELSE "ok"

Close ==
  /\ pc = "idle" /\ file = "live"
  /\ \/ /\ file_io_handle # NULL
        /\ \E closes \in BOOLEAN : CloseFile(closes)
     \/ /\ file_io_handle = NULL
        /\ result' = "error"
        /\ UNCHANGED <<file_io_handle, created_in_library, opened_in_library,
                       helpers, arrayVars, io_handle, bfio>>
  /\ UNCHANGED <<file, localVars, api, pc, handle_is_open, lent_state>>

Free ==
  /\ pc = "idle" /\ file = "live"
  /\ file' = "null"
  /\ \/ /\ file_io_handle # NULL
        /\ \E closes \in BOOLEAN : CloseFile(closes)
     \/ /\ file_io_handle = NULL
        /\ FreeEntries
        /\ io_handle' = Cleared
        /\ result' = "ok"
        /\ UNCHANGED <<file_io_handle, created_in_library, opened_in_library,
                       helpers, bfio>>
  /\ UNCHANGED <<localVars, api, pc, handle_is_open, lent_state>>

-----------------------------------------------------------------------------
(* Opening                                                                 *)

\* libagdb_file_open_file_io_handle accepts handle h in state s for database d.
Accept(function, h, s) ==
  /\ file_io_handle' = h
  /\ api' = function
  /\ pc' = "open_handle"
  /\ lent_state' = s
  /\ volume_information' = NULL /\ source_information' = NULL
  /\ volume_index' = 0 /\ source_index' = 0

\* A second open, access flags other than read, or a new handle that cannot
\* be made or named: a new handle is freed and the file is left alone.
Refuse ==
  /\ result' = "error"
  /\ UNCHANGED <<file_io_handle, api, pc, lent_state, localVars, bfio>>

OpenNamed(function, h, d) ==
  /\ pc = "idle" /\ file = "live"
  /\ bfio[h] = NoBfio
  /\ \/ /\ file_io_handle = NULL
        /\ bfio' = [bfio EXCEPT ![h] = [state |-> "closed", database |-> d]]
        /\ Accept(function, h, "closed")
        /\ UNCHANGED result
     \/ Refuse
  /\ UNCHANGED <<file, created_in_library, opened_in_library, helpers,
                 arrayVars, handle_is_open, io_handle>>

Open(h, d)     == OpenNamed("open", h, d)
OpenWide(h, d) == OpenNamed("open_wide", h, d)

OpenFileIoHandle(h) ==
  /\ pc = "idle" /\ file = "live"
  /\ bfio[h] # NoBfio
  /\ \/ /\ file_io_handle = NULL
        /\ Accept("open_file_io_handle", h, bfio[h].state)
        /\ UNCHANGED <<result, bfio>>
     \/ Refuse
  /\ UNCHANGED <<file, created_in_library, opened_in_library, helpers,
                 arrayVars, handle_is_open, io_handle>>

\* on_error of open_file_io_handle and then of open: the handle is closed when
\* this call opened it, forgotten, and freed when open created it.
AbandonHandle(is_open, closes) ==
  /\ bfio' = [bfio EXCEPT ![file_io_handle] =
                IF api # "open_file_io_handle" THEN NoBfio
                ELSE IF is_open = 0
                THEN [@ EXCEPT !.state = CloseBfio(file_io_handle, closes)]
                ELSE @]
  /\ opened_in_library' = IF is_open = 0 THEN 0 ELSE opened_in_library
  /\ file_io_handle' = NULL
  /\ api' = "none" /\ pc' = "idle"
  /\ result' = "error"

\* libbfio_handle_is_open and, unless it was open, libbfio_handle_open.
OpenHandle ==
  /\ pc = "open_handle"
  /\ handle_is_open' = BfioIsOpen(file_io_handle)
  /\ IF BfioIsOpen(file_io_handle) # 0
     THEN UNCHANGED <<opened_in_library, bfio>>
     ELSE /\ opened_in_library' = 1
          /\ bfio' = [bfio EXCEPT ![file_io_handle].state = "open"]
  /\ pc' = "open_read"
  /\ UNCHANGED <<file, file_io_handle, created_in_library, helpers,
                 arrayVars, localVars, api, result, lent_state, io_handle>>

\* libbfio_handle_open fails: there is nothing to close.
OpenHandleFails ==
  /\ pc = "open_handle"
  /\ handle_is_open' = BfioIsOpen(file_io_handle)
  /\ AbandonHandle(BfioIsOpen(file_io_handle), TRUE)
  /\ UNCHANGED <<file, created_in_library, helpers, arrayVars, localVars,
                 lent_state, io_handle>>

BeginOpenRead ==
  /\ pc = "open_read"
  /\ helpers \cap {"compressed_blocks_list", "compressed_blocks_cache"} = {}
  /\ io_handle' = [io_handle EXCEPT !.abort = 0]
  /\ pc' = "file_header"
  /\ UNCHANGED <<fileVars, helpers, arrayVars, localVars, api,
                 handle_is_open, result, lent_state, bfio>>

ReadCompressedFileHeader ==
  /\ pc = "file_header"
  /\ io_handle' = [io_handle EXCEPT !.file_type = FileType[OpenDatabase]]
  /\ pc' = IF FileType[OpenDatabase] = "uncompressed" THEN "stream"
                                                      ELSE "list"
  /\ UNCHANGED <<fileVars, helpers, arrayVars, localVars, api,
                 handle_is_open, result, lent_state, bfio>>

\* A helper object is made, or the compressed blocks are listed.  The size of
\* a Windows 8 database is never read, so listing its blocks always fails.
InitializeBlocksList ==
  /\ pc = "list"
  /\ helpers' = helpers \cup {"compressed_blocks_list"}
  /\ pc' = "blocks"

ReadCompressedBlocks ==
  /\ pc = "blocks"
  /\ io_handle.file_type # "win8"
  /\ pc' = "cache"
  /\ UNCHANGED helpers

InitializeBlocksCache ==
  /\ pc = "cache"
  /\ helpers' = helpers \cup {"compressed_blocks_cache"}
  /\ pc' = "stream"

InitializeDataStream ==
  /\ pc = "stream"
  /\ helpers' = helpers \cup {"uncompressed_data_stream"}
  /\ pc' = "data_header"

ReadUncompressedFileHeader ==
  /\ pc = "data_header"
  /\ pc' = "volumes"
  /\ UNCHANGED helpers

PrepareStream ==
  /\ \/ InitializeBlocksList \/ ReadCompressedBlocks \/ InitializeBlocksCache
     \/ InitializeDataStream \/ ReadUncompressedFileHeader
  /\ UNCHANGED <<fileVars, arrayVars, localVars, api, handle_is_open, result,
                 lent_state, io_handle, bfio>>

-----------------------------------------------------------------------------
(* The volume loop and the source loop of libagdb_file_open_read           *)

FreeObjects == {o \in Object : heap[o] = NoInfo}

\* memory_allocate and memset; which free address malloc returns is of no
\* consequence, so one of them is chosen.
Allocated == CHOOSE o \in Object : heap[o] = NoInfo
Blank(k)  == [kind |-> k, database |-> NULL, index |-> 0]

VolumeInitialize ==
  /\ pc = "volumes"
  /\ volume_index < NumberOfVolumes[OpenDatabase]
  /\ FreeObjects # {}
  /\ volume_information' = Allocated
  /\ heap' = [heap EXCEPT ![Allocated] = Blank("volume")]
  /\ pc' = "volume_read"
  /\ UNCHANGED <<volumes_array, sources_array, source_information,
                 volume_index, source_index>>

\* Mutant: the local reference is kept after the append.
VolumeReadKeepsReference ==
  /\ pc = "volume_read"
  /\ heap' = [heap EXCEPT ![volume_information] =
                [@ EXCEPT !.database = OpenDatabase, !.index = volume_index]]
  /\ volumes_array' = Append(volumes_array, volume_information)
  /\ volume_index' = volume_index + 1
  /\ pc' = "volumes"
  /\ UNCHANGED <<sources_array, volume_information, source_information,
                 source_index>>

\* Read the entry, append it and give up the local reference.
VolumeRead ==
  /\ pc = "volume_read"
  /\ heap' = [heap EXCEPT ![volume_information] =
                [@ EXCEPT !.database = OpenDatabase, !.index = volume_index]]
  /\ volumes_array' = Append(volumes_array, volume_information)
  /\ volume_information' = NULL
  /\ volume_index' = volume_index + 1
  /\ pc' = "volumes"
  /\ UNCHANGED <<sources_array, source_information, source_index>>

\* Mutant: the volume loop stops one entry early.
VolumesDoneEarly ==
  /\ pc = "volumes"
  /\ volume_index + 1 >= NumberOfVolumes[OpenDatabase]
  /\ pc' = "sources"
  /\ UNCHANGED <<arrayVars, localVars>>

VolumesDone ==
  /\ pc = "volumes"
  /\ volume_index >= NumberOfVolumes[OpenDatabase]
  /\ pc' = "sources"
  /\ UNCHANGED <<arrayVars, localVars>>

SourceInitialize ==
  /\ pc = "sources"
  /\ source_index < NumberOfSources[OpenDatabase]
  /\ FreeObjects # {}
  /\ source_information' = Allocated
  /\ heap' = [heap EXCEPT ![Allocated] = Blank("source")]
  /\ pc' = "source_read"
  /\ UNCHANGED <<volumes_array, sources_array, volume_information,
                 volume_index, source_index>>

\* Mutant: the source loop appends the variable of the volume loop.
SourceReadAppendsVolume ==
  /\ pc = "source_read"
  /\ heap' = [heap EXCEPT ![source_information] =
                [@ EXCEPT !.database = OpenDatabase, !.index = source_index]]
  /\ sources_array' = Append(sources_array, volume_information)
  /\ source_information' = NULL
  /\ source_index' = source_index + 1
  /\ pc' = "sources"
  /\ UNCHANGED <<volumes_array, volume_information, volume_index>>

SourceRead ==
  /\ pc = "source_read"
  /\ heap' = [heap EXCEPT ![source_information] =
                [@ EXCEPT !.database = OpenDatabase, !.index = source_index]]
  /\ sources_array' = Append(sources_array, source_information)
  /\ source_information' = NULL
  /\ source_index' = source_index + 1
  /\ pc' = "sources"
  /\ UNCHANGED <<volumes_array, volume_information, volume_index>>

ReadEntries ==
  /\ \/ VolumeInitialize \/ VolumeRead \/ VolumesDone
     \/ SourceInitialize \/ SourceRead
  /\ UNCHANGED <<fileVars, helpers, api, handle_is_open, result,
                 lent_state, io_handle, bfio>>

\* Mutant: the flag that makes close free the handle is not set.
OpenSucceedsForgetsCreated ==
  /\ pc = "sources"
  /\ source_index >= NumberOfSources[OpenDatabase]
  /\ api' = "none" /\ pc' = "idle"
  /\ result' = "ok"
  /\ UNCHANGED <<fileVars, helpers, arrayVars, localVars, handle_is_open,
                 lent_state, io_handle, bfio>>

\* open_read, open_file_io_handle and open return 1 one after the other.
OpenSucceeds ==
  /\ pc = "sources"
  /\ source_index >= NumberOfSources[OpenDatabase]
  /\ created_in_library' = IF api = "open_file_io_handle" THEN 0 ELSE 1
  /\ api' = "none" /\ pc' = "idle"
  /\ result' = "ok"
  /\ UNCHANGED <<file, file_io_handle, opened_in_library, helpers,
                 arrayVars, localVars, handle_is_open, lent_state, io_handle,
                 bfio>>

\* Mutant: on_error leaves the data stream behind.
ReleaseReadKeepsStream ==
  /\ heap' = [o \in Object |->
                IF o \in {volume_information, source_information}
                THEN NoInfo ELSE heap[o]]
  /\ volume_information' = NULL
  /\ source_information' = NULL
  /\ helpers' = helpers \cap {"uncompressed_data_stream"}
  /\ UNCHANGED <<volumes_array, sources_array, volume_index, source_index>>

\* Mutant: on_error frees the appended volumes but leaves them in the array.
ReleaseReadFreesVolumes ==
  /\ heap' = [o \in Object |->
                IF o \in {volume_information, source_information}
                         \cup Range(volumes_array)
                THEN NoInfo ELSE heap[o]]
  /\ volume_information' = NULL
  /\ source_information' = NULL
  /\ helpers' = {}
  /\ UNCHANGED <<volumes_array, sources_array, volume_index, source_index>>

\* on_error of open_read: the object being read and the helper objects are
\* freed; the entries appended so far stay in the arrays.
ReleaseRead ==
  /\ heap' = [o \in Object |->
                IF o \in {volume_information, source_information}
                THEN NoInfo ELSE heap[o]]
  /\ volume_information' = NULL
  /\ source_information' = NULL
  /\ helpers' = {}
  /\ UNCHANGED <<volumes_array, sources_array, volume_index, source_index>>

\* Any call open_read makes fails.
OpenReadFails ==
  /\ pc \in ReadSteps
  /\ ReleaseRead
  /\ \E closes \in BOOLEAN : AbandonHandle(handle_is_open, closes)
  /\ UNCHANGED <<file, created_in_library, handle_is_open, lent_state,
                 io_handle>>

OpenStep ==
  \/ OpenHandle \/ OpenHandleFails \/ BeginOpenRead
  \/ ReadCompressedFileHeader \/ PrepareStream \/ ReadEntries
  \/ OpenSucceeds \/ OpenReadFails

ApplicationStep ==
  \/ Initialize \/ Close \/ Free \/ SignalAbort
  \/ \E h \in UserHandle : ApplicationHandle(h) \/ OpenFileIoHandle(h)
  \/ \E h \in LibraryHandle, d \in Database : Open(h, d) \/ OpenWide(h, d)

Next == OpenStep \/ ApplicationStep

Spec == Init /\ [][Next]_vars

-----------------------------------------------------------------------------
HandleTypes ==
  /\ file \in {"null", "live"}
  /\ file_io_handle \in Handle \cup {NULL}
  /\ created_in_library \in {0, 1} /\ opened_in_library \in {0, 1}
  /\ bfio \in [Handle -> Bfio \cup {NoBfio}]
  /\ lent_state \in {"none", "closed", "open", "stuck"}

CallTypes ==
  /\ helpers \subseteq Helpers
  /\ io_handle \in [file_type : FileTypes \cup {"unset"}, abort : {0, 1}]
  /\ api \in {"none", "open", "open_wide", "open_file_io_handle"}
  /\ pc \in ReadSteps \cup {"idle", "open_handle"}
  /\ handle_is_open \in {0, 1}
  /\ result \in {"none", "ok", "error"}

EntryTypes ==
  /\ volumes_array \in Seq(Object) /\ sources_array \in Seq(Object)
  /\ volume_information \in Object \cup {NULL}
  /\ source_information \in Object \cup {NULL}
  /\ volume_index \in Nat /\ source_index \in Nat
  /\ heap \in [Object -> Info \cup {NoInfo}]

TypeOK == HandleTypes /\ CallTypes /\ EntryTypes

\* A call to libagdb_file_open_* has returned 1 and close has not been called.
IsOpen == pc = "idle" /\ file_io_handle # NULL

(* Handle ownership.  The library keeps a libbfio handle of its own exactly *)
(* while the file refers to it: whatever step of an open fails, the handle  *)
(* libagdb_file_open made is freed once and no reference to it survives,    *)
(* and a handle the application lent is never freed.  The two flags that    *)
(* libagdb_file_close acts on tell the truth whenever close can be called.  *)
HandleOwnership ==
  /\ \A h \in LibraryHandle : bfio[h] # NoBfio <=> h = file_io_handle
  /\ file_io_handle # NULL => bfio[file_io_handle] # NoBfio
  /\ pc = "idle" =>
       (created_in_library = 1 <=> file_io_handle \in LibraryHandle)
  /\ opened_in_library = 1 =>
       file_io_handle # NULL /\ BfioIsOpen(file_io_handle) = 1

(* A handle of the application comes back the way it was lent, from close,  *)
(* from free and from an open that failed at any step: closed if it was     *)
(* closed, open if it was open, unless libbfio could not close it.          *)
HandedBackAsLent ==
  [][\A h \in UserHandle :
       file_io_handle = h /\ file_io_handle' # h =>
         bfio'[h].state \in {lent_state, "stuck"}]_vars

(* The blocks list, the cache and the data stream exist exactly for an open *)
(* file, the first two exactly for a compressed one, and the IO handle then *)
(* describes the database that is open, not one that was open before.       *)
HelpersMatchFile ==
  pc = "idle" =>
    IF file_io_handle = NULL
    THEN helpers = {}
    ELSE /\ io_handle.file_type = FileType[OpenDatabase]
         /\ helpers = IF FileType[OpenDatabase] = "uncompressed"
                      THEN {"uncompressed_data_stream"} ELSE Helpers

Reading == {volume_information, source_information} \ {NULL}

(* No leak, no dangling entry, no double free: the allocated information    *)
(* objects are those the two arrays hold and the one open_read is reading,  *)
(* and no object is held twice, so that close, free and on_error free every *)
(* object exactly once.                                                     *)
HeapExact ==
  /\ {o \in Object : heap[o] # NoInfo} =
       Range(volumes_array) \cup Range(sources_array) \cup Reading
  /\ IsInjective(volumes_array) /\ IsInjective(sources_array)
  /\ Range(volumes_array) \cap Range(sources_array) = {}
  /\ Reading \cap (Range(volumes_array) \cup Range(sources_array)) = {}
  /\ volume_information = NULL \/ source_information = NULL

\* The last n entries of array were read from database d, in its order.
EndsWith(array, kind, d, n) ==
  /\ Len(array) >= n
  /\ \A i \in 1 .. n :
       heap[array[Len(array) - n + i]] =
         [kind |-> kind, database |-> d, index |-> i - 1]

(* An open that returns 1 has appended every volume and every source the    *)
(* header counts, complete, in order and of the right kind; nothing is      *)
(* skipped, repeated or half read, whatever earlier opens did.              *)
OpenFileHasItsEntries ==
  IsOpen =>
    /\ EndsWith(volumes_array, "volume", OpenDatabase,
                NumberOfVolumes[OpenDatabase])
    /\ EndsWith(sources_array, "source", OpenDatabase,
                NumberOfSources[OpenDatabase])

(* What the getters promise ("Retrieves the number of volumes", of sources, *)
(* of the open file): the entries are exactly those of the open database.   *)
(* Not so after an open that failed in the volume or source loop.           *)
OpenFileHasOnlyItsEntries ==
  IsOpen =>
    /\ Len(volumes_array) = NumberOfVolumes[OpenDatabase]
    /\ Len(sources_array) = NumberOfSources[OpenDatabase]

(* What signal_abort promises ("Signals the libagdb file to abort its       *)
(* current activity"): an open does not run to success once the abort has   *)
(* been signalled.                                                          *)
AbortStopsOpen ==
  [][pc # "idle" /\ io_handle.abort = 1 => ~(pc' = "idle" /\ result' = "ok")]_vars
=============================================================================
