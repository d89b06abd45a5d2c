------------------------------- MODULE FileApi -------------------------------
(***************************************************************************)
(* What a libagdb_file_t promises the application (libagdb_file.h): it is  *)
(* opened and closed, while it is open it has the volumes, files and       *)
(* sources of the database, and an entry the application has got hold of   *)
(* stays what it is until the application gives it up.  In return the      *)
(* application gives up its entries before it closes or frees the file.    *)
(*                                                                         *)
(* FileReferences implements the library's side, AgdbInfo the side of the  *)
(* application.                                                            *)
(***************************************************************************)
EXTENDS Naturals, Sequences

CONSTANTS
  Database,
  NumberOfVolumes(_), NumberOfSources(_),   \* of a database
  NumberOfFiles(_, _),                      \* of a database and a volume
  None

VARIABLES
  status,            \* "none", "closed" or "open"
  volumes, sources,  \* the entries the getters count and hand out
  held               \* the volume, file and source the application holds

vars == <<status, volumes, sources, held>>

Kinds == {"volume", "file", "source"}
Nothing == [k \in Kinds |-> None]

Entries(kind, d, n) ==
  [i \in 1 .. n |-> [kind |-> kind, database |-> d, index |-> i - 1]]

Init ==
  /\ status = "none"
  /\ volumes = <<>> /\ sources = <<>>
  /\ held = Nothing

Initialize ==
  /\ status = "none" /\ status' = "closed"
  /\ UNCHANGED <<volumes, sources, held>>

Open(d) ==
  /\ status = "closed" /\ status' = "open"
  /\ volumes' = volumes \o Entries("volume", d, NumberOfVolumes(d))
  /\ sources' = sources \o Entries("source", d, NumberOfSources(d))
  /\ UNCHANGED held

\* What had been read when the open failed stays until close or free.
OpenFails(d) ==
  /\ status = "closed"
  /\ \E v \in 0 .. NumberOfVolumes(d), s \in 0 .. NumberOfSources(d) :
       /\ s > 0 => v = NumberOfVolumes(d)
       /\ volumes' = volumes \o Entries("volume", d, v)
       /\ sources' = sources \o Entries("source", d, s)
  /\ UNCHANGED <<status, held>>

\* Whether or not an error is returned.
Drop(next_status) ==
  /\ held = Nothing
  /\ status' = next_status
  /\ volumes' = <<>> /\ sources' = <<>>
  /\ UNCHANGED held

Close == status = "open" /\ Drop("closed")

Free == status # "none" /\ Drop("none")

Hold(kind, e) ==
  /\ held[kind] = None
  /\ held' = [held EXCEPT ![kind] = e]
  /\ UNCHANGED <<status, volumes, sources>>

GetVolume == \E i \in DOMAIN volumes : Hold("volume", volumes[i])

GetSource == \E i \in DOMAIN sources : Hold("source", sources[i])

\* A file is got from a volume that is held, and may be held longer.
GetFile ==
  /\ held.volume # None
  /\ \E i \in 1 .. NumberOfFiles(held.volume.database, held.volume.index) :
       Hold("file", [volume |-> held.volume, index |-> i - 1])

GiveUp ==
  /\ \E K \in SUBSET Kinds :
       held' = [k \in Kinds |-> IF k \in K THEN None ELSE held[k]]
  /\ UNCHANGED <<status, volumes, sources>>

Next ==
  \/ Initialize \/ Close \/ Free
  \/ \E d \in Database : Open(d) \/ OpenFails(d)
  \/ GetVolume \/ GetSource \/ GetFile \/ GiveUp

Spec == Init /\ [][Next]_vars
=============================================================================
