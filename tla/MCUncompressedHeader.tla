------------------------ MODULE MCUncompressedHeader ------------------------
(* Databases with headers of every structure and of the shortest size the   *)
(* check lets pass, with size fields that fit and that do not.              *)
EXTENDS UncompressedHeader

Parameters32 == <<56, 36, 60, 16, 20, 7, 8, 9, 10>>
Parameters64 == <<72, 64, 88, 24, 32, 7, 8, 9, 10>>

Fields(parameters, volumes, sources) ==
  [database_type |-> Bytes(2, 4),
   database_parameters |->
     FlattenSeq([i \in 1 .. 9 |-> Bytes(parameters[i], 4)]),
   number_of_volumes |-> Bytes(volumes, 4),
   number_of_sources |-> Bytes(sources, 4)]

\* Without its last field, and without its last three.
Structures ==
  {DatabaseHeader, DatabaseHeader116, DatabaseHeader228,
   SubSeq(DatabaseHeader, 1, 7), SubSeq(DatabaseHeader, 1, 5)}

MCStreams ==
  {[structure |-> structure, fields |-> fields, size |-> sizes[1],
    file |-> [unknown1 |-> Bytes(type, 4),
              data_size |-> Bytes(sizes[2], 4),
              header_size |-> Bytes(IF fits THEN 12 + SizeOf(structure)
                                            ELSE 8, 4)]] :
     structure \in Structures, fits \in BOOLEAN, type \in {14, 5},
     fields \in {Fields(Parameters32, 2, 70000), Fields(Parameters64, 0, 3)},
     sizes \in {<<8, 8>>, <<40, 40>>, <<250, 250>>, <<250, 254>>}}
=============================================================================
