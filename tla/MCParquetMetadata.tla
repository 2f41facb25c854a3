------------------------- MODULE MCParquetMetadata -------------------------
(***************************************************************************)
(* Instances of ParquetMetadata: pages of arrays of every size of value,   *)
(* the footers of arrays of every type and codec, and the samples of       *)
(* MCRecordTypes.                                                          *)
(***************************************************************************)
EXTENDS MCRecordTypes, ParquetMetadata

VtkTypes == <<"INT8", "UINT8", "INT32", "UINT32", "INT64", "UINT64", "FLOAT32", "FLOAT64">>

\* The element of a sequence that follows k others, which repeats.
After(k, seq) == seq[(k % Len(seq)) + 1]

Page(k) ==
  [kind |-> "page", uncompressed_size |-> After(k, <<0, 8, 24>>),
   value_size |-> After(k \div 3, <<1, 4, 8>>), compressed_size |-> After(k \div 9, <<0, 8>>),
   is_compressed |-> After(k \div 18, <<FALSE, TRUE>>)]

Footer(k) ==
  [kind |-> "footer", name |-> "prs", type |-> After(k, VtkTypes),
   codec |-> After(k \div 8, <<"NONE", "ZLIB", "LZ4">>), total_count |-> After(k \div 24, <<0, 16>>),
   total_compressed_size |-> 50, total_uncompressed_size |-> 90]

AllCalls == [k \in 1..36 |-> Page(k - 1)] \o [k \in 1..48 |-> Footer(k - 1)]

-----------------------------------------------------------------------------
(* What is sent, and into what it is read. *)

\* What is written of a record and into what it is read.
Sent(reader, writer, obj, into) ==
  [reader |-> reader, writer |-> writer, sent |-> obj, into |-> into]

SentOf(type) == <<
  Sent(type, type, Full(type), New[type]),
  Sent(type, type, New[type], New[type]),
  Sent(type, type, Full(type), Other(type)),
  Sent(type, RequiredOnly(type), Full(RequiredOnly(type)), Other(type)),
  Sent(type, RequiredOnly(type), Full(RequiredOnly(type)), New[type]),
  Sent(type, ThinMembers(type), Full(ThinMembers(type)), Other(type)),
  Sent(type, Newer(type), Full(Newer(type)), New[type]),
  Sent(type, OddsOnly(type), Full(OddsOnly(type)), New[type]),
  Sent(type, EvensOnly(type), Full(EvensOnly(type)), New[type]),
  Sent(type, Retyped(type), Full(Retyped(type)), New[type])>>

EveryRecord ==
  LET records == Records IN FlattenSeq([r \in DOMAIN records |-> SentOf(records[r])])

-----------------------------------------------------------------------------
(* How the types meet, and the objects of each. *)

RECURSIVE Meetings(_, _)
Meetings(reader, writer) ==
  {<<reader, writer>>} \cup
  (IF reader.wire = "STRUCT"
   THEN UNION {UNION {IF Meets(reader.fields[i], writer.fields[j])
                      THEN Meetings(reader.fields[i].type, writer.fields[j].type) ELSE {} :
                        j \in DOMAIN writer.fields} : i \in DOMAIN reader.fields}
   ELSE IF reader.wire = "LIST" THEN Meetings(reader.of, writer.of) ELSE {})

VersionSet == UNION {UNION {Meetings(r, w) : w \in Writers(r)} : r \in RecordSet}

AllVersions == VersionSet

\* What an object is made of, each part with its type.
RECURSIVE PartsOf(_, _)
PartsOf(type, v) ==
  {<<type, v>>} \cup
  (IF type.wire = "STRUCT"
   THEN UNION {LET f == type.fields[k]
               IN  IF f.name \in DOMAIN v THEN PartsOf(f.type, v[f.name]) ELSE {} :
                 k \in DOMAIN type.fields}
   ELSE IF type.wire = "LIST" THEN UNION {PartsOf(type.of, v[k]) : k \in DOMAIN v} ELSE {})

ObjectsOf(types, parts) ==
  LET upto[k \in 0..Len(types)] ==
        IF k = 0 THEN <<>>
        ELSE (types[k] :> {part[2] : part \in {part \in parts : part[1] = types[k]}}) @@ upto[k - 1]
  IN  upto[Len(types)]

SampleParts ==
  UNION {PartsOf(s.writer, s.sent) \cup PartsOf(s.reader, s.into) : s \in Range(EveryRecord)}
    \cup UNION {PartsOf(type, New[type]) : type \in TypeSet}

ObjectsByType ==
  ObjectsOf(TypeList, SampleParts \cup UNION {PartsOf(RecordOf(c), Metadata(c, "object")) :
                                              c \in Range(AllCalls)})

AllObjects(type) == ObjectsByType[type]

-----------------------------------------------------------------------------
(* The jobs. *)

\* How many tokens an object takes on the wire.
RECURSIVE Size(_, _)
Size(type, v) ==
  IF type.wire = "STRUCT"
  THEN LET upto[k \in 0..Len(type.fields)] ==
             IF k = 0 THEN 1
             ELSE LET f == type.fields[k]
                  IN  upto[k - 1] + IF f.name \in DOMAIN v THEN 1 + Size(f.type, v[f.name]) ELSE 0
       IN  upto[Len(type.fields)]
  ELSE IF type.wire = "LIST"
  THEN LET upto[k \in 0..Len(v)] == IF k = 0 THEN 1 ELSE upto[k - 1] + Size(type.of, v[k])
       IN  upto[Len(v)]
  ELSE 1

\* Records of which only a part arrives, cut at every token.
CutRecords == <<PageHeader, ColumnIndex, KeyValue, SchemaElement, EncryptionAlgorithm>>
CutOf(type) ==
  LET s == Sent(type, Newer(type), Full(Newer(type)), New[type])
  IN  [n \in 1..Size(s.writer, s.sent) |-> s @@ [lost |-> n + 2]]
CutJobs == FlattenSeq([r \in DOMAIN CutRecords |-> CutOf(CutRecords[r])])

JobList ==
  LET calls == AllCalls
      every == EveryRecord
  IN  [k \in DOMAIN calls |-> CallJob(calls[k])]
        \o [k \in DOMAIN every |-> every[k] @@ [lost |-> 0]] \o CutJobs

AllJobs == JobList
=============================================================================
