-------------------------- MODULE ParquetMetadata --------------------------
(***************************************************************************)
(* The records that describe a translated array: what AppendPage and       *)
(* AppendFooter (fmap.cc) put in front of each page and at the end of the  *)
(* file.  They are read here by read() of the same version, token by       *)
(* token, and the properties are about what the reader then has.           *)
(*                                                                         *)
(* Jobs of ThriftRecords may have a call: the arguments of AppendPage      *)
(* (kind, compressed_size, uncompressed_size, value_size, is_compressed)   *)
(* or of AppendFooter (kind, name, type, codec, total_compressed_size,     *)
(* total_uncompressed_size, total_count).                                  *)
(***************************************************************************)
EXTENDS ThriftRecords

DataTypes == {"INT8", "UINT8", "INT32", "UINT32", "INT64", "UINT64", "FLOAT32", "FLOAT64"}

\* A record from values for the setters: the object, or, to see what the
\* setters leave to the constructor, the values alone.
Made(how, type, values) == IF how = "object" THEN WithFields(type, values) ELSE values

-----------------------------------------------------------------------------
(* Types and codecs. *)

\* Mutant: the sign is lost.
UnsignedOnly(type) ==
  CASE type \in {"INT8", "UINT8"}   -> {ConvertedType.UINT_8}
    [] type \in {"INT32", "UINT32"} -> {ConvertedType.UINT_32}
    [] type \in {"INT64", "UINT64"} -> {ConvertedType.UINT_64}
    [] type \in {"FLOAT32", "FLOAT64"} -> {}

\* Empty for the types that need no conversion.
ToParquetConvertedType(type) ==
  CASE type = "INT8"   -> {ConvertedType.INT_8}
    [] type = "UINT8"  -> {ConvertedType.UINT_8}
    [] type = "INT32"  -> {ConvertedType.INT_32}
    [] type = "UINT32" -> {ConvertedType.UINT_32}
    [] type = "INT64"  -> {ConvertedType.INT_64}
    [] type = "UINT64" -> {ConvertedType.UINT_64}
    [] type \in {"FLOAT32", "FLOAT64"} -> {}

ToParquetType(type) ==
  CASE type \in {"INT8", "UINT8", "INT32", "UINT32"} -> Type.INT32
    [] type \in {"INT64", "UINT64"} -> Type.INT64
    [] type = "FLOAT32" -> Type.FLOAT
    [] type = "FLOAT64" -> Type.DOUBLE

ToParquetCodec(codec) ==
  CASE codec = "NONE" -> CompressionCodec.UNCOMPRESSED
    [] codec = "ZLIB" -> CompressionCodec.GZIP
    [] codec = "LZ4"  -> CompressionCodec.LZ4_RAW

-----------------------------------------------------------------------------
(* AppendPage *)

DataPage(c, how) ==
  LET num_values == c.uncompressed_size \div c.value_size
      values == [num_values |-> num_values, num_nulls |-> 0, num_rows |-> num_values,
                 encoding |-> Encoding.PLAIN,
                 definition_levels_byte_length |-> 0, repetition_levels_byte_length |-> 0]
  IN  Made(how, DataPageHeaderV2,
        IF c.is_compressed THEN Over([is_compressed |-> TRUE], values) ELSE values)

\* Mutant: the type is the one of the first version of pages.
OldPageType(c, how) ==
  Made(how, PageHeader,
    [type |-> PageType.DATA_PAGE,
     uncompressed_page_size |-> c.uncompressed_size,
     compressed_page_size |-> c.compressed_size,
     data_page_header_v2 |-> DataPage(c, how)])

PageHeaderOf(c, how) ==
  Made(how, PageHeader,
    [type |-> PageType.DATA_PAGE_V2,
     uncompressed_page_size |-> c.uncompressed_size,
     compressed_page_size |-> c.compressed_size,
     data_page_header_v2 |-> DataPage(c, how)])

-----------------------------------------------------------------------------
(* AppendFooter *)

\* Mutant: the root counts itself.
RootCountsItself(c, how) == <<
  Made(how, SchemaElement,
    [name |-> "vtkfile", repetition_type |-> FieldRepetitionType.REQUIRED,
     num_children |-> 2]),
  Made(how, SchemaElement,
    [name |-> c.name, repetition_type |-> FieldRepetitionType.REQUIRED,
     type |-> ToParquetType(c.type)])>>

Schema(c, how) ==
  LET group == [name |-> "vtkfile", repetition_type |-> FieldRepetitionType.REQUIRED,
                num_children |-> 1]
      ele   == [name |-> c.name, repetition_type |-> FieldRepetitionType.REQUIRED,
                type |-> ToParquetType(c.type)]
      conv  == ToParquetConvertedType(c.type)
  IN  <<Made(how, SchemaElement, group),
        Made(how, SchemaElement,
          IF conv = {} THEN ele
          ELSE Over([converted_type |-> CHOOSE t \in conv : TRUE], ele))>>

ColumnMetaDataOf(c, how) ==
  Made(how, ColumnMetaData,
    [type |-> ToParquetType(c.type), encodings |-> <<Encoding.PLAIN>>,
     path_in_schema |-> <<c.name>>, codec |-> ToParquetCodec(c.codec),
     num_values |-> c.total_count,
     total_uncompressed_size |-> c.total_uncompressed_size,
     total_compressed_size |-> c.total_compressed_size,
     data_page_offset |-> 4,
     statistics |-> Made(how, Statistics, [null_count |-> 0])])

\* Mutant: the rows of the row group are not set.
NoRows(c, how) ==
  Made(how, RowGroup,
    [columns |-> <<Made(how, ColumnChunk,
                    [file_offset |-> 0, meta_data |-> ColumnMetaDataOf(c, how)])>>,
     total_byte_size |-> c.total_uncompressed_size,
     file_offset |-> 4,
     total_compressed_size |-> c.total_compressed_size])

RowGroupOf(c, how) ==
  Made(how, RowGroup,
    [columns |-> <<Made(how, ColumnChunk,
                    [file_offset |-> 0, meta_data |-> ColumnMetaDataOf(c, how)])>>,
     num_rows |-> c.total_count,
     total_byte_size |-> c.total_uncompressed_size,
     file_offset |-> 4,
     total_compressed_size |-> c.total_compressed_size])

FileMetaDataOf(c, how) ==
  Made(how, FileMetaData,
    [version |-> 2, schema |-> Schema(c, how), num_rows |-> c.total_count,
     row_groups |-> <<RowGroupOf(c, how)>>])

-----------------------------------------------------------------------------
(* The jobs. *)

RecordOf(c)       == IF c.kind = "page" THEN PageHeader ELSE FileMetaData
Metadata(c, how) ==
  IF c.kind = "page" THEN PageHeaderOf(c, how) ELSE FileMetaDataOf(c, how)

CallJob(c) ==
  [call |-> c, reader |-> RecordOf(c), writer |-> RecordOf(c),
   sent |-> Metadata(c, "object"), into |-> New[RecordOf(c)], lost |-> 0]

\* What the setters of each record are given.
Given(c) ==
  IF c.kind = "page"
  THEN {<<PageHeader, PageHeaderOf(c, "set")>>, <<DataPageHeaderV2, DataPage(c, "set")>>}
  ELSE LET group == RowGroupOf(c, "set")
           column == ColumnMetaDataOf(c, "set")
       IN  {<<FileMetaData, FileMetaDataOf(c, "set")>>, <<RowGroup, group>>,
            <<ColumnChunk, group.columns[1]>>, <<ColumnMetaData, column>>,
            <<Statistics, column.statistics>>}
           \cup {<<SchemaElement, element>> : element \in Range(Schema(c, "set"))}

\* The largest int32_t.  What the casts of AppendPage make of larger sizes is
\* in BuildMap (ToInt32).
MaxInt32 == 2147483647

\* The calls of the translators: a page holds whole values (BuildMap).
IsCall(c) ==
  \/ /\ c.kind = "page" /\ c.is_compressed \in BOOLEAN /\ c.value_size \in {1, 4, 8}
     /\ c.compressed_size \in Nat /\ c.compressed_size <= MaxInt32
     /\ c.uncompressed_size \in Nat /\ c.uncompressed_size <= MaxInt32
     /\ c.uncompressed_size % c.value_size = 0
  \/ /\ c.kind = "footer" /\ c.type \in DataTypes /\ c.codec \in {"NONE", "ZLIB", "LZ4"}
     /\ c.total_compressed_size \in Nat /\ c.total_uncompressed_size \in Nat
     /\ c.total_count \in Nat

ASSUME CallsAssumption ==
  \A k \in DOMAIN Jobs :
    "call" \in DOMAIN Jobs[k] => IsCall(Jobs[k].call) /\ Jobs[k] = CallJob(Jobs[k].call)

-----------------------------------------------------------------------------
(* Properties: what a reader concludes. *)

Call     == job.call
CallRead == outcome = "read" /\ "call" \in DOMAIN job
PageRead == CallRead /\ Call.kind = "page"
FileRead == CallRead /\ Call.kind = "footer"

leaf   == top.obj.schema[2]
group  == top.obj.row_groups[1]
column == group.columns[1].meta_data
v2     == top.obj.data_page_header_v2

Has(obj, name) == name \in DOMAIN obj

\* What a converted type says of an integer, and in which type it is stored
\* (gen-cpp/parquet_types.h, enum ConvertedType); without one, what the type
\* itself says.
Announced(element) ==
  LET int(bits, signed) == [bits |-> bits, kind |-> IF signed THEN "signed" ELSE "unsigned",
                            stored |-> IF bits <= 32 THEN Type.INT32 ELSE Type.INT64]
      float(bits, type) == [bits |-> bits, kind |-> "float", stored |-> type]
  IN  IF Has(element, "converted_type")
      THEN LET t == element.converted_type
           IN  CASE t = ConvertedType.INT_8   -> int(8, TRUE)
                 [] t = ConvertedType.UINT_8  -> int(8, FALSE)
                 [] t = ConvertedType.INT_32  -> int(32, TRUE)
                 [] t = ConvertedType.UINT_32 -> int(32, FALSE)
                 [] t = ConvertedType.INT_64  -> int(64, TRUE)
                 [] t = ConvertedType.UINT_64 -> int(64, FALSE)
      ELSE IF element.type = Type.FLOAT THEN float(32, Type.FLOAT) ELSE float(64, Type.DOUBLE)

BitsOf(type) ==
  CASE type \in {"INT8", "UINT8"} -> 8
    [] type \in {"INT32", "UINT32", "FLOAT32"} -> 32
    [] type \in {"INT64", "UINT64", "FLOAT64"} -> 64

KindOf(type) ==
  CASE type \in {"INT8", "INT32", "INT64"} -> "signed"
    [] type \in {"UINT8", "UINT32", "UINT64"} -> "unsigned"
    [] type \in {"FLOAT32", "FLOAT64"} -> "float"

\* The schema a reader gets says what VTK said of the values (fmap.cc,
\* ToParquetType and ToParquetConvertedType), in a storage type the converted
\* type may be stored in, and the column repeats it.
SchemaTellsType ==
  FileRead =>
    LET a == Announced(leaf)
    IN  /\ a.bits = BitsOf(Call.type) /\ a.kind = KindOf(Call.type)
        /\ leaf.type = a.stored /\ column.type = a.stored

\* The elements of the schema are a tree flattened depth first: the children
\* that groups announce are the elements there are, groups have no type,
\* leaves have one and no children, and the column's path leads to its leaf
\* (AppendFooter, fmap.cc; gen-cpp/parquet_types.h, class SchemaElement).
SchemaIsTree ==
  FileRead =>
    LET schema   == top.obj.schema
        children == [k \in DOMAIN schema |->
                       IF Has(schema[k], "num_children") THEN schema[k].num_children ELSE 0]
    IN  /\ SumFunction(children) = Len(schema) - 1
        /\ \A k \in DOMAIN schema : Has(schema[k], "type") = ~Has(schema[k], "num_children")
        /\ column.path_in_schema = <<leaf.name>>

\* Every figure that the footer states more than once it states alike, so
\* that readers that trust the file, the row group or the column agree
\* (AppendFooter, fmap.cc).
MetadataAgrees ==
  FileRead =>
    /\ top.obj.num_rows = group.num_rows
    /\ group.num_rows = column.num_values
    /\ group.total_byte_size = column.total_uncompressed_size
    /\ group.total_compressed_size = column.total_compressed_size
    /\ group.file_offset = column.data_page_offset
    /\ Len(group.columns) = Cardinality({k \in DOMAIN top.obj.schema : Has(top.obj.schema[k], "type")})

\* The header of a page has the header of a data page its type announces and
\* no other, and its sizes leave room for the values only: no levels, no
\* nulls, as the one required leaf of the schema has it (AppendPage, fmap.cc).
PageMatchesSchema ==
  PageRead =>
    /\ (top.obj.type = PageType.DATA_PAGE_V2) = Has(top.obj, "data_page_header_v2")
    /\ ~Has(top.obj, "data_page_header") /\ ~Has(top.obj, "dictionary_page_header")
    /\ v2.num_rows = v2.num_values - v2.num_nulls
    /\ v2.repetition_levels_byte_length + v2.definition_levels_byte_length
         + v2.num_values * Call.value_size = top.obj.uncompressed_page_size

\* write() sends a required field whether or not anyone set it: AppendPage and
\* AppendFooter (fmap.cc) leave none, at any depth, to its default.
NothingLeftToDefault ==
  CallRead =>
    \A g \in Given(Call) :
      \A k \in DOMAIN g[1].fields : g[1].fields[k].req => Has(g[2], g[1].fields[k].name)

=============================================================================
