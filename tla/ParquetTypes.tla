---------------------------- MODULE ParquetTypes ----------------------------
(***************************************************************************)
(* The records of Parquet metadata, as the code that Thrift generated      *)
(* reads and writes them (gen-cpp/parquet_types.cpp and .h).  The code of  *)
(* every record follows one pattern, which ThriftRecords has; what differs *)
(* is the table of its fields: the id and the type they have on the wire,  *)
(* and whether read() insists on them.                                     *)
(*                                                                         *)
(* A type is [wire]; of a list also [of], of a record also [fields], which *)
(* are in the order write() takes them in.  Enumerations travel as T_I32.  *)
(***************************************************************************)
EXTENDS Integers, Sequences, TLC

T_BOOL   == [wire |-> "BOOL"]
T_BYTE   == [wire |-> "BYTE"]
T_I16    == [wire |-> "I16"]
T_I32    == [wire |-> "I32"]
T_I64    == [wire |-> "I64"]
T_DOUBLE == [wire |-> "DOUBLE"]
T_STRING == [wire |-> "STRING"]

ListOf(type)   == [wire |-> "LIST", of |-> type]
Struct(fields) == [wire |-> "STRUCT", fields |-> fields]

\* The types of the members of a type.
MemberTypes(type) ==
  CASE type.wire = "STRUCT" -> {type.fields[k].type : k \in DOMAIN type.fields}
    [] type.wire = "LIST"   -> {type.of}
    [] OTHER -> {}

\* Fields: read() throws if a required one is missing; __isset tells whether
\* an optional one is there, from the start if it has a default.
Req(id, name, type) == [id |-> id, name |-> name, type |-> type, req |-> TRUE]
Opt(id, name, type) == [id |-> id, name |-> name, type |-> type, req |-> FALSE]
Default(id, name, type, value) ==
  [id |-> id, name |-> name, type |-> type, req |-> FALSE, default |-> value]

-----------------------------------------------------------------------------
(* Enumerations. *)

Type == [BOOLEAN |-> 0, INT32 |-> 1, INT64 |-> 2, INT96 |-> 3, FLOAT |-> 4,
  DOUBLE |-> 5, BYTE_ARRAY |-> 6, FIXED_LEN_BYTE_ARRAY |-> 7]

ConvertedType == [UTF8 |-> 0, MAP |-> 1, MAP_KEY_VALUE |-> 2, LIST |-> 3,
  ENUM |-> 4, DECIMAL |-> 5, DATE |-> 6, TIME_MILLIS |-> 7, TIME_MICROS |-> 8,
  TIMESTAMP_MILLIS |-> 9, TIMESTAMP_MICROS |-> 10, UINT_8 |-> 11, UINT_16 |-> 12,
  UINT_32 |-> 13, UINT_64 |-> 14, INT_8 |-> 15, INT_16 |-> 16, INT_32 |-> 17,
  INT_64 |-> 18, JSON |-> 19, BSON |-> 20, INTERVAL |-> 21]

FieldRepetitionType == [REQUIRED |-> 0, OPTIONAL |-> 1, REPEATED |-> 2]

EdgeInterpolationAlgorithm == [SPHERICAL |-> 0, VINCENTY |-> 1, THOMAS |-> 2,
  ANDOYER |-> 3, KARNEY |-> 4]

Encoding == [PLAIN |-> 0, PLAIN_DICTIONARY |-> 2, RLE |-> 3, BIT_PACKED |-> 4,
  DELTA_BINARY_PACKED |-> 5, DELTA_LENGTH_BYTE_ARRAY |-> 6, DELTA_BYTE_ARRAY |-> 7,
  RLE_DICTIONARY |-> 8, BYTE_STREAM_SPLIT |-> 9]

CompressionCodec == [UNCOMPRESSED |-> 0, SNAPPY |-> 1, GZIP |-> 2, LZO |-> 3,
  BROTLI |-> 4, LZ4 |-> 5, ZSTD |-> 6, LZ4_RAW |-> 7]

PageType == [DATA_PAGE |-> 0, INDEX_PAGE |-> 1, DICTIONARY_PAGE |-> 2,
  DATA_PAGE_V2 |-> 3]

BoundaryOrder == [UNORDERED |-> 0, ASCENDING |-> 1, DESCENDING |-> 2]
-----------------------------------------------------------------------------
(* Records, in the order of the file. *)

SizeStatistics == Struct(<<
  Opt(1, "unencoded_byte_array_data_bytes", T_I64),
  Opt(2, "repetition_level_histogram", ListOf(T_I64)),
  Opt(3, "definition_level_histogram", ListOf(T_I64))>>)

BoundingBox == Struct(<<
  Req(1, "xmin", T_DOUBLE), Req(2, "xmax", T_DOUBLE), Req(3, "ymin", T_DOUBLE),
  Req(4, "ymax", T_DOUBLE), Opt(5, "zmin", T_DOUBLE), Opt(6, "zmax", T_DOUBLE),
  Opt(7, "mmin", T_DOUBLE), Opt(8, "mmax", T_DOUBLE)>>)

GeospatialStatistics == Struct(<<
  Opt(1, "bbox", BoundingBox), Opt(2, "geospatial_types", ListOf(T_I32))>>)

Statistics == Struct(<<
  Opt(1, "max", T_STRING), Opt(2, "min", T_STRING), Opt(3, "null_count", T_I64),
  Opt(4, "distinct_count", T_I64), Opt(5, "max_value", T_STRING),
  Opt(6, "min_value", T_STRING), Opt(7, "is_max_value_exact", T_BOOL),
  Opt(8, "is_min_value_exact", T_BOOL)>>)

StringType == Struct(<<>>)

UUIDType == Struct(<<>>)

MapType == Struct(<<>>)

ListType == Struct(<<>>)

EnumType == Struct(<<>>)

DateType == Struct(<<>>)

Float16Type == Struct(<<>>)

NullType == Struct(<<>>)

DecimalType == Struct(<<Req(1, "scale", T_I32), Req(2, "precision", T_I32)>>)

MilliSeconds == Struct(<<>>)

MicroSeconds == Struct(<<>>)

NanoSeconds == Struct(<<>>)

TimeUnit == Struct(<<
  Opt(1, "MILLIS", MilliSeconds), Opt(2, "MICROS", MicroSeconds),
  Opt(3, "NANOS", NanoSeconds)>>)

TimestampType == Struct(<<
  Req(1, "isAdjustedToUTC", T_BOOL), Req(2, "unit", TimeUnit)>>)

TimeType == Struct(<<Req(1, "isAdjustedToUTC", T_BOOL), Req(2, "unit", TimeUnit)>>)

IntType == Struct(<<Req(1, "bitWidth", T_BYTE), Req(2, "isSigned", T_BOOL)>>)

JsonType == Struct(<<>>)

BsonType == Struct(<<>>)

VariantType == Struct(<<Opt(1, "specification_version", T_BYTE)>>)

GeometryType == Struct(<<Opt(1, "crs", T_STRING)>>)

GeographyType == Struct(<<Opt(1, "crs", T_STRING), Opt(2, "algorithm", T_I32)>>)

LogicalType == Struct(<<
  Opt(1, "STRING", StringType), Opt(2, "MAP", MapType), Opt(3, "LIST", ListType),
  Opt(4, "ENUM", EnumType), Opt(5, "DECIMAL", DecimalType),
  Opt(6, "DATE", DateType), Opt(7, "TIME", TimeType),
  Opt(8, "TIMESTAMP", TimestampType), Opt(10, "INTEGER", IntType),
  Opt(11, "UNKNOWN", NullType), Opt(12, "JSON", JsonType),
  Opt(13, "BSON", BsonType), Opt(14, "UUID", UUIDType),
  Opt(15, "FLOAT16", Float16Type), Opt(16, "VARIANT", VariantType),
  Opt(17, "GEOMETRY", GeometryType), Opt(18, "GEOGRAPHY", GeographyType)>>)

SchemaElement == Struct(<<
  Opt(1, "type", T_I32), Opt(2, "type_length", T_I32),
  Opt(3, "repetition_type", T_I32), Req(4, "name", T_STRING),
  Opt(5, "num_children", T_I32), Opt(6, "converted_type", T_I32),
  Opt(7, "scale", T_I32), Opt(8, "precision", T_I32), Opt(9, "field_id", T_I32),
  Opt(10, "logicalType", LogicalType)>>)

DataPageHeader == Struct(<<
  Req(1, "num_values", T_I32), Req(2, "encoding", T_I32),
  Req(3, "definition_level_encoding", T_I32),
  Req(4, "repetition_level_encoding", T_I32), Opt(5, "statistics", Statistics)>>)

IndexPageHeader == Struct(<<>>)

DictionaryPageHeader == Struct(<<
  Req(1, "num_values", T_I32), Req(2, "encoding", T_I32),
  Opt(3, "is_sorted", T_BOOL)>>)

DataPageHeaderV2 == Struct(<<
  Req(1, "num_values", T_I32), Req(2, "num_nulls", T_I32),
  Req(3, "num_rows", T_I32), Req(4, "encoding", T_I32),
  Req(5, "definition_levels_byte_length", T_I32),
  Req(6, "repetition_levels_byte_length", T_I32),
  Default(7, "is_compressed", T_BOOL, TRUE), Opt(8, "statistics", Statistics)>>)

SplitBlockAlgorithm == Struct(<<>>)

BloomFilterAlgorithm == Struct(<<Opt(1, "BLOCK", SplitBlockAlgorithm)>>)

XxHash == Struct(<<>>)

BloomFilterHash == Struct(<<Opt(1, "XXHASH", XxHash)>>)

Uncompressed == Struct(<<>>)

BloomFilterCompression == Struct(<<Opt(1, "UNCOMPRESSED", Uncompressed)>>)

BloomFilterHeader == Struct(<<
  Req(1, "numBytes", T_I32), Req(2, "algorithm", BloomFilterAlgorithm),
  Req(3, "hash", BloomFilterHash), Req(4, "compression", BloomFilterCompression)>>)

PageHeader == Struct(<<
  Req(1, "type", T_I32), Req(2, "uncompressed_page_size", T_I32),
  Req(3, "compressed_page_size", T_I32), Opt(4, "crc", T_I32),
  Opt(5, "data_page_header", DataPageHeader),
  Opt(6, "index_page_header", IndexPageHeader),
  Opt(7, "dictionary_page_header", DictionaryPageHeader),
  Opt(8, "data_page_header_v2", DataPageHeaderV2)>>)

KeyValue == Struct(<<Req(1, "key", T_STRING), Opt(2, "value", T_STRING)>>)

SortingColumn == Struct(<<
  Req(1, "column_idx", T_I32), Req(2, "descending", T_BOOL),
  Req(3, "nulls_first", T_BOOL)>>)

PageEncodingStats == Struct(<<
  Req(1, "page_type", T_I32), Req(2, "encoding", T_I32), Req(3, "count", T_I32)>>)

ColumnMetaData == Struct(<<
  Req(1, "type", T_I32), Req(2, "encodings", ListOf(T_I32)),
  Req(3, "path_in_schema", ListOf(T_STRING)), Req(4, "codec", T_I32),
  Req(5, "num_values", T_I64), Req(6, "total_uncompressed_size", T_I64),
  Req(7, "total_compressed_size", T_I64),
  Opt(8, "key_value_metadata", ListOf(KeyValue)), Req(9, "data_page_offset", T_I64),
  Opt(10, "index_page_offset", T_I64), Opt(11, "dictionary_page_offset", T_I64),
  Opt(12, "statistics", Statistics),
  Opt(13, "encoding_stats", ListOf(PageEncodingStats)),
  Opt(14, "bloom_filter_offset", T_I64), Opt(15, "bloom_filter_length", T_I32),
  Opt(16, "size_statistics", SizeStatistics),
  Opt(17, "geospatial_statistics", GeospatialStatistics)>>)

EncryptionWithFooterKey == Struct(<<>>)

EncryptionWithColumnKey == Struct(<<
  Req(1, "path_in_schema", ListOf(T_STRING)), Opt(2, "key_metadata", T_STRING)>>)

ColumnCryptoMetaData == Struct(<<
  Opt(1, "ENCRYPTION_WITH_FOOTER_KEY", EncryptionWithFooterKey),
  Opt(2, "ENCRYPTION_WITH_COLUMN_KEY", EncryptionWithColumnKey)>>)

ColumnChunk == Struct(<<
  Opt(1, "file_path", T_STRING), Req(2, "file_offset", T_I64),
  Opt(3, "meta_data", ColumnMetaData), Opt(4, "offset_index_offset", T_I64),
  Opt(5, "offset_index_length", T_I32), Opt(6, "column_index_offset", T_I64),
  Opt(7, "column_index_length", T_I32),
  Opt(8, "crypto_metadata", ColumnCryptoMetaData),
  Opt(9, "encrypted_column_metadata", T_STRING)>>)

RowGroup == Struct(<<
  Req(1, "columns", ListOf(ColumnChunk)), Req(2, "total_byte_size", T_I64),
  Req(3, "num_rows", T_I64), Opt(4, "sorting_columns", ListOf(SortingColumn)),
  Opt(5, "file_offset", T_I64), Opt(6, "total_compressed_size", T_I64),
  Opt(7, "ordinal", T_I16)>>)

TypeDefinedOrder == Struct(<<>>)

ColumnOrder == Struct(<<Opt(1, "TYPE_ORDER", TypeDefinedOrder)>>)

PageLocation == Struct(<<
  Req(1, "offset", T_I64), Req(2, "compressed_page_size", T_I32),
  Req(3, "first_row_index", T_I64)>>)

OffsetIndex == Struct(<<
  Req(1, "page_locations", ListOf(PageLocation)),
  Opt(2, "unencoded_byte_array_data_bytes", ListOf(T_I64))>>)

ColumnIndex == Struct(<<
  Req(1, "null_pages", ListOf(T_BOOL)), Req(2, "min_values", ListOf(T_STRING)),
  Req(3, "max_values", ListOf(T_STRING)), Req(4, "boundary_order", T_I32),
  Opt(5, "null_counts", ListOf(T_I64)),
  Opt(6, "repetition_level_histograms", ListOf(T_I64)),
  Opt(7, "definition_level_histograms", ListOf(T_I64))>>)

AesGcmV1 == Struct(<<
  Opt(1, "aad_prefix", T_STRING), Opt(2, "aad_file_unique", T_STRING),
  Opt(3, "supply_aad_prefix", T_BOOL)>>)

AesGcmCtrV1 == Struct(<<
  Opt(1, "aad_prefix", T_STRING), Opt(2, "aad_file_unique", T_STRING),
  Opt(3, "supply_aad_prefix", T_BOOL)>>)

EncryptionAlgorithm == Struct(<<
  Opt(1, "AES_GCM_V1", AesGcmV1), Opt(2, "AES_GCM_CTR_V1", AesGcmCtrV1)>>)

FileMetaData == Struct(<<
  Req(1, "version", T_I32), Req(2, "schema", ListOf(SchemaElement)),
  Req(3, "num_rows", T_I64), Req(4, "row_groups", ListOf(RowGroup)),
  Opt(5, "key_value_metadata", ListOf(KeyValue)), Opt(6, "created_by", T_STRING),
  Opt(7, "column_orders", ListOf(ColumnOrder)),
  Opt(8, "encryption_algorithm", EncryptionAlgorithm),
  Opt(9, "footer_signing_key_metadata", T_STRING)>>)

FileCryptoMetaData == Struct(<<
  Req(1, "encryption_algorithm", EncryptionAlgorithm),
  Opt(2, "key_metadata", T_STRING)>>)
=============================================================================
