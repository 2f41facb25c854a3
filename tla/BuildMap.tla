------------------------------ MODULE BuildMap ------------------------------
(***************************************************************************)
(* Translation of one VTK data array into the map of a virtual Parquet     *)
(* file: class MapBuilder, AppendPage, AppendFooter and both overloads of  *)
(* BuildMap (fmap.cc).  A step is one page, that is one pass of the loop.  *)
(*                                                                         *)
(* Sizes are those of the code: block sizes are cut to 32 bits where the   *)
(* code stores them in uint32_t or int32_t, and num_blks - 1 is taken in   *)
(* uint64_t.  The widths are parameters, so that small instances wrap.     *)
(***************************************************************************)
EXTENDS FileMap, Functions

CONSTANTS
  Arrays,      \* arrays that may be translated
  BlockEnds,   \* [Arrays -> where VTK ended each compressed block]
  HeaderLens,  \* lengths of a serialized page header
  FooterLens,  \* lengths of a serialized footer
  StraySizes,  \* what compressed_blk_sz may hold past its end
  BlockSize,   \* 32768
  TwoTo31,     \* 2^31
  TwoTo64      \* 2^64

DataTypes == {"INT8", "UINT8", "INT32", "UINT32", "INT64", "UINT64", "FLOAT32", "FLOAT64"}
Codecs    == {"NONE", "ZLIB", "LZ4"}

ArrayType ==
  [codec : Codecs, type : DataTypes, b64 : BOOLEAN, data_start : Nat,
   total_bytes : Nat,                                      \* UncompressedArray
   num_blks : Nat, blk_sz : Nat, last_blk_sz : Nat,        \* CompressedArray
   compressed_blk_sz : Seq(Nat)]

ASSUME WidthAssumption ==
  /\ BlockSize \in Nat \ {0} /\ BlockSize % 8 = 0
  /\ TwoTo31 \in Nat \ {0} /\ TwoTo31 % 8 = 0 /\ BlockSize < TwoTo31
  /\ TwoTo64 \in Nat \ {0} /\ TwoTo64 % BlockSize = 0
  /\ HeaderLens \subseteq 1..TwoTo31 - 1
  /\ FooterLens \subseteq 1..TwoTo31 - 1
  /\ StraySizes \subseteq Nat

\* What the header of an array says of its blocks is what VTK wrote.
ASSUME ArraysAssumption ==
  /\ Arrays \subseteq ArrayType
  /\ \A a \in Arrays :
       /\ a.total_bytes + BlockSize < TwoTo64
       /\ a.num_blks < TwoTo64
       /\ Len(a.compressed_blk_sz) = a.num_blks
       /\ BlockEnds[a] \in Seq(Nat)
       /\ Len(BlockEnds[a]) = a.num_blks
       /\ \A b \in 1..a.num_blks :
            BlockEnds[a][b] = a.compressed_blk_sz[b]
                              + (IF b = 1 THEN 0 ELSE BlockEnds[a][b - 1])

VARIABLES
  pc,       \* where BuildMap is
  arr,      \* the array
  i,        \* loop counter
  offset,   \* where the next block starts in the payload
  total,    \* total_compressed_size, total_uncompressed_size, total_count
  builder,  \* the MapBuilder
  pages,    \* the page headers it was given, and where they start
  footer,   \* the footer it was given
  map       \* what Finish returned

vars == <<pc, arr, i, offset, total, builder, pages, footer, map>>

-----------------------------------------------------------------------------
(* Arithmetic of the code. *)

ToUint32(x) == x % (2 * TwoTo31)
ToInt32(x)  == IF ToUint32(x) < TwoTo31 THEN ToUint32(x) ELSE ToUint32(x) - 2 * TwoTo31

\* Division of integers in C++.
Quotient(x, d) == IF x >= 0 THEN x \div d ELSE -(-x \div d)

GetValueSize(type) ==
  CASE type \in {"INT8", "UINT8"} -> 1
    [] type \in {"INT32", "UINT32", "FLOAT32"} -> 4
    [] type \in {"INT64", "UINT64", "FLOAT64"} -> 8

\* Mutant: every float is a FLOAT.
OneFloatType(type) ==
  CASE type \in {"INT8", "UINT8", "INT32", "UINT32"} -> "INT32"
    [] type \in {"INT64", "UINT64"} -> "INT64"
    [] type \in {"FLOAT32", "FLOAT64"} -> "FLOAT"

ToParquetType(type) ==
  CASE type \in {"INT8", "UINT8", "INT32", "UINT32"} -> "INT32"
    [] type \in {"INT64", "UINT64"} -> "INT64"
    [] type = "FLOAT32" -> "FLOAT"
    [] type = "FLOAT64" -> "DOUBLE"

(* class MapBuilder *)

NewBuilder(a) ==
  [pending_base64_decoding |-> a.b64, data_start |-> a.data_start,
   bytes_written |-> 0, offsets |-> <<>>, underlying_offsets |-> <<>>,
   direct_buf |-> <<>>]

\* Mutant: the place in the direct buffer is taken after the append.
AddDirectPlacedLate(b, buf) ==
  [b EXCEPT !.offsets = Append(@, b.bytes_written),
            !.underlying_offsets = Append(@, -Len(b.direct_buf \o buf)),
            !.direct_buf = @ \o buf,
            !.bytes_written = @ + Len(buf)]

AddDirect(b, buf) ==
  [b EXCEPT !.offsets = Append(@, b.bytes_written),
            !.underlying_offsets = Append(@, -Len(b.direct_buf)),
            !.direct_buf = @ \o buf,
            !.bytes_written = @ + Len(buf)]

AddMappedRegion(b, from, size) ==
  [b EXCEPT !.offsets = Append(@, b.bytes_written),
            !.underlying_offsets = Append(@, 1 + from),
            !.bytes_written = @ + size]

Finish(b) ==
  [pending_base64_decoding |-> b.pending_base64_decoding,
   data_start |-> b.data_start,
   offsets |-> Append(b.offsets, b.bytes_written),
   underlying_offsets |-> b.underlying_offsets,
   direct_buf |-> b.direct_buf]

(* Parquet metadata: each byte is named by what it belongs to. *)

Par1            == [k \in 1..4 |-> [src |-> "magic", at |-> 0, nth |-> k]]
HeaderOf(p, n)  == [k \in 1..n |-> [src |-> "header", at |-> p, nth |-> k]]
FooterBytes(n)  == [k \in 1..n |-> [src |-> "footer", at |-> 0, nth |-> k]]
FootSize(n)     == [k \in 1..4 |-> [src |-> "length", at |-> n, nth |-> k]]

-----------------------------------------------------------------------------
(* Blocks of the array, as the code computes them. *)

NumBlks(a) ==
  IF a.codec = "NONE" THEN ((a.total_bytes + BlockSize - 1) % TwoTo64) \div BlockSize
                      ELSE a.num_blks

\* Mutant: the loop runs while i < num_blks.
LoopOverAll(a) == NumBlks(a)

\* The loop runs while i < num_blks - 1, in uint64_t.
FullBlks(a) == (NumBlks(a) - 1) % TwoTo64

\* The sizes of block b (from 1), before AppendPage takes them as uint32_t;
\* past the end of compressed_blk_sz the code reads whatever is there.
CompressedSizes(a, b) ==
  IF a.codec = "NONE" THEN
    {IF b <= FullBlks(a) THEN BlockSize ELSE (((a.total_bytes - 1) % TwoTo64) % BlockSize) + 1}
  ELSE IF b <= Len(a.compressed_blk_sz) THEN {a.compressed_blk_sz[b]} ELSE StraySizes

\* Mutant: the size of the last block is forgotten.
EveryBlockFull(a, b, compressed) ==
  IF a.codec = "NONE" THEN compressed ELSE a.blk_sz

UncompressedSize(a, b, compressed) ==
  IF a.codec = "NONE" THEN compressed
  ELSE IF b <= FullBlks(a) THEN a.blk_sz ELSE a.last_blk_sz

\* Mutant: the totals leave the page headers out.
AddPageBody(t, n, csize, usize, value_size) ==
  [compressed   |-> t.compressed + csize,
   uncompressed |-> t.uncompressed + usize,
   count        |-> t.count + usize \div value_size]

\* What a page whose header takes n bytes adds to the totals.
AddPage(t, n, csize, usize, value_size) ==
  [compressed   |-> t.compressed + ToUint32(n + csize),
   uncompressed |-> t.uncompressed + ToUint32(n + usize),
   count        |-> t.count + usize \div value_size]

-----------------------------------------------------------------------------
Init ==
  /\ pc = "begin"
  /\ arr \in Arrays
  /\ i = 0
  /\ offset = 0
  /\ total = [compressed |-> 0, uncompressed |-> 0, count |-> 0]
  /\ builder = NewBuilder(arr)
  /\ pages = <<>>
  /\ footer = <<>>
  /\ map = <<>>

Begin ==
  /\ pc = "begin"
  /\ builder' = AddDirect(builder, Par1)
  /\ pc' = "blocks"
  /\ UNCHANGED <<arr, i, offset, total, pages, footer, map>>

\* AppendPage for the next block, whose header serializes to n bytes, and
\* what BuildMap adds to its totals.
AppendPage(n, compressed, uncompressed) ==
  LET value_size == GetValueSize(arr.type)
      csize == ToUint32(compressed)
      usize == ToUint32(uncompressed)
  IN  /\ builder' = AddMappedRegion(AddDirect(builder, HeaderOf(i + 1, n)), offset, csize)
      /\ pages' = Append(pages,
           [start |-> builder.bytes_written, len |-> n,
            compressed_page_size |-> ToInt32(csize),
            uncompressed_page_size |-> ToInt32(usize),
            num_values |-> Quotient(ToInt32(usize), value_size)])
      /\ total' = AddPage(total, n, csize, usize, value_size)
      /\ UNCHANGED <<arr, footer, map>>

\* Mutant: the payload is advanced by the uncompressed size.
AdvanceUncompressed ==
  /\ pc = "blocks"
  /\ i < FullBlks(arr)
  /\ \E n \in HeaderLens, size \in CompressedSizes(arr, i + 1) :
       /\ AppendPage(n, size, UncompressedSize(arr, i + 1, size))
       /\ offset' = offset + ToUint32(UncompressedSize(arr, i + 1, size))
  /\ i' = i + 1
  /\ UNCHANGED pc

FullBlock ==
  /\ pc = "blocks"
  /\ i < FullBlks(arr)
  /\ \E n \in HeaderLens, size \in CompressedSizes(arr, i + 1) :
       /\ AppendPage(n, size, UncompressedSize(arr, i + 1, size))
       /\ offset' = offset + ToUint32(size)
  /\ i' = i + 1
  /\ UNCHANGED pc

LastBlock ==
  /\ pc = "blocks"
  /\ i >= FullBlks(arr)
  /\ \E n \in HeaderLens, size \in CompressedSizes(arr, i + 1) :
       AppendPage(n, size, UncompressedSize(arr, i + 1, size))
  /\ pc' = "footer"
  /\ UNCHANGED <<i, offset>>

\* Mutant: the map is finished before the footer is added to it.
FinishBeforeFooter ==
  /\ pc = "footer"
  /\ \E n \in FooterLens :
       /\ footer' = [len |-> n, data_page_offset |-> 4, type |-> ToParquetType(arr.type),
                     num_values |-> total.count,
                     total_compressed_size |-> total.compressed,
                     total_uncompressed_size |-> total.uncompressed]
       /\ builder' = AddDirect(AddDirect(AddDirect(builder, FooterBytes(n)), FootSize(n)), Par1)
  /\ map' = Finish(builder)
  /\ pc' = "done"
  /\ UNCHANGED <<arr, i, offset, total, pages>>

\* AppendFooter, the length of the footer, the magic number and Finish.
End ==
  /\ pc = "footer"
  /\ \E n \in FooterLens :
       /\ footer' = [len |-> n, data_page_offset |-> 4, type |-> ToParquetType(arr.type),
                     num_values |-> total.count,
                     total_compressed_size |-> total.compressed,
                     total_uncompressed_size |-> total.uncompressed]
       /\ builder' = AddDirect(AddDirect(AddDirect(builder, FooterBytes(n)), FootSize(n)), Par1)
  /\ map' = Finish(builder')
  /\ pc' = "done"
  /\ UNCHANGED <<arr, i, offset, total, pages>>

Next == Begin \/ FullBlock \/ LastBlock \/ End

Spec == Init /\ [][Next]_vars

-----------------------------------------------------------------------------
(* Arrays that some of the properties need. *)

\* The array has a value.
Filled(a) == IF a.codec = "NONE" THEN a.total_bytes > 0 ELSE a.num_blks > 0

\* The compressed blocks fit in the int32_t of a page header.
Fits(a) == \A b \in 1..a.num_blks : a.compressed_blk_sz[b] < TwoTo31

\* Every array has a value, and blocks that fit in a page.
ArraysFit == \A a \in Arrays : Filled(a) /\ Fits(a)

\* The array holds whole values, and so does each of its blocks.
Whole(a) ==
  LET size == GetValueSize(a.type) IN
  IF a.codec = "NONE" THEN a.total_bytes % size = 0
  ELSE a.blk_sz % size = 0 /\ a.last_blk_sz % size = 0

\* The array holds whole values, in blocks whose sizes fit in 31 bits, and VTK
\* gave the size of the last one.
RowsFit(a) ==
  /\ Filled(a)
  /\ Whole(a)
  /\ a.codec # "NONE" => a.blk_sz < TwoTo31 /\ a.last_blk_sz \in 1..TwoTo31 - 1

-----------------------------------------------------------------------------
(* Properties. *)

\* Where a block ends in the payload, and how long the payload is.
BlockEnd(a, b) == IF b = 0 THEN 0 ELSE BlockEnds[a][b]
PayloadLen(a)  == IF a.codec = "NONE" THEN a.total_bytes ELSE BlockEnd(a, a.num_blks)

PageType == [start : Nat, len : Nat, compressed_page_size : Int,
             uncompressed_page_size : Int, num_values : Int]

FooterType == [len : Nat, data_page_offset : Nat, type : {"INT32", "INT64", "FLOAT", "DOUBLE"},
               num_values : Nat, total_compressed_size : Nat, total_uncompressed_size : Nat]

BuilderType ==
  [pending_base64_decoding : BOOLEAN, data_start : Nat, bytes_written : Nat,
   offsets : Seq(Nat), underlying_offsets : Seq(Int), direct_buf : Seq(Byte)]

\* Types of the state; the map is there once BuildMap is done.
TypeOK ==
  /\ pc \in {"begin", "blocks", "footer", "done"}
  /\ arr \in Arrays
  /\ i \in Nat
  /\ offset \in Nat
  /\ total \in [compressed : Nat, uncompressed : Nat, count : Nat]
  /\ builder \in BuilderType
  /\ pages \in Seq(PageType)
  /\ pc = "done" => footer \in FooterType /\ map = Finish(builder)

\* The map that MapBuilder::Finish returns (fmap.cc) is one FileMap::Pread can
\* serve, for every array: FileMap::Read indexes neither vector past its end,
\* nor the direct buffer.
MapServable == pc = "done" => WellFormed(map)

\* No page that BuildMap maps (fmap.cc) reaches past the array's payload: what
\* follows the array in the VTK file is never mapped as part of it.
NoPagePastArray == MappedWithin(Finish(builder), PayloadLen(arr))

\* A reader that starts at data_page_offset and goes from page to page by the
\* sizes in the headers finds a header at every stop and gets to the end of
\* the column chunk, where the footer starts, which is also where the length
\* at the end of the file sends it (AppendPage, AppendFooter and BuildMap).
ReaderFindsPages ==
  pc = "done" =>
    LET next(p) == pages[p].start + pages[p].len + pages[p].compressed_page_size
        last == Len(pages)
    IN  /\ pages[1].start = footer.data_page_offset
        /\ \A p \in 1..last - 1 : pages[p + 1].start = next(p)
        /\ \A p \in 1..last :
             Slice(map, pages[p].start, pages[p].len) = HeaderOf(p, pages[p].len)
        /\ next(last) = footer.data_page_offset + footer.total_compressed_size
        /\ next(last) = FileSize(map) - 8 - footer.len
        /\ Slice(map, FileSize(map) - 8, 8) = FootSize(footer.len) \o Par1

\* The file the map describes so far, byte by byte.
Content == [k \in 1..builder.bytes_written |-> ByteAt(Finish(builder), k - 1)]

\* MapBuilder and BuildMap (fmap.cc) write, without storing it, the file a
\* Parquet writer writes: what is appended later never changes what earlier
\* positions read, and the pages hold the whole payload in order, once.
Writer == INSTANCE ParquetWriter WITH
            stage <- CASE pc = "begin" -> "magic"
                       [] pc \in {"blocks", "footer"} -> "pages"
                       [] pc = "done" -> "done",
            file <- Content,
            npages <- Len(pages),
            sent <- IF pc \in {"footer", "done"}
                    THEN offset + pages[Len(pages)].compressed_page_size ELSE offset
WritesParquet == Writer!Spec

\* The bytes of the array once its blocks are decompressed.  VTK gives the
\* size of the last block only if it is a partial one, and 0 if it is not.
ArrayBytes(a) ==
  IF a.codec = "NONE" THEN a.total_bytes
  ELSE (a.num_blks - 1) * a.blk_sz + (IF a.last_blk_sz = 0 THEN a.blk_sz ELSE a.last_blk_sz)

\* The footer promises as many rows as the array has values, and the pages
\* hold that many between them (total_count and num_values, fmap.cc).
RowsMatchArray ==
  pc = "done" =>
    /\ footer.num_values * GetValueSize(arr.type) = ArrayBytes(arr)
    /\ FoldFunction(+, 0, [p \in 1..Len(pages) |-> pages[p].num_values]) = footer.num_values

\* Bytes of a value of a Parquet type in the encoding PLAIN.
PlainSize(type) == IF type \in {"INT32", "FLOAT"} THEN 4 ELSE 8

\* Each page holds, once decompressed, as many bytes as its values take in the
\* encoding and the type that the metadata announce (AppendPage, fmap.cc).
PlainPages ==
  \A p \in 1..Len(pages) :
    pages[p].uncompressed_page_size = pages[p].num_values * PlainSize(ToParquetType(arr.type))

\* The same of values as wide as one of Parquet's types (ToParquetType, fmap.cc).
WidePlainPages == GetValueSize(arr.type) > 1 => PlainPages

=============================================================================
