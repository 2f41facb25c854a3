-------------------------- MODULE BuildMap_proofs --------------------------
(***************************************************************************)
(* What BuildMap says of the map it returns holds for every array, and for *)
(* any lengths of the serialized metadata: the state is well typed, the    *)
(* map is well formed, and its pages stay in the array if it has a value,  *)
(* which is all that FilePread assumes of the maps it serves.  Then the    *)
(* file it writes: what appending a region does to the bytes of the file,  *)
(* that a Parquet writer writes the same file, that a reader of it finds   *)
(* the pages, and that they hold what is announced.                        *)
(***************************************************************************)
EXTENDS BuildMap, Induction, SequenceTheorems

(* The inductive invariant: at every step, the offsets of the builder are    *)
(* ordered and its direct regions lie in its direct buffer.                  *)

\* The offsets with the mark Finish adds.
Marks(b) == Append(b.offsets, b.bytes_written)

BuilderOK(b) ==
  /\ b \in BuilderType
  /\ Len(b.offsets) = Len(b.underlying_offsets)
  /\ Marks(b)[1] = 0
  /\ Ordered(Marks(b))
  /\ \A k \in 1..Len(b.offsets) :
       b.underlying_offsets[k] <= 0 =>
         Marks(b)[k + 1] - Marks(b)[k] - b.underlying_offsets[k] <= Len(b.direct_buf)

IInv == TypeOK /\ BuilderOK(builder)

-----------------------------------------------------------------------------
(* Lemmas about arithmetic. *)

LEMMA Modulo ==
  ASSUME NEW x \in Int, NEW m \in Nat \ {0}
  PROVE  x % m \in 0..m - 1
OBVIOUS

LEMMA Division ==
  ASSUME NEW x \in Nat, NEW m \in Nat \ {0}
  PROVE  x \div m \in Nat
OBVIOUS

LEMMA ValueSizes == \A t \in DataTypes : GetValueSize(t) \in {1, 4, 8}
BY DEF DataTypes, GetValueSize

LEMMA ParquetTypes == \A t \in DataTypes : ToParquetType(t) \in {"INT32", "INT64", "FLOAT", "DOUBLE"}
BY DEF DataTypes, ToParquetType

LEMMA Widths ==
  ASSUME NEW x \in Nat
  PROVE  ToUint32(x) \in Nat /\ ToInt32(x) \in Int
<1>1. 2 * TwoTo31 \in Nat \ {0} /\ TwoTo31 \in Nat
  BY WidthAssumption
<1>2. x % (2 * TwoTo31) \in 0..2 * TwoTo31 - 1
  BY <1>1, Modulo
<1> QED
  BY <1>1, <1>2 DEF ToUint32, ToInt32

LEMMA Quotients ==
  ASSUME NEW x \in Int, NEW d \in {1, 4, 8}
  PROVE  Quotient(x, d) \in Int
BY DEF Quotient

\* What appending an element keeps and adds.
LEMMA Appended ==
  ASSUME NEW S, NEW s \in Seq(S), NEW x \in S
  PROVE  /\ Append(s, x) \in Seq(S)
         /\ Len(s) \in Nat
         /\ Len(Append(s, x)) = Len(s) + 1
         /\ Append(s, x)[Len(s) + 1] = x
         /\ \A k \in 1..Len(s) : Append(s, x)[k] = s[k] /\ s[k] \in S
OBVIOUS

-----------------------------------------------------------------------------
(* Lemmas about MapBuilder. *)

LEMMA BuilderFields ==
  ASSUME NEW b, BuilderOK(b)
  PROVE  /\ b.offsets \in Seq(Nat) /\ b.bytes_written \in Nat
         /\ b.underlying_offsets \in Seq(Int) /\ b.direct_buf \in Seq(Byte)
         /\ b.pending_base64_decoding \in BOOLEAN /\ b.data_start \in Nat
         /\ Len(b.offsets) \in Nat /\ Len(b.direct_buf) \in Nat
         /\ Len(b.underlying_offsets) = Len(b.offsets)
         /\ Marks(b) \in Seq(Nat) /\ Len(Marks(b)) = Len(b.offsets) + 1
BY DEF BuilderOK, BuilderType, Marks

\* The map made of a builder in order is well formed.
LEMMA FinishWellFormed ==
  ASSUME NEW b, BuilderOK(b)
  PROVE  WellFormed(Finish(b))
<1> DEFINE m == Finish(b)
           n == Len(b.offsets)
<1>1. /\ b.pending_base64_decoding \in BOOLEAN /\ b.data_start \in Nat
      /\ b.underlying_offsets \in Seq(Int) /\ b.direct_buf \in Seq(Byte)
      /\ n \in Nat /\ n = Len(b.underlying_offsets)
      /\ Marks(b) \in Seq(Nat) /\ Len(Marks(b)) = n + 1
  BY BuilderFields
<1>2. /\ m.pending_base64_decoding = b.pending_base64_decoding
      /\ m.data_start = b.data_start
      /\ m.offsets = Marks(b)
      /\ m.underlying_offsets = b.underlying_offsets
      /\ m.direct_buf = b.direct_buf
  BY DEF Finish, Marks
<1> HIDE DEF m, n
<1>3. NRegions(m) = n
  BY <1>1, <1>2 DEF NRegions
<1>4. ASSUME NEW k \in 1..NRegions(m), ~IsMapped(m, k)
      PROVE  RegionLen(m, k) - m.underlying_offsets[k] <= Len(m.direct_buf)
  <2>1. k \in 1..n /\ b.underlying_offsets[k] \in Int
    BY <1>1, <1>3
  <2>2. b.underlying_offsets[k] <= 0
    BY <2>1, <1>2, <1>4 DEF IsMapped
  <2>3. Marks(b)[k + 1] - Marks(b)[k] - b.underlying_offsets[k] <= Len(b.direct_buf)
    BY <2>1, <2>2 DEF BuilderOK, n
  <2> QED
    BY <2>3, <1>2 DEF RegionLen
<1>5. m.offsets[1] = 0 /\ Ordered(m.offsets)
  BY <1>2 DEF BuilderOK
<1> QED
  BY <1>1, <1>2, <1>4, <1>5 DEF WellFormed, m

\* One more region of size bytes whose underlying offset is u, and maybe more
\* in the direct buffer: what AddDirect and AddMappedRegion have in common.
LEMMA OneMoreRegion ==
  ASSUME NEW b, BuilderOK(b), NEW c \in BuilderType, NEW u \in Int, NEW size \in Nat,
         c.offsets = Append(b.offsets, b.bytes_written),
         c.underlying_offsets = Append(b.underlying_offsets, u),
         c.bytes_written = b.bytes_written + size,
         Len(c.direct_buf) >= Len(b.direct_buf),
         u <= 0 => size - u <= Len(c.direct_buf)
  PROVE  BuilderOK(c)
<1> DEFINE n == Len(b.offsets)
           bm == Marks(b)
           cm == Marks(c)
           end == b.bytes_written
           bu == b.underlying_offsets
           cu == c.underlying_offsets
           blen == Len(b.direct_buf)
           clen == Len(c.direct_buf)
<1>1. /\ b.offsets \in Seq(Nat) /\ end \in Nat
      /\ bu \in Seq(Int) /\ b.direct_buf \in Seq(Byte)
      /\ n \in Nat /\ blen \in Nat /\ clen \in Nat
      /\ Len(bu) = n
      /\ bm \in Seq(Nat) /\ Len(bm) = n + 1
  BY BuilderFields DEF BuilderType
<1>2. c.offsets = bm /\ cm = Append(bm, end + size)
  BY DEF Marks
<1>3. Len(c.offsets) = n + 1
  BY <1>1, <1>2
<1>4. bm[n + 1] = end
  BY <1>1 DEF Marks
<1>end. end + size \in Nat
  BY <1>1
<1> HIDE DEF n, bm, cm, end, bu, cu, blen, clen
<1>und. /\ Len(cu) = n + 1 /\ cu[n + 1] = u
        /\ \A k \in 1..n : cu[k] = bu[k] /\ bu[k] \in Int
  <2>1. cu = Append(bu, u)
    BY DEF cu, bu
  <2> QED
    BY <2>1, <1>1, Appended
<1>5. /\ cm \in Seq(Nat) /\ Len(cm) = n + 2 /\ cm[n + 2] = end + size
      /\ \A k \in 1..n + 1 : cm[k] = bm[k] /\ bm[k] \in Nat
  <2>1. /\ cm \in Seq(Nat) /\ Len(cm) = Len(bm) + 1 /\ cm[Len(bm) + 1] = end + size
        /\ \A k \in 1..Len(bm) : cm[k] = bm[k] /\ bm[k] \in Nat
    BY <1>1, <1>2, <1>end, Appended
  <2> QED
    BY <1>1, <2>1
<1>6. \A j, k \in 1..n + 1 : j <= k => bm[j] <= bm[k]
  BY <1>1 DEF BuilderOK, Ordered, bm
<1>7. cm[1] = 0
  BY <1>1, <1>5 DEF BuilderOK, bm
<1>8. Ordered(cm)
  <2> SUFFICES ASSUME NEW j \in 1..n + 2, NEW k \in 1..n + 2, j <= k PROVE cm[j] <= cm[k]
    BY <1>5 DEF Ordered
  <2>1. CASE k <= n + 1
    <3>1. j \in 1..n + 1 /\ k \in 1..n + 1
      BY <2>1, <1>1
    <3> QED
      BY <3>1, <1>5, <1>6
  <2>2. CASE j <= n + 1 /\ k = n + 2
    <3>1. j \in 1..n + 1 /\ n + 1 \in 1..n + 1
      BY <2>2, <1>1
    <3>2. cm[j] = bm[j] /\ bm[j] <= bm[n + 1] /\ bm[j] \in Nat
      BY <3>1, <1>1, <1>5, <1>6
    <3> QED
      BY <2>2, <3>2, <1>1, <1>4, <1>5
  <2>3. CASE j = n + 2 /\ k = n + 2
    BY <2>3, <1>1, <1>5
  <2> QED
    BY <2>1, <2>2, <2>3, <1>1
<1>9. ASSUME NEW k \in 1..n + 1, cu[k] <= 0
      PROVE  cm[k + 1] - cm[k] - cu[k] <= clen
  <2>1. CASE k <= n
    <3>1. k \in 1..n /\ k \in 1..n + 1 /\ k + 1 \in 1..n + 1
      BY <2>1, <1>1
    <3>2. cu[k] = bu[k] /\ bu[k] \in Int
      BY <3>1, <1>und
    <3>3. bm[k + 1] - bm[k] - bu[k] <= blen
      BY <3>1, <3>2, <1>9 DEF BuilderOK, bm, bu, blen, n
    <3>4. cm[k + 1] = bm[k + 1] /\ cm[k] = bm[k] /\ bm[k] \in Nat /\ bm[k + 1] \in Nat
      BY <3>1, <1>5
    <3>5. blen <= clen
      BY DEF blen, clen
    <3>6. /\ bm[k + 1] - bm[k] - bu[k] \in Int /\ blen \in Int /\ clen \in Int
      BY ONLY <3>2, <3>4, <1>1
    <3> QED
      BY ONLY <3>2, <3>3, <3>4, <3>5, <3>6
  <2>2. CASE k = n + 1
    <3>1. cu[k] = u
      BY <2>2, <1>und
    <3>2. cm[k + 1] = end + size /\ cm[k] = end
      <4>1. n + 1 \in 1..n + 1 /\ k + 1 = n + 2
        BY <2>2, <1>1
      <4> QED
        BY <2>2, <4>1, <1>4, <1>5
    <3>3. cm[k + 1] - cm[k] = size
      BY <3>2, <1>1
    <3>4. u <= 0 => size - u <= clen
      BY DEF clen
    <3> QED
      BY <3>1, <3>3, <3>4, <1>9
  <2>3. k <= n \/ k = n + 1
    BY <1>1
  <2> QED
    BY <2>1, <2>2, <2>3
<1>10. \A k \in 1..Len(c.offsets) :
         c.underlying_offsets[k] <= 0 =>
           Marks(c)[k + 1] - Marks(c)[k] - c.underlying_offsets[k] <= Len(c.direct_buf)
  BY <1>3, <1>9 DEF cm, cu, clen
<1>11. Len(c.underlying_offsets) = n + 1
  BY <1>und DEF cu
<1> QED
  BY <1>3, <1>7, <1>8, <1>10, <1>11 DEF BuilderOK, cm

LEMMA AddDirectOK ==
  ASSUME NEW b, BuilderOK(b), NEW buf \in Seq(Byte)
  PROVE  BuilderOK(AddDirect(b, buf))
<1> DEFINE c == AddDirect(b, buf)
<1>1. b \in BuilderType
  BY DEF BuilderOK
<1>2. /\ Append(b.offsets, b.bytes_written) \in Seq(Nat)
      /\ Append(b.underlying_offsets, -Len(b.direct_buf)) \in Seq(Int)
      /\ b.direct_buf \o buf \in Seq(Byte)
      /\ b.bytes_written + Len(buf) \in Nat
  BY BuilderFields
<1>3. c \in BuilderType
  BY <1>1, <1>2 DEF AddDirect, BuilderType
<1>4. /\ c.offsets = Append(b.offsets, b.bytes_written)
      /\ c.underlying_offsets = Append(b.underlying_offsets, -Len(b.direct_buf))
      /\ c.direct_buf = b.direct_buf \o buf
      /\ c.bytes_written = b.bytes_written + Len(buf)
  BY <1>1 DEF AddDirect, BuilderType
<1> HIDE DEF c
<1>5. /\ Len(c.direct_buf) = Len(b.direct_buf) + Len(buf)
      /\ Len(b.direct_buf) \in Nat /\ Len(buf) \in Nat
  BY <1>4, BuilderFields
<1>6. /\ -Len(b.direct_buf) \in Int
      /\ Len(buf) - (-Len(b.direct_buf)) <= Len(c.direct_buf)
      /\ Len(c.direct_buf) >= Len(b.direct_buf)
  BY <1>5
<1>7. BuilderOK(c)
  BY <1>3, <1>4, <1>5, <1>6, OneMoreRegion
<1> QED
  BY <1>7 DEF c

LEMMA AddMappedRegionOK ==
  ASSUME NEW b, BuilderOK(b), NEW from \in Nat, NEW size \in Nat
  PROVE  BuilderOK(AddMappedRegion(b, from, size))
<1> DEFINE c == AddMappedRegion(b, from, size)
<1>1. b \in BuilderType
  BY DEF BuilderOK
<1>2. /\ Append(b.offsets, b.bytes_written) \in Seq(Nat)
      /\ Append(b.underlying_offsets, 1 + from) \in Seq(Int)
      /\ b.bytes_written + size \in Nat
  BY BuilderFields
<1>3. c \in BuilderType
  BY <1>1, <1>2 DEF AddMappedRegion, BuilderType
<1>4. /\ c.offsets = Append(b.offsets, b.bytes_written)
      /\ c.underlying_offsets = Append(b.underlying_offsets, 1 + from)
      /\ c.direct_buf = b.direct_buf
      /\ c.bytes_written = b.bytes_written + size
  BY <1>1 DEF AddMappedRegion, BuilderType
<1> HIDE DEF c
<1>5. Len(c.direct_buf) = Len(b.direct_buf) /\ Len(b.direct_buf) \in Nat
  BY <1>4, BuilderFields
<1>6. /\ 1 + from \in Int /\ ~(1 + from <= 0)
      /\ Len(c.direct_buf) >= Len(b.direct_buf)
  BY <1>5
<1>7. BuilderOK(c)
  BY <1>3, <1>4, <1>6, OneMoreRegion
<1> QED
  BY <1>7 DEF c

-----------------------------------------------------------------------------
(* The state and the steps. *)

\* The metadata are sequences of bytes.
LEMMA Metadata ==
  ASSUME NEW p \in Nat, NEW n \in Nat
  PROVE  /\ Par1 \in Seq(Byte) /\ HeaderOf(p, n) \in Seq(Byte)
         /\ FooterBytes(n) \in Seq(Byte) /\ FootSize(n) \in Seq(Byte)
BY DEF Par1, HeaderOf, FooterBytes, FootSize, Byte

\* The fields of an array that a step looks at.
LEMMA ArrayFields ==
  ASSUME NEW a \in Arrays
  PROVE  /\ a.type \in DataTypes /\ a.b64 \in BOOLEAN /\ a.data_start \in Nat
         /\ a.total_bytes \in Nat /\ a.num_blks \in Nat
         /\ a.blk_sz \in Nat /\ a.last_blk_sz \in Nat
         /\ a.compressed_blk_sz \in Seq(Nat)
BY ArraysAssumption DEF ArrayType

\* Sizes of blocks are natural numbers before they are cut to their widths.
LEMMA BlockSizes ==
  ASSUME NEW a \in Arrays, NEW b \in Nat \ {0}, NEW size \in CompressedSizes(a, b)
  PROVE  size \in Nat /\ UncompressedSize(a, b, size) \in Nat
<1>1. size \in Nat
  <2>1. CASE a.codec = "NONE"
    <3> DEFINE y == a.total_bytes - 1
               x == y % TwoTo64
    <3>1. BlockSize \in Nat \ {0} /\ TwoTo64 \in Nat \ {0}
      BY WidthAssumption
    <3>2. y \in Int
      BY ArrayFields
    <3> HIDE DEF y
    <3>3. x \in 0..TwoTo64 - 1
      BY <3>1, <3>2, Modulo
    <3> HIDE DEF x
    <3>4. x % BlockSize \in 0..BlockSize - 1
      BY <3>1, <3>3, Modulo
    <3>5. size = BlockSize \/ size = (x % BlockSize) + 1
      BY <2>1 DEF CompressedSizes, x, y
    <3> QED
      BY <3>1, <3>4, <3>5
  <2>2. CASE a.codec # "NONE" /\ b <= Len(a.compressed_blk_sz)
    <3>1. size = a.compressed_blk_sz[b]
      BY <2>2 DEF CompressedSizes
    <3> QED
      BY <2>2, <3>1, ArrayFields
  <2>3. CASE a.codec # "NONE" /\ ~(b <= Len(a.compressed_blk_sz))
    <3>1. size \in StraySizes
      BY <2>3 DEF CompressedSizes
    <3> QED
      BY <3>1, WidthAssumption
  <2> QED
    BY <2>1, <2>2, <2>3
<1> QED
  BY <1>1, ArrayFields DEF UncompressedSize

\* Init establishes the inductive invariant.
LEMMA InitIInv == Init => IInv
<1> SUFFICES ASSUME Init PROVE IInv
  OBVIOUS
<1>1. arr \in Arrays /\ arr.b64 \in BOOLEAN /\ arr.data_start \in Nat
  BY ArrayFields DEF Init
<1>2. builder = [pending_base64_decoding |-> arr.b64, data_start |-> arr.data_start,
                 bytes_written |-> 0, offsets |-> <<>>, underlying_offsets |-> <<>>,
                 direct_buf |-> <<>>]
  BY DEF Init, NewBuilder
<1>3. builder \in BuilderType
  BY <1>1, <1>2 DEF BuilderType
<1>4. Marks(builder) = <<0>>
  BY <1>2 DEF Marks
<1>5. Len(builder.offsets) = 0 /\ Len(builder.underlying_offsets) = 0
  BY <1>2
<1>6. BuilderOK(builder)
  BY <1>3, <1>4, <1>5 DEF BuilderOK, Ordered
<1>7. TypeOK
  BY <1>1, <1>3 DEF Init, TypeOK
<1> QED
  BY <1>6, <1>7 DEF IInv

LEMMA BeginStep == IInv /\ Begin => IInv'
<1> SUFFICES ASSUME IInv, Begin PROVE IInv'
  OBVIOUS
<1>1. BuilderOK(builder')
  BY Metadata, AddDirectOK DEF IInv, Begin
<1>2. TypeOK'
  BY <1>1 DEF IInv, TypeOK, Begin, BuilderOK
<1> QED
  BY <1>1, <1>2 DEF IInv

\* What AppendPage leaves behind is well typed.
LEMMA AppendPageTypes ==
  ASSUME IInv, NEW n \in HeaderLens, NEW size \in CompressedSizes(arr, i + 1),
         AppendPage(n, size, UncompressedSize(arr, i + 1, size))
  PROVE  /\ BuilderOK(builder')
         /\ pages' \in Seq(PageType)
         /\ total' \in [compressed : Nat, uncompressed : Nat, count : Nat]
         /\ ToUint32(size) \in Nat
         /\ UNCHANGED <<arr, footer, map>>
<1> DEFINE un == UncompressedSize(arr, i + 1, size)
           csize == ToUint32(size)
           usize == ToUint32(un)
           vsize == GetValueSize(arr.type)
<1>1. /\ arr \in Arrays /\ i \in Nat /\ offset \in Nat /\ BuilderOK(builder)
      /\ pages \in Seq(PageType) /\ builder.bytes_written \in Nat
      /\ total \in [compressed : Nat, uncompressed : Nat, count : Nat]
  BY BuilderFields DEF IInv, TypeOK
<1>2. n \in Nat /\ i + 1 \in Nat \ {0}
  BY <1>1, WidthAssumption
<1>3. size \in Nat /\ un \in Nat
  BY <1>1, <1>2, BlockSizes
<1>4. /\ csize \in Nat /\ usize \in Nat
      /\ ToInt32(csize) \in Int /\ ToInt32(usize) \in Int
      /\ ToUint32(n + csize) \in Nat /\ ToUint32(n + usize) \in Nat
  <2>1. csize \in Nat /\ usize \in Nat
    BY <1>3, Widths
  <2> HIDE DEF csize, usize
  <2> QED
    BY <2>1, <1>2, Widths
<1>5. vsize \in {1, 4, 8}
  BY <1>1, ArrayFields, ValueSizes
<1>6. Quotient(ToInt32(usize), vsize) \in Int /\ usize \div vsize \in Nat
  <2> HIDE DEF usize, vsize
  <2>1. vsize \in Nat \ {0}
    BY <1>5
  <2> QED
    BY <2>1, <1>4, <1>5, Quotients, Division
<1>7. BuilderOK(builder')
  <2> HIDE DEF csize
  <2>1. HeaderOf(i + 1, n) \in Seq(Byte)
    BY <1>2, Metadata
  <2>2. BuilderOK(AddDirect(builder, HeaderOf(i + 1, n)))
    BY <2>1, <1>1, AddDirectOK
  <2>3. builder' = AddMappedRegion(AddDirect(builder, HeaderOf(i + 1, n)), offset, csize)
    BY DEF AppendPage, csize
  <2> QED
    BY <2>2, <2>3, <1>1, <1>4, AddMappedRegionOK
<1>8. pages' \in Seq(PageType)
  <2> DEFINE page == [start |-> builder.bytes_written, len |-> n,
                      compressed_page_size |-> ToInt32(csize),
                      uncompressed_page_size |-> ToInt32(usize),
                      num_values |-> Quotient(ToInt32(usize), vsize)]
  <2>1. pages' = Append(pages, page)
    BY DEF AppendPage
  <2> HIDE DEF csize, usize, vsize
  <2>2. page \in PageType
    BY <1>1, <1>2, <1>4, <1>6 DEF PageType
  <2> HIDE DEF page
  <2> QED
    BY <2>1, <2>2, <1>1
<1>9. total' \in [compressed : Nat, uncompressed : Nat, count : Nat]
  <2>1. total' = [compressed |-> total.compressed + ToUint32(n + csize),
                  uncompressed |-> total.uncompressed + ToUint32(n + usize),
                  count |-> total.count + usize \div vsize]
    BY DEF AppendPage, AddPage
  <2> HIDE DEF csize, usize, vsize
  <2>2. total.compressed \in Nat /\ total.uncompressed \in Nat /\ total.count \in Nat
    <3>1. total \in [compressed : Nat, uncompressed : Nat, count : Nat]
      BY <1>1
    <3> QED
      BY ONLY <3>1
  <2> DEFINE comp == total.compressed + ToUint32(n + csize)
             uncomp == total.uncompressed + ToUint32(n + usize)
             cnt == total.count + usize \div vsize
  <2>3. comp \in Nat
    BY ONLY <2>2, <1>4
  <2>4. uncomp \in Nat
    BY ONLY <2>2, <1>4
  <2>5. cnt \in Nat
    BY ONLY <2>2, <1>6
  <2>6. total' = [compressed |-> comp, uncompressed |-> uncomp, count |-> cnt]
    BY ONLY <2>1
  <2> HIDE DEF comp, uncomp, cnt
  <2> QED
    BY ONLY <2>3, <2>4, <2>5, <2>6
<1> QED
  BY <1>4, <1>7, <1>8, <1>9 DEF AppendPage

LEMMA FullBlockStep == IInv /\ FullBlock => IInv'
<1> SUFFICES ASSUME IInv, FullBlock PROVE IInv'
  OBVIOUS
<1>1. PICK n \in HeaderLens : \E size \in CompressedSizes(arr, i + 1) :
        /\ AppendPage(n, size, UncompressedSize(arr, i + 1, size))
        /\ offset' = offset + ToUint32(size)
  BY DEF FullBlock
<1>2. PICK size \in CompressedSizes(arr, i + 1) :
        /\ AppendPage(n, size, UncompressedSize(arr, i + 1, size))
        /\ offset' = offset + ToUint32(size)
  BY <1>1
<1>3. /\ BuilderOK(builder') /\ pages' \in Seq(PageType)
      /\ total' \in [compressed : Nat, uncompressed : Nat, count : Nat]
      /\ ToUint32(size) \in Nat /\ UNCHANGED <<arr, footer, map>>
  BY <1>2, AppendPageTypes
<1>4. pc = "blocks" /\ pc' = pc /\ i' = i + 1
  BY DEF FullBlock
<1>5. TypeOK'
  <2>1. offset \in Nat /\ i \in Nat /\ arr \in Arrays
    BY DEF IInv, TypeOK
  <2>2. offset' \in Nat /\ i' \in Nat /\ arr' \in Arrays
    BY <2>1, <1>2, <1>3, <1>4
  <2>3. builder' \in BuilderType
    BY <1>3 DEF BuilderOK
  <2> QED
    BY <2>2, <2>3, <1>3, <1>4 DEF TypeOK
<1> QED
  BY <1>3, <1>5 DEF IInv

LEMMA LastBlockStep == IInv /\ LastBlock => IInv'
<1> SUFFICES ASSUME IInv, LastBlock PROVE IInv'
  OBVIOUS
<1>1. PICK n \in HeaderLens : \E size \in CompressedSizes(arr, i + 1) :
        AppendPage(n, size, UncompressedSize(arr, i + 1, size))
  BY DEF LastBlock
<1>2. PICK size \in CompressedSizes(arr, i + 1) :
        AppendPage(n, size, UncompressedSize(arr, i + 1, size))
  BY <1>1
<1>3. /\ BuilderOK(builder') /\ pages' \in Seq(PageType)
      /\ total' \in [compressed : Nat, uncompressed : Nat, count : Nat]
      /\ UNCHANGED <<arr, footer, map>>
  BY <1>2, AppendPageTypes
<1>4. pc' = "footer" /\ i' = i /\ offset' = offset
  BY DEF LastBlock
<1>5. TypeOK'
  BY <1>3, <1>4 DEF IInv, TypeOK, BuilderOK
<1> QED
  BY <1>3, <1>5 DEF IInv

LEMMA EndStep == IInv /\ End => IInv'
<1> SUFFICES ASSUME IInv, End PROVE IInv'
  OBVIOUS
<1>1. PICK n \in FooterLens :
        /\ footer' = [len |-> n, data_page_offset |-> 4, type |-> ToParquetType(arr.type),
                      num_values |-> total.count,
                      total_compressed_size |-> total.compressed,
                      total_uncompressed_size |-> total.uncompressed]
        /\ builder' = AddDirect(AddDirect(AddDirect(builder, FooterBytes(n)), FootSize(n)), Par1)
  BY DEF End
<1>2. /\ n \in Nat /\ arr \in Arrays /\ BuilderOK(builder)
      /\ total \in [compressed : Nat, uncompressed : Nat, count : Nat]
  BY WidthAssumption DEF IInv, TypeOK
<1>3. footer' \in FooterType
  <2>1. ToParquetType(arr.type) \in {"INT32", "INT64", "FLOAT", "DOUBLE"}
    BY <1>2, ArrayFields, ParquetTypes
  <2> QED
    BY <1>1, <1>2, <2>1 DEF FooterType
<1>4. BuilderOK(builder')
  <2> DEFINE b1 == AddDirect(builder, FooterBytes(n))
             b2 == AddDirect(b1, FootSize(n))
  <2>1. BuilderOK(b1)
    BY <1>2, Metadata, AddDirectOK
  <2> HIDE DEF b1
  <2>2. BuilderOK(b2)
    BY <2>1, <1>2, Metadata, AddDirectOK
  <2> HIDE DEF b2
  <2>3. BuilderOK(AddDirect(b2, Par1))
    BY <2>2, <1>2, Metadata, AddDirectOK
  <2> QED
    BY <2>3, <1>1 DEF b1, b2
<1>5. /\ pc' = "done" /\ map' = Finish(builder')
      /\ UNCHANGED <<arr, i, offset, total, pages>>
  BY DEF End
<1>6. TypeOK'
  BY <1>3, <1>4, <1>5 DEF IInv, TypeOK, BuilderOK
<1> QED
  BY <1>4, <1>6 DEF IInv

\* Every step keeps the inductive invariant.
LEMMA NextIInv == IInv /\ [Next]_vars => IInv'
<1> SUFFICES ASSUME IInv, [Next]_vars PROVE IInv'
  OBVIOUS
<1>1. CASE Begin     BY <1>1, BeginStep
<1>2. CASE FullBlock BY <1>2, FullBlockStep
<1>3. CASE LastBlock BY <1>3, LastBlockStep
<1>4. CASE End       BY <1>4, EndStep
<1>5. CASE UNCHANGED vars
  BY <1>5 DEF IInv, TypeOK, vars
<1> QED
  BY <1>1, <1>2, <1>3, <1>4, <1>5 DEF Next

LEMMA Invariance == Spec => []IInv
BY InitIInv, NextIInv, PTL DEF Spec

-----------------------------------------------------------------------------
(* Theorems. *)

\* The state of BuildMap (fmap.cc) is well typed, for every array: no size or
\* count goes negative where the code keeps it unsigned.
THEOREM TypeCorrect == Spec => []TypeOK
<1>1. IInv => TypeOK
  BY DEF IInv
<1> QED
  BY <1>1, Invariance, PTL

\* For every array, even an empty one, and every length of the serialized
\* metadata, the map MapBuilder::Finish returns (fmap.cc) is one whose regions
\* FileMap::Read finds in bounds of the map's vectors and direct buffer.
THEOREM Servable == Spec => []MapServable
<1>1. IInv => MapServable
  BY FinishWellFormed DEF IInv, TypeOK, MapServable
<1> QED
  BY <1>1, Invariance, PTL

-----------------------------------------------------------------------------
(* Pages stay in the array. *)

\* Where block b ends in the payload.
EndOf(a, b) ==
  IF a.codec = "NONE" THEN IF b < NumBlks(a) THEN b * BlockSize ELSE a.total_bytes
  ELSE BlockEnd(a, b)

\* The mapped regions of a builder end in the first len bytes of the payload.
MappedIn(b, len) ==
  \A k \in 1..Len(b.offsets) :
    b.underlying_offsets[k] > 0 =>
      b.underlying_offsets[k] - 1 + Marks(b)[k + 1] - Marks(b)[k] <= len

\* The pages end where the blocks that were appended end.
Within ==
  /\ i <= FullBlks(arr)
  /\ pc \in {"begin", "blocks"} =>
       offset <= EndOf(arr, i) /\ MappedIn(builder, EndOf(arr, i))
  /\ pc \in {"footer", "done"} => MappedIn(builder, PayloadLen(arr))

-----------------------------------------------------------------------------
(* Arithmetic of blocks. *)

LEMMA SmallModulo == \A x, m \in Nat : x < m => x % m = x
BY Z3

\* A quotient and its remainder make up the dividend.
LEMMA DivMod ==
  ASSUME NEW x \in Nat, NEW m \in Nat \ {0}
  PROVE  x = m * (x \div m) + (x % m) /\ x % m \in 0..m - 1 /\ x \div m \in Nat
<1>1. x % m \in 0..m - 1
  BY Modulo
<1>2. x \div m \in Nat
  BY Division
<1>3. x % m = x - m * (x \div m)
  <2>1. \A y, d \in Int : d > 0 => y % d = y - d * (y \div d)
    BY Z3
  <2> QED
    BY <2>1
<1>4. m * (x \div m) \in Nat
  BY <1>2
<1> QED
  BY <1>1, <1>2, <1>3, <1>4

\* One block less, one quotient less.
LEMMA OneBlockLess ==
  ASSUME NEW x \in Nat \ {0}, NEW m \in Nat \ {0}
  PROVE  (x + m - 1) \div m = (x - 1) \div m + 1
BY Z3

LEMMA BlockCount ==
  ASSUME NEW a \in Arrays, Filled(a)
  PROVE  /\ NumBlks(a) \in Nat \ {0}
         /\ FullBlks(a) = NumBlks(a) - 1
         /\ a.codec = "NONE" =>
              (NumBlks(a) - 1) * BlockSize + (((a.total_bytes - 1) % TwoTo64) % BlockSize) + 1
                = a.total_bytes
<1> DEFINE tb == a.total_bytes
           bs == BlockSize
           n  == NumBlks(a)
<1>1. /\ bs \in Nat \ {0} /\ TwoTo64 \in Nat \ {0}
      /\ tb \in Nat /\ tb + bs < TwoTo64
      /\ a.num_blks \in Nat /\ a.num_blks < TwoTo64
  BY WidthAssumption, ArraysAssumption, ArrayFields
<1>2. CASE a.codec = "NONE"
  <2>1. tb \in Nat \ {0}
    BY <1>1, <1>2 DEF Filled
  <2>2. n = ((tb + bs - 1) % TwoTo64) \div bs
    BY <1>2 DEF NumBlks
  <2> HIDE DEF tb, bs, n
  <2>3. (tb + bs - 1) % TwoTo64 = tb + bs - 1 /\ (tb - 1) % TwoTo64 = tb - 1
    <3>1. tb + bs - 1 \in Nat /\ tb - 1 \in Nat /\ tb + bs - 1 < TwoTo64 /\ tb - 1 < TwoTo64
      BY <1>1, <2>1
    <3> QED
      BY <3>1, <1>1, SmallModulo
  <2> DEFINE q == (tb - 1) \div bs
             r == (tb - 1) % bs
  <2>4. tb - 1 = bs * q + r /\ r \in 0..bs - 1 /\ q \in Nat
    <3>1. tb - 1 \in Nat
      BY <2>1
    <3> QED
      BY <3>1, <1>1, DivMod
  <2>5. n = q + 1
    BY <2>1, <2>2, <2>3, <1>1, OneBlockLess
  <2> HIDE DEF q, r
  <2>6. q <= bs * q
    BY <1>1, <2>4
  <2>7. n \in Nat \ {0} /\ n - 1 = q /\ n - 1 < TwoTo64
    BY <2>1, <2>4, <2>5, <2>6, <1>1
  <2>8. FullBlks(a) = n - 1
    <3>1. FullBlks(a) = (n - 1) % TwoTo64
      BY DEF FullBlks, n
    <3> QED
      BY <3>1, <2>7, <2>4, <1>1, SmallModulo
  <2>9. (n - 1) * bs + r + 1 = tb
    BY <2>7, <2>4, <1>1, <2>1
  <2> QED
    BY <1>2, <2>3, <2>7, <2>8, <2>9 DEF n, r, tb, bs
<1>3. CASE a.codec # "NONE"
  <2>1. n = a.num_blks /\ n > 0
    BY <1>3 DEF Filled, NumBlks
  <2> HIDE DEF n
  <2>2. FullBlks(a) = (n - 1) % TwoTo64
    BY DEF FullBlks, n
  <2>3. n - 1 \in Nat /\ n - 1 < TwoTo64
    BY <2>1, <1>1
  <2>4. FullBlks(a) = n - 1
    BY <2>2, <2>3, <1>1, SmallModulo
  <2> QED
    BY <1>3, <2>1, <2>4, <1>1 DEF n
<1> QED
  BY <1>2, <1>3

\* A block starts where the one before ends.
LEMMA BlockFollows ==
  ASSUME NEW a \in Arrays, Filled(a), NEW b \in 1..NumBlks(a),
         NEW size \in CompressedSizes(a, b)
  PROVE  /\ EndOf(a, b - 1) \in Nat /\ size \in Nat
         /\ EndOf(a, b) = EndOf(a, b - 1) + size
         /\ EndOf(a, NumBlks(a)) = PayloadLen(a)
<1> DEFINE n == NumBlks(a)
<1>1. n \in Nat \ {0} /\ FullBlks(a) = n - 1 /\ b \in 1..n /\ b \in Nat \ {0}
  BY BlockCount
<1>2. size \in Nat
  BY <1>1, BlockSizes
<1>3. CASE a.codec = "NONE"
  <2>1. BlockSize \in Nat \ {0}
    BY WidthAssumption
  <2>2. EndOf(a, b - 1) = (b - 1) * BlockSize
    BY <1>1, <1>3 DEF EndOf
  <2>3. EndOf(a, n) = a.total_bytes
    BY <1>1, <1>3 DEF EndOf
  <2>4. CASE b < n
    <3>1. size = BlockSize /\ EndOf(a, b) = b * BlockSize
      BY <1>1, <1>3, <2>4 DEF CompressedSizes, EndOf
    <3>2. (b - 1) * BlockSize + BlockSize = b * BlockSize
      BY <1>1, <2>1
    <3> QED
      BY <1>1, <1>2, <1>3, <2>1, <2>2, <2>3, <3>1, <3>2 DEF PayloadLen
  <2>5. CASE b = n
    <3>1. size = (((a.total_bytes - 1) % TwoTo64) % BlockSize) + 1
      <4>1. ~(b <= FullBlks(a))
        BY <1>1, <2>5
      <4> QED
        BY <4>1, <1>3 DEF CompressedSizes
    <3>2. (n - 1) * BlockSize + (((a.total_bytes - 1) % TwoTo64) % BlockSize) + 1 = a.total_bytes
      BY <1>3, BlockCount
    <3> DEFINE r == ((a.total_bytes - 1) % TwoTo64) % BlockSize
    <3>3. size = r + 1 /\ (n - 1) * BlockSize + r + 1 = a.total_bytes
      BY <3>1, <3>2
    <3>4. r = size - 1
      <4> HIDE DEF r
      <4>1. r \in 0..BlockSize - 1
        <5> DEFINE y == a.total_bytes - 1
                   x == y % TwoTo64
        <5>1. y \in Int /\ TwoTo64 \in Nat \ {0}
          BY ArrayFields, WidthAssumption
        <5> HIDE DEF y
        <5>2. x \in 0..TwoTo64 - 1
          BY <5>1, Modulo
        <5> HIDE DEF x
        <5>3. x % BlockSize \in 0..BlockSize - 1
          BY <5>1, <5>2, <2>1, Modulo
        <5> QED
          BY <5>3 DEF r, x, y
      <4> QED
        BY <3>3, <4>1, <2>1
    <3> HIDE DEF r
    <3>5. (n - 1) * BlockSize \in Nat
      BY <1>1, <2>1
    <3>6. EndOf(a, b) = (n - 1) * BlockSize + size
      BY <2>3, <2>5, <3>3, <3>4, <3>5, <1>2
    <3> QED
      BY <1>2, <1>3, <2>2, <2>3, <2>5, <3>5, <3>6 DEF PayloadLen
  <2> QED
    BY <1>1, <2>4, <2>5
<1>4. CASE a.codec # "NONE"
  <2>1. /\ n = a.num_blks /\ Len(a.compressed_blk_sz) = n
        /\ BlockEnds[a] \in Seq(Nat) /\ Len(BlockEnds[a]) = n
        /\ BlockEnds[a][b] = a.compressed_blk_sz[b]
                             + (IF b = 1 THEN 0 ELSE BlockEnds[a][b - 1])
    BY <1>1, <1>4, ArraysAssumption DEF NumBlks
  <2>2. size = a.compressed_blk_sz[b]
    BY <1>1, <1>4, <2>1 DEF CompressedSizes
  <2>3. EndOf(a, b - 1) = (IF b = 1 THEN 0 ELSE BlockEnds[a][b - 1])
    BY <1>1, <1>4 DEF EndOf, BlockEnd
  <2>4. EndOf(a, b - 1) \in Nat
    BY <1>1, <2>1, <2>3
  <2>5. EndOf(a, b) = BlockEnds[a][b]
    BY <1>1, <1>4 DEF EndOf, BlockEnd
  <2>6. EndOf(a, n) = PayloadLen(a)
    BY <1>4, <2>1 DEF EndOf, PayloadLen
  <2>7. EndOf(a, b) = EndOf(a, b - 1) + size
    BY <2>1, <2>2, <2>3, <2>4, <2>5, <1>2
  <2> QED
    BY <1>2, <2>4, <2>6, <2>7
<1> QED
  BY <1>3, <1>4

\* Blocks and payload end somewhere.
LEMMA EndIsInt ==
  ASSUME NEW a \in Arrays
  PROVE  /\ PayloadLen(a) \in Int
         /\ \A b \in Nat : Filled(a) /\ b <= FullBlks(a) => EndOf(a, b) \in Int
<1>1. /\ a.total_bytes \in Nat /\ BlockSize \in Nat /\ a.num_blks \in Nat
      /\ BlockEnds[a] \in Seq(Nat) /\ Len(BlockEnds[a]) = a.num_blks
  BY ArrayFields, ArraysAssumption, WidthAssumption
<1>2. ASSUME NEW b \in Nat, b <= a.num_blks
      PROVE  BlockEnd(a, b) \in Int
  <2>1. b = 0 \/ b \in 1..Len(BlockEnds[a])
    BY <1>1, <1>2
  <2> QED
    BY <1>1, <2>1 DEF BlockEnd
<1>3. PayloadLen(a) \in Int
  BY <1>1, <1>2 DEF PayloadLen
<1>4. ASSUME NEW b \in Nat, Filled(a), b <= FullBlks(a)
      PROVE  EndOf(a, b) \in Int
  <2>1. NumBlks(a) \in Nat \ {0} /\ FullBlks(a) = NumBlks(a) - 1
    BY <1>4, BlockCount
  <2>2. CASE a.codec = "NONE"
    <3>1. b * BlockSize \in Int
      BY <1>1
    <3> QED
      BY <1>1, <2>2, <3>1 DEF EndOf
  <2>3. CASE a.codec # "NONE"
    <3>1. NumBlks(a) = a.num_blks
      BY <2>3 DEF NumBlks
    <3>2. BlockEnd(a, b) \in Int
      BY <1>1, <1>2, <1>4, <2>1, <3>1
    <3> QED
      BY <2>3, <3>2 DEF EndOf
  <2> QED
    BY <2>2, <2>3
<1> QED
  BY <1>3, <1>4

\* No block ends after the payload.
\* No block ends after the last one, by induction on the blocks between.
LEMMA BlocksInOrder ==
  ASSUME NEW a \in Arrays
  PROVE  \A b \in 1..a.num_blks : BlockEnds[a][b] <= BlockEnds[a][a.num_blks]
<1> DEFINE E == BlockEnds[a]
           n == a.num_blks
           T == {k \in Nat : \A b \in 1..n : b + k \in 1..n => E[b] <= E[b + k]}
<1>1. E \in Seq(Nat) /\ Len(E) = n /\ n \in Nat
  BY ArraysAssumption, ArrayFields
<1>2. \A b \in 1..n : E[b] \in Nat
  BY ONLY <1>1
<1>3. \A b \in 1..n : b # 1 => E[b - 1] <= E[b]
  <2> SUFFICES ASSUME NEW b \in 1..n, b # 1 PROVE E[b - 1] <= E[b]
    OBVIOUS
  <2>1. E[b] = a.compressed_blk_sz[b] + E[b - 1]
    BY ArraysAssumption
  <2>2. a.compressed_blk_sz[b] \in Nat
    BY ArraysAssumption, ArrayFields
  <2>3. b - 1 \in 1..n
    BY <1>1
  <2>4. E[b - 1] \in Nat
    BY <1>2, <2>3
  <2> HIDE DEF E
  <2> QED
    BY ONLY <2>1, <2>2, <2>4
<1> HIDE DEF E, n
<1>4. 0 \in T
  BY <1>1, <1>2
<1>5. ASSUME NEW k \in Nat, k \in T PROVE k + 1 \in T
  <2> SUFFICES ASSUME NEW b \in 1..n, b + (k + 1) \in 1..n PROVE E[b] <= E[b + (k + 1)]
    OBVIOUS
  <2>1. b + k \in 1..n /\ b + (k + 1) # 1 /\ (b + (k + 1)) - 1 = b + k
    BY <1>1
  <2>2. E[b] <= E[b + k]
    BY <1>5, <2>1
  <2>3. E[b + k] <= E[b + (k + 1)]
    BY <1>3, <2>1
  <2>4. E[b] \in Nat /\ E[b + k] \in Nat /\ E[b + (k + 1)] \in Nat
    BY <1>2, <2>1
  <2> QED
    BY ONLY <2>2, <2>3, <2>4
<1>6. Nat \subseteq T
  <2> HIDE DEF T
  <2> QED
    BY <1>4, <1>5, SetInduction
<1>7. ASSUME NEW b \in 1..n PROVE E[b] <= E[n]
  <2>1. n - b \in Nat /\ b + (n - b) = n /\ n \in 1..n
    BY <1>1
  <2>2. n - b \in T
    BY ONLY <1>6, <2>1
  <2>3. E[b] <= E[b + (n - b)]
    BY <2>1, <2>2
  <2> QED
    BY ONLY <2>1, <2>3
<1> QED
  BY <1>7 DEF E, n

LEMMA EndInPayload ==
  ASSUME NEW a \in Arrays, Filled(a), NEW b \in Nat, b <= FullBlks(a)
  PROVE  EndOf(a, b) <= PayloadLen(a)
<1>1. NumBlks(a) \in Nat \ {0} /\ FullBlks(a) = NumBlks(a) - 1 /\ b < NumBlks(a)
  BY BlockCount
<1>2. CASE a.codec = "NONE"
  <2> DEFINE n == NumBlks(a)
             r == ((a.total_bytes - 1) % TwoTo64) % BlockSize
  <2>1. EndOf(a, b) = b * BlockSize /\ PayloadLen(a) = a.total_bytes
    BY <1>1, <1>2 DEF EndOf, PayloadLen
  <2>2. (n - 1) * BlockSize + r + 1 = a.total_bytes
    BY <1>2, BlockCount
  <2>3. r \in Nat /\ BlockSize \in Nat /\ a.total_bytes \in Nat
    <3> DEFINE y == a.total_bytes - 1
               x == y % TwoTo64
    <3>1. /\ y \in Int /\ TwoTo64 \in Nat \ {0} /\ BlockSize \in Nat \ {0}
          /\ a.total_bytes \in Nat
      BY ArrayFields, WidthAssumption
    <3> HIDE DEF y
    <3>2. x \in 0..TwoTo64 - 1
      BY <3>1, Modulo
    <3> HIDE DEF x
    <3>3. x % BlockSize \in 0..BlockSize - 1
      BY <3>1, <3>2, Modulo
    <3> QED
      BY <3>1, <3>3 DEF x, y
  <2>4. b \in Nat /\ n \in Nat /\ b <= n - 1
    BY <1>1
  <2> HIDE DEF n, r
  <2>5. b * BlockSize <= (n - 1) * BlockSize
    <3>1. (n - 1 - b) * BlockSize >= 0
      BY <2>3, <2>4
    <3>2. (n - 1 - b) * BlockSize = (n - 1) * BlockSize - b * BlockSize
      BY <2>3, <2>4
    <3>3. b * BlockSize \in Int /\ (n - 1) * BlockSize \in Int
      BY <2>3, <2>4
    <3> QED
      BY <3>1, <3>2, <3>3
  <2>6. b * BlockSize \in Int /\ (n - 1) * BlockSize \in Int
    BY <2>3, <2>4
  <2> QED
    BY <2>1, <2>2, <2>3, <2>5, <2>6
<1>3. CASE a.codec # "NONE"
  <2>1. NumBlks(a) = a.num_blks /\ a.num_blks \in Nat \ {0}
    BY <1>1, <1>3 DEF NumBlks
  <2>2. EndOf(a, b) = BlockEnd(a, b) /\ PayloadLen(a) = BlockEnds[a][a.num_blks]
    BY <1>3, <2>1 DEF EndOf, PayloadLen, BlockEnd
  <2>3. /\ BlockEnds[a] \in Seq(Nat) /\ Len(BlockEnds[a]) = a.num_blks
        /\ \A k \in 1..a.num_blks : BlockEnds[a][k] <= BlockEnds[a][a.num_blks]
    BY ArraysAssumption, BlocksInOrder
  <2>4. CASE b = 0
    <3>1. BlockEnds[a][a.num_blks] \in Nat
      BY <2>1, <2>3
    <3> QED
      BY <2>2, <2>4, <3>1 DEF BlockEnd
  <2>5. CASE b # 0
    <3>1. b \in 1..a.num_blks
      BY <1>1, <2>1, <2>5
    <3> QED
      BY <2>2, <2>3, <2>5, <3>1 DEF BlockEnd
  <2> QED
    BY <2>4, <2>5
<1> QED
  BY <1>2, <1>3

-----------------------------------------------------------------------------
(* Regions of the builder. *)

\* The marks around a region are numbers.
LEMMA RegionMarks ==
  ASSUME NEW b, BuilderOK(b), NEW k \in 1..Len(b.offsets)
  PROVE  Marks(b)[k] \in Nat /\ Marks(b)[k + 1] \in Nat /\ b.underlying_offsets[k] \in Int
<1> DEFINE n  == Len(b.offsets)
           bm == Marks(b)
           bu == b.underlying_offsets
<1>1. /\ n \in Nat /\ bm \in Seq(Nat) /\ Len(bm) = n + 1
      /\ bu \in Seq(Int) /\ Len(bu) = n
  BY BuilderFields
<1>2. k \in 1..n
  OBVIOUS
<1> HIDE DEF n, bm, bu
<1>3. k \in 1..Len(bm) /\ k + 1 \in 1..Len(bm) /\ k \in 1..Len(bu)
  BY <1>1, <1>2
<1>4. bm[k] \in Nat /\ bm[k + 1] \in Nat /\ bu[k] \in Int
  BY <1>1, <1>3
<1> QED
  BY <1>4 DEF bm, bu

LEMMA MappedInMore ==
  ASSUME NEW b, BuilderOK(b), NEW len \in Int, NEW more \in Int, len <= more,
         MappedIn(b, len)
  PROVE  MappedIn(b, more)
<1> SUFFICES ASSUME NEW k \in 1..Len(b.offsets), b.underlying_offsets[k] > 0
             PROVE  b.underlying_offsets[k] - 1 + Marks(b)[k + 1] - Marks(b)[k] <= more
  BY DEF MappedIn
<1>1. /\ Marks(b) \in Seq(Nat) /\ Len(Marks(b)) = Len(b.offsets) + 1
      /\ b.underlying_offsets \in Seq(Int) /\ Len(b.underlying_offsets) = Len(b.offsets)
      /\ Len(b.offsets) \in Nat
  BY BuilderFields
<1>2. Marks(b)[k] \in Nat /\ Marks(b)[k + 1] \in Nat /\ b.underlying_offsets[k] \in Int
  BY <1>1, RegionMarks
<1>3. b.underlying_offsets[k] - 1 + Marks(b)[k + 1] - Marks(b)[k] <= len
  BY DEF MappedIn
<1> QED
  BY <1>2, <1>3

\* One more region, mapped in the first len bytes if it is mapped.
LEMMA OneMoreMapped ==
  ASSUME NEW b, BuilderOK(b), NEW c, NEW u \in Int, NEW size \in Nat, NEW len \in Int,
         MappedIn(b, len),
         c.offsets = Append(b.offsets, b.bytes_written),
         c.underlying_offsets = Append(b.underlying_offsets, u),
         c.bytes_written = b.bytes_written + size,
         u > 0 => u - 1 + size <= len
  PROVE  MappedIn(c, len)
<1> DEFINE n == Len(b.offsets)
           bm == Marks(b)
           cm == Marks(c)
           bu == b.underlying_offsets
           cu == c.underlying_offsets
           end == b.bytes_written
<1>1. /\ n \in Nat /\ end \in Nat /\ end + size \in Nat
      /\ bu \in Seq(Int) /\ Len(bu) = n
      /\ bm \in Seq(Nat) /\ Len(bm) = n + 1
      /\ b.offsets \in Seq(Nat)
  <2>1. end \in Nat /\ n \in Nat /\ bu \in Seq(Int) /\ b.offsets \in Seq(Nat)
    BY BuilderFields
  <2>2. Len(bu) = n /\ bm \in Seq(Nat) /\ Len(bm) = n + 1
    BY BuilderFields
  <2> HIDE DEF n, bm, bu, end
  <2> QED
    BY <2>1, <2>2
<1>2. c.offsets = bm /\ cm = Append(bm, end + size) /\ cu = Append(bu, u)
  BY DEF Marks
<1>3. Len(c.offsets) = n + 1 /\ bm[n + 1] = end
  BY <1>1, <1>2 DEF Marks
<1> HIDE DEF n, bm, cm, bu, cu, end
<1>4. /\ cm[n + 2] = end + size
      /\ \A k \in 1..n + 1 : cm[k] = bm[k] /\ bm[k] \in Nat
  <2>1. /\ cm[Len(bm) + 1] = end + size
        /\ \A k \in 1..Len(bm) : cm[k] = bm[k] /\ bm[k] \in Nat
    BY <1>1, <1>2, Appended
  <2> QED
    BY <1>1, <2>1
<1>5. cu[n + 1] = u /\ \A k \in 1..n : cu[k] = bu[k] /\ bu[k] \in Int
  BY <1>1, <1>2, Appended
<1>6. ASSUME NEW k \in 1..n + 1, cu[k] > 0
      PROVE  cu[k] - 1 + cm[k + 1] - cm[k] <= len
  <2>1. CASE k <= n
    <3>1. k \in 1..n /\ k \in 1..n + 1 /\ k + 1 \in 1..n + 1
      BY <1>1, <2>1
    <3>2. cu[k] = bu[k] /\ cm[k] = bm[k] /\ cm[k + 1] = bm[k + 1]
      BY <3>1, <1>4, <1>5
    <3>3. bu[k] - 1 + bm[k + 1] - bm[k] <= len
      BY <3>1, <3>2, <1>6 DEF MappedIn, bm, bu, n
    <3> QED
      BY <3>2, <3>3
  <2>2. CASE k = n + 1
    <3>1. n + 1 \in 1..n + 1 /\ k + 1 = n + 2
      BY <1>1, <2>2
    <3>2. cu[k] = u /\ cm[k] = end /\ cm[k + 1] = end + size
      BY <3>1, <2>2, <1>3, <1>4, <1>5
    <3>3. u > 0
      BY <3>2, <1>6
    <3> QED
      BY <3>2, <3>3, <1>1
  <2> QED
    BY <2>1, <2>2, <1>1
<1> QED
  BY <1>3, <1>6 DEF MappedIn, cm, cu

LEMMA AddDirectMapped ==
  ASSUME NEW b, BuilderOK(b), NEW buf \in Seq(Byte), NEW len \in Int, MappedIn(b, len)
  PROVE  MappedIn(AddDirect(b, buf), len)
<1> DEFINE c == AddDirect(b, buf)
<1>1. /\ c.offsets = Append(b.offsets, b.bytes_written)
      /\ c.underlying_offsets = Append(b.underlying_offsets, -Len(b.direct_buf))
      /\ c.bytes_written = b.bytes_written + Len(buf)
  BY DEF AddDirect, BuilderOK, BuilderType
<1>2. Len(buf) \in Nat /\ -Len(b.direct_buf) \in Int /\ ~(-Len(b.direct_buf) > 0)
  BY BuilderFields
<1> HIDE DEF c
<1>3. MappedIn(c, len)
  BY <1>1, <1>2, OneMoreMapped
<1> QED
  BY <1>3 DEF c

LEMMA AddMappedRegionMapped ==
  ASSUME NEW b, BuilderOK(b), NEW from \in Nat, NEW size \in Nat, NEW len \in Int,
         MappedIn(b, len), from + size <= len
  PROVE  MappedIn(AddMappedRegion(b, from, size), len)
<1> DEFINE c == AddMappedRegion(b, from, size)
           u == 1 + from
<1>1. /\ c.offsets = Append(b.offsets, b.bytes_written)
      /\ c.underlying_offsets = Append(b.underlying_offsets, u)
      /\ c.bytes_written = b.bytes_written + size
  BY DEF AddMappedRegion, BuilderOK, BuilderType
<1>2. u \in Int /\ u - 1 + size <= len
  OBVIOUS
<1> HIDE DEF c, u
<1>3. MappedIn(c, len)
  BY <1>1, <1>2, OneMoreMapped
<1> QED
  BY <1>3 DEF c

\* A finished builder has the regions of the builder.
LEMMA FinishMapped ==
  ASSUME NEW b, BuilderOK(b), NEW len \in Int, MappedIn(b, len)
  PROVE  MappedWithin(Finish(b), len)
<1> DEFINE m == Finish(b)
<1>1. /\ m.offsets = Marks(b) /\ m.underlying_offsets = b.underlying_offsets
      /\ Len(Marks(b)) = Len(b.offsets) + 1 /\ Len(b.offsets) \in Nat
      /\ Marks(b) \in Seq(Nat) /\ b.underlying_offsets \in Seq(Int)
      /\ Len(b.underlying_offsets) = Len(b.offsets)
  BY BuilderFields DEF Finish, Marks
<1> HIDE DEF m
<1>2. NRegions(m) = Len(b.offsets)
  BY <1>1 DEF NRegions
<1> SUFFICES ASSUME NEW k \in 1..NRegions(m), IsMapped(m, k)
             PROVE  m.underlying_offsets[k] - 1 + RegionLen(m, k) <= len
  BY DEF MappedWithin, m
<1>3. k \in 1..Len(b.offsets) /\ b.underlying_offsets[k] > 0
  BY <1>1, <1>2 DEF IsMapped
<1>4. b.underlying_offsets[k] - 1 + Marks(b)[k + 1] - Marks(b)[k] <= len
  BY <1>3 DEF MappedIn
<1>5. /\ Marks(b)[k] \in Nat /\ Marks(b)[k + 1] \in Nat
      /\ b.underlying_offsets[k] \in Int
  BY <1>3, RegionMarks
<1> QED
  BY <1>1, <1>4, <1>5 DEF RegionLen

-----------------------------------------------------------------------------
(* Steps. *)

\* Cutting a size to 32 bits never makes it larger.
LEMMA CutIsSmaller == \A x \in Nat : ToUint32(x) \in Nat /\ ToUint32(x) <= x
<1> SUFFICES ASSUME NEW x \in Nat PROVE ToUint32(x) \in Nat /\ ToUint32(x) <= x
  OBVIOUS
<1> DEFINE m == 2 * TwoTo31
<1>1. m \in Nat \ {0}
  BY WidthAssumption
<1>2. ToUint32(x) = x % m
  BY DEF ToUint32
<1> HIDE DEF m
<1>3. x = m * (x \div m) + (x % m) /\ x % m \in 0..m - 1 /\ x \div m \in Nat
  BY <1>1, DivMod
<1>4. m * (x \div m) \in Nat
  BY <1>1, <1>3
<1> QED
  BY <1>2, <1>3, <1>4, <1>1

\* A page stays in its block.
LEMMA AppendPageWithin ==
  ASSUME IInv, Within, Filled(arr), pc = "blocks",
         NEW n \in HeaderLens, NEW size \in CompressedSizes(arr, i + 1),
         AppendPage(n, size, UncompressedSize(arr, i + 1, size))
  PROVE  /\ offset + ToUint32(size) <= EndOf(arr, i + 1)
         /\ MappedIn(builder', EndOf(arr, i + 1))
         /\ EndOf(arr, NumBlks(arr)) = PayloadLen(arr)
         /\ FullBlks(arr) = NumBlks(arr) - 1 /\ NumBlks(arr) \in Nat
<1> DEFINE csize == ToUint32(size)
           end == EndOf(arr, i + 1)
           h == HeaderOf(i + 1, n)
<1>1. /\ arr \in Arrays /\ i \in Nat /\ offset \in Nat /\ n \in Nat
      /\ BuilderOK(builder)
  BY WidthAssumption DEF IInv, TypeOK
<1>2. /\ NumBlks(arr) \in Nat /\ FullBlks(arr) = NumBlks(arr) - 1
      /\ i + 1 \in 1..NumBlks(arr)
  BY <1>1, BlockCount DEF Within
<1>3. /\ EndOf(arr, i) \in Nat /\ size \in Nat
      /\ end = EndOf(arr, i) + size
      /\ EndOf(arr, NumBlks(arr)) = PayloadLen(arr)
  <2>1. (i + 1) - 1 = i
    BY <1>1
  <2>2. /\ EndOf(arr, (i + 1) - 1) \in Nat /\ size \in Nat
        /\ end = EndOf(arr, (i + 1) - 1) + size
        /\ EndOf(arr, NumBlks(arr)) = PayloadLen(arr)
    BY <1>1, <1>2, BlockFollows
  <2> QED
    BY <2>1, <2>2
<1>4. csize \in Nat /\ csize <= size
  BY <1>3, CutIsSmaller
<1>5. offset <= EndOf(arr, i) /\ MappedIn(builder, EndOf(arr, i))
  BY DEF Within
<1>6. h \in Seq(Byte)
  BY <1>1, Metadata
<1>7. builder' = AddMappedRegion(AddDirect(builder, h), offset, csize)
  BY DEF AppendPage
<1> HIDE DEF csize, end, h
<1>8. offset + csize <= end /\ EndOf(arr, i) <= end /\ end \in Int /\ EndOf(arr, i) \in Int
  BY <1>1, <1>3, <1>4, <1>5
<1>9. MappedIn(builder', end)
  <2> DEFINE b == AddDirect(builder, h)
  <2>1. MappedIn(builder, end)
    BY <1>1, <1>5, <1>8, MappedInMore
  <2>2. BuilderOK(b) /\ MappedIn(b, end)
    BY <1>1, <1>6, <1>8, <2>1, AddDirectOK, AddDirectMapped
  <2> HIDE DEF b
  <2>3. MappedIn(AddMappedRegion(b, offset, csize), end)
    BY <1>1, <1>4, <1>8, <2>2, AddMappedRegionMapped
  <2> QED
    BY <1>7, <2>3 DEF b
<1> QED
  BY <1>2, <1>3, <1>8, <1>9 DEF csize, end

LEMMA WithinInit ==
  ASSUME Init, Filled(arr)
  PROVE  Within
<1>1. arr \in Arrays /\ pc = "begin" /\ i = 0 /\ offset = 0 /\ builder = NewBuilder(arr)
  BY DEF Init
<1>2. NumBlks(arr) \in Nat \ {0} /\ FullBlks(arr) = NumBlks(arr) - 1
  BY <1>1, BlockCount
<1>3. EndOf(arr, 0) = 0
  BY <1>2, WidthAssumption DEF EndOf, BlockEnd
<1>4. MappedIn(builder, EndOf(arr, i))
  BY <1>1 DEF NewBuilder, MappedIn
<1> QED
  BY <1>1, <1>2, <1>3, <1>4 DEF Within

LEMMA BeginWithin ==
  ASSUME IInv, Within, Filled(arr), Begin
  PROVE  Within'
<1>1. /\ pc = "begin" /\ pc' = "blocks" /\ UNCHANGED <<arr, i, offset>>
      /\ builder' = AddDirect(builder, Par1)
  BY DEF Begin
<1>2. BuilderOK(builder) /\ Par1 \in Seq(Byte)
  BY Metadata DEF IInv
<1>3. offset <= EndOf(arr, i) /\ MappedIn(builder, EndOf(arr, i)) /\ i <= FullBlks(arr)
  BY <1>1 DEF Within
<1>4. EndOf(arr, i) \in Int
  BY EndIsInt DEF IInv, TypeOK, Within
<1>5. MappedIn(builder', EndOf(arr, i))
  BY <1>1, <1>2, <1>3, <1>4, AddDirectMapped
<1>6. FullBlks(arr)' = FullBlks(arr) /\ EndOf(arr, i)' = EndOf(arr, i)
  BY <1>1 DEF FullBlks, NumBlks, EndOf, BlockEnd
<1> QED
  BY <1>1, <1>3, <1>5, <1>6 DEF Within, MappedIn, Marks

LEMMA FullBlockWithin ==
  ASSUME IInv, Within, Filled(arr), FullBlock
  PROVE  Within'
<1>1. PICK n \in HeaderLens, size \in CompressedSizes(arr, i + 1) :
        /\ AppendPage(n, size, UncompressedSize(arr, i + 1, size))
        /\ offset' = offset + ToUint32(size)
  BY DEF FullBlock
<1>2. pc = "blocks" /\ pc' = pc /\ i' = i + 1 /\ i < FullBlks(arr) /\ arr' = arr
  BY <1>1 DEF FullBlock, AppendPage
<1>3. /\ offset' <= EndOf(arr, i + 1) /\ MappedIn(builder', EndOf(arr, i + 1))
      /\ FullBlks(arr) \in Int /\ i \in Nat
  BY <1>1, <1>2, AppendPageWithin DEF IInv, TypeOK
<1> QED
  BY <1>2, <1>3 DEF Within

LEMMA LastBlockWithin ==
  ASSUME IInv, Within, Filled(arr), LastBlock
  PROVE  Within'
<1>1. PICK n \in HeaderLens, size \in CompressedSizes(arr, i + 1) :
        AppendPage(n, size, UncompressedSize(arr, i + 1, size))
  BY DEF LastBlock
<1>2. pc = "blocks" /\ pc' = "footer" /\ i' = i /\ i >= FullBlks(arr) /\ arr' = arr
  BY <1>1 DEF LastBlock, AppendPage
<1>3. /\ MappedIn(builder', EndOf(arr, i + 1))
      /\ EndOf(arr, NumBlks(arr)) = PayloadLen(arr)
      /\ FullBlks(arr) = NumBlks(arr) - 1 /\ NumBlks(arr) \in Nat /\ i \in Nat
  BY <1>1, <1>2, AppendPageWithin DEF IInv, TypeOK
<1>4. i <= FullBlks(arr)
  BY DEF Within
<1>5. i + 1 = NumBlks(arr)
  BY <1>2, <1>3, <1>4
<1> QED
  BY <1>2, <1>3, <1>4, <1>5 DEF Within

LEMMA EndWithin ==
  ASSUME IInv, Within, Filled(arr), End
  PROVE  Within'
<1>1. PICK n \in FooterLens :
        builder' = AddDirect(AddDirect(AddDirect(builder, FooterBytes(n)), FootSize(n)), Par1)
  BY DEF End
<1>2. pc = "footer" /\ pc' = "done" /\ UNCHANGED <<arr, i, offset>>
  BY DEF End
<1>3. n \in Nat /\ BuilderOK(builder)
  BY WidthAssumption DEF IInv
<1>4. MappedIn(builder, PayloadLen(arr)) /\ PayloadLen(arr) \in Int /\ i <= FullBlks(arr)
  BY <1>2, EndIsInt DEF Within, IInv, TypeOK
<1>5. MappedIn(builder', PayloadLen(arr))
  <2> DEFINE len == PayloadLen(arr)
             b1 == AddDirect(builder, FooterBytes(n))
             b2 == AddDirect(b1, FootSize(n))
  <2>1. BuilderOK(b1) /\ MappedIn(b1, len)
    BY <1>3, <1>4, Metadata, AddDirectOK, AddDirectMapped
  <2> HIDE DEF b1
  <2>2. BuilderOK(b2) /\ MappedIn(b2, len)
    BY <2>1, <1>3, <1>4, Metadata, AddDirectOK, AddDirectMapped
  <2> HIDE DEF b2
  <2>3. MappedIn(AddDirect(b2, Par1), len)
    BY <2>2, <1>3, <1>4, Metadata, AddDirectMapped
  <2> QED
    BY <2>3, <1>1 DEF b1, b2
<1> QED
  BY <1>2, <1>4, <1>5 DEF Within

\* Every step keeps the pages in the array.
LEMMA NextWithin ==
  ASSUME \A a \in Arrays : Filled(a)
  PROVE  IInv /\ Within /\ [Next]_vars => Within'
<1> SUFFICES ASSUME IInv, Within, [Next]_vars PROVE Within'
  OBVIOUS
<1>1. Filled(arr)
  BY DEF IInv, TypeOK
<1>2. CASE Begin     BY <1>1, <1>2, BeginWithin
<1>3. CASE FullBlock BY <1>1, <1>3, FullBlockWithin
<1>4. CASE LastBlock BY <1>1, <1>4, LastBlockWithin
<1>5. CASE End       BY <1>1, <1>5, EndWithin
<1>6. CASE UNCHANGED vars
  BY <1>6 DEF Within, MappedIn, Marks, vars
<1> QED
  BY <1>2, <1>3, <1>4, <1>5, <1>6 DEF Next

-----------------------------------------------------------------------------
(* Theorems. *)

\* When every array has a value, no page of the map that BuildMap returns
\* (fmap.cc) reaches past the payload of the array, for every array, even one
\* whose block sizes do not fit in the 32 bits AppendPage takes them in.
THEOREM PagesInArray ==
  ASSUME \A a \in Arrays : Filled(a)
  PROVE  Spec => []NoPagePastArray
<1>1. Init => Within
  BY WithinInit DEF Init
<1>2. IInv /\ Within /\ [Next]_vars => Within'
  BY NextWithin
<1>3. IInv /\ Within => NoPagePastArray
  <2> SUFFICES ASSUME IInv, Within PROVE MappedWithin(Finish(builder), PayloadLen(arr))
    BY DEF NoPagePastArray
  <2>1. BuilderOK(builder) /\ arr \in Arrays /\ Filled(arr) /\ i \in Nat
    BY DEF IInv, TypeOK
  <2>2. i <= FullBlks(arr)
    BY DEF Within
  <2>3. /\ PayloadLen(arr) \in Int /\ EndOf(arr, i) \in Int
        /\ EndOf(arr, i) <= PayloadLen(arr)
    BY <2>1, <2>2, EndIsInt, EndInPayload
  <2>4. MappedIn(builder, PayloadLen(arr))
    <3>1. CASE pc \in {"footer", "done"}
      BY <3>1 DEF Within
    <3>2. CASE pc \in {"begin", "blocks"}
      <4>1. MappedIn(builder, EndOf(arr, i))
        BY <3>2 DEF Within
      <4> QED
        BY <4>1, <2>1, <2>3, MappedInMore
    <3> QED
      BY <3>1, <3>2 DEF IInv, TypeOK
  <2> QED
    BY <2>1, <2>3, <2>4, FinishMapped
<1> QED
  BY <1>1, <1>2, <1>3, Invariance, PTL DEF Spec

\* The map that BuildMap returns for an array that has a value is all that
\* FileMap::Pread relies on: FilePread's MapsAssumption, in one piece.
THEOREM MapsForPread ==
  ASSUME \A a \in Arrays : Filled(a)
  PROVE  Spec => [](pc = "done" => WellFormed(map) /\ MappedWithin(map, PayloadLen(arr)))
<1>1. Spec => []MapServable /\ []NoPagePastArray /\ []TypeOK
  BY Servable, PagesInArray, TypeCorrect, PTL
<1>2. MapServable /\ NoPagePastArray /\ TypeOK
        => (pc = "done" => WellFormed(map) /\ MappedWithin(map, PayloadLen(arr)))
  BY DEF MapServable, NoPagePastArray, TypeOK
<1> QED
  BY <1>1, <1>2, PTL

-----------------------------------------------------------------------------
(* The bytes of the file. *)

\* The bytes of the file a builder describes; Content is Bytes(builder).
Bytes(b) == [k \in 1..b.bytes_written |-> ByteAt(Finish(b), k - 1)]

-----------------------------------------------------------------------------
(* Bytes of a map. *)

\* A position in the file is in some region.
LEMMA RegionHolds ==
  ASSUME NEW m, WellFormed(m), NEW pos \in Nat, pos < FileSize(m)
  PROVE  \E r \in 1..NRegions(m) : m.offsets[r] <= pos /\ pos < m.offsets[r + 1]
<1> DEFINE s == m.offsets
           T == {j \in 1..Len(s) : s[j] > pos}
<1>1. s \in Seq(Nat) /\ Len(s) \in Nat \ {0} /\ s[1] = 0
  BY DEF WellFormed
<1>2. Len(s) \in T
  BY <1>1 DEF FileSize
<1>3. T \subseteq Nat /\ T # {}
  BY <1>2
<1> HIDE DEF T
<1>4. PICK n \in T : \A j \in T : n <= j
  BY <1>3, SmallestNat
<1> USE DEF T
<1>5. n \in 1..Len(s) /\ s[n] > pos
  BY <1>4
<1>6. n # 1
  BY <1>1, <1>5
<1>7. n - 1 \in 1..Len(s) - 1 /\ n - 1 \notin T
  BY <1>1, <1>4, <1>5, <1>6
<1>8. s[n - 1] <= pos
  BY <1>1, <1>7
<1>9. n - 1 \in 1..NRegions(m) /\ m.offsets[n - 1 + 1] > pos
  BY <1>5, <1>7 DEF NRegions
<1> QED
  BY <1>8, <1>9

\* The marks around an element of a sequence of numbers.
LEMMA NumbersAround ==
  ASSUME NEW s \in Seq(Nat), NEW n \in Nat, Len(s) = n + 1, NEW r \in 1..n
  PROVE  s[r] \in Nat /\ s[r + 1] \in Nat
<1>1. r \in 1..n + 1 /\ r + 1 \in 1..n + 1
  OBVIOUS
<1> QED
  BY ONLY <1>1, s \in Seq(Nat), Len(s) = n + 1

\* Between two marks that follow each other, only once.
LEMMA OneBetween ==
  ASSUME NEW s \in Seq(Nat), NEW n \in Nat, Len(s) = n + 1, NEW pos \in Nat,
         \A j, k \in 1..n + 1 : j <= k => s[j] <= s[k],
         NEW j \in 1..n, s[j] <= pos, pos < s[j + 1],
         NEW k \in 1..n, s[k] <= pos, pos < s[k + 1]
  PROVE  j = k
<1>1. j \in 1..n + 1 /\ j + 1 \in 1..n + 1 /\ k \in 1..n + 1 /\ k + 1 \in 1..n + 1
  OBVIOUS
<1>2. s[j] \in Nat /\ s[j + 1] \in Nat /\ s[k] \in Nat /\ s[k + 1] \in Nat
  BY ONLY <1>1, s \in Seq(Nat), Len(s) = n + 1
<1>3. CASE j < k
  <2>1. s[j + 1] <= s[k]
    BY <1>1, <1>3
  <2> QED
    BY <1>2, <2>1
<1>4. CASE k < j
  <2>1. s[k + 1] <= s[j]
    BY <1>1, <1>4
  <2> QED
    BY <1>2, <2>1
<1> QED
  BY <1>3, <1>4

\* It is in one only, so that its byte is that region's.
LEMMA ByteOfRegion ==
  ASSUME NEW m, WellFormed(m), NEW r \in 1..NRegions(m), NEW pos \in Nat,
         m.offsets[r] <= pos, pos < m.offsets[r + 1]
  PROVE  ByteAt(m, pos) = RegionByte(m, r, pos - m.offsets[r])
<1> DEFINE s == m.offsets
           n == NRegions(m)
<1>s. s \in Seq(Nat) /\ Len(s) = Len(m.underlying_offsets) + 1 /\ Ordered(s)
  BY DEF WellFormed
<1>u. Len(m.underlying_offsets) \in Nat
  <2>1. m.underlying_offsets \in Seq(Int)
    BY DEF WellFormed
  <2> QED
    BY ONLY <2>1
<1>n. n = Len(s) - 1
  BY DEF NRegions
<1>r. r \in 1..n /\ s[r] <= pos /\ pos < s[r + 1]
  OBVIOUS
<1> HIDE DEF s, n
<1>1. n \in Nat /\ Len(s) = n + 1
  BY ONLY <1>s, <1>u, <1>n
<1>o. \A j, k \in 1..n + 1 : j <= k => s[j] <= s[k]
  BY ONLY <1>s, <1>1 DEF Ordered
<1>2. ASSUME NEW k \in 1..n, s[k] <= pos /\ pos < s[k + 1]
      PROVE  k = r
  BY <1>s, <1>1, <1>o, <1>r, <1>2, OneBetween
<1>3. RegionAt(m, pos) = r
  <2>1. RegionAt(m, pos) = CHOOSE k \in 1..n : s[k] <= pos /\ pos < s[k + 1]
    BY DEF RegionAt, s, n
  <2> QED
    BY ONLY <2>1, <1>2, <1>r
<1> QED
  BY <1>3 DEF ByteAt

\* The fields of the map a builder makes.
LEMMA Finished ==
  ASSUME NEW b, BuilderOK(b)
  PROVE  /\ WellFormed(Finish(b))
         /\ Finish(b).offsets = Marks(b)
         /\ Finish(b).underlying_offsets = b.underlying_offsets
         /\ Finish(b).direct_buf = b.direct_buf
         /\ Finish(b).data_start = b.data_start
         /\ Finish(b).pending_base64_decoding = b.pending_base64_decoding
         /\ NRegions(Finish(b)) = Len(b.offsets)
         /\ FileSize(Finish(b)) = b.bytes_written
<1>1. WellFormed(Finish(b))
  BY FinishWellFormed
<1>2. Len(Marks(b)) = Len(b.offsets) + 1 /\ Len(b.offsets) \in Nat /\ b.offsets \in Seq(Nat)
  BY BuilderFields
<1>3. Finish(b).offsets = Marks(b)
  BY DEF Finish, Marks
<1>4. NRegions(Finish(b)) = Len(b.offsets)
  BY <1>2, <1>3 DEF NRegions
<1>5. FileSize(Finish(b)) = b.bytes_written
  <2>1. Marks(b)[Len(b.offsets) + 1] = b.bytes_written
    BY <1>2 DEF Marks
  <2> QED
    BY <1>2, <1>3, <2>1 DEF FileSize
<1> QED
  BY <1>1, <1>3, <1>4, <1>5 DEF Finish

\* c is b with one more region, at u, of size bytes.
Extends(c, b, u, size) ==
  /\ BuilderOK(b) /\ BuilderOK(c)
  /\ c.offsets = Append(b.offsets, b.bytes_written)
  /\ c.underlying_offsets = Append(b.underlying_offsets, u)
  /\ c.bytes_written = b.bytes_written + size
  /\ \E more \in Seq(Byte) : c.direct_buf = b.direct_buf \o more
  /\ c.data_start = b.data_start
  /\ c.pending_base64_decoding = b.pending_base64_decoding

\* The regions of c are those of b and the new one.
LEMMA RegionsKept ==
  ASSUME NEW b, NEW c, NEW u \in Int, NEW size \in Nat, Extends(c, b, u, size)
  PROVE  LET n == Len(b.offsets) IN
         /\ n \in Nat /\ NRegions(Finish(b)) = n /\ NRegions(Finish(c)) = n + 1
         /\ \A k \in 1..n + 1 : Finish(c).offsets[k] = Finish(b).offsets[k]
         /\ Finish(c).offsets[n + 1] = b.bytes_written
         /\ Finish(c).offsets[n + 2] = b.bytes_written + size
         /\ \A k \in 1..n : /\ Finish(c).underlying_offsets[k] = Finish(b).underlying_offsets[k]
                             /\ Finish(b).underlying_offsets[k] \in Int
         /\ Finish(c).underlying_offsets[n + 1] = u
<1> DEFINE n == Len(b.offsets)
           bm == Marks(b)
           cm == Marks(c)
           bu == b.underlying_offsets
           cu == c.underlying_offsets
           end == b.bytes_written
<1>1. /\ n \in Nat /\ end \in Nat /\ end + size \in Nat /\ b.offsets \in Seq(Nat)
      /\ bm \in Seq(Nat) /\ Len(bm) = n + 1
      /\ bu \in Seq(Int) /\ Len(bu) = n
  <2>1. BuilderOK(b)
    BY DEF Extends
  <2>2. n \in Nat /\ end \in Nat /\ b.offsets \in Seq(Nat)
    BY <2>1, BuilderFields
  <2>3. bm \in Seq(Nat) /\ Len(bm) = n + 1 /\ bu \in Seq(Int) /\ Len(bu) = n
    BY <2>1, BuilderFields
  <2> HIDE DEF n, bm, bu, end
  <2> QED
    BY ONLY <2>2, <2>3, size \in Nat
<1>2. /\ bm = Append(b.offsets, end) /\ c.offsets = bm /\ cm = Append(bm, end + size)
      /\ cu = Append(bu, u)
  BY DEF Extends, Marks
<1>3. /\ Finish(b).offsets = bm /\ Finish(c).offsets = cm
      /\ Finish(b).underlying_offsets = bu /\ Finish(c).underlying_offsets = cu
      /\ NRegions(Finish(b)) = n /\ NRegions(Finish(c)) = Len(c.offsets)
  BY Finished DEF Extends
<1>n. n = Len(b.offsets)
  OBVIOUS
<1> HIDE DEF n, bm, cm, bu, cu, end
<1>4. bm[n + 1] = end
  BY ONLY <1>1, <1>2, <1>n
<1>5. cm[n + 2] = end + size /\ \A k \in 1..n + 1 : cm[k] = bm[k]
  <2>1. cm[Len(bm) + 1] = end + size /\ \A k \in 1..Len(bm) : cm[k] = bm[k]
    <3>1. bm \in Seq(Nat) /\ end + size \in Nat /\ cm = Append(bm, end + size)
      BY ONLY <1>1, <1>2
    <3> QED
      BY ONLY <3>1, Appended
  <2>2. n + 1 + 1 = n + 2
    BY ONLY <1>1
  <2> QED
    BY ONLY <1>1, <2>1, <2>2
<1>6. cu[n + 1] = u /\ \A k \in 1..n : cu[k] = bu[k] /\ bu[k] \in Int
  <2>1. n = Len(bu) /\ bu \in Seq(Int) /\ cu = Append(bu, u)
    BY ONLY <1>1, <1>2
  <2> QED
    BY ONLY <2>1, u \in Int, Appended
<1>7. n + 1 \in 1..n + 1 /\ cm[n + 1] = end
  BY ONLY <1>1, <1>4, <1>5
<1> QED
  BY <1>1, <1>2, <1>3, <1>5, <1>6, <1>7 DEF n, end

\* Bytes of the direct buffer do not move.
LEMMA RegionByteKept ==
  ASSUME NEW b, NEW c, NEW u \in Int, NEW size \in Nat, Extends(c, b, u, size),
         NEW r \in 1..Len(b.offsets), NEW k \in Nat, k < RegionLen(Finish(b), r)
  PROVE  RegionByte(Finish(c), r, k) = RegionByte(Finish(b), r, k)
<1> DEFINE mb == Finish(b)
           mc == Finish(c)
           ub == mb.underlying_offsets[r]
<1>1. /\ WellFormed(mb) /\ mb.direct_buf = b.direct_buf /\ mc.direct_buf = c.direct_buf
      /\ mb.data_start = mc.data_start
      /\ mb.pending_base64_decoding = mc.pending_base64_decoding
      /\ b.direct_buf \in Seq(Byte)
  BY Finished, BuilderFields DEF Extends
<1>2. mc.underlying_offsets[r] = ub /\ ub \in Int /\ r \in 1..NRegions(mb)
  <2> HIDE DEF Extends, mb, mc
  <2>1. r \in 1..Len(b.offsets)
    OBVIOUS
  <2>2. /\ NRegions(Finish(b)) = Len(b.offsets)
        /\ \A j \in 1..Len(b.offsets) :
             /\ Finish(c).underlying_offsets[j] = Finish(b).underlying_offsets[j]
             /\ Finish(b).underlying_offsets[j] \in Int
    BY RegionsKept
  <2> QED
    BY ONLY <2>1, <2>2 DEF mb, mc, ub
<1>3. /\ mb.offsets \in Seq(Nat) /\ Len(mb.offsets) = NRegions(mb) + 1
      /\ NRegions(mb) \in Nat
  <2>1. /\ mb.offsets = Marks(b) /\ NRegions(mb) = Len(b.offsets)
        /\ Len(Marks(b)) = Len(b.offsets) + 1 /\ Marks(b) \in Seq(Nat)
        /\ Len(b.offsets) \in Nat
    BY Finished, BuilderFields DEF Extends
  <2> QED
    BY ONLY <2>1
<1>k. k < RegionLen(mb, r) /\ k \in Nat
  OBVIOUS
<1> HIDE DEF mb, mc
<1>4. RegionLen(mb, r) \in Int
  <2>1. mb.offsets[r] \in Nat /\ mb.offsets[r + 1] \in Nat
    <3>1. r \in 1..NRegions(mb)
      BY ONLY <1>2
    <3> QED
      BY ONLY <3>1, <1>3, NumbersAround
  <2> QED
    BY ONLY <2>1 DEF RegionLen
<1>u. mb.underlying_offsets[r] = ub /\ mc.underlying_offsets[r] = ub
  BY <1>2
<1> HIDE DEF ub
<1>m. (IsMapped(mb, r) <=> ub > 0) /\ (IsMapped(mc, r) <=> ub > 0)
  BY ONLY <1>u DEF IsMapped
<1>5. CASE ub > 0
  <2> DEFINE P(m) == PayloadByte(m.pending_base64_decoding, m.data_start,
                                 m.underlying_offsets[r] - 1 + k)
  <2>1. RegionByte(mb, r, k) = P(mb) /\ RegionByte(mc, r, k) = P(mc)
    BY ONLY <1>m, <1>5 DEF RegionByte
  <2>2. P(mb) = P(mc)
    BY ONLY <1>u, <1>1
  <2> QED
    BY ONLY <2>1, <2>2 DEF mb, mc
<1>6. CASE ~(ub > 0)
  <2>1. RegionLen(mb, r) - ub <= Len(mb.direct_buf)
    <3>1. /\ r \in 1..NRegions(mb) /\ ~IsMapped(mb, r)
      BY ONLY <1>2, <1>m, <1>6
    <3>2. RegionLen(mb, r) - mb.underlying_offsets[r] <= Len(mb.direct_buf)
      BY <3>1, <1>1 DEF WellFormed
    <3> QED
      BY ONLY <3>2, <1>u
  <2>2. 1 - ub + k \in 1..Len(b.direct_buf)
    <3>1. Len(b.direct_buf) \in Nat
      BY ONLY <1>1
    <3>2. RegionLen(mb, r) - ub <= Len(b.direct_buf)
      BY ONLY <1>1, <2>1
    <3> QED
      BY ONLY <3>1, <3>2, <1>2, <1>4, <1>6, <1>k
  <2>3. PICK more \in Seq(Byte) : c.direct_buf = b.direct_buf \o more
    BY DEF Extends
  <2>4. mc.direct_buf[1 - ub + k] = mb.direct_buf[1 - ub + k]
    <3>1. b.direct_buf \in Seq(Byte)
      BY ONLY <1>1
    <3>2. c.direct_buf[1 - ub + k] = b.direct_buf[1 - ub + k]
      BY ONLY <3>1, <2>2, <2>3, more \in Seq(Byte)
    <3> QED
      BY ONLY <3>2, <1>1
  <2>5. /\ RegionByte(mb, r, k) = mb.direct_buf[1 - ub + k]
        /\ RegionByte(mc, r, k) = mc.direct_buf[1 - ub + k]
    BY ONLY <1>m, <1>6, <1>u DEF RegionByte
  <2> QED
    BY ONLY <2>4, <2>5 DEF mb, mc
<1> QED
  BY <1>5, <1>6

\* A function on 1..n is a sequence.
LEMMA SequenceOf ==
  ASSUME NEW n \in Nat, NEW S, NEW f \in [1..n -> S]
  PROVE  f \in Seq(S) /\ Len(f) = n
<1>1. f \in Seq(S)
  BY SeqDef
<1>2. DOMAIN f = 1..n
  OBVIOUS
<1>3. DOMAIN f = 1..Len(f) /\ Len(f) \in Nat
  BY ONLY <1>1, LenProperties
<1>4. Len(f) = n
  BY ONLY <1>2, <1>3, n \in Nat
<1> QED
  BY <1>1, <1>4

\* A sequence is the concatenation of two if it reads so.
LEMMA Joined ==
  ASSUME NEW S, NEW f \in Seq(S), NEW g \in Seq(S), NEW h \in Seq(S),
         Len(h) = Len(f) + Len(g),
         \A k \in 1..Len(f) : h[k] = f[k],
         \A k \in 1..Len(g) : h[Len(f) + k] = g[k]
  PROVE  h = f \o g
<1>1. Len(f) \in Nat /\ Len(g) \in Nat
  OBVIOUS
<1>2. /\ f \o g \in Seq(S) /\ Len(f \o g) = Len(f) + Len(g)
      /\ \A k \in 1..Len(f) + Len(g) :
           (f \o g)[k] = IF k <= Len(f) THEN f[k] ELSE g[k - Len(f)]
  BY ONLY f \in Seq(S), g \in Seq(S), ConcatProperties
<1>3. ASSUME NEW k \in 1..Len(h) PROVE h[k] = (f \o g)[k]
  <2>1. CASE k <= Len(f)
    BY <2>1, <1>1, <1>2
  <2>2. CASE ~(k <= Len(f))
    <3>1. k - Len(f) \in 1..Len(g) /\ Len(f) + (k - Len(f)) = k
      BY <2>2, <1>1
    <3>2. h[k] = g[k - Len(f)]
      BY <3>1
    <3> QED
      BY <3>2, <2>2, <1>1, <1>2
  <2> QED
    BY <2>1, <2>2
<1>4. Len(h) = Len(f \o g)
  BY <1>2
<1> QED
  BY ONLY <1>2, <1>3, <1>4, h \in Seq(S), SeqEqual

\* Bytes of payloads are bytes.
LEMMA PayloadBytes ==
  ASSUME NEW b64 \in BOOLEAN, NEW start \in Nat, NEW k \in Nat
  PROVE  PayloadByte(b64, start, k) \in Byte
<1>1. k \div 3 \in Nat /\ k % 3 \in Nat
  OBVIOUS
<1>2. start + 4 * (k \div 3) \in Nat /\ start + k \in Nat
  BY <1>1
<1> QED
  BY <1>1, <1>2 DEF PayloadByte, DecodedByte, FileByte, Byte

LEMMA BytesAreBytes ==
  ASSUME NEW b, BuilderOK(b)
  PROVE  Bytes(b) \in Seq(Byte) /\ Len(Bytes(b)) = b.bytes_written
<1> DEFINE m == Finish(b)
<1>1. /\ WellFormed(m) /\ FileSize(m) = b.bytes_written /\ b.bytes_written \in Nat
      /\ m.direct_buf \in Seq(Byte) /\ m.data_start \in Nat
      /\ m.pending_base64_decoding \in BOOLEAN
      /\ NRegions(m) \in Nat /\ Len(m.offsets) = NRegions(m) + 1 /\ m.offsets \in Seq(Nat)
      /\ Len(m.underlying_offsets) = NRegions(m) /\ m.underlying_offsets \in Seq(Int)
  BY Finished, BuilderFields
<1> HIDE DEF m
<1>2. ASSUME NEW k \in 1..b.bytes_written PROVE ByteAt(m, k - 1) \in Byte
  <2> DEFINE pos == k - 1
  <2>1. pos \in Nat /\ pos < FileSize(m)
    BY <1>1
  <2> HIDE DEF pos
  <2>2. PICK r \in 1..NRegions(m) : m.offsets[r] <= pos /\ pos < m.offsets[r + 1]
    BY <1>1, <2>1, RegionHolds
  <2>3. ByteAt(m, pos) = RegionByte(m, r, pos - m.offsets[r])
    BY <1>1, <2>1, <2>2, ByteOfRegion
  <2> DEFINE d == pos - m.offsets[r]
             u == m.underlying_offsets[r]
  <2>4. m.offsets[r] \in Nat /\ m.offsets[r + 1] \in Nat
    BY <1>1, NumbersAround
  <2>5. d \in Nat /\ d < RegionLen(m, r) /\ RegionLen(m, r) \in Int
    BY <2>1, <2>2, <2>4 DEF RegionLen
  <2>6. u \in Int
    BY <1>1
  <2> HIDE DEF d, u
  <2>7. CASE u > 0
    <3>1. u - 1 + d \in Nat
      BY <2>5, <2>6, <2>7
    <3>2. RegionByte(m, r, d)
            = PayloadByte(m.pending_base64_decoding, m.data_start, u - 1 + d)
      BY <2>7 DEF RegionByte, IsMapped, u
    <3> QED
      BY <1>1, <2>3, <3>1, <3>2, PayloadBytes DEF d, pos
  <2>8. CASE ~(u > 0)
    <3>1. RegionLen(m, r) - u <= Len(m.direct_buf)
      BY <1>1, <2>8 DEF WellFormed, IsMapped, u
    <3>2. 1 - u + d \in 1..Len(m.direct_buf)
      <4>1. Len(m.direct_buf) \in Nat
        BY <1>1
      <4> QED
        BY ONLY <4>1, <2>5, <2>6, <2>8, <3>1
    <3>3. RegionByte(m, r, d) = m.direct_buf[1 - u + d]
      BY <2>8 DEF RegionByte, IsMapped, u
    <3> QED
      BY <1>1, <2>3, <3>2, <3>3 DEF d, pos
  <2> QED
    BY <2>7, <2>8
<1>3. Bytes(b) \in [1..b.bytes_written -> Byte]
  BY <1>2 DEF Bytes, m
<1> QED
  BY ONLY <1>1, <1>3, SequenceOf

-----------------------------------------------------------------------------
(* What MapBuilder adds to the file. *)

\* The bytes written before stay what they were.
LEMMA BytesKept ==
  ASSUME NEW b, NEW c, NEW u \in Int, NEW size \in Nat, Extends(c, b, u, size),
         NEW pos \in Nat, pos < b.bytes_written
  PROVE  ByteAt(Finish(c), pos) = ByteAt(Finish(b), pos)
<1> DEFINE mb == Finish(b)
           mc == Finish(c)
           n == Len(b.offsets)
<1>1. WellFormed(mb) /\ WellFormed(mc) /\ pos < FileSize(mb)
  BY Finished DEF Extends
<1>2. /\ n \in Nat /\ NRegions(mb) = n /\ NRegions(mc) = n + 1
      /\ \A k \in 1..n + 1 : mc.offsets[k] = mb.offsets[k]
  BY RegionsKept
<1>3. mb.offsets \in Seq(Nat) /\ Len(mb.offsets) = n + 1
  BY Finished, BuilderFields DEF Extends
<1>n. n = Len(b.offsets)
  OBVIOUS
<1> HIDE DEF mb, mc, n
<1>4. PICK r \in 1..n : mb.offsets[r] <= pos /\ pos < mb.offsets[r + 1]
  BY ONLY <1>1, <1>2, pos \in Nat, RegionHolds
<1>5. r \in 1..n + 1 /\ r + 1 \in 1..n + 1
  BY ONLY <1>2, r \in 1..n
<1>6. mc.offsets[r] = mb.offsets[r] /\ mc.offsets[r + 1] = mb.offsets[r + 1]
  BY ONLY <1>2, <1>5
<1> DEFINE d == pos - mb.offsets[r]
<1>7. ByteAt(mb, pos) = RegionByte(mb, r, d)
  BY ONLY <1>1, <1>2, <1>4, r \in 1..n, pos \in Nat, ByteOfRegion DEF d
<1>8. ByteAt(mc, pos) = RegionByte(mc, r, d)
  <2>1. r \in 1..NRegions(mc)
    BY ONLY <1>2, <1>5
  <2>2. mc.offsets[r] <= pos /\ pos < mc.offsets[r + 1]
    BY ONLY <1>4, <1>6
  <2>3. ByteAt(mc, pos) = RegionByte(mc, r, pos - mc.offsets[r])
    BY ONLY <1>1, <2>1, <2>2, pos \in Nat, ByteOfRegion
  <2> QED
    BY ONLY <2>3, <1>6
<1>9. d \in Nat /\ d < RegionLen(mb, r)
  <2>1. mb.offsets[r] \in Nat /\ mb.offsets[r + 1] \in Nat
    BY ONLY <1>2, <1>3, r \in 1..n, NumbersAround
  <2> QED
    BY ONLY <2>1, <1>4, pos \in Nat DEF RegionLen
<1> HIDE DEF d
<1>10. RegionByte(Finish(c), r, d) = RegionByte(Finish(b), r, d)
  BY <1>9, <1>n, RegionByteKept DEF mb
<1> QED
  BY <1>7, <1>8, <1>10 DEF mb, mc

\* The bytes after them are those of the new region.
LEMMA BytesNew ==
  ASSUME NEW b, NEW c, NEW u \in Int, NEW size \in Nat, Extends(c, b, u, size),
         NEW k \in Nat, k < size
  PROVE  ByteAt(Finish(c), b.bytes_written + k) = RegionByte(Finish(c), Len(b.offsets) + 1, k)
<1> DEFINE mc == Finish(c)
           n == Len(b.offsets)
           end == b.bytes_written
<1>1. WellFormed(mc) /\ end \in Nat
  BY Finished, BuilderFields DEF Extends
<1>2. /\ n \in Nat /\ NRegions(mc) = n + 1
      /\ mc.offsets[n + 1] = end /\ mc.offsets[n + 2] = end + size
  BY RegionsKept
<1> HIDE DEF mc, n, end
<1>3. n + 1 \in 1..NRegions(mc) /\ (n + 1) + 1 = n + 2
  BY ONLY <1>2
<1>4. /\ end + k \in Nat /\ mc.offsets[n + 1] <= end + k /\ end + k < mc.offsets[(n + 1) + 1]
      /\ (end + k) - mc.offsets[n + 1] = k
  BY ONLY <1>1, <1>2, <1>3, k \in Nat, k < size, size \in Nat
<1>5. ByteAt(mc, end + k) = RegionByte(mc, n + 1, (end + k) - mc.offsets[n + 1])
  BY ONLY <1>1, <1>3, <1>4, ByteOfRegion
<1> QED
  BY <1>4, <1>5 DEF mc, n, end

\* One more region adds its bytes at the end of the file.
LEMMA BytesAdded ==
  ASSUME NEW b, NEW c, NEW u \in Int, NEW size \in Nat, Extends(c, b, u, size),
         NEW new \in Seq(Byte), Len(new) = size,
         \A k \in 1..size : RegionByte(Finish(c), Len(b.offsets) + 1, k - 1) = new[k]
  PROVE  Bytes(c) = Bytes(b) \o new
<1>1. /\ BuilderOK(b) /\ BuilderOK(c) /\ c.bytes_written = b.bytes_written + size
      /\ b.bytes_written \in Nat
  BY BuilderFields DEF Extends
<1>2. Bytes(b) \in Seq(Byte) /\ Len(Bytes(b)) = b.bytes_written
  BY <1>1, BytesAreBytes
<1>3. Bytes(c) \in Seq(Byte) /\ Len(Bytes(c)) = c.bytes_written
  BY <1>1, BytesAreBytes
<1>4. ASSUME NEW k \in 1..b.bytes_written PROVE Bytes(c)[k] = Bytes(b)[k]
  <2>1. k - 1 \in Nat /\ k - 1 < b.bytes_written /\ k \in 1..c.bytes_written
    BY <1>1
  <2>2. ByteAt(Finish(c), k - 1) = ByteAt(Finish(b), k - 1)
    BY <2>1, BytesKept
  <2> QED
    BY <2>1, <2>2 DEF Bytes
<1>5. ASSUME NEW k \in 1..size PROVE Bytes(c)[b.bytes_written + k] = new[k]
  <2>1. /\ k - 1 \in Nat /\ k - 1 < size /\ b.bytes_written + k \in 1..c.bytes_written
        /\ b.bytes_written + k - 1 = b.bytes_written + (k - 1)
    BY <1>1
  <2>2. ByteAt(Finish(c), b.bytes_written + (k - 1)) = new[k]
    BY <2>1, BytesNew
  <2> DEFINE j == b.bytes_written + k
  <2>3. j \in 1..c.bytes_written /\ j - 1 = b.bytes_written + (k - 1)
    BY ONLY <1>1, k \in 1..size, size \in Nat DEF j
  <2> HIDE DEF j
  <2>4. Bytes(c)[j] = ByteAt(Finish(c), j - 1)
    BY ONLY <2>3 DEF Bytes
  <2>5. Bytes(c)[j] = new[k]
    BY ONLY <2>2, <2>3, <2>4
  <2> QED
    BY <2>5 DEF j
<1> DEFINE f == Bytes(b)
           h == Bytes(c)
<1>6. f \in Seq(Byte) /\ h \in Seq(Byte) /\ new \in Seq(Byte) /\ Len(h) = Len(f) + Len(new)
  BY <1>1, <1>2, <1>3
<1>7. /\ \A k \in 1..Len(f) : h[k] = f[k]
      /\ \A k \in 1..Len(new) : h[Len(f) + k] = new[k]
  BY <1>2, <1>4, <1>5
<1> HIDE DEF f, h
<1>8. h = f \o new
  BY ONLY <1>6, <1>7, Joined
<1> QED
  BY <1>8 DEF f, h

\* AddDirect adds the buffer to the file.
LEMMA AddDirectBytes ==
  ASSUME NEW b, BuilderOK(b), NEW buf \in Seq(Byte)
  PROVE  Bytes(AddDirect(b, buf)) = Bytes(b) \o buf
<1> DEFINE c == AddDirect(b, buf)
           u == -Len(b.direct_buf)
           size == Len(buf)
           n == Len(b.offsets)
<1>1. /\ c.offsets = Append(b.offsets, b.bytes_written)
      /\ c.underlying_offsets = Append(b.underlying_offsets, u)
      /\ c.direct_buf = b.direct_buf \o buf
      /\ c.bytes_written = b.bytes_written + size
      /\ c.data_start = b.data_start
      /\ c.pending_base64_decoding = b.pending_base64_decoding
  BY DEF AddDirect, BuilderOK, BuilderType
<1>2. BuilderOK(c)
  BY AddDirectOK
<1>3. /\ u \in Int /\ ~(u > 0) /\ size \in Nat /\ n \in Nat
      /\ b.direct_buf \in Seq(Byte)
  BY BuilderFields
<1> HIDE DEF c
<1>4. Extends(c, b, u, size)
  BY <1>1, <1>2 DEF Extends
<1>5. Finish(c).underlying_offsets[n + 1] = u /\ Finish(c).direct_buf = c.direct_buf
  BY <1>2, <1>3, <1>4, RegionsKept, Finished
<1>6. ASSUME NEW k \in 1..size PROVE RegionByte(Finish(c), n + 1, k - 1) = buf[k]
  <2>1. RegionByte(Finish(c), n + 1, k - 1) = c.direct_buf[1 - u + (k - 1)]
    BY ONLY <1>3, <1>5 DEF RegionByte, IsMapped
  <2>2. 1 - u + (k - 1) = Len(b.direct_buf) + k /\ k \in 1..Len(buf)
    BY ONLY <1>3, k \in 1..size
  <2>3. (b.direct_buf \o buf)[Len(b.direct_buf) + k] = buf[k]
    BY ONLY <1>3, <2>2, buf \in Seq(Byte)
  <2> QED
    BY ONLY <1>1, <2>1, <2>2, <2>3
<1> HIDE DEF u, size
<1>7. Len(buf) = size
  BY DEF size
<1>8. Bytes(c) = Bytes(b) \o buf
  BY <1>3, <1>4, <1>6, <1>7, BytesAdded DEF n
<1> QED
  BY <1>8 DEF c

\* AddMappedRegion adds a piece of the payload.
LEMMA AddMappedBytes ==
  ASSUME NEW b, BuilderOK(b), NEW from \in Nat, NEW size \in Nat
  PROVE  Bytes(AddMappedRegion(b, from, size))
           = Bytes(b) \o [k \in 1..size |->
                           PayloadByte(b.pending_base64_decoding, b.data_start, from + k - 1)]
<1> DEFINE c == AddMappedRegion(b, from, size)
           u == 1 + from
           n == Len(b.offsets)
           new == [k \in 1..size |->
                    PayloadByte(b.pending_base64_decoding, b.data_start, from + k - 1)]
<1>1. /\ c.offsets = Append(b.offsets, b.bytes_written)
      /\ c.underlying_offsets = Append(b.underlying_offsets, u)
      /\ c.direct_buf = b.direct_buf
      /\ c.bytes_written = b.bytes_written + size
      /\ c.data_start = b.data_start
      /\ c.pending_base64_decoding = b.pending_base64_decoding
  BY DEF AddMappedRegion, BuilderOK, BuilderType
<1>2. BuilderOK(c)
  BY AddMappedRegionOK
<1>3. /\ u \in Int /\ u > 0 /\ u - 1 = from /\ n \in Nat
      /\ b.direct_buf \in Seq(Byte) /\ b.data_start \in Nat
      /\ b.pending_base64_decoding \in BOOLEAN
  BY BuilderFields
<1> HIDE DEF c, new
<1>4. Extends(c, b, u, size)
  <2>1. <<>> \in Seq(Byte) /\ b.direct_buf = b.direct_buf \o <<>>
    BY <1>3, ConcatEmptySeq
  <2> QED
    BY <1>1, <1>2, <2>1 DEF Extends
<1>5. /\ Finish(c).underlying_offsets[n + 1] = u
      /\ Finish(c).pending_base64_decoding = b.pending_base64_decoding
      /\ Finish(c).data_start = b.data_start
  BY <1>1, <1>2, <1>3, <1>4, RegionsKept, Finished
<1> HIDE DEF u
<1>6. ASSUME NEW k \in 1..size PROVE RegionByte(Finish(c), n + 1, k - 1) = new[k]
  <2>1. RegionByte(Finish(c), n + 1, k - 1)
          = PayloadByte(b.pending_base64_decoding, b.data_start, u - 1 + (k - 1))
    BY ONLY <1>3, <1>5 DEF RegionByte, IsMapped
  <2>2. u - 1 + (k - 1) = from + k - 1
    BY ONLY <1>3, k \in 1..size, from \in Nat
  <2> QED
    BY ONLY <2>1, <2>2, k \in 1..size DEF new
<1>7. new \in [1..size -> Byte]
  <2> SUFFICES ASSUME NEW k \in 1..size
               PROVE PayloadByte(b.pending_base64_decoding, b.data_start, from + k - 1) \in Byte
    BY DEF new
  <2>1. from + k - 1 \in Nat
    OBVIOUS
  <2> QED
    BY <2>1, <1>3, PayloadBytes
<1>8. new \in Seq(Byte) /\ Len(new) = size
  BY ONLY <1>7, size \in Nat, SequenceOf
<1>9. Bytes(c) = Bytes(b) \o new
  BY <1>3, <1>4, <1>6, <1>8, BytesAdded DEF n
<1> QED
  BY <1>9 DEF c, new

-----------------------------------------------------------------------------
(* The payload, written in order and once. *)

\* How far the payload is written, and where its builder takes it from.
Abreast ==
  /\ builder.pending_base64_decoding = arr.b64
  /\ builder.data_start = arr.data_start
  /\ i <= FullBlks(arr)
  /\ pc = "begin" => builder.bytes_written = 0 /\ i = 0
  /\ pc \in {"begin", "blocks"} => offset = EndOf(arr, i) /\ Len(pages) = i
  /\ pc \in {"footer", "done"} =>
       /\ Len(pages) = i + 1
       /\ offset + pages[Len(pages)].compressed_page_size = PayloadLen(arr)

\* A page holds its block, all of it, and the block is in the payload.
LEMMA BlockInPage ==
  ASSUME NEW a \in Arrays, Filled(a), Fits(a), NEW b \in Nat, b <= FullBlks(a),
         NEW size \in CompressedSizes(a, b + 1)
  PROVE  /\ size \in Nat /\ ToUint32(size) = size /\ ToInt32(size) = size
         /\ size < TwoTo31
         /\ EndOf(a, b) \in Nat /\ PayloadLen(a) \in Int
         /\ EndOf(a, b + 1) = EndOf(a, b) + size
         /\ EndOf(a, b + 1) <= PayloadLen(a)
         /\ b = FullBlks(a) => EndOf(a, b + 1) = PayloadLen(a)
         /\ FullBlks(a) \in Nat
<1>1. NumBlks(a) \in Nat \ {0} /\ FullBlks(a) = NumBlks(a) - 1
  BY BlockCount
<1>2. b + 1 \in 1..NumBlks(a) /\ (b + 1) - 1 = b /\ FullBlks(a) \in Nat
  BY <1>1
<1>3. /\ EndOf(a, b) \in Nat /\ size \in Nat
      /\ EndOf(a, b + 1) = EndOf(a, b) + size
      /\ EndOf(a, NumBlks(a)) = PayloadLen(a)
  <2>1. /\ EndOf(a, (b + 1) - 1) \in Nat /\ size \in Nat
        /\ EndOf(a, b + 1) = EndOf(a, (b + 1) - 1) + size
        /\ EndOf(a, NumBlks(a)) = PayloadLen(a)
    BY <1>2, BlockFollows
  <2> QED
    BY ONLY <1>2, <2>1
<1>4. PayloadLen(a) \in Int
  BY EndIsInt
<1>5. b = FullBlks(a) => EndOf(a, b + 1) = PayloadLen(a)
  <2>1. FullBlks(a) + 1 = NumBlks(a)
    BY ONLY <1>1
  <2> QED
    BY ONLY <1>3, <2>1
<1>6. EndOf(a, b + 1) <= PayloadLen(a)
  <2>1. CASE b = FullBlks(a)
    BY <2>1, <1>4, <1>5
  <2>2. CASE b # FullBlks(a)
    <3>1. b + 1 \in Nat /\ b + 1 <= FullBlks(a)
      BY <2>2, <1>2
    <3> QED
      BY <3>1, EndInPayload
  <2> QED
    BY <2>1, <2>2
<1>7. size < TwoTo31
  <2>1. CASE a.codec = "NONE"
    <3> DEFINE y == a.total_bytes - 1
               x == y % TwoTo64
    <3>1. /\ BlockSize \in Nat \ {0} /\ TwoTo64 \in Nat \ {0} /\ TwoTo31 \in Nat
          /\ BlockSize < TwoTo31
      BY WidthAssumption
    <3>2. y \in Int
      BY ArrayFields
    <3>3. size = BlockSize \/ size = (x % BlockSize) + 1
      BY <2>1 DEF CompressedSizes
    <3> HIDE DEF y
    <3>4. x \in 0..TwoTo64 - 1
      BY <3>1, <3>2, Modulo
    <3> HIDE DEF x
    <3>5. x % BlockSize \in 0..BlockSize - 1
      BY <3>1, <3>4, Modulo
    <3> QED
      BY ONLY <3>1, <3>3, <3>5
  <2>2. CASE a.codec # "NONE"
    <3>1. NumBlks(a) = a.num_blks /\ Len(a.compressed_blk_sz) = a.num_blks
      BY <2>2, ArraysAssumption DEF NumBlks
    <3>2. b + 1 \in 1..a.num_blks /\ b + 1 <= Len(a.compressed_blk_sz)
      BY <3>1, <1>2
    <3>3. size = a.compressed_blk_sz[b + 1]
      BY <2>2, <3>2 DEF CompressedSizes
    <3> QED
      BY <3>2, <3>3 DEF Fits
  <2> QED
    BY <2>1, <2>2
<1>8. ToUint32(size) = size
  <2>1. 2 * TwoTo31 \in Nat /\ size < 2 * TwoTo31
    BY <1>3, <1>7, WidthAssumption
  <2> QED
    BY <1>3, <2>1, SmallModulo DEF ToUint32
<1>9. ToInt32(size) = size
  BY <1>7, <1>8 DEF ToInt32
<1> QED
  BY <1>2, <1>3, <1>4, <1>5, <1>6, <1>7, <1>8, <1>9

\* What a page adds to the file.
PageBytes(h, n) ==
  HeaderOf(i + 1, h) \o [k \in 1..n |-> PayloadByte(arr.b64, arr.data_start, offset + k - 1)]

\* A page adds its header and its block to the file.
LEMMA PageWritten ==
  ASSUME IInv, Abreast, pc = "blocks", Filled(arr), Fits(arr),
         NEW n \in HeaderLens, NEW size \in CompressedSizes(arr, i + 1),
         AppendPage(n, size, UncompressedSize(arr, i + 1, size))
  PROVE  /\ Bytes(builder') = Bytes(builder) \o PageBytes(n, size)
         /\ builder'.bytes_written = builder.bytes_written + n + size
         /\ builder'.pending_base64_decoding = arr.b64
         /\ builder'.data_start = arr.data_start
         /\ Len(pages') = Len(pages) + 1
         /\ \A p \in 1..Len(pages) : pages'[p] = pages[p]
         /\ pages'[Len(pages')].start = builder.bytes_written
         /\ pages'[Len(pages')].len = n
         /\ pages'[Len(pages')].compressed_page_size = size
         /\ total'.compressed = total.compressed + n + size
         /\ PageBytes(n, size) \in Seq(Byte)
         /\ Len(PageBytes(n, size)) = n + size
         /\ \A k \in 1..n : PageBytes(n, size)[k] = HeaderOf(i + 1, n)[k]
         /\ n \in Nat /\ size \in Nat
<1> DEFINE h == HeaderOf(i + 1, n)
           b1 == AddDirect(builder, h)
           b2 == AddMappedRegion(b1, offset, size)
           body == [k \in 1..size |-> PayloadByte(arr.b64, arr.data_start, offset + k - 1)]
<1>1. /\ arr \in Arrays /\ i \in Nat /\ offset \in Nat /\ BuilderOK(builder)
      /\ pages \in Seq(PageType) /\ i <= FullBlks(arr)
      /\ total \in [compressed : Nat, uncompressed : Nat, count : Nat]
  BY DEF IInv, TypeOK, Abreast
<1>2. size \in Nat /\ size < TwoTo31 /\ ToUint32(size) = size /\ ToInt32(size) = size
  BY <1>1, BlockInPage
<1>3. n \in Nat /\ n < TwoTo31 /\ TwoTo31 \in Nat
  BY WidthAssumption
<1>4. h \in Seq(Byte) /\ Len(h) = n
  <2>1. h \in Seq(Byte)
    BY <1>1, <1>3, Metadata
  <2>2. h \in [1..n -> Byte]
    <3>1. \A k \in 1..n : [src |-> "header", at |-> i + 1, nth |-> k] \in Byte
      BY <1>1, <1>3 DEF Byte
    <3> QED
      BY <3>1 DEF HeaderOf
  <2> HIDE DEF h
  <2> QED
    BY ONLY <2>1, <2>2, <1>3, SequenceOf
<1>5. builder' = b2
  BY <1>2 DEF AppendPage
<1>6. /\ BuilderOK(b1) /\ Bytes(b1) = Bytes(builder) \o h
      /\ b1.bytes_written = builder.bytes_written + n
      /\ b1.pending_base64_decoding = arr.b64 /\ b1.data_start = arr.data_start
  <2> HIDE DEF h
  <2>1. BuilderOK(b1) /\ Bytes(b1) = Bytes(builder) \o h
    BY <1>1, <1>4, AddDirectOK, AddDirectBytes
  <2>2. /\ b1.bytes_written = builder.bytes_written + Len(h)
        /\ b1.pending_base64_decoding = builder.pending_base64_decoding
        /\ b1.data_start = builder.data_start
    BY <1>1 DEF AddDirect, BuilderOK, BuilderType
  <2> QED
    BY <2>1, <2>2, <1>4 DEF Abreast
<1> HIDE DEF b1, h
<1>7. /\ Bytes(b2) = Bytes(b1) \o body
      /\ b2.bytes_written = b1.bytes_written + size
      /\ b2.pending_base64_decoding = arr.b64 /\ b2.data_start = arr.data_start
  <2>1. Bytes(b2) = Bytes(b1) \o body
    <3>1. Bytes(b2) = Bytes(b1) \o [k \in 1..size |->
                        PayloadByte(b1.pending_base64_decoding, b1.data_start, offset + k - 1)]
      BY <1>1, <1>2, <1>6, AddMappedBytes
    <3> QED
      BY ONLY <3>1, <1>6
  <2>2. /\ b2.bytes_written = b1.bytes_written + size
        /\ b2.pending_base64_decoding = b1.pending_base64_decoding
        /\ b2.data_start = b1.data_start
    BY <1>6 DEF AddMappedRegion, BuilderOK, BuilderType
  <2> QED
    BY ONLY <2>1, <2>2, <1>6
<1>8. body \in Seq(Byte) /\ Len(body) = size
  <2>1. body \in [1..size -> Byte]
    <3> SUFFICES ASSUME NEW k \in 1..size
                 PROVE  PayloadByte(arr.b64, arr.data_start, offset + k - 1) \in Byte
      OBVIOUS
    <3>1. offset + k - 1 \in Nat /\ arr.b64 \in BOOLEAN /\ arr.data_start \in Nat
      BY <1>1, <1>2, ArrayFields
    <3> QED
      BY <3>1, PayloadBytes
  <2> HIDE DEF body
  <2> QED
    BY ONLY <2>1, <1>2, SequenceOf
<1>9. PageBytes(n, size) = h \o body
  BY DEF PageBytes, h
<1> HIDE DEF b2, body
<1>10. /\ h \o body \in Seq(Byte) /\ Len(h \o body) = n + size
       /\ \A k \in 1..n : (h \o body)[k] = h[k]
  <2>1. /\ h \o body \in Seq(Byte) /\ Len(h \o body) = Len(h) + Len(body)
        /\ \A k \in 1..Len(h) + Len(body) :
             (h \o body)[k] = IF k <= Len(h) THEN h[k] ELSE body[k - Len(h)]
    BY ONLY <1>4, <1>8, ConcatProperties
  <2>2. Len(h) = n /\ Len(body) = size /\ n \in Nat /\ size \in Nat
    BY ONLY <1>2, <1>3, <1>4, <1>8
  <2>3. \A k \in 1..n : k \in 1..n + size /\ k <= n
    BY ONLY <2>2
  <2> QED
    BY ONLY <2>1, <2>2, <2>3
<1>11. Bytes(builder') = Bytes(builder) \o PageBytes(n, size)
  <2>1. Bytes(builder) \in Seq(Byte)
    BY <1>1, BytesAreBytes
  <2>2. (Bytes(builder) \o h) \o body = Bytes(builder) \o (h \o body)
    BY ONLY <2>1, <1>4, <1>8, ConcatAssociative
  <2> QED
    BY ONLY <2>2, <1>5, <1>6, <1>7, <1>9
<1>12. builder'.bytes_written = builder.bytes_written + n + size
  <2>1. builder.bytes_written \in Nat
    BY <1>1, BuilderFields
  <2> QED
    BY ONLY <2>1, <1>2, <1>3, <1>5, <1>6, <1>7
<1>13. /\ Len(pages') = Len(pages) + 1 /\ \A p \in 1..Len(pages) : pages'[p] = pages[p]
       /\ pages'[Len(pages')].start = builder.bytes_written
       /\ pages'[Len(pages')].len = n
       /\ pages'[Len(pages')].compressed_page_size = size
  <2>1. PICK page : /\ pages' = Append(pages, page)
                    /\ page.start = builder.bytes_written /\ page.len = n
                    /\ page.compressed_page_size = size
    BY <1>2 DEF AppendPage
  <2>2. /\ Len(pages') = Len(pages) + 1 /\ pages'[Len(pages) + 1] = page
        /\ \A p \in 1..Len(pages) : pages'[p] = pages[p]
    BY ONLY <2>1, <1>1
  <2> QED
    BY ONLY <2>1, <2>2
<1>14. total'.compressed = total.compressed + n + size
  <2>1. total'.compressed = total.compressed + ToUint32(n + size)
    BY <1>2 DEF AppendPage, AddPage
  <2>2. ToUint32(n + size) = n + size
    <3>1. n + size \in Nat /\ 2 * TwoTo31 \in Nat /\ n + size < 2 * TwoTo31
      BY ONLY <1>2, <1>3
    <3> QED
      BY <3>1, SmallModulo DEF ToUint32
  <2> QED
    BY <2>1, <2>2, <1>1, <1>2, <1>3
<1> QED
  BY <1>2, <1>3, <1>5, <1>7, <1>9, <1>10, <1>11, <1>12, <1>13, <1>14 DEF h

LEMMA AbreastInit ==
  ASSUME Init, Filled(arr)
  PROVE  Abreast
<1>1. arr \in Arrays /\ pc = "begin" /\ i = 0 /\ offset = 0 /\ pages = <<>>
  BY DEF Init
<1>2. NumBlks(arr) \in Nat \ {0} /\ FullBlks(arr) = NumBlks(arr) - 1
  BY <1>1, BlockCount
<1>3. EndOf(arr, 0) = 0
  BY <1>2, WidthAssumption DEF EndOf, BlockEnd
<1>4. /\ builder.pending_base64_decoding = arr.b64 /\ builder.data_start = arr.data_start
      /\ builder.bytes_written = 0
  BY DEF Init, NewBuilder
<1> QED
  BY <1>1, <1>2, <1>3, <1>4 DEF Abreast

LEMMA BeginAbreast ==
  ASSUME IInv, Abreast, Begin
  PROVE  Abreast'
<1>1. /\ pc = "begin" /\ pc' = "blocks" /\ UNCHANGED <<arr, i, offset, pages>>
      /\ builder' = AddDirect(builder, Par1)
  BY DEF Begin
<1>2. /\ builder'.pending_base64_decoding = builder.pending_base64_decoding
      /\ builder'.data_start = builder.data_start
  BY <1>1 DEF AddDirect, IInv, BuilderOK, BuilderType
<1>3. FullBlks(arr)' = FullBlks(arr) /\ EndOf(arr, i)' = EndOf(arr, i)
  BY <1>1 DEF FullBlks, NumBlks, EndOf, BlockEnd
<1> QED
  BY <1>1, <1>2, <1>3 DEF Abreast

LEMMA FullBlockAbreast ==
  ASSUME IInv, Abreast, Filled(arr), Fits(arr), FullBlock
  PROVE  Abreast'
<1>1. PICK n \in HeaderLens, size \in CompressedSizes(arr, i + 1) :
        /\ AppendPage(n, size, UncompressedSize(arr, i + 1, size))
        /\ offset' = offset + ToUint32(size)
  BY DEF FullBlock
<1>2. pc = "blocks" /\ pc' = pc /\ i' = i + 1 /\ i < FullBlks(arr) /\ arr' = arr
  BY <1>1 DEF FullBlock, AppendPage
<1>3. /\ builder'.pending_base64_decoding = arr.b64
      /\ builder'.data_start = arr.data_start
      /\ Len(pages') = Len(pages) + 1
  BY <1>1, <1>2, PageWritten
<1>4. arr \in Arrays /\ i \in Nat /\ i <= FullBlks(arr)
  BY DEF IInv, TypeOK, Abreast
<1>5. /\ ToUint32(size) = size /\ EndOf(arr, i + 1) = EndOf(arr, i) + size
      /\ FullBlks(arr) \in Nat
  BY <1>2, <1>4, BlockInPage
<1>6. offset = EndOf(arr, i) /\ Len(pages) = i
  BY <1>2 DEF Abreast
<1>7. offset' = EndOf(arr, i + 1) /\ i' <= FullBlks(arr)
  BY <1>1, <1>2, <1>4, <1>5, <1>6
<1>8. FullBlks(arr') = FullBlks(arr) /\ EndOf(arr', i') = EndOf(arr, i + 1)
  BY <1>2
<1> QED
  BY <1>2, <1>3, <1>6, <1>7, <1>8 DEF Abreast

LEMMA LastBlockAbreast ==
  ASSUME IInv, Abreast, Filled(arr), Fits(arr), LastBlock
  PROVE  Abreast'
<1>1. PICK n \in HeaderLens, size \in CompressedSizes(arr, i + 1) :
        AppendPage(n, size, UncompressedSize(arr, i + 1, size))
  BY DEF LastBlock
<1>2. /\ pc = "blocks" /\ pc' = "footer" /\ i' = i /\ offset' = offset /\ arr' = arr
      /\ i >= FullBlks(arr)
  BY <1>1 DEF LastBlock, AppendPage
<1>3. /\ builder'.pending_base64_decoding = arr.b64
      /\ builder'.data_start = arr.data_start
      /\ Len(pages') = Len(pages) + 1
      /\ pages'[Len(pages')].compressed_page_size = size
  BY <1>1, <1>2, PageWritten
<1>4. arr \in Arrays /\ i \in Nat /\ i <= FullBlks(arr)
  BY DEF IInv, TypeOK, Abreast
<1>5. /\ EndOf(arr, i + 1) = EndOf(arr, i) + size
      /\ FullBlks(arr) \in Nat
      /\ i = FullBlks(arr) => EndOf(arr, i + 1) = PayloadLen(arr)
  BY <1>4, BlockInPage
<1>6. offset = EndOf(arr, i) /\ Len(pages) = i
  BY <1>2 DEF Abreast
<1>7. offset' + pages'[Len(pages')].compressed_page_size = PayloadLen(arr)
  BY <1>2, <1>3, <1>4, <1>5, <1>6
<1>8. FullBlks(arr') = FullBlks(arr) /\ PayloadLen(arr') = PayloadLen(arr)
  BY <1>2
<1> QED
  BY <1>2, <1>3, <1>4, <1>6, <1>7, <1>8 DEF Abreast

\* What End adds to the file.
FileEnd(n) == FooterBytes(n) \o FootSize(n) \o Par1

LEMMA MetadataLengths ==
  ASSUME NEW n \in Nat
  PROVE  /\ Len(Par1) = 4 /\ Len(FootSize(n)) = 4 /\ Len(FooterBytes(n)) = n
<1>1. /\ Par1 \in [1..4 -> Byte] /\ FootSize(n) \in [1..4 -> Byte]
      /\ FooterBytes(n) \in [1..n -> Byte]
  BY DEF Par1, FootSize, FooterBytes, Byte
<1>2. 4 \in Nat
  OBVIOUS
<1> QED
  BY ONLY <1>1, <1>2, n \in Nat, SequenceOf

LEMMA EndWritten ==
  ASSUME IInv, NEW n \in FooterLens,
         builder' = AddDirect(AddDirect(AddDirect(builder, FooterBytes(n)), FootSize(n)), Par1)
  PROVE  /\ Bytes(builder') = Bytes(builder) \o FooterBytes(n) \o FootSize(n) \o Par1
         /\ builder'.bytes_written = builder.bytes_written + n + 8
         /\ builder'.pending_base64_decoding = builder.pending_base64_decoding
         /\ builder'.data_start = builder.data_start
         /\ n \in Nat
<1> DEFINE b1 == AddDirect(builder, FooterBytes(n))
           b2 == AddDirect(b1, FootSize(n))
           b3 == AddDirect(b2, Par1)
<1>1. n \in Nat /\ BuilderOK(builder)
  BY WidthAssumption DEF IInv
<1>2. FooterBytes(n) \in Seq(Byte) /\ FootSize(n) \in Seq(Byte) /\ Par1 \in Seq(Byte)
  BY <1>1, Metadata
<1>3. Len(FooterBytes(n)) = n /\ Len(FootSize(n)) = 4 /\ Len(Par1) = 4
  BY <1>1, MetadataLengths
<1>4. ASSUME NEW b, BuilderOK(b), NEW buf \in Seq(Byte)
      PROVE  /\ AddDirect(b, buf).bytes_written = b.bytes_written + Len(buf)
             /\ AddDirect(b, buf).pending_base64_decoding = b.pending_base64_decoding
             /\ AddDirect(b, buf).data_start = b.data_start
             /\ b.bytes_written \in Nat
  BY <1>4 DEF AddDirect, BuilderOK, BuilderType
<1>5. /\ BuilderOK(b1) /\ Bytes(b1) = Bytes(builder) \o FooterBytes(n)
      /\ b1.bytes_written = builder.bytes_written + n
      /\ b1.pending_base64_decoding = builder.pending_base64_decoding
      /\ b1.data_start = builder.data_start
      /\ builder.bytes_written \in Nat
  BY <1>1, <1>2, <1>3, <1>4, AddDirectOK, AddDirectBytes
<1> HIDE DEF b1
<1>6. /\ BuilderOK(b2) /\ Bytes(b2) = Bytes(b1) \o FootSize(n)
      /\ b2.bytes_written = b1.bytes_written + 4
      /\ b2.pending_base64_decoding = b1.pending_base64_decoding
      /\ b2.data_start = b1.data_start
  BY <1>2, <1>3, <1>4, <1>5, AddDirectOK, AddDirectBytes
<1> HIDE DEF b2
<1>7. /\ Bytes(b3) = Bytes(b2) \o Par1
      /\ b3.bytes_written = b2.bytes_written + 4
      /\ b3.pending_base64_decoding = b2.pending_base64_decoding
      /\ b3.data_start = b2.data_start
  BY <1>2, <1>3, <1>4, <1>6, AddDirectBytes
<1>8. builder' = b3
  BY DEF b1, b2
<1> HIDE DEF b3
<1>9. builder'.bytes_written = builder.bytes_written + n + 8
  BY ONLY <1>1, <1>5, <1>6, <1>7, <1>8
<1> QED
  BY ONLY <1>1, <1>5, <1>6, <1>7, <1>8, <1>9

LEMMA EndAbreast ==
  ASSUME IInv, Abreast, End
  PROVE  Abreast'
<1>1. PICK n \in FooterLens :
        builder' = AddDirect(AddDirect(AddDirect(builder, FooterBytes(n)), FootSize(n)), Par1)
  BY DEF End
<1>2. pc = "footer" /\ pc' = "done" /\ UNCHANGED <<arr, i, offset, pages>>
  BY DEF End
<1>3. /\ builder'.pending_base64_decoding = builder.pending_base64_decoding
      /\ builder'.data_start = builder.data_start
  BY <1>1, EndWritten
<1>4. FullBlks(arr') = FullBlks(arr) /\ PayloadLen(arr') = PayloadLen(arr)
  BY <1>2
<1> QED
  BY <1>2, <1>3, <1>4 DEF Abreast

LEMMA NextAbreast ==
  ASSUME ArraysFit
  PROVE  IInv /\ Abreast /\ [Next]_vars => Abreast'
<1> SUFFICES ASSUME IInv, Abreast, [Next]_vars PROVE Abreast'
  OBVIOUS
<1>1. Filled(arr) /\ Fits(arr)
  BY DEF IInv, TypeOK, ArraysFit
<1>2. CASE Begin     BY <1>2, BeginAbreast
<1>3. CASE FullBlock BY <1>1, <1>3, FullBlockAbreast
<1>4. CASE LastBlock BY <1>1, <1>4, LastBlockAbreast
<1>5. CASE End       BY <1>5, EndAbreast
<1>6. CASE UNCHANGED vars
  BY <1>6 DEF Abreast, vars
<1> QED
  BY <1>2, <1>3, <1>4, <1>5, <1>6 DEF Next

-----------------------------------------------------------------------------
(* The steps of the Parquet writer. *)

\* What the refinement mapping substitutes for stage and sent.
Stage ==
  CASE pc = "begin" -> "magic"
    [] pc \in {"blocks", "footer"} -> "pages"
    [] pc = "done" -> "done"
Sent == IF pc \in {"footer", "done"}
        THEN offset + pages[Len(pages)].compressed_page_size ELSE offset

LEMMA WriterInit ==
  ASSUME Init
  PROVE  Writer!Init
<1>1. /\ arr \in Arrays /\ pc = "begin" /\ offset = 0 /\ pages = <<>>
      /\ builder.bytes_written = 0
  BY DEF Init, NewBuilder
<1>2. Content = <<>>
  BY <1>1 DEF Content
<1>3. Stage = "magic" /\ Sent = 0 /\ Len(pages) = 0
  BY <1>1 DEF Stage, Sent
<1> QED
  BY <1>1, <1>2, <1>3 DEF Writer!Init, Stage, Sent

LEMMA WriterBegin ==
  ASSUME IInv, Abreast, Begin
  PROVE  Writer!WriteMagic
<1>1. /\ pc = "begin" /\ pc' = "blocks" /\ UNCHANGED <<arr, i, offset, pages>>
      /\ builder' = AddDirect(builder, Par1)
  BY DEF Begin
<1>2. BuilderOK(builder) /\ builder.bytes_written = 0 /\ Par1 \in Seq(Byte)
  BY <1>1, Metadata DEF IInv, Abreast
<1>3. Bytes(builder') = Bytes(builder) \o Par1
  BY <1>1, <1>2, AddDirectBytes
<1>4. Bytes(builder) = <<>>
  BY <1>2 DEF Bytes
<1>5. Content' = Writer!Magic
  <2>1. Bytes(builder') = Par1
    BY ONLY <1>2, <1>3, <1>4, ConcatEmptySeq
  <2> QED
    BY <2>1 DEF Content, Bytes, Par1, Writer!Magic
<1>6. Stage = "magic" /\ Stage' = "pages" /\ UNCHANGED <<Len(pages), Sent>>
  BY <1>1 DEF Stage, Sent
<1> QED
  BY <1>1, <1>5, <1>6 DEF Writer!WriteMagic, Stage, Sent

\* The page of a step is a page of the writer.
LEMMA WriterPage ==
  ASSUME IInv, Abreast, pc = "blocks", pc' \in {"blocks", "footer"}, Filled(arr), Fits(arr),
         NEW n \in HeaderLens, NEW size \in CompressedSizes(arr, i + 1),
         AppendPage(n, size, UncompressedSize(arr, i + 1, size)),
         Sent' = Sent + size
  PROVE  Writer!WritePage
<1>1. /\ Bytes(builder') = Bytes(builder) \o PageBytes(n, size)
      /\ Len(pages') = Len(pages) + 1 /\ size \in Nat /\ n \in Nat
  BY PageWritten
<1>2. arr \in Arrays /\ i \in Nat /\ i <= FullBlks(arr) /\ BuilderOK(builder)
  BY DEF IInv, TypeOK, Abreast
<1>3. Sent = offset /\ Len(pages) = i /\ offset = EndOf(arr, i)
  BY DEF Sent, Abreast
<1>4. size \in 0..PayloadLen(arr) - Sent
  <2>1. /\ EndOf(arr, i) \in Nat /\ PayloadLen(arr) \in Int
        /\ EndOf(arr, i + 1) = EndOf(arr, i) + size
        /\ EndOf(arr, i + 1) <= PayloadLen(arr)
    BY <1>2, BlockInPage
  <2> QED
    BY ONLY <1>1, <1>3, <2>1
<1>5. Writer!Header(Len(pages) + 1, n) = HeaderOf(i + 1, n)
  BY <1>3 DEF Writer!Header, HeaderOf
<1>6. Writer!Payload(Sent, size)
        = [k \in 1..size |-> PayloadByte(arr.b64, arr.data_start, offset + k - 1)]
  <2>1. ASSUME NEW b64, NEW start, NEW k
        PROVE  Writer!PayloadByte(b64, start, k) = PayloadByte(b64, start, k)
    BY DEF Writer!PayloadByte, Writer!DecodedByte, Writer!FileByte,
           PayloadByte, DecodedByte, FileByte
  <2> QED
    BY <1>3, <2>1 DEF Writer!Payload, Sent
<1> DEFINE h == HeaderOf(i + 1, n)
           body == [k \in 1..size |-> PayloadByte(arr.b64, arr.data_start, offset + k - 1)]
<1>7. Content' = Content \o h \o body
  <2>1. Content' = Bytes(builder') /\ Content = Bytes(builder)
    BY DEF Content, Bytes
  <2>2. PageBytes(n, size) = h \o body
    BY DEF PageBytes
  <2>3. Bytes(builder) \in Seq(Byte) /\ h \in Seq(Byte) /\ body \in Seq(Byte)
    <3>1. h \in Seq(Byte)
      BY <1>1, <1>2, Metadata
    <3>2. body \in [1..size -> Byte]
      <4> SUFFICES ASSUME NEW k \in 1..size
                   PROVE  PayloadByte(arr.b64, arr.data_start, offset + k - 1) \in Byte
        OBVIOUS
      <4>1. offset + k - 1 \in Nat /\ arr.b64 \in BOOLEAN /\ arr.data_start \in Nat
        BY <1>1, <1>2, ArrayFields DEF IInv, TypeOK
      <4> QED
        BY <4>1, PayloadBytes
    <3> HIDE DEF body, h
    <3>3. body \in Seq(Byte)
      BY ONLY <3>2, <1>1, SequenceOf
    <3> QED
      BY <3>1, <3>3, <1>2, BytesAreBytes
  <2> HIDE DEF h, body
  <2>4. Bytes(builder) \o h \o body = Bytes(builder) \o (h \o body)
    BY ONLY <2>3, ConcatAssociative
  <2> QED
    BY ONLY <1>1, <2>1, <2>2, <2>4
<1>8. Stage = "pages" /\ Stage' = "pages" /\ arr' = arr
  BY DEF Stage, AppendPage
<1>9. Content' = Content \o Writer!Header(Len(pages) + 1, n) \o Writer!Payload(Sent, size)
  BY <1>5, <1>6, <1>7
<1>10. /\ \E m \in HeaderLens, k \in 0..PayloadLen(arr) - Sent :
            /\ Content' = Content \o Writer!Header(Len(pages) + 1, m) \o Writer!Payload(Sent, k)
            /\ Sent' = Sent + k
  BY <1>4, <1>9
<1> QED
  BY <1>1, <1>8, <1>10 DEF Writer!WritePage, Stage, Sent

LEMMA WriterFullBlock ==
  ASSUME IInv, Abreast, Filled(arr), Fits(arr), FullBlock
  PROVE  Writer!WritePage
<1>1. PICK n \in HeaderLens, size \in CompressedSizes(arr, i + 1) :
        /\ AppendPage(n, size, UncompressedSize(arr, i + 1, size))
        /\ offset' = offset + ToUint32(size)
  BY DEF FullBlock
<1>2. pc = "blocks" /\ pc' = "blocks"
  BY DEF FullBlock
<1>3. ToUint32(size) = size
  BY BlockInPage DEF IInv, TypeOK, Abreast
<1>4. Sent' = Sent + size
  BY <1>1, <1>2, <1>3 DEF Sent
<1> QED
  BY <1>1, <1>2, <1>4, WriterPage

LEMMA WriterLastBlock ==
  ASSUME IInv, Abreast, Filled(arr), Fits(arr), LastBlock
  PROVE  Writer!WritePage
<1>1. PICK n \in HeaderLens, size \in CompressedSizes(arr, i + 1) :
        AppendPage(n, size, UncompressedSize(arr, i + 1, size))
  BY DEF LastBlock
<1>2. pc = "blocks" /\ pc' = "footer" /\ offset' = offset
  BY DEF LastBlock
<1>3. pages'[Len(pages')].compressed_page_size = size
  BY <1>1, <1>2, PageWritten
<1>4. Sent' = Sent + size
  BY <1>2, <1>3 DEF Sent
<1> QED
  BY <1>1, <1>2, <1>4, WriterPage

LEMMA WriterEnd ==
  ASSUME IInv, Abreast, End
  PROVE  Writer!WriteFooter
<1>1. PICK n \in FooterLens :
        builder' = AddDirect(AddDirect(AddDirect(builder, FooterBytes(n)), FootSize(n)), Par1)
  BY DEF End
<1>2. pc = "footer" /\ pc' = "done" /\ UNCHANGED <<arr, i, offset, pages>>
  BY DEF End
<1>3. Bytes(builder') = Bytes(builder) \o FooterBytes(n) \o FootSize(n) \o Par1
  BY <1>1, EndWritten
<1>4. /\ Writer!Footer(n) = FooterBytes(n) /\ Writer!FooterLen(n) = FootSize(n)
      /\ Writer!Magic = Par1
  BY DEF Writer!Footer, Writer!FooterLen, Writer!Magic, FooterBytes, FootSize, Par1
<1>5. Content' = Content \o Writer!Footer(n) \o Writer!FooterLen(n) \o Writer!Magic
  <2>1. Content' = Bytes(builder') /\ Content = Bytes(builder)
    BY DEF Content, Bytes
  <2> QED
    BY ONLY <1>3, <1>4, <2>1
<1>6. /\ Stage = "pages" /\ Stage' = "done" /\ UNCHANGED <<Len(pages), Sent>>
      /\ Sent = PayloadLen(arr)
  BY <1>2 DEF Stage, Sent, Abreast
<1> QED
  BY <1>2, <1>5, <1>6 DEF Writer!WriteFooter, Stage, Sent

-----------------------------------------------------------------------------
(* The pages, where a reader looks for them. *)

PageEnd(p) == pages[p].start + pages[p].len + pages[p].compressed_page_size
PagesEnd   == IF Len(pages) = 0 THEN 4 ELSE PageEnd(Len(pages))

\* The pages follow each other, each with its header, up to what total says.
Chained ==
  /\ Len(pages) > 0 => pages[1].start = 4
  /\ \A p \in 1..Len(pages) - 1 : pages[p + 1].start = PageEnd(p)
  /\ \A p \in 1..Len(pages) :
       /\ pages[p].start + pages[p].len <= builder.bytes_written
       /\ \A k \in 1..pages[p].len :
            Bytes(builder)[pages[p].start + k] = HeaderOf(p, pages[p].len)[k]
  /\ PagesEnd = 4 + total.compressed

\* The file ends where the pages do, and then with the footer and its length.
Laid ==
  /\ Chained
  /\ pc = "begin" => Len(pages) = 0
  /\ pc \in {"blocks", "footer"} => builder.bytes_written = PagesEnd
  /\ pc = "done" =>
       /\ footer.data_page_offset = 4
       /\ footer.total_compressed_size = total.compressed
       /\ builder.bytes_written = PagesEnd + footer.len + 8
       /\ \A k \in 1..8 :
            Bytes(builder)[builder.bytes_written - 8 + k] = (FootSize(footer.len) \o Par1)[k]

\* Bytes of a file that grew.
LEMMA Grown ==
  ASSUME NEW b, BuilderOK(b), NEW c, NEW new \in Seq(Byte), Bytes(c) = Bytes(b) \o new
  PROVE  /\ b.bytes_written \in Nat
         /\ \A k \in 1..b.bytes_written : Bytes(c)[k] = Bytes(b)[k]
         /\ \A k \in 1..Len(new) : Bytes(c)[b.bytes_written + k] = new[k]
<1> DEFINE f == Bytes(b)
           h == Bytes(c)
           len == b.bytes_written
<1>1. f \in Seq(Byte) /\ Len(f) = len /\ len \in Nat
  BY BytesAreBytes, BuilderFields
<1>2. h = f \o new
  OBVIOUS
<1> HIDE DEF f, h, len
<1>3. \A k \in 1..Len(f) + Len(new) :
        (f \o new)[k] = IF k <= Len(f) THEN f[k] ELSE new[k - Len(f)]
  BY ONLY <1>1, new \in Seq(Byte), ConcatProperties
<1>4. Len(new) \in Nat
  OBVIOUS
<1>5. ASSUME NEW k \in 1..len PROVE h[k] = f[k]
  <2>1. k \in 1..Len(f) + Len(new) /\ k <= Len(f)
    BY ONLY <1>1, <1>4, k \in 1..len
  <2> QED
    BY ONLY <1>2, <1>3, <2>1
<1>6. ASSUME NEW k \in 1..Len(new) PROVE h[len + k] = new[k]
  <2> DEFINE j == len + k
  <2>1. j \in 1..Len(f) + Len(new) /\ ~(j <= Len(f)) /\ j - Len(f) = k
    BY ONLY <1>1, <1>4, k \in 1..Len(new)
  <2> HIDE DEF j
  <2>2. h[j] = new[k]
    BY ONLY <1>2, <1>3, <2>1
  <2> QED
    BY <2>2 DEF j
<1> QED
  BY <1>1, <1>5, <1>6 DEF f, h, len

\* A page that is added is chained to those before.
LEMMA PageChained ==
  ASSUME IInv, Abreast, Laid, pc = "blocks", Filled(arr), Fits(arr),
         NEW n \in HeaderLens, NEW size \in CompressedSizes(arr, i + 1),
         AppendPage(n, size, UncompressedSize(arr, i + 1, size))
  PROVE  Chained' /\ (builder.bytes_written = PagesEnd)'
<1> DEFINE new == PageBytes(n, size)
           np == Len(pages)
           end == builder.bytes_written
<1>b. /\ Bytes(builder') = Bytes(builder) \o new
      /\ new \in Seq(Byte) /\ Len(new) = n + size
      /\ \A k \in 1..n : new[k] = HeaderOf(i + 1, n)[k]
  BY PageWritten
<1>s. /\ builder'.bytes_written = end + n + size
      /\ total'.compressed = total.compressed + n + size
      /\ n \in Nat /\ size \in Nat
  BY PageWritten
<1>1. /\ Len(pages') = np + 1
      /\ \A p \in 1..np : pages'[p] = pages[p]
      /\ pages'[Len(pages')].start = end
      /\ pages'[Len(pages')].len = n
      /\ pages'[Len(pages')].compressed_page_size = size
  BY PageWritten
<1>2. /\ BuilderOK(builder) /\ i \in Nat /\ np = i /\ end = PagesEnd /\ end \in Nat
      /\ PagesEnd = 4 + total.compressed
      /\ pages \in Seq(PageType)
      /\ total.compressed \in Nat
  BY BuilderFields DEF IInv, TypeOK, Abreast, Laid, Chained
<1> HIDE DEF new
<1>3. /\ \A k \in 1..end : Bytes(builder')[k] = Bytes(builder)[k]
      /\ \A k \in 1..Len(new) : Bytes(builder')[end + k] = new[k]
  <2>1. BuilderOK(builder)
    BY <1>2
  <2> QED
    BY ONLY <2>1, <1>b, Grown
<1>np. np = Len(pages)
  OBVIOUS
<1> HIDE DEF np, end
<1>4. /\ pages'[np + 1].start = end /\ pages'[np + 1].len = n
      /\ pages'[np + 1].compressed_page_size = size
  BY <1>1
<1>5. PagesEnd' = end + n + size
  <2>1. Len(pages') # 0
    BY <1>1, <1>2
  <2> QED
    BY <2>1, <1>1 DEF PagesEnd, PageEnd
<1>t. total'.compressed = total.compressed + n + size /\ n \in Nat /\ size \in Nat
  BY <1>s
<1>6. (Len(pages) > 0 => pages[1].start = 4)'
  <2>1. CASE np = 0
    <3>1. end = 4 /\ np + 1 = 1
      BY <2>1, <1>2, <1>np DEF PagesEnd
    <3> QED
      BY <3>1, <1>4
  <2>2. CASE np # 0
    <3>1. 1 \in 1..np /\ np > 0
      BY <2>2, <1>2
    <3> QED
      BY <3>1, <1>1, <1>np DEF Laid, Chained
  <2> QED
    BY <2>1, <2>2
<1>7. (\A p \in 1..Len(pages) - 1 : pages[p + 1].start = PageEnd(p))'
  <2> SUFFICES ASSUME NEW p \in 1..np PROVE pages'[p + 1].start = PageEnd(p)'
    <3>1. Len(pages') - 1 = np
      BY <1>1, <1>2
    <3> QED
      BY <3>1 DEF PageEnd
  <2>1. pages'[p] = pages[p]
    BY <1>1
  <2>2. PageEnd(p)' = PageEnd(p)
    BY <2>1 DEF PageEnd
  <2>3. CASE p = np
    <3>1. np # 0
      BY <2>3, <1>2
    <3> QED
      BY <3>1, <2>2, <2>3, <1>2, <1>4, <1>np DEF PagesEnd
  <2>4. CASE p # np
    <3>1. p \in 1..np - 1 /\ p + 1 \in 1..np
      BY <2>4, <1>2
    <3>2. pages'[p + 1] = pages[p + 1]
      BY <3>1, <1>1
    <3>3. pages[p + 1].start = PageEnd(p)
      BY <3>1, <1>np DEF Laid, Chained
    <3> QED
      BY <3>2, <3>3, <2>2
  <2> QED
    BY <2>3, <2>4
<1>8. ASSUME NEW p \in 1..np + 1
      PROVE  /\ pages'[p].start + pages'[p].len <= builder'.bytes_written
             /\ \A k \in 1..pages'[p].len :
                  Bytes(builder')[pages'[p].start + k] = HeaderOf(p, pages'[p].len)[k]
  <2>1. CASE p = np + 1
    <3>1. end + n <= builder'.bytes_written
      <4>1. end \in Nat
        BY <1>2
      <4> QED
        BY ONLY <4>1, <1>s
    <3>2. ASSUME NEW k \in 1..n PROVE Bytes(builder')[end + k] = HeaderOf(np + 1, n)[k]
      <4>1. k \in 1..Len(new)
        BY ONLY <1>b, <1>s, k \in 1..n
      <4> QED
        BY <4>1, <1>b, <1>2, <1>3
    <3> QED
      BY <2>1, <3>1, <3>2, <1>4
  <2>2. CASE p # np + 1
    <3>1. p \in 1..np
      BY <2>2, <1>2
    <3>2. pages'[p] = pages[p] /\ pages[p] \in PageType
      BY <3>1, <1>1, <1>2, <1>np
    <3>3. /\ pages[p].start + pages[p].len <= end
          /\ \A k \in 1..pages[p].len :
               Bytes(builder)[pages[p].start + k] = HeaderOf(p, pages[p].len)[k]
      BY <3>1, <1>np DEF Laid, Chained, end
    <3>4. pages[p].start \in Nat /\ pages[p].len \in Nat
      BY <3>2 DEF PageType
    <3>5. pages[p].start + pages[p].len <= builder'.bytes_written
      <4> DEFINE x == pages[p].start + pages[p].len
      <4>1. x <= end /\ x \in Nat /\ end \in Nat
        BY <3>3, <3>4, <1>2
      <4> HIDE DEF x
      <4>2. x <= builder'.bytes_written
        BY ONLY <4>1, <1>s
      <4> QED
        BY <4>2 DEF x
    <3>6. ASSUME NEW k \in 1..pages[p].len
          PROVE  Bytes(builder')[pages[p].start + k] = HeaderOf(p, pages[p].len)[k]
      <4>1. pages[p].start + k \in 1..end
        <5> DEFINE x == pages[p].start
                   y == pages[p].len
        <5>1. x + y <= end /\ x \in Nat /\ y \in Nat /\ end \in Nat /\ k \in 1..y
          BY <3>3, <3>4, <1>2
        <5> HIDE DEF x, y
        <5>2. x + k \in 1..end
          BY ONLY <5>1
        <5> QED
          BY <5>2 DEF x
      <4> QED
        BY <4>1, <3>3, <1>3
    <3> QED
      BY <3>2, <3>5, <3>6
  <2> QED
    BY <2>1, <2>2
<1>9. (\A p \in 1..Len(pages) :
         /\ pages[p].start + pages[p].len <= builder.bytes_written
         /\ \A k \in 1..pages[p].len :
              Bytes(builder)[pages[p].start + k] = HeaderOf(p, pages[p].len)[k])'
  <2>1. Len(pages') = np + 1 /\ \A b : Bytes(b)' = Bytes(b')
    BY <1>1 DEF Bytes
  <2> QED
    BY <1>8, <2>1 DEF HeaderOf, Bytes
<1>10. (PagesEnd = 4 + total.compressed)'
  <2> DEFINE t == total.compressed
  <2>1. end = 4 + t /\ t \in Nat
    BY <1>2
  <2>2. total'.compressed = t + n + size
    BY <1>t
  <2> HIDE DEF t
  <2>3. PagesEnd' = 4 + total'.compressed
    BY ONLY <2>1, <2>2, <1>5, <1>t
  <2> QED
    BY <2>3
<1> QED
  BY <1>s, <1>5, <1>6, <1>7, <1>9, <1>10 DEF Chained

LEMMA LaidInit ==
  ASSUME Init
  PROVE  Laid
<1>1. pc = "begin" /\ pages = <<>> /\ total.compressed = 0
  BY DEF Init
<1>2. Len(pages) = 0
  BY <1>1
<1> QED
  BY <1>1, <1>2 DEF Laid, Chained, PagesEnd

LEMMA BeginLaid ==
  ASSUME IInv, Abreast, Laid, Begin
  PROVE  Laid'
<1>1. /\ pc = "begin" /\ pc' = "blocks" /\ UNCHANGED <<total, pages>>
      /\ builder' = AddDirect(builder, Par1)
  BY DEF Begin
<1>2. Len(pages) = 0 /\ builder.bytes_written = 0 /\ BuilderOK(builder)
  BY <1>1 DEF Laid, Abreast, IInv
<1>3. Len(Par1) = 4
  BY MetadataLengths
<1>4. builder'.bytes_written = 4
  <2>1. builder'.bytes_written = builder.bytes_written + Len(Par1)
    BY <1>1, <1>2 DEF AddDirect, BuilderOK, BuilderType
  <2> QED
    BY <2>1, <1>2, <1>3
<1>5. PagesEnd = 4 /\ PagesEnd' = 4 /\ PagesEnd = 4 + total.compressed
  BY <1>1, <1>2 DEF PagesEnd, Laid, Chained
<1>6. Chained'
  BY <1>1, <1>2, <1>5 DEF Chained
<1> QED
  BY <1>1, <1>4, <1>5, <1>6 DEF Laid

LEMMA FullBlockLaid ==
  ASSUME IInv, Abreast, Laid, Filled(arr), Fits(arr), FullBlock
  PROVE  Laid'
<1>1. PICK n \in HeaderLens, size \in CompressedSizes(arr, i + 1) :
        AppendPage(n, size, UncompressedSize(arr, i + 1, size))
  BY DEF FullBlock
<1>2. pc = "blocks" /\ pc' = "blocks"
  BY DEF FullBlock
<1>3. Chained' /\ (builder.bytes_written = PagesEnd)'
  BY <1>1, <1>2, PageChained
<1> QED
  BY <1>2, <1>3 DEF Laid

LEMMA LastBlockLaid ==
  ASSUME IInv, Abreast, Laid, Filled(arr), Fits(arr), LastBlock
  PROVE  Laid'
<1>1. PICK n \in HeaderLens, size \in CompressedSizes(arr, i + 1) :
        AppendPage(n, size, UncompressedSize(arr, i + 1, size))
  BY DEF LastBlock
<1>2. pc = "blocks" /\ pc' = "footer"
  BY DEF LastBlock
<1>3. Chained' /\ (builder.bytes_written = PagesEnd)'
  BY <1>1, <1>2, PageChained
<1> QED
  BY <1>2, <1>3 DEF Laid

\* Concatenation under a name, which the provers do not expand.
Cat(s, t) == s \o t

LEMMA CatAssociative ==
  \A f, g, h \in Seq(Byte) : Cat(f, g) \in Seq(Byte) /\ Cat(Cat(f, g), h) = Cat(f, Cat(g, h))
BY ConcatAssociative DEF Cat

\* The end of the file that End writes.
LEMMA FileEnds ==
  ASSUME IInv, NEW n \in FooterLens,
         builder' = AddDirect(AddDirect(AddDirect(builder, FooterBytes(n)), FootSize(n)), Par1)
  PROVE  /\ builder.bytes_written \in Nat /\ n \in Nat
         /\ builder'.bytes_written = builder.bytes_written + n + 8
         /\ \A k \in 1..builder.bytes_written : Bytes(builder')[k] = Bytes(builder)[k]
         /\ \A k \in 1..8 :
              Bytes(builder')[builder'.bytes_written - 8 + k] = (FootSize(n) \o Par1)[k]
<1> DEFINE foot == FooterBytes(n)
           tail == FootSize(n) \o Par1
           new  == foot \o tail
           end  == builder.bytes_written
<1>1. n \in Nat /\ BuilderOK(builder) /\ end \in Nat
  BY WidthAssumption, BuilderFields DEF IInv
<1>2. /\ FooterBytes(n) \in Seq(Byte) /\ FootSize(n) \in Seq(Byte) /\ Par1 \in Seq(Byte)
      /\ Len(FooterBytes(n)) = n /\ Len(FootSize(n)) = 4 /\ Len(Par1) = 4
  BY <1>1, Metadata, MetadataLengths
<1>3. Bytes(builder') = Bytes(builder) \o FooterBytes(n) \o FootSize(n) \o Par1
  BY EndWritten
<1>4. builder'.bytes_written = end + n + 8
  BY EndWritten
<1>5. Bytes(builder') = Bytes(builder) \o new
  <2>1. Bytes(builder) \in Seq(Byte)
    BY <1>1, BytesAreBytes
  <2> DEFINE f == Bytes(builder)
             g == FootSize(n)
             h == Par1
  <2>2. f \in Seq(Byte) /\ foot \in Seq(Byte) /\ g \in Seq(Byte) /\ h \in Seq(Byte)
    BY <1>2, <2>1
  <2>3. ((f \o foot) \o g) \o h = f \o (foot \o (g \o h))
    <3> HIDE DEF f, g, h, foot
    <3>1. Cat(Cat(Cat(f, foot), g), h) = Cat(f, Cat(foot, Cat(g, h)))
      BY ONLY <2>2, CatAssociative
    <3> QED
      BY ONLY <3>1 DEF Cat
  <2> QED
    BY ONLY <1>3, <2>3
<1>6. tail \in Seq(Byte) /\ Len(tail) = 8
  <2> DEFINE g == FootSize(n)
             h == Par1
  <2>1. g \in Seq(Byte) /\ h \in Seq(Byte) /\ Len(g) = 4 /\ Len(h) = 4
    BY <1>2
  <2> HIDE DEF g, h
  <2>2. g \o h \in Seq(Byte) /\ Len(g \o h) = Len(g) + Len(h)
    BY ONLY <2>1, ConcatProperties
  <2>3. g \o h \in Seq(Byte) /\ Len(g \o h) = 8
    BY ONLY <2>1, <2>2
  <2> QED
    BY <2>3 DEF g, h
<1>7. foot \in Seq(Byte) /\ Len(foot) = n
  BY <1>2
<1> HIDE DEF foot, tail, end
<1>8. /\ new \in Seq(Byte) /\ Len(new) = n + 8
      /\ \A k \in 1..8 : new[n + k] = tail[k]
  <2>1. /\ new \in Seq(Byte) /\ Len(new) = Len(foot) + Len(tail)
        /\ \A k \in 1..Len(foot) + Len(tail) :
             new[k] = IF k <= Len(foot) THEN foot[k] ELSE tail[k - Len(foot)]
    BY ONLY <1>6, <1>7, ConcatProperties
  <2> HIDE DEF new
  <2>2. ASSUME NEW k \in 1..8 PROVE new[n + k] = tail[k]
    <3> DEFINE j == n + k
    <3>1. j \in 1..Len(foot) + Len(tail) /\ ~(j <= Len(foot)) /\ j - Len(foot) = k
      BY ONLY <1>1, <1>6, <1>7, k \in 1..8
    <3> HIDE DEF j
    <3>2. new[j] = tail[k]
      BY ONLY <2>1, <3>1
    <3> QED
      BY <3>2 DEF j
  <2> QED
    BY ONLY <2>1, <2>2, <1>6, <1>7
<1> HIDE DEF new
<1>9. /\ \A k \in 1..end : Bytes(builder')[k] = Bytes(builder)[k]
      /\ \A k \in 1..Len(new) : Bytes(builder')[end + k] = new[k]
  <2>1. BuilderOK(builder) /\ new \in Seq(Byte)
    BY <1>1, <1>8
  <2> QED
    BY ONLY <2>1, <1>5, Grown DEF end
<1>10. ASSUME NEW k \in 1..8
       PROVE  Bytes(builder')[builder'.bytes_written - 8 + k] = tail[k]
  <2> DEFINE j == n + k
  <2>1. j \in 1..Len(new) /\ builder'.bytes_written - 8 + k = end + j
    <3>1. n \in Nat /\ end \in Nat /\ Len(new) = n + 8
      BY <1>1, <1>8
    <3> DEFINE bw == builder'.bytes_written
    <3>2. bw = end + n + 8
      BY <1>4
    <3> HIDE DEF bw
    <3>3. j \in 1..Len(new) /\ bw - 8 + k = end + j
      BY ONLY <3>1, <3>2, k \in 1..8
    <3> QED
      BY <3>3 DEF bw
  <2>2. new[j] = tail[k]
    BY ONLY <1>8, k \in 1..8
  <2> HIDE DEF j
  <2> QED
    BY ONLY <2>1, <2>2, <1>9
<1> QED
  BY <1>1, <1>4, <1>9, <1>10 DEF end, tail

LEMMA EndLaid ==
  ASSUME IInv, Laid, End
  PROVE  Laid'
<1>1. PICK n \in FooterLens :
        /\ footer' = [len |-> n, data_page_offset |-> 4, type |-> ToParquetType(arr.type),
                      num_values |-> total.count,
                      total_compressed_size |-> total.compressed,
                      total_uncompressed_size |-> total.uncompressed]
        /\ builder' = AddDirect(AddDirect(AddDirect(builder, FooterBytes(n)), FootSize(n)), Par1)
  BY DEF End
<1>2. pc = "footer" /\ pc' = "done" /\ UNCHANGED <<total, pages>>
  BY DEF End
<1>3. /\ builder.bytes_written \in Nat /\ n \in Nat
      /\ builder'.bytes_written = builder.bytes_written + n + 8
      /\ \A k \in 1..builder.bytes_written : Bytes(builder')[k] = Bytes(builder)[k]
  BY <1>1, FileEnds
<1>4. \A k \in 1..8 :
        Bytes(builder')[builder'.bytes_written - 8 + k] = (FootSize(n) \o Par1)[k]
  BY <1>1, FileEnds
<1>5. /\ footer'.len = n /\ footer'.data_page_offset = 4
      /\ footer'.total_compressed_size = total'.compressed
  BY <1>1, <1>2
<1>6. PagesEnd' = PagesEnd /\ \A p : PageEnd(p)' = PageEnd(p)
  BY <1>2 DEF PagesEnd, PageEnd
<1>7. pages \in Seq(PageType)
  BY DEF IInv, TypeOK
<1>8. ASSUME NEW p \in 1..Len(pages)
      PROVE  /\ pages[p].start + pages[p].len <= builder'.bytes_written
             /\ \A k \in 1..pages[p].len :
                  Bytes(builder')[pages[p].start + k] = HeaderOf(p, pages[p].len)[k]
  <2> DEFINE x == pages[p].start
             y == pages[p].len
             end == builder.bytes_written
  <2>1. x \in Nat /\ y \in Nat
    <3>1. pages[p] \in PageType
      BY ONLY <1>7, p \in 1..Len(pages)
    <3> QED
      BY ONLY <3>1 DEF PageType
  <2>2. x + y <= end /\ \A k \in 1..y : Bytes(builder)[x + k] = HeaderOf(p, y)[k]
    BY DEF Laid, Chained
  <2>e. end \in Nat /\ builder'.bytes_written = end + n + 8 /\ n \in Nat
    BY <1>3
  <2> HIDE DEF x, y, end
  <2>3. x + y <= builder'.bytes_written
    BY ONLY <2>1, <2>2, <2>e
  <2>4. ASSUME NEW k \in 1..y PROVE Bytes(builder')[x + k] = HeaderOf(p, y)[k]
    <3>1. x + k \in 1..end
      BY ONLY <2>1, <2>2, <2>e, k \in 1..y
    <3> QED
      BY <3>1, <2>2, <1>3 DEF end
  <2> QED
    BY <2>3, <2>4 DEF x, y
<1>9. Chained'
  <2>1. \A b : Bytes(b)' = Bytes(b')
    BY DEF Bytes
  <2>2. PagesEnd = 4 + total.compressed
    BY DEF Laid, Chained
  <2>3. (\A p \in 1..Len(pages) :
          /\ pages[p].start + pages[p].len <= builder.bytes_written
          /\ \A k \in 1..pages[p].len :
               Bytes(builder)[pages[p].start + k] = HeaderOf(p, pages[p].len)[k])'
    <3>1. pages' = pages
      BY <1>2
    <3>2. \A p \in 1..Len(pages') :
            /\ pages'[p].start + pages'[p].len <= builder'.bytes_written
            /\ \A k \in 1..pages'[p].len :
                 Bytes(builder')[pages'[p].start + k] = HeaderOf(p, pages'[p].len)[k]
      BY ONLY <3>1, <1>8
    <3> QED
      BY ONLY <3>2 DEF HeaderOf, Bytes
  <2> QED
    BY <1>2, <1>6, <2>2, <2>3 DEF Laid, Chained
<1>10. builder.bytes_written = PagesEnd
  BY <1>2 DEF Laid
<1>11. builder'.bytes_written = PagesEnd' + footer'.len + 8
  BY <1>3, <1>5, <1>6, <1>10
<1>12. (\A k \in 1..8 :
         Bytes(builder)[builder.bytes_written - 8 + k] = (FootSize(footer.len) \o Par1)[k])'
  BY <1>4, <1>5 DEF Bytes, FootSize
<1> QED
  BY <1>2, <1>5, <1>9, <1>11, <1>12 DEF Laid

LEMMA NextLaid ==
  ASSUME ArraysFit
  PROVE  IInv /\ Abreast /\ Laid /\ [Next]_vars => Laid'
<1> SUFFICES ASSUME IInv, Abreast, Laid, [Next]_vars PROVE Laid'
  OBVIOUS
<1>1. Filled(arr) /\ Fits(arr)
  BY DEF IInv, TypeOK, ArraysFit
<1>2. CASE Begin     BY <1>2, BeginLaid
<1>3. CASE FullBlock BY <1>1, <1>3, FullBlockLaid
<1>4. CASE LastBlock BY <1>1, <1>4, LastBlockLaid
<1>5. CASE End       BY <1>5, EndLaid
<1>6. CASE UNCHANGED vars
  <2>1. UNCHANGED <<pc, pages, builder, total, footer>>
    BY <1>6 DEF vars
  <2>2. PagesEnd' = PagesEnd /\ Bytes(builder)' = Bytes(builder)
    BY ONLY <2>1 DEF PagesEnd, PageEnd, Bytes
  <2>3. (Chained <=> Chained')
    BY ONLY <2>1, <2>2 DEF Chained, PageEnd
  <2> HIDE DEF Chained
  <2> QED
    BY <2>1, <2>2, <2>3 DEF Laid
<1> QED
  BY <1>2, <1>3, <1>4, <1>5, <1>6 DEF Next

-----------------------------------------------------------------------------
(* Theorems. *)

\* What a slice of the file reads.
LEMMA SliceReads ==
  ASSUME NEW b, BuilderOK(b), NEW start \in Nat, NEW n \in Nat, start + n <= b.bytes_written,
         NEW x \in Seq(Byte), Len(x) = n, \A k \in 1..n : Bytes(b)[start + k] = x[k]
  PROVE  Slice(Finish(b), start, n) = x
<1> DEFINE m == Finish(b)
           len == b.bytes_written
           sl == Slice(m, start, n)
<1>1. FileSize(m) = len /\ len \in Nat
  BY Finished, BuilderFields
<1>2. start + n <= len
  OBVIOUS
<1> HIDE DEF m, len
<1>3. Available(m, start, n) = n
  BY ONLY <1>1, <1>2, start \in Nat, n \in Nat DEF Available, Smaller
<1>4. sl = [k \in 1..n |-> ByteAt(m, start + k - 1)]
  BY ONLY <1>3 DEF Slice
<1> HIDE DEF sl
<1>5. ASSUME NEW k \in 1..n PROVE ByteAt(m, start + k - 1) = x[k]
  <2> DEFINE j == start + k
  <2>1. j \in 1..len /\ j - 1 = start + k - 1
    BY ONLY <1>1, <1>2, start \in Nat, n \in Nat, k \in 1..n
  <2>2. Bytes(b)[j] = x[k]
    OBVIOUS
  <2> HIDE DEF j
  <2>3. Bytes(b)[j] = ByteAt(m, j - 1)
    BY <2>1 DEF Bytes, len, m
  <2> QED
    BY ONLY <2>1, <2>2, <2>3
<1>6. \A k \in 1..n : x[k] \in Byte
  OBVIOUS
<1>7. sl \in [1..n -> Byte]
  BY ONLY <1>4, <1>5, <1>6
<1>8. sl \in Seq(Byte) /\ Len(sl) = n
  BY ONLY <1>7, n \in Nat, SequenceOf
<1>9. \A k \in 1..n : sl[k] = x[k]
  BY ONLY <1>4, <1>5
<1>10. sl = x
  BY ONLY <1>8, <1>9, x \in Seq(Byte), Len(x) = n, SeqEqual
<1> QED
  BY <1>10 DEF sl, m

\* A reader of the map finds the pages.
LEMMA PagesAreFound ==
  ASSUME IInv, Abreast, Laid, pc = "done"
  PROVE  ReaderFindsPages
<1> DEFINE next(p) == pages[p].start + pages[p].len + pages[p].compressed_page_size
           last == Len(pages)
<1>1. /\ BuilderOK(builder) /\ map = Finish(builder) /\ footer \in FooterType
      /\ pages \in Seq(PageType) /\ last = i + 1 /\ i \in Nat
      /\ total.compressed \in Nat
  BY DEF IInv, TypeOK, Abreast
<1>2. FileSize(map) = builder.bytes_written /\ builder.bytes_written \in Nat
  BY <1>1, Finished, BuilderFields
<1>3. last \in Nat \ {0}
  BY <1>1
<1>4. pages[1].start = footer.data_page_offset
  BY <1>3 DEF Laid, Chained
<1>5. \A p \in 1..last - 1 : pages[p + 1].start = next(p)
  BY DEF Laid, Chained, PageEnd
<1>6. ASSUME NEW p \in 1..last
      PROVE  Slice(map, pages[p].start, pages[p].len) = HeaderOf(p, pages[p].len)
  <2> DEFINE x == pages[p].start
             y == pages[p].len
             h == HeaderOf(p, y)
  <2>1. x \in Nat /\ y \in Nat
    <3>1. pages[p] \in PageType
      BY ONLY <1>1, p \in 1..last
    <3> QED
      BY ONLY <3>1 DEF PageType
  <2>2. x + y <= builder.bytes_written /\ \A k \in 1..y : Bytes(builder)[x + k] = h[k]
    BY DEF Laid, Chained
  <2>p. p \in Nat
    BY <1>3
  <2> HIDE DEF x, y
  <2>3. h \in Seq(Byte)
    BY <2>1, <2>p, Metadata
  <2>4. h \in [1..y -> Byte]
    <3>1. \A k \in 1..y : [src |-> "header", at |-> p, nth |-> k] \in Byte
      BY ONLY <2>1, <2>p DEF Byte
    <3> QED
      BY ONLY <3>1 DEF HeaderOf
  <2> HIDE DEF h
  <2>5. Len(h) = y
    BY ONLY <2>1, <2>4, SequenceOf
  <2>6. Slice(Finish(builder), x, y) = h
    <3>1. BuilderOK(builder)
      BY ONLY <1>1
    <3>2. x + y <= builder.bytes_written
      BY ONLY <2>2
    <3>3. \A k \in 1..y : Bytes(builder)[x + k] = h[k]
      BY ONLY <2>2
    <3> QED
      BY ONLY <3>1, <3>2, <3>3, <2>1, <2>3, <2>5, SliceReads
  <2> QED
    BY <1>1, <2>6 DEF x, y, h
<1>7. next(last) = PagesEnd
  BY <1>3 DEF PagesEnd, PageEnd
<1> HIDE DEF next, last
<1>8. /\ PagesEnd = 4 + total.compressed /\ footer.data_page_offset = 4
      /\ footer.total_compressed_size = total.compressed
      /\ builder.bytes_written = PagesEnd + footer.len + 8
  BY DEF Laid, Chained
<1>9. footer.len \in Nat /\ PagesEnd \in Nat
  BY <1>1, <1>8 DEF FooterType
<1>10. next(last) = footer.data_page_offset + footer.total_compressed_size
  BY ONLY <1>7, <1>8
<1>11. next(last) = FileSize(map) - 8 - footer.len
  BY ONLY <1>2, <1>7, <1>8, <1>9
<1>12. Slice(map, FileSize(map) - 8, 8) = FootSize(footer.len) \o Par1
  <2> DEFINE start == builder.bytes_written - 8
             g == FootSize(footer.len)
             x == g \o Par1
  <2>1. start \in Nat /\ start + 8 <= builder.bytes_written /\ 8 \in Nat
    BY ONLY <1>2, <1>8, <1>9
  <2>2. \A k \in 1..8 : Bytes(builder)[start + k] = x[k]
    BY DEF Laid
  <2>3. g \in Seq(Byte) /\ Par1 \in Seq(Byte) /\ Len(g) = 4 /\ Len(Par1) = 4
    BY <1>9, Metadata, MetadataLengths
  <2> HIDE DEF g, start
  <2>4. x \in Seq(Byte) /\ Len(x) = Len(g) + Len(Par1)
    BY ONLY <2>3, ConcatProperties
  <2> HIDE DEF x
  <2>5. Len(x) = 8
    BY ONLY <2>3, <2>4
  <2>6. Slice(Finish(builder), start, 8) = x
    <3>1. BuilderOK(builder)
      BY ONLY <1>1
    <3>2. x \in Seq(Byte)
      BY ONLY <2>4
    <3> QED
      BY ONLY <3>1, <3>2, <2>1, <2>2, <2>5, SliceReads
  <2> QED
    BY ONLY <1>1, <1>2, <2>6 DEF x, g, start
<1> QED
  BY <1>4, <1>5, <1>6, <1>10, <1>11, <1>12 DEF ReaderFindsPages, next, last

\* For every array that has a value, and whose compressed blocks are smaller
\* than 2 GiB, BuildMap and MapBuilder (fmap.cc) do to the virtual file what a
\* Parquet writer does to a real one: each step appends, and the pages are
\* the payload, all of it, in order and once.
THEOREM FileIsWritten ==
  ASSUME ArraysFit
  PROVE  Spec => WritesParquet
<1>1. Init => Writer!Init /\ Abreast
  <2> SUFFICES ASSUME Init PROVE Writer!Init /\ Abreast
    OBVIOUS
  <2>1. Filled(arr)
    BY DEF Init, ArraysFit
  <2> QED
    BY <2>1, WriterInit, AbreastInit
<1>2. IInv /\ Abreast /\ [Next]_vars => Abreast'
  BY NextAbreast
<1>3. IInv /\ Abreast /\ [Next]_vars => [Writer!Next]_(Writer!vars)
  <2> SUFFICES ASSUME IInv, Abreast, [Next]_vars PROVE [Writer!Next]_(Writer!vars)
    OBVIOUS
  <2>1. Filled(arr) /\ Fits(arr)
    BY DEF IInv, TypeOK, ArraysFit
  <2>2. CASE Begin     BY <2>2, WriterBegin DEF Writer!Next
  <2>3. CASE FullBlock BY <2>1, <2>3, WriterFullBlock DEF Writer!Next
  <2>4. CASE LastBlock BY <2>1, <2>4, WriterLastBlock DEF Writer!Next
  <2>5. CASE End       BY <2>5, WriterEnd DEF Writer!Next
  <2>6. CASE UNCHANGED vars
    BY <2>6 DEF vars, Writer!vars, Content
  <2> QED
    BY <2>2, <2>3, <2>4, <2>5, <2>6 DEF Next
<1> QED
  BY <1>1, <1>2, <1>3, Invariance, PTL DEF Spec, WritesParquet, Writer!Spec

\* In the map that BuildMap returns for such an array a reader finds every page
\* header where the sizes in the headers before it send it, the footer after
\* the last page, and the length of the footer at the end (AppendPage,
\* AppendFooter and BuildMap, fmap.cc).
THEOREM PagesAreThere ==
  ASSUME ArraysFit
  PROVE  Spec => []ReaderFindsPages
<1>1. Init => Abreast /\ Laid
  <2> SUFFICES ASSUME Init PROVE Abreast /\ Laid
    OBVIOUS
  <2>1. Filled(arr)
    BY DEF Init, ArraysFit
  <2> QED
    BY <2>1, AbreastInit, LaidInit
<1>2. IInv /\ (Abreast /\ Laid) /\ [Next]_vars => (Abreast /\ Laid)'
  BY NextAbreast, NextLaid
<1>3. IInv /\ (Abreast /\ Laid) => ReaderFindsPages
  <2> SUFFICES ASSUME IInv, Abreast, Laid, pc = "done" PROVE ReaderFindsPages
    BY DEF ReaderFindsPages
  <2> QED
    BY PagesAreFound
<1> QED
  BY <1>1, <1>2, <1>3, Invariance, PTL DEF Spec

-----------------------------------------------------------------------------
(* Values: what the pages hold is what is announced. *)

\* x is a multiple of d.
Multiple(x, d) == \E q \in Int : x = d * q

\* A multiple leaves no remainder.
LEMMA MultipleOf ==
  ASSUME NEW x \in Int, NEW d \in {1, 4, 8}
  PROVE  Multiple(x, d) <=> x % d = 0
<1>1. CASE d = 1
  <2>1. x % 1 = 0 /\ x = 1 * x
    OBVIOUS
  <2> QED
    BY <1>1, <2>1 DEF Multiple
<1>2. CASE d = 4
  <2>1. x = 4 * (x \div 4) + (x % 4) /\ x \div 4 \in Int
    BY Z3
  <2>2. \A q \in Int : (4 * q) % 4 = 0
    BY Z3
  <2> QED
    BY <1>2, <2>1, <2>2 DEF Multiple
<1>3. CASE d = 8
  <2>1. x = 8 * (x \div 8) + (x % 8) /\ x \div 8 \in Int
    BY Z3
  <2>2. \A q \in Int : (8 * q) % 8 = 0
    BY Z3
  <2> QED
    BY <1>3, <2>1, <2>2 DEF Multiple
<1> QED
  BY <1>1, <1>2, <1>3

\* What is left of a multiple when a multiple is taken as often as it can be.
LEMMA MultipleLeft ==
  ASSUME NEW x \in Int, NEW m \in Nat \ {0}, NEW d \in Int, Multiple(x, d), Multiple(m, d)
  PROVE  Multiple(x % m, d)
<1>1. PICK q \in Int : x = d * q
  BY DEF Multiple
<1>2. PICK r \in Int : m = d * r
  BY DEF Multiple
<1>3. x % m = x - m * (x \div m) /\ x \div m \in Int
  <2>1. \A y, n \in Int : n > 0 => y % n = y - n * (y \div n) /\ y \div n \in Int
    BY Z3
  <2> QED
    BY <2>1
<1> DEFINE k == x \div m
<1>4. k \in Int /\ x % m = d * q - (d * r) * k
  BY <1>1, <1>2, <1>3
<1> HIDE DEF k
<1>5. d * q - (d * r) * k = d * (q - r * k)
  BY <1>4
<1>6. q - r * k \in Int
  BY <1>4
<1> QED
  BY <1>4, <1>5, <1>6 DEF Multiple

\* Sums and differences of multiples.
LEMMA MultipleSum ==
  ASSUME NEW d \in Int, NEW x, NEW y, Multiple(x, d), Multiple(y, d)
  PROVE  Multiple(x + y, d) /\ Multiple(x - y, d)
<1>1. PICK q \in Int : x = d * q
  BY DEF Multiple
<1>2. PICK r \in Int : y = d * r
  BY DEF Multiple
<1>3. d * q + d * r = d * (q + r) /\ d * q - d * r = d * (q - r)
  OBVIOUS
<1>4. q + r \in Int /\ q - r \in Int
  OBVIOUS
<1> QED
  BY ONLY <1>1, <1>2, <1>3, <1>4 DEF Multiple

LEMMA MultipleTimes ==
  ASSUME NEW d \in Int, NEW x, Multiple(x, d), NEW k \in Int
  PROVE  Multiple(x * k, d)
<1>1. PICK q \in Int : x = d * q
  BY DEF Multiple
<1>2. (d * q) * k = d * (q * k) /\ q * k \in Int
  OBVIOUS
<1> QED
  BY ONLY <1>1, <1>2 DEF Multiple

\* Widths are multiples of every size of a value.
LEMMA WholeWidths ==
  ASSUME NEW d \in {1, 4, 8}
  PROVE  Multiple(BlockSize, d) /\ Multiple(TwoTo31, d) /\ Multiple(2 * TwoTo31, d)
<1>1. /\ BlockSize \in Int /\ BlockSize % 8 = 0 /\ TwoTo31 \in Int /\ TwoTo31 % 8 = 0
  BY WidthAssumption
<1>2. ASSUME NEW x \in Int, x % 8 = 0 PROVE Multiple(x, d)
  <2>1. PICK q \in Int : x = 8 * q
    BY <1>2, MultipleOf DEF Multiple
  <2>2. 8 * q = 1 * (8 * q) /\ 8 * q = 4 * (2 * q) /\ 8 * q \in Int /\ 2 * q \in Int
    OBVIOUS
  <2>3. d = 1 \/ d = 4 \/ d = 8
    OBVIOUS
  <2> QED
    BY ONLY <2>1, <2>2, <2>3 DEF Multiple
<1>3. Multiple(BlockSize, d) /\ Multiple(TwoTo31, d)
  BY <1>1, <1>2
<1>4. Multiple(TwoTo31 * 2, d)
  BY <1>3, MultipleTimes
<1>5. TwoTo31 * 2 = 2 * TwoTo31
  BY <1>1
<1> QED
  BY <1>3, <1>4, <1>5

\* Pages of whole values.
LEMMA WholeBlocks ==
  ASSUME NEW a \in Arrays, Whole(a), NEW b \in Nat \ {0}, NEW size \in CompressedSizes(a, b)
  PROVE  Multiple(UncompressedSize(a, b, size), GetValueSize(a.type))
<1> DEFINE d == GetValueSize(a.type)
<1>1. d \in {1, 4, 8}
  BY ArrayFields, ValueSizes
<1>2. /\ a.total_bytes \in Nat /\ a.blk_sz \in Nat /\ a.last_blk_sz \in Nat
  BY ArrayFields
<1>w. /\ a.codec = "NONE" => a.total_bytes % d = 0
      /\ a.codec # "NONE" => a.blk_sz % d = 0 /\ a.last_blk_sz % d = 0
  BY DEF Whole
<1> HIDE DEF d
<1>3. CASE a.codec = "NONE"
  <2> DEFINE y == a.total_bytes - 1
             x == y % TwoTo64
             r == x % BlockSize
  <2>1. UncompressedSize(a, b, size) = size /\ (size = BlockSize \/ size = r + 1)
    BY <1>3 DEF UncompressedSize, CompressedSizes
  <2>2. Multiple(BlockSize, d)
    BY <1>1, WholeWidths
  <2>3. Multiple(r + 1, d)
    <3>1. /\ BlockSize \in Nat \ {0} /\ TwoTo64 \in Nat \ {0} /\ TwoTo64 % BlockSize = 0
      BY WidthAssumption
    <3>2. y \in Int
      BY <1>2
    <3> HIDE DEF y, x
    <3>3. \A z \in Int, m \in Nat \ {0} : z % m = z - m * (z \div m) /\ z \div m \in Int
      BY Z3
    <3>4. x \in Int /\ x = y - TwoTo64 * (y \div TwoTo64) /\ y \div TwoTo64 \in Int
      <4>1. y % TwoTo64 = y - TwoTo64 * (y \div TwoTo64) /\ y \div TwoTo64 \in Int
        BY ONLY <3>1, <3>2, <3>3
      <4>2. y % TwoTo64 \in Int
        BY <3>1, <3>2, Modulo
      <4> QED
        BY ONLY <4>1, <4>2 DEF x
    <3>5. r = x - BlockSize * (x \div BlockSize) /\ x \div BlockSize \in Int
      BY <3>1, <3>3, <3>4
    <3>6. TwoTo64 = BlockSize * (TwoTo64 \div BlockSize) /\ TwoTo64 \div BlockSize \in Int
      BY <3>1, <3>3
    <3>7. Multiple(TwoTo64, d)
      BY <1>1, <2>2, <3>6, MultipleTimes
    <3> HIDE DEF r
    <3> DEFINE p == TwoTo64 * (y \div TwoTo64)
               q == BlockSize * (x \div BlockSize)
    <3>8. Multiple(p, d) /\ Multiple(q, d)
      BY <1>1, <2>2, <3>4, <3>5, <3>7, MultipleTimes
    <3>9. p \in Int /\ q \in Int
      BY <3>1, <3>4, <3>5
    <3>10. x = y - p /\ r = x - q
      BY <3>4, <3>5
    <3> HIDE DEF p, q
    <3>11. r + 1 = (a.total_bytes - p) - q
      BY <1>2, <3>9, <3>10 DEF y
    <3>12. Multiple(a.total_bytes, d)
      BY <1>1, <1>2, <1>3, <1>w, MultipleOf
    <3> QED
      BY <1>1, <3>8, <3>11, <3>12, MultipleSum
  <2> QED
    BY <2>1, <2>2, <2>3 DEF d
<1>4. CASE a.codec # "NONE"
  <2>1. Multiple(a.blk_sz, d) /\ Multiple(a.last_blk_sz, d)
    BY <1>1, <1>2, <1>4, <1>w, MultipleOf
  <2> QED
    BY <1>4, <2>1 DEF UncompressedSize, d
<1> QED
  BY <1>3, <1>4

\* Cutting to 32 bits, signed or not, leaves whole values.
LEMMA WholeWhenCut ==
  ASSUME NEW d \in {1, 4, 8}, NEW x \in Nat, Multiple(x, d)
  PROVE  Multiple(ToUint32(x), d) /\ Multiple(ToInt32(ToUint32(x)), d)
<1> DEFINE m == 2 * TwoTo31
<1>1. m \in Nat \ {0} /\ Multiple(m, d) /\ d \in Int
  BY WidthAssumption, WholeWidths
<1>2. ToUint32(x) = x % m /\ \A y : ToUint32(y) = y % m
  BY DEF ToUint32
<1> HIDE DEF m
<1>3. Multiple(x % m, d)
  BY <1>1, MultipleLeft
<1> DEFINE u == x % m
<1>4. u \in Nat
  BY <1>1, Modulo
<1> HIDE DEF u
<1>5. Multiple(u % m, d)
  BY <1>1, <1>3, <1>4, MultipleLeft DEF u
<1>6. Multiple((u % m) - m, d)
  BY <1>1, <1>5, MultipleSum
<1>7. ToInt32(u) = u % m \/ ToInt32(u) = (u % m) - m
  BY <1>2 DEF ToInt32, m
<1>8. Multiple(ToInt32(u), d)
  BY <1>5, <1>6, <1>7
<1> QED
  BY <1>2, <1>3, <1>8 DEF u

\* Whole values, times their size.
LEMMA QuotientTimes ==
  ASSUME NEW d \in {1, 4, 8}, NEW x, Multiple(x, d)
  PROVE  Quotient(x, d) * d = x
<1>1. PICK q \in Int : x = d * q
  BY DEF Multiple
<1>2. CASE d = 1
  BY <1>1, <1>2, Z3 DEF Quotient
<1>3. CASE d = 4
  BY <1>1, <1>3, Z3 DEF Quotient
<1>4. CASE d = 8
  BY <1>1, <1>4, Z3 DEF Quotient
<1> QED
  BY <1>2, <1>3, <1>4

LEMMA PlainSizes ==
  \A t \in DataTypes : GetValueSize(t) > 1 => PlainSize(ToParquetType(t)) = GetValueSize(t)
BY DEF DataTypes, GetValueSize, ToParquetType, PlainSize

\* The page a step adds is one of whole values.
LEMMA PlainPageAdded ==
  ASSUME TypeOK, Whole(arr), WidePlainPages,
         NEW n \in HeaderLens, NEW size \in CompressedSizes(arr, i + 1),
         AppendPage(n, size, UncompressedSize(arr, i + 1, size))
  PROVE  WidePlainPages'
<1> DEFINE d == GetValueSize(arr.type)
           un == UncompressedSize(arr, i + 1, size)
           x == ToInt32(ToUint32(un))
<1>1. arr \in Arrays /\ i + 1 \in Nat \ {0} /\ pages \in Seq(PageType)
  BY DEF TypeOK
<1>2. d \in {1, 4, 8} /\ arr.type \in DataTypes
  BY <1>1, ArrayFields, ValueSizes
<1>3. un \in Nat /\ Multiple(un, d)
  BY <1>1, BlockSizes, WholeBlocks
<1>4. PICK page : /\ pages' = Append(pages, page) /\ arr' = arr
                  /\ page.uncompressed_page_size = x
                  /\ page.num_values = Quotient(x, d)
  BY DEF AppendPage
<1> HIDE DEF d, un
<1>5. Quotient(x, d) * d = x
  BY <1>2, <1>3, WholeWhenCut, QuotientTimes
<1> HIDE DEF x
<1>6. d > 1 => PlainSize(ToParquetType(arr.type)) = d
  BY <1>2, PlainSizes DEF d
<1> SUFFICES ASSUME d > 1, NEW p \in 1..Len(pages')
             PROVE  pages'[p].uncompressed_page_size
                      = pages'[p].num_values * PlainSize(ToParquetType(arr.type))
  BY <1>4 DEF WidePlainPages, PlainPages, d
<1>7. /\ Len(pages') = Len(pages) + 1 /\ pages'[Len(pages) + 1] = page
      /\ \A k \in 1..Len(pages) : pages'[k] = pages[k]
      /\ Len(pages) \in Nat
  BY ONLY <1>1, <1>4
<1>8. CASE p \in 1..Len(pages)
  <2>1. pages'[p] = pages[p]
    BY <1>7, <1>8
  <2> QED
    BY <1>8, <2>1 DEF WidePlainPages, PlainPages, d
<1>9. CASE p = Len(pages) + 1
  BY <1>4, <1>5, <1>6, <1>7, <1>9
<1> QED
  BY <1>7, <1>8, <1>9

\* When the arrays hold whole values, each page of values wider than a byte holds
\* the bytes that its values take in the encoding and the type announced, even
\* where the sizes were cut to 32 bits (AppendPage and ToParquetType, fmap.cc).
THEOREM PagesArePlain ==
  ASSUME \A a \in Arrays : Whole(a)
  PROVE  Spec => []WidePlainPages
<1>1. Init => WidePlainPages
  BY DEF Init, WidePlainPages, PlainPages
<1>2. IInv /\ WidePlainPages /\ [Next]_vars => WidePlainPages'
  <2> SUFFICES ASSUME IInv, WidePlainPages, [Next]_vars PROVE WidePlainPages'
    OBVIOUS
  <2>1. TypeOK /\ Whole(arr)
    BY DEF IInv, TypeOK
  <2>2. CASE Begin
    BY <2>2 DEF Begin, WidePlainPages, PlainPages
  <2>3. CASE FullBlock
    <3>1. PICK n \in HeaderLens, size \in CompressedSizes(arr, i + 1) :
            AppendPage(n, size, UncompressedSize(arr, i + 1, size))
      BY <2>3 DEF FullBlock
    <3> QED
      BY <3>1, <2>1, PlainPageAdded
  <2>4. CASE LastBlock
    <3>1. PICK n \in HeaderLens, size \in CompressedSizes(arr, i + 1) :
            AppendPage(n, size, UncompressedSize(arr, i + 1, size))
      BY <2>4 DEF LastBlock
    <3> QED
      BY <3>1, <2>1, PlainPageAdded
  <2>5. CASE End
    BY <2>5 DEF End, WidePlainPages, PlainPages
  <2>6. CASE UNCHANGED vars
    BY <2>6 DEF vars, WidePlainPages, PlainPages
  <2> QED
    BY <2>2, <2>3, <2>4, <2>5, <2>6 DEF Next
<1> QED
  BY <1>1, <1>2, Invariance, PTL DEF Spec

-----------------------------------------------------------------------------
(* Rows. *)

\* The bytes in the first b blocks, all full.
Held(a, b) == b * (IF a.codec = "NONE" THEN BlockSize ELSE a.blk_sz)

\* A page holds whole values, none of which is lost in 32 bits, and the blocks
\* make up the array.
LEMMA BlockHolds ==
  ASSUME NEW a \in Arrays, RowsFit(a), NEW b \in Nat, b <= FullBlks(a),
         NEW size \in CompressedSizes(a, b + 1),
         NEW un, un = UncompressedSize(a, b + 1, size)
  PROVE  /\ un \in Nat /\ un < TwoTo31 /\ Multiple(un, GetValueSize(a.type))
         /\ Held(a, b) \in Nat
         /\ b < FullBlks(a) => Held(a, b + 1) = Held(a, b) + un
         /\ b = FullBlks(a) => ArrayBytes(a) = Held(a, b) + un
<1>1. /\ Filled(a) /\ NumBlks(a) \in Nat \ {0} /\ FullBlks(a) = NumBlks(a) - 1
  BY BlockCount DEF RowsFit
<1>2. b + 1 \in Nat \ {0} /\ b + 1 \in 1..NumBlks(a)
  BY <1>1
<1>3. un \in Nat /\ size \in Nat
  BY <1>2, BlockSizes
<1>4. Multiple(un, GetValueSize(a.type))
  BY <1>2, WholeBlocks DEF RowsFit
<1>5. CASE a.codec = "NONE"
  <2>1. un = size
    BY <1>5 DEF UncompressedSize
  <2>2. EndOf(a, b) \in Nat /\ EndOf(a, b + 1) = EndOf(a, b) + size
        /\ EndOf(a, NumBlks(a)) = PayloadLen(a)
    <3>1. (b + 1) - 1 = b
      OBVIOUS
    <3>2. EndOf(a, (b + 1) - 1) \in Nat /\ EndOf(a, b + 1) = EndOf(a, (b + 1) - 1) + size
          /\ EndOf(a, NumBlks(a)) = PayloadLen(a)
      BY <1>1, <1>2, BlockFollows
    <3> QED
      BY ONLY <3>1, <3>2
  <2>3. EndOf(a, b) = Held(a, b)
    BY <1>1, <1>5 DEF EndOf, Held
  <2>4. b < FullBlks(a) => EndOf(a, b + 1) = Held(a, b + 1)
    BY <1>1, <1>5 DEF EndOf, Held
  <2>5. b = FullBlks(a) => ArrayBytes(a) = EndOf(a, b + 1)
    <3>1. b = FullBlks(a) => b + 1 = NumBlks(a)
      BY <1>1
    <3> QED
      BY <1>5, <2>2, <3>1 DEF ArrayBytes, PayloadLen
  <2>6. size < TwoTo31
    <3> DEFINE y == a.total_bytes - 1
               x == y % TwoTo64
    <3>1. /\ BlockSize \in Nat \ {0} /\ TwoTo64 \in Nat \ {0} /\ TwoTo31 \in Nat
          /\ BlockSize < TwoTo31
      BY WidthAssumption
    <3>2. y \in Int
      BY ArrayFields
    <3>3. size = BlockSize \/ size = (x % BlockSize) + 1
      BY <1>5 DEF CompressedSizes
    <3> HIDE DEF y
    <3>4. x \in 0..TwoTo64 - 1
      BY <3>1, <3>2, Modulo
    <3> HIDE DEF x
    <3>5. x % BlockSize \in 0..BlockSize - 1
      BY <3>1, <3>4, Modulo
    <3> QED
      BY ONLY <3>1, <3>3, <3>5
  <2> QED
    BY ONLY <1>3, <1>4, <2>1, <2>2, <2>3, <2>4, <2>5, <2>6
<1>6. CASE a.codec # "NONE"
  <2>1. /\ a.blk_sz \in Nat /\ a.blk_sz < TwoTo31 /\ a.last_blk_sz \in Nat
        /\ a.last_blk_sz < TwoTo31 /\ a.last_blk_sz # 0
    <3>1. a.blk_sz < TwoTo31 /\ a.last_blk_sz \in 1..TwoTo31 - 1
      BY <1>6 DEF RowsFit
    <3>2. TwoTo31 \in Nat
      BY WidthAssumption
    <3>3. a.blk_sz \in Nat
      BY ArrayFields
    <3> QED
      BY ONLY <3>1, <3>2, <3>3
  <2>2. un = IF b < FullBlks(a) THEN a.blk_sz ELSE a.last_blk_sz
    <3>1. b + 1 <= FullBlks(a) <=> b < FullBlks(a)
      BY <1>1
    <3> QED
      BY <1>6, <3>1 DEF UncompressedSize
  <2>3. Held(a, b) = b * a.blk_sz /\ Held(a, b + 1) = (b + 1) * a.blk_sz
    BY <1>6 DEF Held
  <2>4. b * a.blk_sz \in Nat /\ (b + 1) * a.blk_sz = b * a.blk_sz + a.blk_sz
    BY <2>1
  <2>5. ArrayBytes(a) = FullBlks(a) * a.blk_sz + a.last_blk_sz
    <3>1. NumBlks(a) = a.num_blks
      BY <1>6 DEF NumBlks
    <3> QED
      BY <1>1, <1>6, <2>1, <3>1 DEF ArrayBytes
  <2>6. b < FullBlks(a) => Held(a, b + 1) = Held(a, b) + un
    BY ONLY <2>2, <2>3, <2>4
  <2>7. b = FullBlks(a) => ArrayBytes(a) = Held(a, b) + un
    BY ONLY <1>1, <2>2, <2>3, <2>5
  <2> QED
    BY ONLY <1>3, <1>4, <2>1, <2>2, <2>3, <2>4, <2>6, <2>7
<1> QED
  BY <1>5, <1>6

LEMMA WholeQuotient ==
  ASSUME NEW d \in {1, 4, 8}, NEW x \in Nat, Multiple(x, d)
  PROVE  x \div d \in Nat /\ (x \div d) * d = x /\ Quotient(x, d) = x \div d
<1>1. x \div d \in Nat
  BY Division
<1>2. Quotient(x, d) = x \div d
  BY DEF Quotient
<1>3. Quotient(x, d) * d = x
  BY QuotientTimes
<1> QED
  BY <1>1, <1>2, <1>3

LEMMA FitsUncut ==
  ASSUME NEW x \in Nat, x < TwoTo31
  PROVE  ToUint32(x) = x /\ ToInt32(x) = x
<1>1. ToUint32(x) = x
  <2>1. 2 * TwoTo31 \in Nat /\ x < 2 * TwoTo31
    BY WidthAssumption
  <2> QED
    BY <2>1, SmallModulo DEF ToUint32
<1> QED
  BY <1>1 DEF ToInt32

\* The values of the pages, and what the totals say of them.
Values == [p \in 1..Len(pages) |-> pages[p].num_values]

Counted ==
  /\ pc \in {"begin", "blocks"} => total.count * GetValueSize(arr.type) = Held(arr, i)
  /\ pc \in {"footer", "done"} => total.count * GetValueSize(arr.type) = ArrayBytes(arr)
  /\ SumOver(Values, 1..Len(pages)) = total.count
  /\ pc = "done" => footer.num_values = total.count

\* AppendPage adds the values of its block to both counts.
LEMMA PageCounted ==
  ASSUME IInv, Counted, RowsFit(arr), i <= FullBlks(arr),
         NEW n \in HeaderLens, NEW size \in CompressedSizes(arr, i + 1),
         NEW un, un = UncompressedSize(arr, i + 1, size),
         AppendPage(n, size, un)
  PROVE  /\ total'.count * GetValueSize(arr.type) = total.count * GetValueSize(arr.type) + un
         /\ SumOver(Values, 1..Len(pages))' = total'.count
<1> DEFINE d == GetValueSize(arr.type)
<1>1. /\ arr \in Arrays /\ i \in Nat /\ pages \in Seq(PageType)
      /\ total.count \in Nat
  BY DEF IInv, TypeOK
<1>2. d \in {1, 4, 8}
  BY <1>1, ArrayFields, ValueSizes
<1>3. un \in Nat /\ un < TwoTo31 /\ Multiple(un, d)
  BY <1>1, BlockHolds
<1>4. ToUint32(un) = un /\ ToInt32(un) = un
  BY <1>3, FitsUncut
<1>5. PICK page : /\ pages' = Append(pages, page)
                  /\ page.num_values = Quotient(ToInt32(ToUint32(un)), d)
                  /\ total'.count = total.count + (ToUint32(un) \div d)
  BY DEF AppendPage, AddPage
<1> HIDE DEF d
<1> DEFINE q == un \div d
<1>6. q \in Nat /\ q * d = un /\ Quotient(un, d) = q
  BY <1>2, <1>3, WholeQuotient
<1>7. page.num_values = q /\ total'.count = total.count + q
  BY <1>4, <1>5, <1>6
<1> HIDE DEF q
<1>8. total'.count * d = total.count * d + un
  <2> DEFINE c == total.count
  <2>1. c \in Nat /\ d \in Nat
    BY <1>1, <1>2
  <2>2. total'.count = c + q
    BY <1>7
  <2> HIDE DEF c
  <2>3. (c + q) * d = c * d + q * d
    BY <1>6, <2>1
  <2>4. total'.count * d = c * d + un
    BY ONLY <1>6, <2>2, <2>3
  <2> QED
    BY <2>4 DEF c
<1> DEFINE m == Len(pages)
           v == [p \in 1..m |-> pages[p].num_values]
           w == [p \in 1..m + 1 |-> pages'[p].num_values]
<1>9. /\ Len(pages') = m + 1 /\ pages'[m + 1] = page /\ m \in Nat
      /\ \A k \in 1..m : pages'[k] = pages[k] /\ pages[k] \in PageType
  BY ONLY <1>1, <1>5
<1>10. \A k \in 1..m : pages[k].num_values \in Int
  BY <1>9 DEF PageType
<1> HIDE DEF m
<1>11. v \in [1..m -> Int]
  BY <1>10
<1>12. w[m + 1] = q /\ \A k \in 1..m : w[k] = v[k]
  BY <1>7, <1>9
<1>13. w \in [1..m + 1 -> Int]
  <2>1. \A k \in 1..m + 1 : k \in 1..m \/ k = m + 1
    BY <1>9
  <2>2. \A k \in 1..m + 1 : pages'[k].num_values \in Int
    BY <1>6, <1>7, <1>9, <1>10, <2>1
  <2> QED
    BY <2>2
<1>14. Values = v /\ Values' = w /\ (1..Len(pages))' = 1..m + 1
  BY <1>9 DEF Values, m
<1>15. SumOver(v, 1..m) = total.count
  BY <1>14 DEF Counted, m
<1> HIDE DEF v, w
<1>16. SumOver(w, 1..m + 1) = SumOver(v, 1..m) + q
  BY <1>9, <1>11, <1>12, <1>13, SumAppends
<1>17. SumOver(Values, 1..Len(pages))' = SumOver(w, 1..m + 1)
  BY <1>14
<1> QED
  BY <1>7, <1>8, <1>15, <1>16, <1>17 DEF d

LEMMA CountedInit ==
  ASSUME Init
  PROVE  Counted
<1>1. pc = "begin" /\ i = 0 /\ total.count = 0 /\ pages = <<>> /\ arr \in Arrays
  BY DEF Init
<1>2. GetValueSize(arr.type) \in {1, 4, 8}
  BY <1>1, ArrayFields, ValueSizes
<1>3. Held(arr, i) = 0 /\ total.count * GetValueSize(arr.type) = 0
  <2>1. (IF arr.codec = "NONE" THEN BlockSize ELSE arr.blk_sz) \in Nat
    BY <1>1, ArrayFields, WidthAssumption
  <2> QED
    BY <1>1, <1>2, <2>1 DEF Held
<1>4. 1..Len(pages) = {}
  BY <1>1
<1>5. SumOver(Values, 1..Len(pages)) = 0
  BY <1>4, SumNone
<1> QED
  BY <1>1, <1>3, <1>5 DEF Counted

LEMMA NextCounted ==
  ASSUME IInv, Within, Counted, RowsFit(arr), [Next]_vars
  PROVE  Counted'
<1>1. arr \in Arrays /\ i \in Nat /\ i <= FullBlks(arr) /\ FullBlks(arr) \in Int
  BY BlockCount DEF IInv, TypeOK, Within, RowsFit
<1>2. CASE Begin
  <2>1. /\ pc = "begin" /\ pc' = "blocks"
        /\ arr' = arr /\ i' = i /\ total' = total /\ pages' = pages
    BY <1>2 DEF Begin
  <2>2. SumOver(Values, 1..Len(pages))' = SumOver(Values, 1..Len(pages))
    BY <2>1 DEF Values
  <2> QED
    BY <2>1, <2>2 DEF Counted
<1>3. CASE FullBlock
  <2>1. PICK n \in HeaderLens, size \in CompressedSizes(arr, i + 1) :
          AppendPage(n, size, UncompressedSize(arr, i + 1, size))
    BY <1>3 DEF FullBlock
  <2> DEFINE un == UncompressedSize(arr, i + 1, size)
  <2>2. pc = "blocks" /\ pc' = "blocks" /\ i' = i + 1 /\ arr' = arr /\ i < FullBlks(arr)
    BY <1>3, <2>1 DEF FullBlock, AppendPage
  <2>3. /\ total'.count * GetValueSize(arr.type) = total.count * GetValueSize(arr.type) + un
        /\ SumOver(Values, 1..Len(pages))' = total'.count
    BY <1>1, <2>1, PageCounted
  <2>4. Held(arr, i + 1) = Held(arr, i) + un
    BY <1>1, <2>1, <2>2, BlockHolds
  <2> HIDE DEF un
  <2>5. total'.count * GetValueSize(arr.type) = Held(arr, i')
    BY <2>2, <2>3, <2>4 DEF Counted
  <2> QED
    BY <2>2, <2>3, <2>5 DEF Counted, Held
<1>4. CASE LastBlock
  <2>1. PICK n \in HeaderLens, size \in CompressedSizes(arr, i + 1) :
          AppendPage(n, size, UncompressedSize(arr, i + 1, size))
    BY <1>4 DEF LastBlock
  <2> DEFINE un == UncompressedSize(arr, i + 1, size)
  <2>2. pc = "blocks" /\ pc' = "footer" /\ arr' = arr /\ i = FullBlks(arr)
    <3>1. i >= FullBlks(arr)
      BY <1>4 DEF LastBlock
    <3> QED
      BY <1>1, <1>4, <2>1, <3>1 DEF LastBlock, AppendPage
  <2>3. /\ total'.count * GetValueSize(arr.type) = total.count * GetValueSize(arr.type) + un
        /\ SumOver(Values, 1..Len(pages))' = total'.count
    BY <1>1, <2>1, PageCounted
  <2>4. ArrayBytes(arr) = Held(arr, i) + un
    BY <1>1, <2>1, <2>2, BlockHolds
  <2> HIDE DEF un
  <2>5. total'.count * GetValueSize(arr.type) = ArrayBytes(arr)
    BY <2>2, <2>3, <2>4 DEF Counted
  <2> QED
    BY <2>2, <2>3, <2>5 DEF Counted, ArrayBytes
<1>5. CASE End
  <2>1. /\ pc = "footer" /\ pc' = "done" /\ footer'.num_values = total.count
        /\ arr' = arr /\ total' = total /\ pages' = pages
    BY <1>5 DEF End
  <2>2. SumOver(Values, 1..Len(pages))' = SumOver(Values, 1..Len(pages))
    BY <2>1 DEF Values
  <2> QED
    BY <2>1, <2>2 DEF Counted
<1>6. CASE UNCHANGED vars
  <2>1. /\ pc' = pc /\ arr' = arr /\ i' = i /\ total' = total /\ pages' = pages
        /\ footer' = footer
    BY <1>6 DEF vars
  <2>2. SumOver(Values, 1..Len(pages))' = SumOver(Values, 1..Len(pages))
    BY <2>1 DEF Values
  <2> QED
    BY <2>1, <2>2 DEF Counted
<1> QED
  BY <1>2, <1>3, <1>4, <1>5, <1>6 DEF Next

\* When the arrays hold whole values and the header gives the size of the last
\* block, the footer promises as many rows as the array has values, and the
\* pages hold that many between them (total_count and num_values, fmap.cc).
THEOREM RowsAreThere ==
  ASSUME \A a \in Arrays : RowsFit(a)
  PROVE  Spec => []RowsMatchArray
<1>1. Init => Within /\ Counted
  <2>1. ASSUME Init PROVE Within
    BY <2>1, WithinInit DEF Init, RowsFit
  <2>2. ASSUME Init PROVE Counted
    BY <2>2, CountedInit
  <2> QED
    BY <2>1, <2>2
<1>2. IInv /\ Within /\ Counted /\ [Next]_vars => (Within /\ Counted)'
  <2> SUFFICES ASSUME IInv, Within, Counted, [Next]_vars PROVE Within' /\ Counted'
    OBVIOUS
  <2>1. \A a \in Arrays : Filled(a)
    BY DEF RowsFit
  <2>2. RowsFit(arr)
    BY DEF IInv, TypeOK
  <2> QED
    BY <2>1, <2>2, NextWithin, NextCounted
<1>3. Counted => RowsMatchArray
  <2>1. DOMAIN Values = 1..Len(pages)
    BY DEF Values
  <2>2. ASSUME Counted, pc = "done"
        PROVE  /\ footer.num_values * GetValueSize(arr.type) = ArrayBytes(arr)
               /\ SumOver(Values, DOMAIN Values) = footer.num_values
    BY <2>1, <2>2 DEF Counted
  <2> QED
    BY <2>2 DEF RowsMatchArray, Values, SumOver, FoldFunction, FoldFunctionOnSet, MapThenFoldSet
<1> QED
  BY <1>1, <1>2, <1>3, Invariance, PTL DEF Spec

=============================================================================
