-------------------------- MODULE FilePread_proofs --------------------------
(***************************************************************************)
(* What FilePread says of concurrent reads holds for any number of         *)
(* threads, any maps that are well formed and any truncations: the type    *)
(* invariant, that a successful read returns exactly the slice asked for,  *)
(* and that FilePread implements RandomAccess.                             *)
(***************************************************************************)
EXTENDS FilePread, TLAPS

(* The inductive invariant. *)

\* What the locals of FileMap::Pread say of the request they serve: buf holds
\* what the file holds from the offset asked for up to offset, and i is the
\* region that offset is in, or the empty one or the end just before it.
FrameOK(q, f) ==
  /\ f.offset = q.offset + Len(f.buf)
  /\ f.size + Len(f.buf) = q.size
  /\ Len(f.buf) > 0 => f.offset <= FileSize(q.map)
  /\ \A k \in 1..Len(f.buf) : f.buf[k] = ByteAt(q.map, q.offset + k - 1)
  /\ f.offset < FileSize(q.map) =>
       /\ f.i \in 1..NRegions(q.map)
       /\ q.map.offsets[f.i] <= f.offset
       /\ f.offset <= q.map.offsets[f.i + 1]

\* What the locals of PreadTyped say of the frame they serve: out holds what
\* the region holds, and the next group and skip name the next byte.
DecoderOK(q, f, d) ==
  /\ d.size = Want(f, q.map)
  /\ Len(d.out) <= d.size
  /\ \A k \in 1..Len(d.out) :
       d.out[k] = RegionByte(q.map, f.i, RegionOffset(f, q.map) + k - 1)
  /\ Len(d.out) < d.size => 3 * d.group + d.skip = PayloadOffset(f, q.map) + Len(d.out)

\* data is what the region of a frame holds from the frame's offset on.
Reads(q, f, data) ==
  /\ data \in Seq(Byte)
  /\ Len(data) <= Want(f, q.map)
  /\ \A k \in 1..Len(data) :
       data[k] = RegionByte(q.map, f.i, RegionOffset(f, q.map) + k - 1)

\* A pass of the loop over a mapped region, raw or base64, is under way.
InPass(q, f, b64) ==
  /\ f.size # 0
  /\ f.offset < FileSize(q.map)
  /\ IsMapped(q.map, f.i)
  /\ q.map.pending_base64_decoding = b64

ThreadOK(r) ==
  /\ pc[r] # "idle" => req[r] \in Requests /\ FrameOK(req[r], frame[r])
  /\ pc[r] = "pread" => InPass(req[r], frame[r], FALSE)
  /\ pc[r] = "decode" => /\ InPass(req[r], frame[r], TRUE)
                         /\ DecoderOK(req[r], frame[r], decoder[r])
  /\ ret[r].status = "ok" =>
       /\ req[r] \in Requests
       /\ ret[r].data = Slice(req[r].map, req[r].offset, req[r].size)

IInv == TypeOK /\ \A r \in Readers : ThreadOK(r)

-----------------------------------------------------------------------------
(* Lemmas about maps. *)

\* The marks of an ordered sequence of at least two.
LEMMA OrderedBounds ==
  ASSUME NEW s \in Seq(Nat), NEW n \in Nat, Len(s) = n + 1, Ordered(s), NEW i \in 1..n
  PROVE  /\ s[i] \in Nat /\ s[i + 1] \in Nat /\ s[n + 1] \in Nat
         /\ s[i] <= s[i + 1] /\ s[i + 1] <= s[n + 1]
         /\ \A j \in 1..n : i < j => s[i + 1] <= s[j]
<1>1. s[i] \in Nat /\ s[i + 1] \in Nat /\ s[n + 1] \in Nat
  OBVIOUS
<1>2. \A j, k \in 1..n + 1 : j <= k => s[j] <= s[k]
  BY DEF Ordered
<1>3. s[i] <= s[i + 1] /\ s[i + 1] <= s[n + 1]
  BY <1>2
<1>4. ASSUME NEW j \in 1..n, i < j PROVE s[i + 1] <= s[j]
  <2>1. i + 1 \in 1..n + 1 /\ j \in 1..n + 1 /\ i + 1 <= j
    BY <1>4
  <2> QED
    BY <2>1, <1>2
<1> QED
  BY <1>1, <1>3, <1>4

\* The size of the file of a well-formed map is its last mark.
LEMMA FileSizes ==
  ASSUME NEW m, WellFormed(m)
  PROVE  FileSize(m) \in Nat
<1>1. m.offsets \in Seq(Nat) /\ m.underlying_offsets \in Seq(Int)
      /\ Len(m.offsets) = Len(m.underlying_offsets) + 1
  BY DEF WellFormed
<1>2. Len(m.offsets) \in 1..Len(m.offsets)
  BY ONLY <1>1
<1> QED
  BY ONLY <1>1, <1>2 DEF FileSize

\* What a well-formed map gives a region: its bounds, typed and ordered.
LEMMA RegionBounds ==
  ASSUME NEW m, WellFormed(m), NEW i \in 1..NRegions(m)
  PROVE  /\ NRegions(m) \in Nat
         /\ Len(m.offsets) = NRegions(m) + 1
         /\ Len(m.underlying_offsets) = NRegions(m)
         /\ m.offsets[i] \in Nat
         /\ m.offsets[i + 1] \in Nat
         /\ m.underlying_offsets[i] \in Int
         /\ m.offsets[i] <= m.offsets[i + 1]
         /\ RegionLen(m, i) \in Nat
         /\ FileSize(m) = m.offsets[NRegions(m) + 1]
         /\ FileSize(m) \in Nat
         /\ m.offsets[i + 1] <= FileSize(m)
         /\ \A j \in 1..NRegions(m) : i < j => m.offsets[i + 1] <= m.offsets[j]
<1>1. /\ m.offsets \in Seq(Nat)
      /\ m.underlying_offsets \in Seq(Int)
      /\ Len(m.offsets) = Len(m.underlying_offsets) + 1
      /\ Ordered(m.offsets)
  BY DEF WellFormed
<1>2. /\ NRegions(m) \in Nat
      /\ Len(m.offsets) = NRegions(m) + 1
      /\ Len(m.underlying_offsets) = NRegions(m)
  BY <1>1 DEF NRegions
<1>3. FileSize(m) = m.offsets[NRegions(m) + 1]
  BY <1>2 DEF FileSize
<1>4. m.underlying_offsets[i] \in Int
  BY <1>1, <1>2
<1>5. m.offsets[i] \in Nat /\ m.offsets[i + 1] \in Nat /\ m.offsets[i] <= m.offsets[i + 1]
  BY <1>1, <1>2, OrderedBounds
<1>6. RegionLen(m, i) \in Nat
  BY <1>5 DEF RegionLen
<1> QED
  BY <1>1, <1>2, <1>3, <1>4, <1>6, OrderedBounds

\* Exactly one region holds a position that lies in a region.
LEMMA RegionAtUnique ==
  ASSUME NEW m, WellFormed(m), NEW i \in 1..NRegions(m), NEW pos \in Nat,
         m.offsets[i] <= pos, pos < m.offsets[i + 1]
  PROVE  RegionAt(m, pos) = i
<1> DEFINE P(j) == j \in 1..NRegions(m) /\ m.offsets[j] <= pos /\ pos < m.offsets[j + 1]
<1>1. \A j \in 1..NRegions(m) : P(j) => j = i
  <2> SUFFICES ASSUME NEW j \in 1..NRegions(m), P(j), j # i PROVE FALSE
    OBVIOUS
  <2>1. m.offsets[i + 1] \in Nat /\ m.offsets[i] \in Nat /\ (i < j => m.offsets[i + 1] <= m.offsets[j])
    BY RegionBounds
  <2>2. m.offsets[j + 1] \in Nat /\ m.offsets[j] \in Nat /\ (j < i => m.offsets[j + 1] <= m.offsets[i])
    BY RegionBounds
  <2>3. NRegions(m) \in Nat
    BY RegionBounds
  <2> QED
    BY <2>1, <2>2, <2>3
<1>2. P(i)
  OBVIOUS
<1> QED
  BY <1>1, <1>2 DEF RegionAt

\* The bytes of a region are those of the file at its positions.
LEMMA ByteAtRegion ==
  ASSUME NEW m, WellFormed(m), NEW i \in 1..NRegions(m), NEW pos \in Nat,
         m.offsets[i] <= pos, pos < m.offsets[i + 1]
  PROVE  ByteAt(m, pos) = RegionByte(m, i, pos - m.offsets[i])
BY RegionAtUnique DEF ByteAt

\* The maps of the instance are well formed and lie in their payloads.
LEMMA RequestMap ==
  ASSUME NEW q \in Requests
  PROVE  /\ q.map \in Maps /\ WellFormed(q.map)
         /\ PayloadLen[q.map] \in Nat /\ MappedWithin(q.map, PayloadLen[q.map])
         /\ q.offset \in Nat /\ q.size \in Nat
BY MapsAssumption, RequestAssumption DEF Requests

-----------------------------------------------------------------------------
(* Lemmas about the loop of FileMap::Pread. *)

\* Bounds of a pass: what it asks of its region is positive or the region is
\* used up, stays within the region and within the request.
LEMMA WantBounds ==
  ASSUME NEW q \in Requests, NEW f \in FrameType, FrameOK(q, f),
         f.offset < FileSize(q.map)
  PROVE  /\ f.i \in 1..NRegions(q.map)
         /\ Want(f, q.map) \in Nat
         /\ RegionOffset(f, q.map) \in Nat
         /\ Want(f, q.map) <= f.size
         /\ RegionOffset(f, q.map) + Want(f, q.map) <= RegionLen(q.map, f.i)
         /\ f.offset + Want(f, q.map) <= q.map.offsets[f.i + 1]
<1>1. f.i \in 1..NRegions(q.map) /\ q.map.offsets[f.i] <= f.offset /\ f.offset <= q.map.offsets[f.i + 1]
  BY DEF FrameOK
<1>2. WellFormed(q.map)
  BY RequestMap
<1>3. q.map.offsets[f.i] \in Nat /\ q.map.offsets[f.i + 1] \in Nat
  BY <1>1, <1>2, RegionBounds
<1>4. f.offset \in Nat /\ f.size \in Nat
  BY DEF FrameType
<1> QED
  BY <1>1, <1>3, <1>4 DEF Want, RegionOffset, RegionLen, Smaller

\* A pass that appends the bytes its region holds leaves the frame in order.
LEMMA AdvancedOK ==
  ASSUME NEW q \in Requests, NEW f \in FrameType, FrameOK(q, f),
         f.size # 0, f.offset < FileSize(q.map),
         NEW data, Reads(q, f, data)
  PROVE  /\ Advanced(f, q.map, data) \in FrameType
         /\ FrameOK(q, Advanced(f, q.map, data))
<1> DEFINE m  == q.map
           g  == Advanced(f, m, data)
           n  == Len(data)
           lo == m.offsets[f.i]
           hi == m.offsets[f.i + 1]
<1>1. /\ f.i \in 1..NRegions(m)
      /\ f.offset \in Nat /\ f.size \in Nat /\ f.i \in Nat /\ f.buf \in Seq(Byte)
      /\ q.offset \in Nat /\ q.size \in Nat
      /\ WellFormed(m)
  BY WantBounds, RequestMap DEF FrameType
<1>2. data \in Seq(Byte) /\ n \in Nat
  BY DEF Reads
<1>3. NRegions(m) \in Nat
  BY <1>1, RegionBounds
<1>4. FileSize(m) \in Nat /\ lo \in Nat /\ hi \in Nat /\ hi <= FileSize(m)
  BY <1>1, RegionBounds
<1>5. lo <= f.offset
  BY DEF FrameOK
<1>6. n <= f.size /\ f.offset + n <= hi
  <2>1. n <= Want(f, m)
    BY DEF Reads
  <2> HIDE DEF n, hi
  <2>2. Want(f, m) \in Nat /\ Want(f, m) <= f.size
    BY WantBounds
  <2>3. f.offset + Want(f, m) <= hi
    BY WantBounds DEF hi
  <2> QED
    BY <2>1, <2>2, <2>3, <1>1, <1>2, <1>4
<1>7. g = [offset |-> f.offset + n, size |-> f.size - n,
           i |-> IF f.offset + n >= hi THEN f.i + 1 ELSE f.i, buf |-> f.buf \o data]
  BY DEF Advanced
<1> HIDE DEF g, lo, hi
<1>buf. Len(g.buf) = Len(f.buf) + n /\ g.buf \in Seq(Byte)
  BY <1>1, <1>2, <1>7
<1> HIDE DEF n
<1>lohi. f.offset \in Nat /\ lo \in Nat /\ lo <= f.offset /\ f.offset + n <= hi /\ n \in Nat /\ hi \in Nat
  BY <1>1, <1>2, <1>4, <1>5, <1>6
<1>pos. g.offset = f.offset + n /\ g.size = f.size - n
  BY <1>7
<1>region. /\ g.offset >= hi => g.i = f.i + 1
           /\ g.offset < hi => g.i = f.i
  BY <1>1, <1>2, <1>4, <1>7
<1>8. g \in FrameType
  <2>1. g.offset \in Nat /\ g.size \in Nat
    BY <1>1, <1>2, <1>6, <1>pos
  <2>2. g.i \in Nat
    BY <1>1, <1>4, <1>region, <2>1
  <2>3. g = [offset |-> g.offset, size |-> g.size, i |-> g.i, buf |-> g.buf]
    BY <1>7
  <2> QED
    BY <2>1, <2>2, <2>3, <1>buf DEF FrameType
<1>9. g.offset = q.offset + Len(g.buf) /\ g.size + Len(g.buf) = q.size
  <2>1. f.offset = q.offset + Len(f.buf) /\ f.size + Len(f.buf) = q.size /\ Len(f.buf) \in Nat
    BY <1>1 DEF FrameOK
  <2> QED
    BY <2>1, <1>1, <1>2, <1>buf, <1>pos
<1>10. g.offset <= FileSize(m)
  BY <1>1, <1>2, <1>4, <1>6, <1>pos
<1>11. ASSUME NEW k \in 1..Len(g.buf) PROVE g.buf[k] = ByteAt(m, q.offset + k - 1)
  <2>1. CASE k <= Len(f.buf)
    <3>1. g.buf[k] = f.buf[k] /\ k \in 1..Len(f.buf)
      BY <2>1, <1>1, <1>2, <1>7
    <3> QED
      BY <3>1 DEF FrameOK
  <2>2. CASE k > Len(f.buf)
    <3> DEFINE j == k - Len(f.buf)
               pos == q.offset + k - 1
    <3>1. j \in 1..n /\ g.buf[k] = data[j]
      BY <2>2, <1>1, <1>2, <1>7 DEF n
    <3>2. pos = f.offset + j - 1
      BY <1>1 DEF FrameOK
    <3> HIDE DEF pos, j
    <3>3. j \in Nat /\ 1 <= j /\ j <= n
      BY <3>1, <1>2
    <3>4. pos \in Nat /\ lo <= pos /\ pos < hi
      BY ONLY <3>2, <3>3, <1>lohi
    <3>5. ByteAt(m, pos) = RegionByte(m, f.i, pos - lo)
      BY <3>4, <1>1, ByteAtRegion DEF lo, hi
    <3>6. data[j] = RegionByte(m, f.i, RegionOffset(f, m) + j - 1)
      BY <3>1 DEF Reads, n
    <3>7. pos - lo = RegionOffset(f, m) + j - 1
      <4>1. RegionOffset(f, m) = f.offset - lo
        BY DEF RegionOffset, lo
      <4> QED
        BY <4>1, <3>2, <3>3, <1>1, <1>4
    <3> QED
      BY <3>1, <3>5, <3>6, <3>7 DEF pos
  <2> QED
    BY <2>1, <2>2, <1>1, <1>buf
<1>12. ASSUME g.offset < FileSize(m)
       PROVE  g.i \in 1..NRegions(m) /\ m.offsets[g.i] <= g.offset /\ g.offset <= m.offsets[g.i + 1]
  <2>1. CASE g.offset < hi
    <3>1. g.i = f.i
      BY <2>1, <1>region
    <3>2. lo <= g.offset /\ g.offset <= hi
      BY <2>1, <1>1, <1>2, <1>4, <1>5, <1>pos
    <3> QED
      BY <3>1, <3>2, <1>1 DEF lo, hi
  <2>2. CASE g.offset >= hi
    <3>1. g.i = f.i + 1 /\ g.offset = hi
      BY <2>2, <1>1, <1>2, <1>4, <1>6, <1>pos, <1>region
    <3>2. f.i # NRegions(m)
      <4>1. FileSize(m) = m.offsets[NRegions(m) + 1]
        BY <1>1, RegionBounds
      <4>2. f.i = NRegions(m) => hi = FileSize(m)
        BY <4>1 DEF hi
      <4> QED
        BY <4>2, <3>1, <1>12, <1>4
    <3>3. g.i \in 1..NRegions(m)
      BY <3>1, <3>2, <1>1, <1>3
    <3>4. m.offsets[g.i] <= m.offsets[g.i + 1]
      BY <3>3, <1>1, RegionBounds
    <3>5. m.offsets[g.i] = g.offset /\ g.offset \in Nat
      BY <3>1, <1>4 DEF hi
    <3>6. m.offsets[g.i] <= g.offset
      BY <3>5
    <3>7. g.offset <= m.offsets[g.i + 1]
      BY <3>4, <3>5
    <3> QED
      BY <3>3, <3>6, <3>7
  <2>3. g.offset \in Nat
    BY <1>1, <1>2, <1>pos
  <2> QED
    BY <2>1, <2>2, <2>3, <1>4
<1> QED
  BY <1>8, <1>9, <1>10, <1>11, <1>12 DEF g, FrameOK

\* When the loop ends, buf is the slice the caller asked for.
LEMMA LoopEnd ==
  ASSUME NEW q \in Requests, NEW f \in FrameType, FrameOK(q, f),
         f.size = 0 \/ f.offset >= FileSize(q.map)
  PROVE  f.buf = Slice(q.map, q.offset, q.size)
<1> DEFINE m == q.map
           n == Len(f.buf)
           end == FileSize(m)
<1>1. /\ f.offset \in Nat /\ f.size \in Nat /\ f.buf \in Seq(Byte) /\ n \in Nat
      /\ q.offset \in Nat /\ q.size \in Nat
  BY RequestMap DEF FrameType
<1>2. end \in Nat
  BY RequestMap DEF FileSize, WellFormed
<1>3. f.offset = q.offset + n /\ f.size + n = q.size /\ (n > 0 => f.offset <= end)
  BY DEF FrameOK
<1>4. f.size = 0 \/ f.offset >= end
  OBVIOUS
<1> HIDE DEF end, n
<1>5. n = IF q.offset < end THEN Smaller(q.size, end - q.offset) ELSE 0
  BY <1>1, <1>2, <1>3, <1>4 DEF Smaller
<1>6. n = Available(m, q.offset, q.size)
  BY <1>5 DEF Available, end
<1>7. f.buf = [k \in 1..n |-> f.buf[k]]
  BY <1>1 DEF n
<1>8. \A k \in 1..n : f.buf[k] = ByteAt(m, q.offset + k - 1)
  BY DEF FrameOK, n
<1> QED
  BY <1>6, <1>7, <1>8 DEF Slice

\* A memcpy from the direct buffer is what a region that is not mapped holds.
LEMMA DirectReads ==
  ASSUME NEW q \in Requests, NEW f \in FrameType, FrameOK(q, f),
         f.offset < FileSize(q.map), ~IsMapped(q.map, f.i)
  PROVE  Reads(q, f, [k \in 1..Want(f, q.map) |->
           q.map.direct_buf[RegionOffset(f, q.map) - q.map.underlying_offsets[f.i] + k]])
<1> DEFINE m == q.map
           w == Want(f, m)
           o == RegionOffset(f, m)
           u == m.underlying_offsets[f.i]
           data == [k \in 1..w |-> m.direct_buf[o - u + k]]
<1>1. /\ f.i \in 1..NRegions(m)
      /\ w \in Nat /\ o \in Nat
      /\ o + w <= RegionLen(m, f.i)
  BY WantBounds
<1>2. u \in Int /\ u <= 0 /\ RegionLen(m, f.i) \in Int
  BY <1>1, RequestMap, RegionBounds DEF IsMapped
<1>3. m.direct_buf \in Seq(Byte) /\ RegionLen(m, f.i) - u <= Len(m.direct_buf)
  BY <1>1, RequestMap DEF WellFormed
<1> HIDE DEF w, o, u
<1>4. ASSUME NEW k \in 1..w PROVE m.direct_buf[o - u + k] \in Byte
  <2>1. o - u + k \in 1..Len(m.direct_buf)
    BY <1>1, <1>2, <1>3
  <2> QED
    BY <2>1, <1>3
<1>5. data \in Seq(Byte) /\ Len(data) = w
  BY <1>1, <1>4
<1>6. ASSUME NEW k \in 1..w PROVE data[k] = RegionByte(m, f.i, o + k - 1)
  <2>1. 1 - u + (o + k - 1) = o - u + k
    BY <1>1, <1>2
  <2>2. RegionByte(m, f.i, o + k - 1) = m.direct_buf[1 - u + (o + k - 1)]
    BY DEF RegionByte, u
  <2> QED
    BY <2>1, <2>2
<1> HIDE DEF data
<1>7. Len(data) <= Want(f, m)
  BY <1>1, <1>5 DEF w
<1>8. \A k \in 1..Len(data) : data[k] = RegionByte(m, f.i, RegionOffset(f, m) + k - 1)
  BY <1>5, <1>6 DEF o
<1>9. Reads(q, f, data)
  BY <1>5, <1>7, <1>8 DEF Reads
<1> QED
  BY <1>9 DEF data, w, o, u

\* Positions in the payload that a pass over a mapped region reads.
LEMMA PayloadBounds ==
  ASSUME NEW q \in Requests, NEW f \in FrameType, FrameOK(q, f),
         f.offset < FileSize(q.map), IsMapped(q.map, f.i)
  PROVE  /\ PayloadOffset(f, q.map) \in Nat
         /\ PayloadOffset(f, q.map) + Want(f, q.map) <= PayloadLen[q.map]
         /\ PayloadOffset(f, q.map) =
              q.map.underlying_offsets[f.i] - 1 + RegionOffset(f, q.map)
         /\ \A k \in Int : RegionByte(q.map, f.i, RegionOffset(f, q.map) + k - 1) =
              PayloadByte(q.map.pending_base64_decoding, q.map.data_start,
                          PayloadOffset(f, q.map) + k - 1)
<1> DEFINE m == q.map
           u == m.underlying_offsets[f.i]
           o == RegionOffset(f, m)
           w == Want(f, m)
<1>1. /\ f.i \in 1..NRegions(m)
      /\ w \in Nat /\ o \in Nat
      /\ o + w <= RegionLen(m, f.i)
  BY WantBounds
<1>2. u \in Int /\ u > 0 /\ RegionLen(m, f.i) \in Int
  BY <1>1, RequestMap, RegionBounds DEF IsMapped
<1> HIDE DEF o, w
<1>3. u - 1 + RegionLen(m, f.i) <= PayloadLen[m] /\ PayloadLen[m] \in Nat
  BY <1>1, RequestMap DEF MappedWithin
<1>4. PayloadOffset(f, m) = u - 1 + o
  BY DEF PayloadOffset, o
<1>5. ASSUME NEW k
      PROVE  RegionByte(m, f.i, k) =
               PayloadByte(m.pending_base64_decoding, m.data_start, u - 1 + k)
  BY DEF RegionByte, u
<1> HIDE DEF u, o, w
<1>6. PayloadOffset(f, m) \in Nat /\ PayloadOffset(f, m) + w <= PayloadLen[m]
  BY <1>1, <1>2, <1>3, <1>4
<1>7. ASSUME NEW k \in Int
      PROVE  RegionByte(m, f.i, o + k - 1) =
               PayloadByte(m.pending_base64_decoding, m.data_start, PayloadOffset(f, m) + k - 1)
  <2>1. u - 1 + (o + k - 1) = PayloadOffset(f, m) + k - 1
    BY <1>1, <1>2, <1>4
  <2> QED
    BY <2>1, <1>5
<1> QED
  BY <1>4, <1>6, <1>7 DEF u, o, w

\* What pread puts into buf is what a mapped region of raw data holds.
LEMMA FileReads ==
  ASSUME NEW q \in Requests, NEW f \in FrameType, FrameOK(q, f),
         f.offset < FileSize(q.map), IsMapped(q.map, f.i),
         q.map.pending_base64_decoding = FALSE,
         NEW n \in Nat, n <= Want(f, q.map)
  PROVE  Reads(q, f, [k \in 1..n |->
           FileByte(q.map.data_start + PayloadOffset(f, q.map) + k - 1)])
<1> DEFINE m == q.map
           p == PayloadOffset(f, m)
           d == m.data_start
           data == [k \in 1..n |-> FileByte(d + p + k - 1)]
<1>1. p \in Nat /\ d \in Nat
  BY PayloadBounds, RequestMap DEF WellFormed
<1>2. \A k \in Int : RegionByte(m, f.i, RegionOffset(f, m) + k - 1) = PayloadByte(FALSE, d, p + k - 1)
  BY PayloadBounds
<1> HIDE DEF p, d
<1>3. ASSUME NEW k \in 1..n
      PROVE  /\ FileByte(d + p + k - 1) \in Byte
             /\ PayloadByte(FALSE, d, p + k - 1) = FileByte(d + p + k - 1)
  <2>1. d + p + k - 1 \in Nat /\ d + (p + k - 1) = d + p + k - 1
    BY <1>1
  <2> HIDE DEF data
  <2> QED
    BY <2>1 DEF FileByte, Byte, PayloadByte
<1>4. data \in Seq(Byte) /\ Len(data) = n
  <2> DEFINE b(k) == FileByte(d + p + k - 1)
  <2>1. \A k \in 1..n : b(k) \in Byte
    BY <1>3
  <2> HIDE DEF b
  <2>2. [k \in 1..n |-> b(k)] \in Seq(Byte) /\ Len([k \in 1..n |-> b(k)]) = n
    BY <2>1
  <2> QED
    BY <2>2 DEF b
<1>5. \A k \in 1..n : data[k] = FileByte(d + p + k - 1)
  OBVIOUS
<1> HIDE DEF data
<1>6. ASSUME NEW k \in 1..n PROVE data[k] = RegionByte(m, f.i, RegionOffset(f, m) + k - 1)
  <2>1. data[k] = FileByte(d + p + k - 1)
    BY <1>5
  <2>2. k \in Int
    OBVIOUS
  <2> QED
    BY <2>1, <2>2, <1>2, <1>3
<1>7. Reads(q, f, data)
  BY <1>4, <1>6 DEF Reads
<1> QED
  BY <1>7 DEF data, p, d

-----------------------------------------------------------------------------
(* Lemmas about the loop of PreadTyped. *)

\* Position 3g + t of the payload, t < 3, is byte t of group g.
LEMMA Triplet ==
  ASSUME NEW g \in Nat, NEW t \in 0..2
  PROVE  (3 * g + t) \div 3 = g /\ (3 * g + t) % 3 = t
OBVIOUS

\* Byte k of the payload is byte k % 3 of group k \div 3.
LEMMA TripletBack ==
  ASSUME NEW p \in Nat
  PROVE  p \div 3 \in Nat /\ p % 3 \in 0..2 /\ 3 * (p \div 3) + (p % 3) = p
OBVIOUS

\* Entering PreadTyped.
LEMMA EnterOK ==
  ASSUME NEW q \in Requests, NEW f \in FrameType, FrameOK(q, f), InPass(q, f, TRUE)
  PROVE  LET d == [group |-> PayloadOffset(f, q.map) \div 3,
                   skip  |-> PayloadOffset(f, q.map) % 3,
                   size  |-> Want(f, q.map),
                   out   |-> <<>>]
         IN  d \in DecoderType /\ DecoderOK(q, f, d)
<1> DEFINE p == PayloadOffset(f, q.map)
           w == Want(f, q.map)
<1>1. p \in Nat /\ w \in Nat
  BY PayloadBounds, WantBounds DEF InPass
<1> HIDE DEF p, w
<1>2. p \div 3 \in Nat /\ p % 3 \in 0..2 /\ 3 * (p \div 3) + (p % 3) = p
  BY <1>1, TripletBack
<1> DEFINE d == [group |-> p \div 3, skip |-> p % 3, size |-> w, out |-> <<>>]
<1>3. d \in DecoderType
  BY <1>1, <1>2 DEF DecoderType
<1>4. DecoderOK(q, f, d)
  BY <1>1, <1>2 DEF DecoderOK, p, w
<1> QED
  BY <1>3, <1>4 DEF p, w

\* A group that yields n bytes, the first skip of which are passed over.
LEMMA GroupOK ==
  ASSUME NEW q \in Requests, NEW f \in FrameType, NEW d \in DecoderType,
         FrameOK(q, f), InPass(q, f, TRUE), DecoderOK(q, f, d),
         Len(d.out) < d.size,
         NEW n \in DecodedCounts(q.map, d.group), n > d.skip
  PROVE  LET e == [group |-> d.group + 1,
                   skip  |-> 0,
                   size  |-> d.size,
                   out   |-> d.out \o [t \in 1..Smaller(n - d.skip, d.size - Len(d.out)) |->
                                 DecodedByte(q.map.data_start + 4 * d.group, d.skip + t - 1)]]
         IN  e \in DecoderType /\ DecoderOK(q, f, e)
<1> DEFINE m == q.map
           p == PayloadOffset(f, m)
           len == Len(d.out)
           g == d.group
           s == d.skip
           size == d.size
           ds == m.data_start
           pl == PayloadLen[m]
           c == Smaller(n - s, size - len)
           b(t) == DecodedByte(ds + 4 * g, s + t - 1)
           new == [t \in 1..c |-> b(t)]
           e == [group |-> g + 1, skip |-> 0, size |-> size, out |-> d.out \o new]
<1>1. /\ g \in Nat /\ s \in 0..2 /\ size \in Nat /\ d.out \in Seq(Byte) /\ len \in Nat
      /\ len < size
  BY DEF DecoderType
<1>2. p \in Nat /\ p + size <= pl /\ pl \in Nat /\ ds \in Nat
  BY PayloadBounds, RequestMap DEF InPass, DecoderOK, WellFormed
<1>3. 3 * g + s = p + len
  BY DEF DecoderOK
<1>17. n \in DecodedCounts(m, g) /\ n > s
  OBVIOUS
<1> HIDE DEF p, len, g, s, size, ds, pl
<1>18. g \in Nat /\ s \in 0..2 /\ size \in Nat /\ len \in Nat /\ len < size
  BY <1>1
<1>4. n = Smaller(3, pl - 3 * g) /\ n \in 1..3
  <2>1. 3 * g < pl
    BY <1>18, <1>2, <1>3
  <2>2. n = Smaller(3, pl - 3 * g)
    BY <2>1, <1>17, <1>18, <1>2 DEF DecodedCounts, pl
  <2> QED
    BY <2>1, <2>2, <1>1, <1>2 DEF Smaller
<1>5. c \in 1..3 /\ s + c <= n /\ len + c <= size /\ (c = n - s \/ len + c = size)
  BY <1>1, <1>4, <1>17 DEF Smaller
<1>6. len + c < size => s + c = 3
  BY <1>1, <1>2, <1>3, <1>4, <1>5 DEF Smaller
<1> HIDE DEF c
<1>7. ASSUME NEW t \in 1..c
      PROVE  /\ b(t) \in Byte
             /\ b(t) = RegionByte(m, f.i, RegionOffset(f, m) + (len + t) - 1)
  <2>1. s + t - 1 \in 0..2 /\ ds + 4 * g \in Nat
    BY <1>1, <1>2, <1>4, <1>5
  <2>2. b(t) \in Byte
    BY <2>1 DEF DecodedByte, Byte
  <2>3. p + (len + t) - 1 = 3 * g + (s + t - 1)
    BY <1>1, <1>2, <1>3, <1>5
  <2>4. PayloadByte(TRUE, ds, 3 * g + (s + t - 1)) = b(t)
    BY <2>1, <1>1, Triplet DEF PayloadByte
  <2>5. RegionByte(m, f.i, RegionOffset(f, m) + (len + t) - 1)
          = PayloadByte(TRUE, ds, p + (len + t) - 1)
    <3>1. len + t \in Int
      BY <1>1, <1>5
    <3> QED
      BY <3>1, PayloadBounds DEF InPass, p, ds
  <2> QED
    BY <2>2, <2>3, <2>4, <2>5
<1> HIDE DEF b
<1>8. new \in Seq(Byte) /\ Len(new) = c
  BY <1>5, <1>7
<1>9. \A t \in 1..c : new[t] = b(t)
  OBVIOUS
<1> HIDE DEF new
<1>10. /\ d.out \o new \in Seq(Byte)
       /\ Len(d.out \o new) = len + c
  BY <1>1, <1>8 DEF len
<1>11. e \in DecoderType
  BY <1>1, <1>10 DEF DecoderType
<1>12. ASSUME NEW k \in 1..len + c
       PROVE  (d.out \o new)[k] = RegionByte(m, f.i, RegionOffset(f, m) + k - 1)
  <2>1. CASE k <= len
    <3>1. (d.out \o new)[k] = d.out[k] /\ k \in 1..len
      BY <2>1, <1>1, <1>8 DEF len
    <3> QED
      BY <3>1 DEF DecoderOK, len
  <2>2. CASE k > len
    <3>1. k - len \in 1..c /\ (d.out \o new)[k] = new[k - len]
      BY <2>2, <1>1, <1>5, <1>8 DEF len
    <3>2. len + (k - len) = k
      BY <1>1, <1>5
    <3> QED
      BY <3>1, <3>2, <1>7, <1>9
  <2>3. k <= len \/ k > len
    BY <1>18, <1>5
  <2> QED
    BY <2>1, <2>2, <2>3
<1>13. DecoderOK(q, f, e)
  <2>1. e.size = Want(f, m)
    BY DEF DecoderOK, size
  <2>2. Len(e.out) <= e.size
    <3>1. e.out = d.out \o new /\ e.size = size
      OBVIOUS
    <3> QED
      BY <3>1, <1>5, <1>10
  <2>3. Len(e.out) < e.size => 3 * e.group + e.skip = PayloadOffset(f, m) + Len(e.out)
    <3>1. len + c < size => 3 * (g + 1) + 0 = p + (len + c)
      BY <1>1, <1>2, <1>3, <1>5, <1>6
    <3> QED
      BY <3>1, <1>10 DEF p
  <2>4. \A k \in 1..Len(e.out) : e.out[k] = RegionByte(m, f.i, RegionOffset(f, m) + k - 1)
    BY <1>10, <1>12
  <2> QED
    BY <2>1, <2>2, <2>3, <2>4 DEF DecoderOK
<1> QED
  BY <1>11, <1>13 DEF new, b, c, len, g, s, size, ds

-----------------------------------------------------------------------------
(* The invariant is inductive. *)

\* A step of one thread does not disturb the others.
LEMMA OthersOK ==
  ASSUME NEW r \in Readers, ThreadOK(r),
         pc'[r] = pc[r], req'[r] = req[r], frame'[r] = frame[r],
         decoder'[r] = decoder[r], ret'[r] = ret[r]
  PROVE  ThreadOK(r)'
BY DEF ThreadOK

\* Init establishes the invariant: no thread is inside a call.
LEMMA InitIInv == Init => IInv
<1> SUFFICES ASSUME Init PROVE IInv
  OBVIOUS
<1>1. NoFrame \in FrameType /\ NoDecoder \in DecoderType
  BY DEF NoFrame, NoDecoder, FrameType, DecoderType
<1>2. NoAnswer \in [status : {"none", "ok", "error"}, data : Seq(Byte)]
  BY DEF NoAnswer
<1>3. TypeOK
  BY <1>1, <1>2, FileAssumption DEF Init, TypeOK
<1>4. ASSUME NEW r \in Readers PROVE ThreadOK(r)
  BY DEF Init, ThreadOK, NoAnswer
<1> QED
  BY <1>3, <1>4 DEF IInv

\* What the invariant says of a thread.
LEMMA ThreadFacts ==
  ASSUME IInv, NEW r \in Readers
  PROVE  /\ frame[r] \in FrameType /\ decoder[r] \in DecoderType
         /\ pc[r] # "idle" => req[r] \in Requests /\ FrameOK(req[r], frame[r])
         /\ pc[r] = "pread" => InPass(req[r], frame[r], FALSE)
         /\ pc[r] = "decode" => /\ InPass(req[r], frame[r], TRUE)
                                /\ DecoderOK(req[r], frame[r], decoder[r])
BY DEF IInv, TypeOK, ThreadOK

\* FileMap::Pread starts: std::upper_bound finds the region of the offset.
LEMMA CallStep ==
  ASSUME IInv, NEW r \in Readers, Call(r)
  PROVE  IInv'
<1> USE DEF IInv
<1>req. PICK q \in Requests : \E j \in 1..Len(q.map.offsets) + 1 :
        /\ IsUpperBound(q.map.offsets, q.offset, j)
        /\ req' = [req EXCEPT ![r] = q]
        /\ frame' = [frame EXCEPT ![r] =
             [offset |-> q.offset, size |-> q.size, i |-> j - 1, buf |-> <<>>]]
  BY DEF Call
<1>1. PICK j \in 1..Len(q.map.offsets) + 1 :
        /\ IsUpperBound(q.map.offsets, q.offset, j)
        /\ req' = [req EXCEPT ![r] = q]
        /\ frame' = [frame EXCEPT ![r] =
             [offset |-> q.offset, size |-> q.size, i |-> j - 1, buf |-> <<>>]]
  BY <1>req
<1> DEFINE f == [offset |-> q.offset, size |-> q.size, i |-> j - 1, buf |-> <<>>]
<1>2. q.map.offsets \in Seq(Nat) /\ q.offset \in Nat /\ q.size \in Nat /\ WellFormed(q.map)
  BY RequestMap DEF WellFormed
<1>3. f \in FrameType
  BY <1>2 DEF FrameType
<1>4. FrameOK(q, f)
  <2> DEFINE s == q.map.offsets
             n == NRegions(q.map)
  <2>1. n \in Nat /\ Len(s) = n + 1 /\ s[1] = 0 /\ FileSize(q.map) = s[n + 1]
    BY <1>2 DEF WellFormed, NRegions, FileSize
  <2>2. \A k \in 1..Len(s) : k < j <=> s[k] <= q.offset
    BY <1>1 DEF IsUpperBound
  <2>3. j > 1
    <3>1. 1 \in 1..Len(s) /\ s[1] <= q.offset
      BY <1>2, <2>1
    <3> QED
      BY <3>1, <2>2
  <2>4. ASSUME q.offset < FileSize(q.map) PROVE j - 1 \in 1..n /\ s[j - 1] <= q.offset /\ q.offset <= s[j]
    <3>1. n + 1 \in 1..Len(s) /\ ~(s[n + 1] <= q.offset)
      BY <1>2, <2>1, <2>4
    <3>2. ~(n + 1 < j)
      BY <3>1, <2>2
    <3>3. j \in 1..Len(s) /\ j - 1 \in 1..Len(s) /\ j - 1 \in 1..n
      <4>1. j \in Nat /\ n \in Nat /\ Len(s) = n + 1
        BY <2>1
      <4> HIDE DEF s, n
      <4> QED
        BY <4>1, <3>2, <2>3
    <3>4. s[j - 1] <= q.offset /\ ~(s[j] <= q.offset)
      BY <3>3, <2>2
    <3> QED
      BY <3>3, <3>4, <1>2
  <2>5. f.offset = q.offset /\ f.size = q.size /\ f.i = j - 1 /\ f.buf = <<>> /\ f.i + 1 = j
    OBVIOUS
  <2> HIDE DEF f, s, n
  <2> QED
    BY <2>4, <2>5, <1>2 DEF FrameOK, s, n
<1>5. TypeOK'
  BY <1>1, <1>3 DEF TypeOK, Call, NoAnswer
<1>6. ThreadOK(r)'
  <2>1. pc'[r] = "loop" /\ req'[r] = q /\ frame'[r] = f /\ ret'[r] = NoAnswer
    BY <1>1 DEF TypeOK, Call
  <2> HIDE DEF f
  <2> QED
    BY <2>1, <1>4 DEF ThreadOK, NoAnswer
<1>7. ASSUME NEW s \in Readers, s # r PROVE ThreadOK(s)'
  <2>1. /\ pc'[s] = pc[s] /\ req'[s] = req[s] /\ frame'[s] = frame[s]
        /\ decoder'[s] = decoder[s] /\ ret'[s] = ret[s]
    BY <1>1, <1>7 DEF Call, TypeOK
  <2> QED
    BY <2>1, OthersOK
<1> QED
  BY <1>5, <1>6, <1>7

\* A pass of the loop ends with data that the region holds.
LEMMA PassStep ==
  ASSUME IInv, NEW r \in Readers, NEW data,
         pc[r] # "idle", frame[r].size # 0, frame[r].offset < FileSize(req[r].map),
         Reads(req[r], frame[r], data),
         pc' = [pc EXCEPT ![r] = "loop"],
         frame' = [frame EXCEPT ![r] = Advanced(frame[r], req[r].map, data)],
         \E d \in DecoderType : decoder' = [decoder EXCEPT ![r] = d],
         UNCHANGED <<req, ret>>, flen' \in Nat
  PROVE  IInv'
<1> DEFINE f == Advanced(frame[r], req[r].map, data)
<1>1. /\ req[r] \in Requests /\ frame[r] \in FrameType /\ FrameOK(req[r], frame[r])
  BY ThreadFacts
<1>2. f \in FrameType /\ FrameOK(req[r], f)
  BY <1>1, AdvancedOK
<1> HIDE DEF f
<1>3. TypeOK'
  BY <1>1, <1>2 DEF IInv, TypeOK, f
<1>4. ThreadOK(r)'
  <2>1. pc'[r] = "loop" /\ req'[r] = req[r] /\ frame'[r] = f /\ ret'[r] = ret[r]
    BY DEF IInv, TypeOK, f
  <2>2. ThreadOK(r)
    BY DEF IInv
  <2> QED
    BY <2>1, <2>2, <1>1, <1>2 DEF ThreadOK
<1>5. ASSUME NEW s \in Readers, s # r PROVE ThreadOK(s)'
  <2>1. /\ pc'[s] = pc[s] /\ req'[s] = req[s] /\ frame'[s] = frame[s]
        /\ decoder'[s] = decoder[s] /\ ret'[s] = ret[s]
    BY <1>5 DEF IInv, TypeOK
  <2>2. ThreadOK(s)
    BY DEF IInv
  <2> QED
    BY <2>1, <2>2, OthersOK
<1> QED
  BY <1>3, <1>4, <1>5 DEF IInv

\* A call ends with an answer that is an error or the right one.
LEMMA LeaveStep ==
  ASSUME IInv, NEW r \in Readers, pc[r] # "idle",
         NEW answer \in [status : {"none", "ok", "error"}, data : Seq(Byte)],
         answer.status = "ok" =>
           answer.data = Slice(req[r].map, req[r].offset, req[r].size),
         Leave(r, answer)
  PROVE  IInv'
<1>1. NoFrame \in FrameType /\ NoDecoder \in DecoderType
  BY DEF NoFrame, NoDecoder, FrameType, DecoderType
<1>2. req[r] \in Requests
  BY ThreadFacts
<1>3. TypeOK'
  BY <1>1 DEF IInv, TypeOK, Leave
<1>4. ThreadOK(r)'
  <2>1. pc'[r] = "idle" /\ req'[r] = req[r] /\ ret'[r] = answer
    BY DEF IInv, TypeOK, Leave
  <2> QED
    BY <2>1, <1>2 DEF ThreadOK
<1>5. ASSUME NEW s \in Readers, s # r PROVE ThreadOK(s)'
  <2>1. /\ pc'[s] = pc[s] /\ req'[s] = req[s] /\ frame'[s] = frame[s]
        /\ decoder'[s] = decoder[s] /\ ret'[s] = ret[s]
    BY <1>5 DEF IInv, TypeOK, Leave
  <2>2. ThreadOK(s)
    BY DEF IInv
  <2> QED
    BY <2>1, <2>2, OthersOK
<1> QED
  BY <1>3, <1>4, <1>5 DEF IInv

\* A step inside a pass changes at most the decoder and where the thread is.
LEMMA InsideStep ==
  ASSUME IInv, NEW r \in Readers, pc[r] # "idle",
         NEW where \in {"pread", "decode"}, NEW d \in DecoderType,
         pc' = [pc EXCEPT ![r] = where],
         decoder' = [decoder EXCEPT ![r] = d],
         UNCHANGED <<flen, req, frame, ret>>,
         where = "pread" => InPass(req[r], frame[r], FALSE),
         where = "decode" => InPass(req[r], frame[r], TRUE) /\ DecoderOK(req[r], frame[r], d)
  PROVE  IInv'
<1>1. req[r] \in Requests /\ FrameOK(req[r], frame[r])
  BY ThreadFacts
<1>2. TypeOK'
  BY <1>1 DEF IInv, TypeOK
<1>3. ThreadOK(r)'
  <2>1. /\ pc'[r] = where /\ req'[r] = req[r] /\ ret'[r] = ret[r]
        /\ frame'[r] = frame[r] /\ decoder'[r] = d
    BY DEF IInv, TypeOK
  <2>2. ThreadOK(r)
    BY DEF IInv
  <2> QED
    BY <2>1, <2>2, <1>1 DEF ThreadOK
<1>4. ASSUME NEW s \in Readers, s # r PROVE ThreadOK(s)'
  <2>1. /\ pc'[s] = pc[s] /\ req'[s] = req[s] /\ frame'[s] = frame[s]
        /\ decoder'[s] = decoder[s] /\ ret'[s] = ret[s]
    BY <1>4 DEF IInv, TypeOK
  <2>2. ThreadOK(s)
    BY DEF IInv
  <2> QED
    BY <2>1, <2>2, OthersOK
<1> QED
  BY <1>2, <1>3, <1>4 DEF IInv

\* Every step of FilePread preserves the invariant.
LEMMA NextIInv == IInv /\ [Next]_vars => IInv'
<1> SUFFICES ASSUME IInv, [Next]_vars PROVE IInv'
  OBVIOUS
<1>1. CASE UNCHANGED vars
  BY <1>1 DEF vars, IInv, TypeOK, ThreadOK
<1>2. CASE Truncate
  <2>1. flen' \in Nat /\ UNCHANGED <<pc, req, frame, decoder, ret>>
    BY <1>2, FileAssumption DEF Truncate
  <2> QED
    BY <2>1 DEF IInv, TypeOK, ThreadOK
<1>3. ASSUME NEW r \in Readers, Call(r) PROVE IInv'
  BY <1>3, CallStep
<1>4. ASSUME NEW r \in Readers, Step(r) PROVE IInv'
  <2> DEFINE q == req[r]
             f == frame[r]
             d == decoder[r]
             w == Want(f, q.map)
  <2>1. flen \in Nat /\ pc[r] # "idle"
    BY <1>4 DEF IInv, TypeOK, Step, Return, ReadDirect, CallOSFile, OSFileReturns,
                OSFileFails, EnterDecoder, DecodeGroup, DecodeFails, LeaveDecoder, InRegion
  <2>2. f \in FrameType /\ d \in DecoderType /\ q \in Requests /\ FrameOK(q, f)
    BY <2>1, ThreadFacts
  <2>3. Failed \in [status : {"none", "ok", "error"}, data : Seq(Byte)] /\ Failed.status # "ok"
    BY DEF Failed
  <2>4. decoder' = decoder => \E e \in DecoderType : decoder' = [decoder EXCEPT ![r] = e]
    BY <2>2 DEF IInv, TypeOK
  <2> HIDE DEF q, f, d, w
  <2>5. CASE Return(r)
    <3>1. f.size = 0 \/ f.offset >= FileSize(q.map)
      <4>1. f.offset \in Nat /\ FileSize(q.map) \in Nat
        BY <2>2, RequestMap, FileSizes DEF FrameType
      <4>2. ~More(r)
        BY <2>5 DEF Return
      <4>3. ~(f.size # 0 /\ f.offset < FileSize(q.map))
        BY ONLY <4>2 DEF More, f, q
      <4> QED
        BY ONLY <4>1, <4>3
    <3>2. f.buf = Slice(q.map, q.offset, q.size)
      BY <2>2, <3>1, LoopEnd
    <3>3. /\ Answer(f.buf) \in [status : {"none", "ok", "error"}, data : Seq(Byte)]
          /\ Answer(f.buf).data = Slice(q.map, q.offset, q.size)
      BY <2>2, <3>2 DEF Answer, FrameType
    <3> QED
      BY <2>1, <2>5, <3>3, LeaveStep DEF Return, f, q
  <2>6. CASE ReadDirect(r)
    <3> DEFINE data == [k \in 1..w |->
                 q.map.direct_buf[RegionOffset(f, q.map) - q.map.underlying_offsets[f.i] + k]]
    <3>1. f.size # 0 /\ f.offset < FileSize(q.map) /\ ~IsMapped(q.map, f.i)
      BY <2>6 DEF ReadDirect, InRegion, More, f, q
    <3>2. Reads(q, f, data)
      BY <2>2, <3>1, DirectReads DEF w
    <3>3. /\ frame' = [frame EXCEPT ![r] = Advanced(f, q.map, data)]
          /\ UNCHANGED <<flen, pc, req, decoder, ret>> /\ pc[r] = "loop"
      BY <2>6 DEF ReadDirect, InRegion, f, q, w
    <3> HIDE DEF data
    <3>4. pc' = [pc EXCEPT ![r] = "loop"]
      BY <3>3 DEF IInv, TypeOK
    <3> QED
      BY <2>1, <2>4, <3>1, <3>2, <3>3, <3>4, PassStep DEF f, q
  <2>7. CASE CallOSFile(r)
    <3>1. InPass(q, f, FALSE)
      <4>1. q.map.pending_base64_decoding \in BOOLEAN
        BY <2>2, RequestMap DEF WellFormed
      <4> QED
        BY <4>1, <2>7 DEF CallOSFile, InRegion, More, InPass, f, q
    <3>2. decoder' = [decoder EXCEPT ![r] = d]
      BY <2>7 DEF CallOSFile, IInv, TypeOK, d
    <3> QED
      BY <2>1, <2>2, <2>7, <3>1, <3>2, InsideStep DEF CallOSFile, f, q
  <2>8. CASE OSFileReturns(r)
    <3> DEFINE p == q.map.data_start + PayloadOffset(f, q.map)
    <3>1. InPass(q, f, FALSE)
      BY <2>8, ThreadFacts DEF OSFileReturns, f, q
    <3>2. PICK n \in PreadCounts(w, p) :
            frame' = [frame EXCEPT ![r] =
              Advanced(f, q.map, [k \in 1..n |-> FileByte(p + k - 1)])]
      BY <2>8 DEF OSFileReturns, f, q, w
    <3>3. n \in Nat /\ n <= w
      <4>1. w \in Nat
        BY <2>2, <3>1, WantBounds DEF InPass, w
      <4>2. p \in Nat
        BY <2>2, <3>1, PayloadBounds, RequestMap DEF InPass, WellFormed
      <4> HIDE DEF p
      <4> QED
        BY <4>1, <4>2, <2>1 DEF PreadCounts, Smaller
    <3>4. Reads(q, f, [k \in 1..n |-> FileByte(p + k - 1)])
      BY <2>2, <3>1, <3>3, FileReads DEF InPass, w
    <3>5. f.size # 0 /\ f.offset < FileSize(q.map)
      BY <3>1 DEF InPass
    <3>6. UNCHANGED <<flen, req, decoder, ret>> /\ pc' = [pc EXCEPT ![r] = "loop"]
      BY <2>8 DEF OSFileReturns
    <3> QED
      BY <2>1, <2>4, <3>2, <3>4, <3>5, <3>6, PassStep DEF f, q
  <2>9. CASE OSFileFails(r)
    BY <2>1, <2>3, <2>9, LeaveStep DEF OSFileFails
  <2>10. CASE EnterDecoder(r)
    <3> DEFINE e == [group |-> PayloadOffset(f, q.map) \div 3,
                     skip  |-> PayloadOffset(f, q.map) % 3,
                     size  |-> w,
                     out   |-> <<>>]
    <3>1. InPass(q, f, TRUE)
      <4>1. q.map.pending_base64_decoding \in BOOLEAN
        BY <2>2, RequestMap DEF WellFormed
      <4> QED
        BY <4>1, <2>10 DEF EnterDecoder, InRegion, More, InPass, f, q
    <3>2. e \in DecoderType /\ DecoderOK(q, f, e)
      BY <2>2, <3>1, EnterOK DEF w
    <3>3. /\ decoder' = [decoder EXCEPT ![r] = e]
          /\ pc' = [pc EXCEPT ![r] = "decode"]
          /\ UNCHANGED <<flen, req, frame, ret>>
      BY <2>10 DEF EnterDecoder, f, q, w
    <3> HIDE DEF e
    <3> QED
      BY <2>1, <3>1, <3>2, <3>3, InsideStep DEF f, q
  <2>11. CASE DecodeGroup(r)
    <3>1. pc[r] = "decode" /\ InPass(q, f, TRUE) /\ DecoderOK(q, f, d) /\ Len(d.out) < d.size
      BY <2>11, ThreadFacts DEF DecodeGroup, f, q, d
    <3> DEFINE e(n) ==
          [group |-> d.group + 1,
           skip  |-> 0,
           size  |-> d.size,
           out   |-> d.out \o [t \in 1..Smaller(n - d.skip, d.size - Len(d.out)) |->
                                 DecodedByte(q.map.data_start + 4 * d.group, d.skip + t - 1)]]
    <3>2. PICK n \in DecodedCounts(q.map, d.group) :
            n > d.skip /\ decoder' = [decoder EXCEPT ![r] = e(n)]
      BY <2>11 DEF DecodeGroup, q, d
    <3>3. e(n) \in DecoderType /\ DecoderOK(q, f, e(n))
      BY <2>2, <3>1, <3>2, GroupOK
    <3>4. UNCHANGED <<flen, pc, req, frame, ret>>
      BY <2>11 DEF DecodeGroup
    <3> HIDE DEF e
    <3>5. pc' = [pc EXCEPT ![r] = "decode"]
      BY <3>1, <3>4 DEF IInv, TypeOK
    <3> QED
      BY <2>1, <3>1, <3>2, <3>3, <3>4, <3>5, InsideStep DEF f, q
  <2>12. CASE DecodeFails(r)
    BY <2>1, <2>3, <2>12, LeaveStep DEF DecodeFails
  <2>13. CASE LeaveDecoder(r)
    <3>1. pc[r] = "decode" /\ InPass(q, f, TRUE) /\ DecoderOK(q, f, d) /\ Len(d.out) = d.size
      BY <2>13, ThreadFacts DEF LeaveDecoder, f, q, d
    <3>2. Reads(q, f, d.out)
      <4>1. Len(d.out) <= Want(f, q.map)
        BY <2>2, <3>1, WantBounds DEF DecoderOK, InPass
      <4>2. d.out \in Seq(Byte)
        BY <2>2 DEF DecoderType
      <4> QED
        BY <4>1, <4>2, <3>1 DEF Reads, DecoderOK
    <3>3. /\ frame' = [frame EXCEPT ![r] = Advanced(f, q.map, d.out)]
          /\ UNCHANGED <<flen, req, ret>> /\ pc' = [pc EXCEPT ![r] = "loop"]
          /\ decoder' = [decoder EXCEPT ![r] = NoDecoder]
      BY <2>13 DEF LeaveDecoder, f, q, d
    <3>4. NoDecoder \in DecoderType
      BY DEF NoDecoder, DecoderType
    <3>5. f.size # 0 /\ f.offset < FileSize(q.map)
      BY <3>1 DEF InPass
    <3> QED
      BY <2>1, <3>2, <3>3, <3>4, <3>5, PassStep DEF f, q
  <2> QED
    BY <1>4, <2>5, <2>6, <2>7, <2>8, <2>9, <2>10, <2>11, <2>12, <2>13 DEF Step
<1> QED
  BY <1>1, <1>2, <1>3, <1>4 DEF Next

\* A reachable state satisfies the invariant.
LEMMA Invariance == Spec => []IInv
BY InitIInv, NextIInv, PTL DEF Spec

\* The state is well typed in every reachable state, for any threads, maps
\* and truncations.
THEOREM TypeCorrect == Spec => []TypeOK
<1>1. IInv => TypeOK
  BY DEF IInv
<1> QED
  BY <1>1, Invariance, PTL

\* A read that FileMap::Pread (fmap.cc) reports as successful has returned
\* exactly the bytes of the virtual file that were asked for.
THEOREM ExactSlices == Spec => []ReadsExactSlice
<1>1. IInv => ReadsExactSlice
  BY DEF IInv, ThreadOK, ReadsExactSlice
<1> QED
  BY <1>1, Invariance, PTL

-----------------------------------------------------------------------------
(* FilePread implements RandomAccess. *)

Pending == [r \in Readers |-> pc[r] # "idle"]

\* A step that leaves a thread in FileMap::Pread is a stutter of the promise.
LEMMA InsideIsStutter ==
  ASSUME TypeOK, NEW r \in Readers, pc[r] # "idle",
         NEW where \in {"loop", "pread", "decode"},
         pc' = [pc EXCEPT ![r] = where], UNCHANGED <<req, ret>>
  PROVE  UNCHANGED Promise!vars
<1>1. pc' \in [Readers -> {"idle", "loop", "pread", "decode"}]
  BY DEF TypeOK
<1>2. \A s \in Readers : (pc'[s] # "idle") = (pc[s] # "idle")
  BY DEF TypeOK
<1> QED
  BY <1>1, <1>2 DEF Promise!vars

\* A step that leaves FileMap::Pread ends the call with its answer.
LEMMA LeaveIsFinish ==
  ASSUME TypeOK, NEW r \in Readers, pc[r] # "idle", NEW answer, Leave(r, answer)
  PROVE  /\ Pending[r]
         /\ Pending' = [Pending EXCEPT ![r] = FALSE]
         /\ ret' = [ret EXCEPT ![r] = answer]
         /\ UNCHANGED req
<1>1. Pending' = [Pending EXCEPT ![r] = FALSE]
  BY DEF TypeOK, Leave, Pending
<1> QED
  BY <1>1 DEF Leave, Pending

\* Initially nothing is pending and nothing was returned.
LEMMA PromiseInit == Init => Promise!Init
BY DEF Init, Promise!Init, NoAnswer, Promise!NoAnswer

\* Every step is an Invoke, a Deliver, a Reject or a stutter of the promise.
LEMMA PromiseNext == IInv /\ [Next]_vars => [Promise!Next]_(Promise!vars)
<1> SUFFICES ASSUME IInv, [Next]_vars PROVE Promise!Next \/ UNCHANGED Promise!vars
  BY DEF Promise!Next
<1>1. TypeOK
  BY DEF IInv
<1>2. CASE UNCHANGED vars
  BY <1>2 DEF vars, Promise!vars
<1>3. CASE Truncate
  BY <1>3 DEF Truncate, Promise!vars
<1>4. ASSUME NEW r \in Readers, Call(r) PROVE Promise!Next
  <2>1. Pending' = [Pending EXCEPT ![r] = TRUE] /\ ~Pending[r]
    BY <1>1, <1>4 DEF TypeOK, Call, Pending
  <2>2. \E q \in Requests : req' = [req EXCEPT ![r] = q]
    BY <1>4 DEF Call
  <2>3. ret' = [ret EXCEPT ![r] = Promise!NoAnswer]
    BY <1>4 DEF Call, NoAnswer, Promise!NoAnswer
  <2> QED
    BY <2>1, <2>2, <2>3 DEF Promise!Next, Promise!Invoke, Pending
<1>5. ASSUME NEW r \in Readers, Step(r) PROVE Promise!Next \/ UNCHANGED Promise!vars
  <2>1. ASSUME Return(r) PROVE Promise!Deliver(r)
    <3>1. pc[r] # "idle" /\ Leave(r, Answer(frame[r].buf))
      BY <2>1 DEF Return
    <3>2. frame[r] \in FrameType /\ req[r] \in Requests /\ FrameOK(req[r], frame[r])
      BY <3>1, ThreadFacts
    <3>3. frame[r].size = 0 \/ frame[r].offset >= FileSize(req[r].map)
      <4>1. frame[r].offset \in Nat
        BY <3>2 DEF FrameType
      <4>2. FileSize(req[r].map) \in Nat
        BY <3>2, RequestMap DEF FileSize, WellFormed
      <4>3. ~(frame[r].size # 0 /\ frame[r].offset < FileSize(req[r].map))
        BY <2>1 DEF Return, More
      <4> QED
        BY <4>1, <4>2, <4>3
    <3>4. frame[r].buf = Slice(req[r].map, req[r].offset, req[r].size)
      BY <3>2, <3>3, LoopEnd
    <3>5. Answer(frame[r].buf) =
            Promise!Answer([q \in Requests |-> Slice(q.map, q.offset, q.size)][req[r]])
      BY <3>2, <3>4 DEF Answer, Promise!Answer
    <3>6. /\ Pending[r] /\ Pending' = [Pending EXCEPT ![r] = FALSE]
          /\ ret' = [ret EXCEPT ![r] = Answer(frame[r].buf)] /\ UNCHANGED req
      BY <3>1, <1>1, LeaveIsFinish
    <3> QED
      BY <3>5, <3>6 DEF Promise!Deliver, Promise!Finish, Pending
  <2>2. ASSUME OSFileFails(r) \/ DecodeFails(r) PROVE Promise!Reject(r)
    <3>1. pc[r] # "idle" /\ Leave(r, Failed) /\ Failed = Promise!Failed
      BY <2>2 DEF OSFileFails, DecodeFails, Failed, Promise!Failed
    <3>2. /\ Pending[r] /\ Pending' = [Pending EXCEPT ![r] = FALSE]
          /\ ret' = [ret EXCEPT ![r] = Failed] /\ UNCHANGED req
      BY <3>1, <1>1, LeaveIsFinish
    <3> QED
      BY <3>1, <3>2 DEF Promise!Reject, Promise!Finish, Pending
  <2>3. ASSUME ReadDirect(r) \/ CallOSFile(r) \/ OSFileReturns(r)
                 \/ EnterDecoder(r) \/ DecodeGroup(r) \/ LeaveDecoder(r)
        PROVE  UNCHANGED Promise!vars
    <3>1. UNCHANGED <<req, ret>> /\ pc[r] # "idle"
      BY <2>3 DEF ReadDirect, CallOSFile, OSFileReturns, EnterDecoder, DecodeGroup,
                  LeaveDecoder, InRegion
    <3>2. UNCHANGED pc \/ \E where \in {"loop", "pread", "decode"} : pc' = [pc EXCEPT ![r] = where]
      BY <2>3 DEF ReadDirect, CallOSFile, OSFileReturns, EnterDecoder, DecodeGroup, LeaveDecoder
    <3>3. CASE UNCHANGED pc
      BY <3>1, <3>3 DEF Promise!vars
    <3> QED
      BY <3>1, <3>2, <3>3, <1>1, InsideIsStutter
  <2> QED
    BY <1>5, <2>1, <2>2, <2>3 DEF Step, Promise!Next
<1> QED
  BY <1>2, <1>3, <1>4, <1>5 DEF Next

\* Threads in FileMap::Pread (fmap.cc) keep the promise of RandomAccessFile:
\* each call ends, if it ends, with all of the answer or with an error.
THEOREM PromiseKept == Spec => KeepsPromise
BY Invariance, PromiseInit, PromiseNext, PTL DEF Spec, KeepsPromise, Promise!Spec
=============================================================================
