------------------------------ MODULE FileMap ------------------------------
(***************************************************************************)
(* The virtual address map of one translated array: class FileMap of       *)
(* fmap.h and fmap.cc.  A map is immutable once built.  It cuts the        *)
(* virtual Parquet file into regions; a region is served either from the   *)
(* direct buffer (Parquet metadata generated in memory) or from the        *)
(* payload of the array in the underlying VTK file, raw or base64.         *)
(*                                                                         *)
(* The vectors of the code are sequences here, so region_id counts from 1. *)
(* A byte is not a value but its origin: which byte of the generated       *)
(* metadata, of the VTK file or of a decoded base64 group it is.  Two      *)
(* bytes with the same origin are the same byte, and serving a byte of the *)
(* wrong origin is what could go wrong.                                    *)
(***************************************************************************)
EXTENDS Integers, Sequences

\* std::min
Smaller(a, b) == IF a <= b THEN a ELSE b

Byte == [src : {"magic", "header", "footer", "length", "file", "base64"},
         at : Nat, nth : Nat]

\* Byte p of the VTK file.
FileByte(p) == [src |-> "file", at |-> p, nth |-> 0]

\* Byte t (0, 1 or 2) decoded from the four characters at position p.
DecodedByte(p, t) == [src |-> "base64", at |-> p, nth |-> t]

-----------------------------------------------------------------------------
(* Fields and regions. *)

NRegions(m) == Len(m.offsets) - 1

\* offsets_[n_], the EOF mark.
FileSize(m) == m.offsets[Len(m.offsets)]

RegionLen(m, i) == m.offsets[i + 1] - m.offsets[i]

\* Positive offsets are payload positions plus 1; the rest are direct.
IsMapped(m, i) == m.underlying_offsets[i] > 0

(* What a region holds. *)

\* Byte k of the array's payload, which starts at data_start_.
PayloadByte(b64, start, k) ==
  IF b64 THEN DecodedByte(start + 4 * (k \div 3), k % 3) ELSE FileByte(start + k)

\* Byte k of region i, counting from 0.
RegionByte(m, i, k) ==
  IF IsMapped(m, i)
  THEN PayloadByte(m.pending_base64_decoding, m.data_start,
                   m.underlying_offsets[i] - 1 + k)
  ELSE m.direct_buf[1 - m.underlying_offsets[i] + k]

\* The only region that holds virtual position pos (empty regions hold none).
RegionAt(m, pos) ==
  CHOOSE i \in 1..NRegions(m) : m.offsets[i] <= pos /\ pos < m.offsets[i + 1]

ByteAt(m, pos) == RegionByte(m, RegionAt(m, pos), pos - m.offsets[RegionAt(m, pos)])

\* How many bytes of a request of size bytes at offset the file holds.
Available(m, offset, size) ==
  IF offset < FileSize(m) THEN Smaller(size, FileSize(m) - offset) ELSE 0

\* What a read of size bytes at offset owes its caller.
Slice(m, offset, size) ==
  [k \in 1..Available(m, offset, size) |-> ByteAt(m, offset + k - 1)]

-----------------------------------------------------------------------------
(* What the code relies on when it serves a map. *)

Ordered(s) == \A i, j \in 1..Len(s) : i <= j => s[i] <= s[j]

WellFormed(m) ==
  /\ m.pending_base64_decoding \in BOOLEAN
  /\ m.data_start \in Nat
  /\ m.offsets \in Seq(Nat)
  /\ m.underlying_offsets \in Seq(Int)
  /\ m.direct_buf \in Seq(Byte)
  /\ Len(m.offsets) = Len(m.underlying_offsets) + 1
  /\ m.offsets[1] = 0
  /\ Ordered(m.offsets)
  /\ \A i \in 1..NRegions(m) :
       ~IsMapped(m, i) =>
         RegionLen(m, i) - m.underlying_offsets[i] <= Len(m.direct_buf)

\* Every mapped region lies in the first len bytes of the payload.
MappedWithin(m, len) ==
  \A i \in 1..NRegions(m) :
    IsMapped(m, i) => m.underlying_offsets[i] - 1 + RegionLen(m, i) <= len

\* j is the position std::upper_bound finds for x in the ordered sequence s:
\* the first element greater than x, or one past the end.
IsUpperBound(s, x, j) == \A k \in 1..Len(s) : k < j <=> s[k] <= x

=============================================================================
