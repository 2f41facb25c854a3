---------------------------- MODULE MCFilePread ----------------------------
(***************************************************************************)
(* Instances of FilePread.  The maps have the shape BuildMap gives them: a *)
(* magic number, then a page header and a mapped region for every block,   *)
(* then footer, footer length and magic number.                            *)
(***************************************************************************)
EXTENDS FilePread, SequencesExt

MagicLen  == 2
HeaderLen == 1
FooterLen == 2

DataStart == 3

SumTo(sizes, n) == FoldLeft(+, 0, SubSeq(sizes, 1, n))

\* The map of a payload of blocks of the given sizes.
MapOf(b64, blocks) ==
  LET n == Len(blocks)
      lens == <<MagicLen>>
              \o FlattenSeq([b \in 1..n |-> <<HeaderLen, blocks[b]>>])
              \o <<FooterLen, 1, MagicLen>>
      mapped(i) == i % 2 = 1 /\ i \in 2..2 * n + 1
      direct == [i \in 1..Len(lens) |-> IF mapped(i) THEN 0 ELSE lens[i]]
  IN  [pending_base64_decoding |-> b64,
       data_start |-> DataStart,
       offsets |-> [i \in 1..Len(lens) + 1 |-> SumTo(lens, i - 1)],
       underlying_offsets |->
         [i \in 1..Len(lens) |-> IF mapped(i)
                                 THEN 1 + SumTo(blocks, (i - 3) \div 2)
                                 ELSE -SumTo(direct, i - 1)],
       direct_buf |-> [k \in 1..SumTo(direct, Len(direct)) |->
                         [src |-> "header", at |-> 0, nth |-> k]]]

\* Two blocks whose sizes are no multiples of 3, and an empty block between
\* two others, the first of which ends in the middle of a base64 group.
Payloads == {<<4, 1>>, <<2, 0, 5>>}

RawMaps     == {MapOf(FALSE, blocks) : blocks \in Payloads}
EncodedMaps == {MapOf(TRUE, blocks) : blocks \in Payloads}
AllMaps     == RawMaps \cup EncodedMaps

AllPayloadLens ==
  [m \in AllMaps |->
     FoldLeft(+, 0, [i \in 1..NRegions(m) |-> IF IsMapped(m, i) THEN RegionLen(m, i) ELSE 0])]

\* One map of each kind, and requests that start in metadata, at and inside a
\* mapped region, in the footer and past the end: for runs with two threads.
FewMaps    == {MapOf(FALSE, <<2, 0, 5>>), MapOf(TRUE, <<4, 1>>)}
FewOffsets == {2, 4, 14}
FewSizes   == {4, 20}

\* All requests that differ for files of at most 17 bytes.
AllOffsets == 0..18
AllSizes   == {0, 1, 2, 3, 5, 8, 20}

\* The longest payload is 7 bytes, 12 characters of base64; the VTK file goes
\* on after it.
WholeFile == DataStart + 14

\* Cuts in the payload, at its start and before it.
Cuts == {DataStart + 5, DataStart + 2, DataStart, 0}

NoCuts == {}
=============================================================================
