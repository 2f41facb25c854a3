----------------------------- MODULE MCBuildMap -----------------------------
(***************************************************************************)
(* Instances of BuildMap.  Sizes are scaled: blocks of 8 bytes stand for   *)
(* those of 32768, and 64 for 2^31.                                        *)
(***************************************************************************)
EXTENDS BuildMap

Uncompressed(types, sizes) ==
  [codec : {"NONE"}, type : types, b64 : BOOLEAN, data_start : {3}, total_bytes : sizes,
   num_blks : {0}, blk_sz : {0}, last_blk_sz : {0}, compressed_blk_sz : {<<>>}]

Compressed(types, sizes, last) ==
  [codec : {"ZLIB", "LZ4"}, type : types, b64 : BOOLEAN, data_start : {3}, total_bytes : {0},
   num_blks : {Len(s) : s \in sizes}, blk_sz : {16}, last_blk_sz : last,
   compressed_blk_sz : sizes]

\* Compressed arrays whose header is consistent with the sizes after it.
WithBlocks(as) == {a \in as : a.num_blks = Len(a.compressed_blk_sz)}

Wide == {"INT32", "FLOAT64"}

\* One to three blocks, the last one partial; sizes of compressed blocks vary.
BlockSizes == {<<5>>, <<3, 7>>, <<4, 20, 1>>}

\* Arrays of 1 to 4 blocks, exact multiples of a block among them.
WideArrays ==
  Uncompressed({"INT32"}, {4, 8, 12, 28}) \cup Uncompressed({"FLOAT64"}, {8, 24})
  \cup WithBlocks(Compressed(Wide, BlockSizes, {8}))

AllArrays ==
  WideArrays \cup Uncompressed({"UINT8"}, {1, 7, 8, 17})
  \cup WithBlocks(Compressed({"UINT8"}, BlockSizes, {5}))

NarrowArrays == Uncompressed({"UINT8"}, {8, 9})
EmptyArrays  == Uncompressed({"INT32"}, {0}) \cup Compressed({"INT32"}, {<<>>}, {0})
FullArrays   == WithBlocks(Compressed({"INT32"}, {<<3, 7>>}, {0}))

\* Some of EmptyArrays and FullArrays are not.
ASSUME AllArraysAreUsual == \A a \in AllArrays : Filled(a) /\ Fits(a) /\ RowsFit(a)

EndsOf(as) ==
  [a \in as |-> [b \in 1..a.num_blks |-> FoldFunctionOnSet(+, 0, a.compressed_blk_sz, 1..b)]]

AllBlockEnds    == EndsOf(AllArrays)
EmptyBlockEnds  == EndsOf(EmptyArrays)
NarrowBlockEnds == EndsOf(NarrowArrays)
FullBlockEnds   == EndsOf(FullArrays)
=============================================================================
