--------------------------- MODULE MCArrayHeader ---------------------------
(***************************************************************************)
(* Instances of ArrayHeader.  16 stands for 2^32 and 256 for 2^64, so that *)
(* 4 blocks are too many for words of 32 bits.                             *)
(***************************************************************************)
EXTENDS ArrayHeader

Plain ==
  [compressed : {FALSE}, b64 : BOOLEAN, word : {4, 8}, offset : {0, 5},
   total_bytes : {0, 7}, blk_sz : {0}, last_blk_sz : {0}, sizes : {<<>>}]

\* Headers of 3 to 8 words: every remainder modulo 3, in both widths.
Compressed(sizes) ==
  [compressed : {TRUE}, b64 : BOOLEAN, word : {4, 8}, offset : {5},
   total_bytes : {0}, blk_sz : {16}, last_blk_sz : {0, 9}, sizes : sizes]

AllArrays ==
  Plain \cup Compressed({<<>>, <<3>>, <<3, 5>>, <<5, 3, 3>>, <<5, 3, 3, 5>>, <<3, 5, 3, 5, 5>>})
=============================================================================
