---------------------------- MODULE ArrayHeader ----------------------------
(***************************************************************************)
(* Reading the header of a data array of a VTK file: the four Parse        *)
(* functions of arr.cc and ParseAppendedArray (parser.cc), up to the call  *)
(* of BuildMap.                                                            *)
(*                                                                         *)
(* A header is a sequence of words of 4 or 8 bytes: the size of the array, *)
(* or for a compressed one the number of its blocks, the size of a block,  *)
(* that of the last one and the compressed size of each.  The payload      *)
(* follows; in base64 the header is a text of its own, padded before the   *)
(* payload begins.                                                         *)
(*                                                                         *)
(* A pread may fail or fall short at any step, and the file may be cut     *)
(* short between two.  Memory does not run out, but new[] throws if the    *)
(* size it is asked for does not fit 64 bits.                              *)
(***************************************************************************)
EXTENDS Integers, Sequences

CONSTANTS
  Arrays,    \* arrays as VTK wrote them
  Stray,     \* what memory that was not written may hold
  TwoTo32,   \* 2^32
  TwoTo64    \* 2^64

ArrayRecord ==
  [compressed : BOOLEAN, b64 : BOOLEAN, word : {4, 8}, offset : Nat,
   total_bytes : Nat, blk_sz : Nat, last_blk_sz : Nat, sizes : Seq(Nat)]

ASSUME WordAssumption ==
  /\ Arrays \subseteq ArrayRecord
  /\ TwoTo32 \in Nat \ {0}
  /\ TwoTo64 \in Nat \ {0}
  /\ Stray \subseteq Nat

VARIABLES
  pc,       \* what ParseAppendedArray does next
  arr,      \* the array
  avail,    \* bytes of the file from the offset of the array on
  result,   \* UncompressedArray or CompressedArray, but for data_start
  data_start,
  buffers   \* memory that has to be released

vars == <<pc, arr, avail, result, data_start, buffers>>

-----------------------------------------------------------------------------
(* What VTK wrote. *)

NumBlks(a)     == Len(a.sizes)
HeaderWords(a) == IF a.compressed THEN 3 + NumBlks(a) ELSE 1
HeaderLen(a)   == a.word * HeaderWords(a)

\* Groups of three bytes, the last one padded.
Groups(n) == IF n % 3 = 0 THEN n \div 3 ELSE (n \div 3) + 1

\* Where the payload starts in the file.
PayloadStart(a) == a.offset + (IF a.b64 THEN 4 * Groups(HeaderLen(a)) ELSE HeaderLen(a))

-----------------------------------------------------------------------------
(* The view on the file (NewArrayHeaderReader), which starts at the array. *)

Smaller(x, y) == IF x <= y THEN x ELSE y

\* What Pread may return for n bytes at position from of the header.
PreadPlain(n, from) == {-1} \cup 0..(IF avail <= from THEN 0 ELSE Smaller(n, avail - from))

PreadBase64(n, from) ==
  IF n = 0 THEN {0}
  ELSE IF from + n <= HeaderLen(arr) /\ 4 * Groups(from + n) <= avail THEN {-1, n} ELSE {-1}

Pread(n, from) == IF arr.b64 THEN PreadBase64(n, from) ELSE PreadPlain(n, from)

\* A size as the code computes it: in the type of the words.
Bytes(n) == (arr.word * n) % (IF arr.word = 4 THEN TwoTo32 ELSE TwoTo64)

-----------------------------------------------------------------------------
UncompressedArray(total_bytes) == [total_bytes |-> total_bytes]

CompressedArray(num_blks, blk_sz, last_blk_sz, sizes) ==
  [num_blks |-> num_blks, blk_sz |-> blk_sz, last_blk_sz |-> last_blk_sz,
   compressed_blk_sz |-> sizes]

NotParsed == UncompressedArray(0)

\* At first the whole header is there.
Init ==
  /\ pc = "header"
  /\ arr \in Arrays
  /\ avail = PayloadStart(arr) - arr.offset
  /\ result = NotParsed
  /\ data_start = 0
  /\ buffers = {}

\* Another process cuts the file.
Truncate ==
  /\ avail' \in 0..avail - 1
  /\ UNCHANGED <<pc, arr, result, data_start, buffers>>

Throw == pc' = "thrown" /\ UNCHANGED <<arr, avail, result, data_start>>

\* Mutant: what Pread returns is taken for what it reads.
ReadCount ==
  /\ pc = "header" /\ ~arr.compressed
  /\ \E nr \in Pread(arr.word, 0) :
       result' = UncompressedArray(nr)
  /\ data_start' = arr.word
  /\ pc' = "adjust"
  /\ UNCHANGED <<arr, avail, buffers>>

\* ParseUncompressed32 and 64.
ReadLength ==
  /\ pc = "header" /\ ~arr.compressed
  /\ \E nr \in Pread(arr.word, 0) :
       \/ /\ nr = arr.word
          /\ result' = UncompressedArray(arr.total_bytes)
          /\ data_start' = arr.word
          /\ pc' = "adjust"
          /\ UNCHANGED <<arr, avail, buffers>>
       \/ nr # arr.word /\ Throw /\ UNCHANGED buffers

\* Mutant: a read that fails is tried again.
ReadInfoAgain ==
  /\ pc = "header" /\ arr.compressed
  /\ \E nr \in Pread(3 * arr.word, 0) :
       \/ /\ nr = 3 * arr.word
          /\ buffers' = buffers \cup {"compressed_block_size"}
          /\ pc' = "sizes"
          /\ UNCHANGED <<arr, avail, result, data_start>>
       \/ nr # 3 * arr.word /\ UNCHANGED vars

\* ParseCompressed32 and 64: the first three words, and memory for the rest.
ReadInfo ==
  /\ pc = "header" /\ arr.compressed
  /\ \E nr \in Pread(3 * arr.word, 0) :
       \/ /\ nr = 3 * arr.word
          /\ arr.word * NumBlks(arr) < TwoTo64
          /\ buffers' = buffers \cup {"compressed_block_size"}
          /\ pc' = "sizes"
          /\ UNCHANGED <<arr, avail, result, data_start>>
       \/ /\ nr # 3 * arr.word \/ arr.word * NumBlks(arr) >= TwoTo64
          /\ Throw /\ UNCHANGED buffers

\* What compressed_block_size holds after n of its bytes were read.
SizesRead(n) ==
  {s \in [1..NumBlks(arr) -> {arr.sizes[b] : b \in 1..NumBlks(arr)} \cup Stray] :
     \A b \in 1..NumBlks(arr) : arr.word * b <= n => s[b] = arr.sizes[b]}

\* Mutant: the memory is not released if the sizes cannot be read.
ReadSizesLeaking ==
  /\ pc = "sizes"
  /\ \E nr \in Pread(Bytes(NumBlks(arr)), 3 * arr.word) :
       \/ /\ nr = Bytes(NumBlks(arr))
          /\ \E s \in SizesRead(nr) :
               result' = CompressedArray(NumBlks(arr), arr.blk_sz, arr.last_blk_sz, s)
          /\ data_start' = 3 * arr.word + Bytes(NumBlks(arr))
          /\ pc' = IF arr.word = 4 THEN "widen" ELSE "adjust"
          /\ UNCHANGED <<arr, avail, buffers>>
       \/ nr # Bytes(NumBlks(arr)) /\ Throw /\ UNCHANGED buffers

\* The size of every block.
ReadSizes ==
  /\ pc = "sizes"
  /\ \E nr \in Pread(Bytes(NumBlks(arr)), 3 * arr.word) :
       \/ /\ nr = Bytes(NumBlks(arr))
          /\ \E s \in SizesRead(nr) :
               result' = CompressedArray(NumBlks(arr), arr.blk_sz, arr.last_blk_sz, s)
          /\ data_start' = 3 * arr.word + Bytes(NumBlks(arr))
          /\ pc' = IF arr.word = 4 THEN "widen" ELSE "adjust"
          /\ UNCHANGED <<arr, avail, buffers>>
       \/ /\ nr # Bytes(NumBlks(arr))
          /\ Throw /\ buffers' = buffers \ {"compressed_block_size"}

\* ParseCompressed32 copies the sizes into words of 64 bits.
Widen ==
  /\ pc = "widen"
  /\ buffers' = (buffers \ {"compressed_block_size"}) \cup {"compressed_block_size64"}
  /\ pc' = "adjust"
  /\ UNCHANGED <<arr, avail, result, data_start>>

\* Mutant: the header and the payload are taken for one text.
OneText(start) == (4 * start) \div 3

\* Where the text of a header of that length ends.
EndOfText(start) == 4 * ((start + 2) \div 3)

\* ParseAppendedArray: from the view to the file.
Adjust ==
  /\ pc = "adjust"
  /\ data_start' = arr.offset + (IF arr.b64 THEN EndOfText(data_start) ELSE data_start)
  /\ pc' = "build"
  /\ UNCHANGED <<arr, avail, result, buffers>>

\* BuildMap, which reads the result and keeps nothing of it; then delete[].
Build ==
  /\ pc = "build"
  /\ buffers' = buffers \ {"compressed_block_size", "compressed_block_size64"}
  /\ pc' = "done"
  /\ UNCHANGED <<arr, avail, result, data_start>>

Next == Truncate \/ ReadLength \/ ReadInfo \/ ReadSizes \/ Widen \/ Adjust \/ Build

Parse == ReadLength \/ ReadInfo \/ ReadSizes \/ Widen \/ Adjust \/ Build

Spec == Init /\ [][Next]_vars /\ WF_vars(Parse)

-----------------------------------------------------------------------------
(* Properties. *)

ResultType ==
  [total_bytes : Nat]
  \cup [num_blks : Nat, blk_sz : Nat, last_blk_sz : Nat, compressed_blk_sz : Seq(Nat)]

\* Types of the state.
TypeOK ==
  /\ pc \in {"header", "sizes", "widen", "adjust", "build", "done", "thrown"}
  /\ arr \in Arrays
  /\ avail \in Nat
  /\ result \in ResultType
  /\ data_start \in Nat
  /\ buffers \subseteq {"compressed_block_size", "compressed_block_size64"}

\* The sizes of the blocks fit the type of the words: arr.cc computes
\* 4 * info[0] in 32 bits.
Fits(a) == a.word * NumBlks(a) < (IF a.word = 4 THEN TwoTo32 ELSE TwoTo64)

\* What VTK wrote is what BuildMap is given (arr.cc, ParseAppendedArray): the
\* sizes, every block's and no stray memory, and the start of the payload,
\* whichever read failed or fell short and wherever the text of the header is
\* padded.
ArrayAsWritten ==
  pc \in {"build", "done"} /\ Fits(arr) =>
    /\ data_start = PayloadStart(arr)
    /\ result = IF arr.compressed
                THEN CompressedArray(NumBlks(arr), arr.blk_sz, arr.last_blk_sz, arr.sizes)
                ELSE UncompressedArray(arr.total_bytes)

\* No path through ParseCompressed32, ParseCompressed64 and ParseAppendedArray
\* keeps the sizes of the blocks, those that throw included.
NothingLeaked == pc \in {"done", "thrown"} => buffers = {}

\* Parsing ends, with an array or an exception.
ParseEnds == <>(pc \in {"done", "thrown"})

=============================================================================
