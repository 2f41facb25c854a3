------------------------- MODULE ArrayHeader_proofs -------------------------
(***************************************************************************)
(* Proofs about ArrayHeader: its types, that an array is parsed as it was  *)
(* written or not at all, and that nothing it allocates is kept.           *)
(***************************************************************************)
EXTENDS ArrayHeader, SequenceTheorems, TLAPS

\* What the parser has found so far is what VTK wrote, but for data_start.
Found ==
  result = IF arr.compressed
           THEN CompressedArray(NumBlks(arr), arr.blk_sz, arr.last_blk_sz, arr.sizes)
           ELSE UncompressedArray(arr.total_bytes)

\* The invariant: the memory that is held and the meaning of data_start, which
\* is relative to the view until Adjust has run, depend on the step.
Held ==
  /\ pc \in {"header", "done", "thrown"} => buffers = {}
  /\ pc \in {"sizes", "widen"} => buffers = {"compressed_block_size"}

Placed ==
  /\ pc \in {"sizes", "widen"} => arr.compressed
  /\ pc \in {"widen", "adjust"} /\ Fits(arr) => Found /\ data_start = HeaderLen(arr)
  /\ pc \in {"build", "done"} /\ Fits(arr) => Found /\ data_start = PayloadStart(arr)

IInv == TypeOK /\ Held /\ Placed

-----------------------------------------------------------------------------
(* Arithmetic. *)

\* A number below the modulus is its own remainder.
LEMMA SmallModulo == \A x, m \in Nat : x < m => x % m = x
  BY Z3

\* Remainders are natural numbers below the modulus.
LEMMA Remainder == \A x \in Int, m \in Nat \ {0} : x % m \in 0..m - 1
  BY Z3

\* Both ways to count groups of three agree (ParseAppendedArray).
LEMMA GroupsOf == \A n \in Nat : Groups(n) = (n + 2) \div 3 /\ Groups(n) \in Nat
  BY DEF Groups

\* Fields of an array.
LEMMA ArrayFields ==
  ASSUME NEW a \in Arrays
  PROVE  /\ a.word \in {4, 8}
         /\ a.compressed \in BOOLEAN /\ a.b64 \in BOOLEAN
         /\ a.offset \in Nat /\ a.total_bytes \in Nat
         /\ a.blk_sz \in Nat /\ a.last_blk_sz \in Nat
         /\ a.sizes \in Seq(Nat) /\ NumBlks(a) \in Nat
         /\ HeaderLen(a) \in Nat
<1>1. a \in ArrayRecord
  BY WordAssumption
<1>2. /\ a.word \in {4, 8} /\ a.compressed \in BOOLEAN /\ a.b64 \in BOOLEAN
      /\ a.offset \in Nat /\ a.total_bytes \in Nat
      /\ a.blk_sz \in Nat /\ a.last_blk_sz \in Nat /\ a.sizes \in Seq(Nat)
  BY <1>1 DEF ArrayRecord
<1>3. NumBlks(a) \in Nat
  BY <1>2 DEF NumBlks
<1>4. HeaderLen(a) \in Nat
  BY <1>2, <1>3 DEF HeaderLen, HeaderWords
<1> QED
  BY <1>2, <1>3, <1>4

\* The number of bytes the code asks for is the number of bytes of the sizes
\* if they fit, and a natural number if they do not.
LEMMA BytesOf ==
  ASSUME NEW a \in Arrays, arr = a
  PROVE  /\ Bytes(NumBlks(a)) \in Nat
         /\ Fits(a) => Bytes(NumBlks(a)) = a.word * NumBlks(a)
<1> DEFINE m == IF a.word = 4 THEN TwoTo32 ELSE TwoTo64
           x == a.word * NumBlks(a)
<1>1. m \in Nat \ {0} /\ x \in Nat
  BY ArrayFields, WordAssumption
<1>2. Bytes(NumBlks(a)) = x % m
  BY DEF Bytes
<1>3. Fits(a) => x < m
  BY DEF Fits
<1> HIDE DEF m, x
<1>4. x % m \in Nat
  BY <1>1, Remainder
<1>5. Fits(a) => x % m = x
  BY <1>1, <1>3, SmallModulo
<1> QED
  BY <1>2, <1>4, <1>5 DEF x

\* Functions on 1..k are sequences.
LEMMA FunctionIsSeq ==
  ASSUME NEW S, NEW k \in Nat, NEW f \in [1..k -> S]
  PROVE  f \in Seq(S)
BY SeqDef, Zenon

\* Sizes that were read whole are the sizes VTK wrote.
LEMMA SizesWhole ==
  ASSUME NEW a \in Arrays, arr = a, NEW n \in Nat, NEW s \in SizesRead(n)
  PROVE  /\ s \in Seq(Nat)
         /\ n = a.word * NumBlks(a) => s = a.sizes
<1> DEFINE w == a.word
           k == NumBlks(a)
<1>1. w \in {4, 8} /\ k \in Nat /\ k = Len(a.sizes) /\ a.sizes \in Seq(Nat)
  BY ArrayFields DEF NumBlks
<1>2. a.sizes \in [1..k -> Nat]
  BY <1>1
<1>3. /\ s \in [1..k -> {a.sizes[b] : b \in 1..k} \cup Stray]
      /\ \A b \in 1..k : w * b <= n => s[b] = a.sizes[b]
  BY DEF SizesRead
<1>4. {a.sizes[b] : b \in 1..k} \cup Stray \subseteq Nat
  BY <1>2, WordAssumption
<1>5. s \in [1..k -> Nat]
  BY <1>3, <1>4
<1> HIDE DEF w, k
<1>6. s \in Seq(Nat)
  BY <1>1, <1>5, FunctionIsSeq
<1>7. ASSUME n = w * k
      PROVE  s = a.sizes
  <2>1. \A b \in 1..k : w * b <= n
    BY <1>1, <1>7
  <2>2. \A b \in 1..k : s[b] = a.sizes[b]
    BY <1>3, <2>1
  <2> DEFINE r == a.sizes
  <2>3. r \in [1..k -> Nat] /\ \A b \in 1..k : s[b] = r[b]
    BY <1>2, <2>2
  <2> HIDE DEF r
  <2>4. s = [b \in 1..k |-> s[b]]
    BY <1>5
  <2>5. r = [b \in 1..k |-> r[b]]
    BY <2>3
  <2>6. [b \in 1..k |-> s[b]] = [b \in 1..k |-> r[b]]
    BY <2>3, Zenon
  <2>7. s = r
    BY <2>4, <2>5, <2>6, Zenon
  <2> QED
    BY <2>7 DEF r
<1> QED
  BY <1>6, <1>7 DEF w, k

-----------------------------------------------------------------------------
(* The invariant is inductive. *)

LEMMA InitIInv == Init => IInv
<1> SUFFICES ASSUME Init PROVE IInv
  OBVIOUS
<1>1. arr \in Arrays
  BY DEF Init
<1>2. avail \in Nat
  <2>1. HeaderLen(arr) \in Nat /\ Groups(HeaderLen(arr)) \in Nat /\ arr.offset \in Nat
    BY <1>1, ArrayFields, GroupsOf
  <2> QED
    BY <2>1 DEF Init, PayloadStart
<1>3. result \in ResultType
  BY DEF Init, NotParsed, UncompressedArray, ResultType
<1> QED
  BY <1>1, <1>2, <1>3 DEF Init, IInv, TypeOK, Held, Placed

LEMMA TruncateStep == IInv /\ Truncate => IInv'
BY DEF IInv, TypeOK, Held, Placed, Found, Truncate

LEMMA ReadLengthStep == IInv /\ ReadLength => IInv'
<1> SUFFICES ASSUME IInv, ReadLength PROVE IInv'
  OBVIOUS
<1> USE DEF IInv, TypeOK, Held
<1>1. PICK nr \in Pread(arr.word, 0) :
        \/ /\ nr = arr.word
           /\ result' = UncompressedArray(arr.total_bytes)
           /\ data_start' = arr.word
           /\ pc' = "adjust"
           /\ UNCHANGED <<arr, avail, buffers>>
        \/ nr # arr.word /\ Throw /\ UNCHANGED buffers
  BY DEF ReadLength
<1>2. CASE nr # arr.word
  BY <1>1, <1>2 DEF ReadLength, Throw, Placed
<1>3. CASE nr = arr.word
  <2>1. arr.word \in {4, 8} /\ arr.total_bytes \in Nat /\ ~arr.compressed
    BY ArrayFields DEF ReadLength
  <2>2. result' \in ResultType /\ data_start' \in Nat
    BY <1>1, <1>3, <2>1 DEF ResultType, UncompressedArray
  <2>3. HeaderLen(arr) = arr.word
    BY <2>1 DEF HeaderLen, HeaderWords
  <2>4. Placed'
    BY <1>1, <1>3, <2>1, <2>3 DEF Placed, Found
  <2> QED
    BY <1>1, <1>3, <2>2, <2>4 DEF ReadLength
<1> QED
  BY <1>2, <1>3

LEMMA ReadInfoStep == IInv /\ ReadInfo => IInv'
BY DEF IInv, TypeOK, Held, Placed, ReadInfo, Throw

LEMMA ReadSizesStep == IInv /\ ReadSizes => IInv'
<1> SUFFICES ASSUME IInv, ReadSizes PROVE IInv'
  OBVIOUS
<1> USE DEF IInv, TypeOK, Held
<1> DEFINE n == Bytes(NumBlks(arr))
<1>0. /\ arr.word \in {4, 8} /\ NumBlks(arr) \in Nat /\ arr.compressed
      /\ arr.blk_sz \in Nat /\ arr.last_blk_sz \in Nat
  BY ArrayFields DEF ReadSizes, Placed
<1>1. n \in Nat /\ (Fits(arr) => n = arr.word * NumBlks(arr))
  BY BytesOf
<1>2. PICK nr \in Pread(n, 3 * arr.word) :
        \/ /\ nr = n
           /\ \E s \in SizesRead(nr) :
                result' = CompressedArray(NumBlks(arr), arr.blk_sz, arr.last_blk_sz, s)
           /\ data_start' = 3 * arr.word + n
           /\ pc' = IF arr.word = 4 THEN "widen" ELSE "adjust"
           /\ UNCHANGED <<arr, avail, buffers>>
        \/ /\ nr # n
           /\ Throw /\ buffers' = buffers \ {"compressed_block_size"}
  BY DEF ReadSizes
<1>3. CASE nr # n
  BY <1>2, <1>3 DEF ReadSizes, Throw, Placed
<1>4. CASE nr = n
  <2>1. PICK s \in SizesRead(n) :
          result' = CompressedArray(NumBlks(arr), arr.blk_sz, arr.last_blk_sz, s)
    BY <1>2, <1>4
  <2> HIDE DEF n
  <2>2. s \in Seq(Nat) /\ (n = arr.word * NumBlks(arr) => s = arr.sizes)
    BY <1>1, SizesWhole
  <2>3. 3 * arr.word + n \in Nat
    BY <1>0, <1>1
  <2>4. result' \in ResultType
    BY <1>0, <2>1, <2>2 DEF ResultType, CompressedArray
  <2>5. data_start' = 3 * arr.word + n
    BY <1>2, <1>4
  <2>6. Fits(arr) => 3 * arr.word + n = HeaderLen(arr)
    BY <1>0, <1>1 DEF HeaderLen, HeaderWords
  <2>7. arr' = arr /\ avail' = avail /\ buffers' = buffers /\ pc' \in {"widen", "adjust"}
    BY <1>2, <1>4
  <2>8. Placed'
    BY <1>0, <1>1, <2>1, <2>2, <2>5, <2>6, <2>7 DEF Placed, Found, Fits
  <2> QED
    BY <2>3, <2>4, <2>5, <2>7, <2>8 DEF ReadSizes
<1> QED
  BY <1>3, <1>4

LEMMA WidenStep == IInv /\ Widen => IInv'
BY DEF IInv, TypeOK, Held, Placed, Found, Widen

LEMMA AdjustStep == IInv /\ Adjust => IInv'
<1> SUFFICES ASSUME IInv, Adjust PROVE IInv'
  OBVIOUS
<1> USE DEF IInv, TypeOK, Held
<1>1. data_start \in Nat /\ arr.offset \in Nat
  BY ArrayFields
<1>2. /\ EndOfText(data_start) = 4 * Groups(data_start)
      /\ Groups(data_start) \in Nat
  BY <1>1, GroupsOf DEF EndOfText
<1>3. data_start' \in Nat
  BY <1>1, <1>2 DEF Adjust
<1>4. data_start = HeaderLen(arr) => data_start' = PayloadStart(arr)
  BY <1>2 DEF Adjust, PayloadStart
<1>5. Placed'
  BY <1>4 DEF Adjust, Placed, Found
<1> QED
  BY <1>3, <1>5 DEF Adjust

LEMMA BuildStep == IInv /\ Build => IInv'
BY DEF IInv, TypeOK, Held, Placed, Found, Build

LEMMA NextIInv == IInv /\ [Next]_vars => IInv'
<1> SUFFICES ASSUME IInv, [Next]_vars PROVE IInv'
  OBVIOUS
<1>1. CASE UNCHANGED vars
  BY <1>1 DEF IInv, TypeOK, Held, Placed, Found, vars
<1> QED
  BY <1>1, TruncateStep, ReadLengthStep, ReadInfoStep, ReadSizesStep, WidenStep,
     AdjustStep, BuildStep DEF Next

LEMMA Invariance == Spec => []IInv
BY InitIInv, NextIInv, PTL DEF Spec

-----------------------------------------------------------------------------
(* Theorems. *)

\* The state of the parser (arr.cc) is well typed for every array.
THEOREM TypeCorrect == Spec => []TypeOK
<1>1. IInv => TypeOK
  BY DEF IInv
<1> QED
  BY <1>1, Invariance, PTL

\* For every array whose sizes fit the words of its header, whatever its
\* encoding and however reads fail or the file shrinks, ParseAppendedArray
\* (parser.cc) gives BuildMap the array as VTK wrote it, or throws.
THEOREM ParsedAsWritten == Spec => []ArrayAsWritten
<1>1. IInv => ArrayAsWritten
  BY DEF IInv, Placed, Found, ArrayAsWritten
<1> QED
  BY <1>1, Invariance, PTL

\* No path through the parser of array headers (arr.cc) keeps memory.
THEOREM ReleasesAll == Spec => []NothingLeaked
<1>1. IInv => NothingLeaked
  BY DEF IInv, Held, NothingLeaked
<1> QED
  BY <1>1, Invariance, PTL

=============================================================================
