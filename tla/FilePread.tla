----------------------------- MODULE FilePread -----------------------------
(***************************************************************************)
(* Reads of virtual files by concurrent threads: FileMap::Pread and        *)
(* FileMap::Read (fmap.cc), Base64Reader (base64.cc), ReadonlyOSFile and   *)
(* the file below it, which other processes may cut short at any time.     *)
(*                                                                         *)
(* A thread's locals are frame (FileMap::Pread) and decoder                *)
(* (Base64Reader::PreadTyped); nothing else is shared but the underlying   *)
(* file, of which only the length matters: its bytes are named by their    *)
(* positions.  A step is one pass of a loop; a raw pread is two, the call  *)
(* and its outcome, because a call that returns nothing is a step too.     *)
(***************************************************************************)
EXTENDS FileMap

CONSTANTS
  Readers,      \* worker threads that serve reads
  Maps,         \* maps of the files they read
  PayloadLen,   \* [Maps -> payload bytes the VTK file encodes for the map]
  Offsets,      \* offsets and sizes of the requests
  Sizes,
  NoRequest,    \* not a request
  FileLen,      \* length of the VTK file when it is mounted
  Truncations   \* lengths another process may cut it to

Requests == [map : Maps, offset : Offsets, size : Sizes]

ASSUME MapsAssumption ==
  \A m \in Maps : /\ WellFormed(m)
                  /\ PayloadLen[m] \in Nat
                  /\ MappedWithin(m, PayloadLen[m])

ASSUME RequestAssumption ==
  /\ Offsets \subseteq Nat
  /\ Sizes \subseteq Nat
  /\ NoRequest \notin Requests

ASSUME FileAssumption == FileLen \in Nat /\ Truncations \subseteq Nat

VARIABLES
  flen,     \* current length of the VTK file
  pc,       \* where each thread is
  req,      \* its latest request
  frame,    \* locals of FileMap::Pread
  decoder,  \* locals of Base64Reader::PreadTyped
  ret       \* what its latest call returned

vars == <<flen, pc, req, frame, decoder, ret>>

NoAnswer == [status |-> "none", data |-> <<>>]
Failed   == [status |-> "error", data |-> <<>>]
Answer(data) == [status |-> "ok", data |-> data]

NoFrame   == [offset |-> 0, size |-> 0, i |-> 0, buf |-> <<>>]
NoDecoder == [group |-> 0, skip |-> 0, size |-> 0, out |-> <<>>]

Init ==
  /\ flen = FileLen
  /\ pc = [r \in Readers |-> "idle"]
  /\ req = [r \in Readers |-> NoRequest]
  /\ frame = [r \in Readers |-> NoFrame]
  /\ decoder = [r \in Readers |-> NoDecoder]
  /\ ret = [r \in Readers |-> NoAnswer]

-----------------------------------------------------------------------------
(* Entering and leaving FileMap::Pread. *)

Call(r) ==
  /\ pc[r] = "idle"
  /\ \E q \in Requests : \E j \in 1..Len(q.map.offsets) + 1 :
       /\ IsUpperBound(q.map.offsets, q.offset, j)
       /\ req' = [req EXCEPT ![r] = q]
       /\ frame' = [frame EXCEPT ![r] =
            [offset |-> q.offset, size |-> q.size, i |-> j - 1, buf |-> <<>>]]
  /\ pc' = [pc EXCEPT ![r] = "loop"]
  /\ ret' = [ret EXCEPT ![r] = NoAnswer]
  /\ UNCHANGED <<flen, decoder>>

Leave(r, answer) ==
  /\ pc' = [pc EXCEPT ![r] = "idle"]
  /\ ret' = [ret EXCEPT ![r] = answer]
  /\ frame' = [frame EXCEPT ![r] = NoFrame]
  /\ decoder' = [decoder EXCEPT ![r] = NoDecoder]
  /\ UNCHANGED <<flen, req>>

(* The loop of FileMap::Pread. *)

More(r) ==
  /\ frame[r].size # 0
  /\ frame[r].offset < FileSize(req[r].map)

Return(r) ==
  /\ pc[r] = "loop"
  /\ ~More(r)
  /\ Leave(r, Answer(frame[r].buf))

\* region_offset, and the bytes asked of the region: std::min(size, lim).
RegionOffset(f, m) == f.offset - m.offsets[f.i]

\* Mutant: lim is asked for, not std::min(size, lim).
WantRegion(f, m) == m.offsets[f.i + 1] - f.offset

Want(f, m) == Smaller(f.size, m.offsets[f.i + 1] - f.offset)

\* Mutant: the offset advances by the bytes asked for, not by those read.
AdvancedAsAsked(f, m, data) ==
  LET next == f.offset + Want(f, m)
  IN  [offset |-> next,
       size   |-> f.size - Want(f, m),
       i      |-> IF next >= m.offsets[f.i + 1] THEN f.i + 1 ELSE f.i,
       buf    |-> f.buf \o data]

\* Mutant: a pass that ends at the end of its region stays in it.
AdvancedPastEnd(f, m, data) ==
  LET next == f.offset + Len(data)
  IN  [offset |-> next,
       size   |-> f.size - Len(data),
       i      |-> IF next > m.offsets[f.i + 1] THEN f.i + 1 ELSE f.i,
       buf    |-> f.buf \o data]

\* The end of a pass, data being what Read put into buf.
Advanced(f, m, data) ==
  LET next == f.offset + Len(data)
  IN  [offset |-> next,
       size   |-> f.size - Len(data),
       i      |-> IF next >= m.offsets[f.i + 1] THEN f.i + 1 ELSE f.i,
       buf    |-> f.buf \o data]

\* A pass whose region satisfies the condition of one branch of Read.
InRegion(r, mapped) ==
  /\ pc[r] = "loop"
  /\ More(r)
  /\ IsMapped(req[r].map, frame[r].i) = mapped

\* memcpy from the direct buffer.
ReadDirect(r) ==
  LET f == frame[r]
      m == req[r].map
      from == RegionOffset(f, m) - m.underlying_offsets[f.i]
  IN  /\ InRegion(r, FALSE)
      /\ frame' = [frame EXCEPT ![r] =
           Advanced(f, m, [k \in 1..Want(f, m) |-> m.direct_buf[from + k]])]
      /\ UNCHANGED <<flen, pc, req, decoder, ret>>

-----------------------------------------------------------------------------
(* Mapped regions of raw data. *)

\* Mutant: the 1 that marks mapped regions is not taken off.
PayloadOffsetMarked(f, m) == m.underlying_offsets[f.i] + RegionOffset(f, m)

\* Position in the payload at which a pass reads.
PayloadOffset(f, m) == m.underlying_offsets[f.i] - 1 + RegionOffset(f, m)

\* What pread(2) may return for n bytes at p, errors aside: nothing at the
\* end of the file, else at least one byte and possibly fewer than asked.
PreadCounts(n, p) ==
  IF n = 0 \/ p >= flen THEN {0} ELSE 1..Smaller(n, flen - p)

CallOSFile(r) ==
  /\ InRegion(r, TRUE)
  /\ ~req[r].map.pending_base64_decoding
  /\ pc' = [pc EXCEPT ![r] = "pread"]
  /\ UNCHANGED <<flen, req, frame, decoder, ret>>

OSFileReturns(r) ==
  LET f == frame[r]
      m == req[r].map
      p == m.data_start + PayloadOffset(f, m)
  IN  /\ pc[r] = "pread"
      /\ \E n \in PreadCounts(Want(f, m), p) :
           frame' = [frame EXCEPT ![r] =
             Advanced(f, m, [k \in 1..n |-> FileByte(p + k - 1)])]
      /\ pc' = [pc EXCEPT ![r] = "loop"]
      /\ UNCHANGED <<flen, req, decoder, ret>>

OSFileFails(r) ==
  /\ pc[r] = "pread"
  /\ Leave(r, Failed)

-----------------------------------------------------------------------------
(* Mapped regions of base64 data: Base64Reader::PreadTyped. *)

EnterDecoder(r) ==
  LET f == frame[r]
      m == req[r].map
  IN  /\ InRegion(r, TRUE)
      /\ m.pending_base64_decoding
      /\ decoder' = [decoder EXCEPT ![r] =
           [group |-> PayloadOffset(f, m) \div 3,
            skip  |-> PayloadOffset(f, m) % 3,
            size  |-> Want(f, m),
            out   |-> <<>>]]
      /\ pc' = [pc EXCEPT ![r] = "decode"]
      /\ UNCHANGED <<flen, req, frame, ret>>

\* How many bytes DecodeTriplet gets out of group g: three, fewer in the
\* padded last group, anything past the end of the payload.
DecodedCounts(m, g) ==
  IF 3 * g >= PayloadLen[m] THEN 0..3 ELSE {Smaller(3, PayloadLen[m] - 3 * g)}

\* Decode4 gets its four characters and the bytes it needs from them.
DecodeGroup(r) ==
  LET d == decoder[r]
      m == req[r].map
      p == m.data_start + 4 * d.group
  IN  /\ pc[r] = "decode"
      /\ Len(d.out) < d.size
      /\ 4 \in PreadCounts(4, p)
      /\ \E n \in DecodedCounts(m, d.group) :
           /\ n > d.skip
           /\ decoder' = [decoder EXCEPT ![r] =
                [group |-> d.group + 1,
                 skip  |-> 0,
                 size  |-> d.size,
                 out   |-> d.out \o [t \in 1..Smaller(n - d.skip, d.size - Len(d.out)) |->
                                       DecodedByte(p, d.skip + t - 1)]]]
      /\ UNCHANGED <<flen, pc, req, frame, ret>>

\* Mutant: a failed decoding ends the read with what it has so far.
DecodeStopsShort(r) ==
  /\ pc[r] = "decode"
  /\ Len(decoder[r].out) < decoder[r].size
  /\ Leave(r, Answer(frame[r].buf))

\* Mutant: Base64Reader returns the bytes it has, and Pread goes on.
DecodeReturnsFewer(r) ==
  /\ pc[r] = "decode"
  /\ Len(decoder[r].out) < decoder[r].size
  /\ frame' = [frame EXCEPT ![r] = Advanced(@, req[r].map, decoder[r].out)]
  /\ decoder' = [decoder EXCEPT ![r] = NoDecoder]
  /\ pc' = [pc EXCEPT ![r] = "loop"]
  /\ UNCHANGED <<flen, req, ret>>

\* Decode4 gets fewer than four characters or an error from pread, or the
\* group holds no byte past the ones to skip.
DecodeFails(r) ==
  /\ pc[r] = "decode"
  /\ Len(decoder[r].out) < decoder[r].size
  /\ Leave(r, Failed)

LeaveDecoder(r) ==
  /\ pc[r] = "decode"
  /\ Len(decoder[r].out) = decoder[r].size
  /\ frame' = [frame EXCEPT ![r] = Advanced(@, req[r].map, decoder[r].out)]
  /\ decoder' = [decoder EXCEPT ![r] = NoDecoder]
  /\ pc' = [pc EXCEPT ![r] = "loop"]
  /\ UNCHANGED <<flen, req, ret>>

-----------------------------------------------------------------------------
\* Another process truncates the VTK file.
Truncate ==
  /\ \E n \in Truncations : n < flen /\ flen' = n
  /\ UNCHANGED <<pc, req, frame, decoder, ret>>

Step(r) ==
  \/ Return(r) \/ ReadDirect(r)
  \/ CallOSFile(r) \/ OSFileReturns(r) \/ OSFileFails(r)
  \/ EnterDecoder(r) \/ DecodeGroup(r) \/ DecodeFails(r) \/ LeaveDecoder(r)

Next == Truncate \/ \E r \in Readers : Call(r) \/ Step(r)

Spec == Init /\ [][Next]_vars

\* The operating system schedules a thread that has work to do and pread
\* returns; nobody has to call, and nobody has to truncate.
FairSpec == Spec /\ \A r \in Readers : WF_vars(Step(r))

-----------------------------------------------------------------------------
(* Properties. *)

FrameType == [offset : Nat, size : Nat, i : Nat, buf : Seq(Byte)]
DecoderType == [group : Nat, skip : 0..2, size : Nat, out : Seq(Byte)]

\* Types of the state; a running thread has a request.
TypeOK ==
  /\ flen \in Nat
  /\ pc \in [Readers -> {"idle", "loop", "pread", "decode"}]
  /\ req \in [Readers -> Requests \cup {NoRequest}]
  /\ frame \in [Readers -> FrameType]
  /\ decoder \in [Readers -> DecoderType]
  /\ ret \in [Readers -> [status : {"none", "ok", "error"}, data : Seq(Byte)]]
  /\ \A r \in Readers : pc[r] # "idle" => req[r] \in Requests

\* A read that succeeds has put exactly the requested bytes into the caller's
\* buffer, whatever regions the request spans, however pread splits it, and
\* wherever the file is cut meanwhile (FileMap::Pread, fmap.cc).
ReadsExactSlice ==
  \A r \in Readers :
    ret[r].status = "ok" => ret[r].data = Slice(req[r].map, req[r].offset, req[r].size)

\* Threads that run FileMap::Pread implement the promise of RandomAccessFile:
\* all of the answer or an error, never a short or a wrong one.
Promise == INSTANCE RandomAccess WITH
             pending <- [r \in Readers |-> pc[r] # "idle"],
             Reply <- [q \in Requests |-> Slice(q.map, q.offset, q.size)]
KeepsPromise == Promise!Spec

\* Every call of FileMap::Pread ends: the loop of fmap.cc leaves no read
\* request unanswered.
ReadsReturn == \A r \in Readers : pc[r] # "idle" ~> pc[r] = "idle"

\* A read of a base64 array ends even if the VTK file is cut under it: the
\* answer of Base64Reader to a group it cannot read is an error, and FileMap's
\* loop does not go on without it (base64.cc, PreadTyped; fmap.cc, Pread).
DecodedReadsReturn ==
  \A r \in Readers :
    (pc[r] # "idle" /\ req[r].map.pending_base64_decoding) ~> pc[r] = "idle"

=============================================================================
