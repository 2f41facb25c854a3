--------------------------- MODULE ParquetWriter ---------------------------
(***************************************************************************)
(* What BuildMap promises: a virtual file that reads as if a Parquet       *)
(* writer had written it.  The file begins with the magic number, goes on  *)
(* with pages whose bodies are, in order and exactly once, the payload of  *)
(* the array, and ends with the footer, the length of the footer and the   *)
(* magic number.  How the payload is cut into pages is left open.          *)
(***************************************************************************)
EXTENDS FileMap

CONSTANTS
  Arrays,         \* arrays that may be translated
  PayloadLen(_),  \* bytes of payload of an array
  HeaderLens,     \* lengths of a serialized page header
  FooterLens      \* lengths of a serialized footer

VARIABLES
  arr,    \* the array
  stage,  \* what is written next
  file,   \* the bytes of the file
  npages, \* pages written
  sent    \* bytes of the payload written

vars == <<arr, stage, file, npages, sent>>

Magic         == [k \in 1..4 |-> [src |-> "magic", at |-> 0, nth |-> k]]
Header(p, n)  == [k \in 1..n |-> [src |-> "header", at |-> p, nth |-> k]]
Footer(n)     == [k \in 1..n |-> [src |-> "footer", at |-> 0, nth |-> k]]
FooterLen(n)  == [k \in 1..4 |-> [src |-> "length", at |-> n, nth |-> k]]
Payload(from, n) == [k \in 1..n |-> PayloadByte(arr.b64, arr.data_start, from + k - 1)]

Init ==
  /\ arr \in Arrays
  /\ stage = "magic"
  /\ file = <<>>
  /\ npages = 0
  /\ sent = 0

WriteMagic ==
  /\ stage = "magic"
  /\ file' = Magic
  /\ stage' = "pages"
  /\ UNCHANGED <<arr, npages, sent>>

WritePage ==
  /\ stage = "pages"
  /\ \E h \in HeaderLens, n \in 0..PayloadLen(arr) - sent :
       /\ file' = file \o Header(npages + 1, h) \o Payload(sent, n)
       /\ sent' = sent + n
  /\ npages' = npages + 1
  /\ UNCHANGED <<arr, stage>>

WriteFooter ==
  /\ stage = "pages"
  /\ sent = PayloadLen(arr)
  /\ \E n \in FooterLens : file' = file \o Footer(n) \o FooterLen(n) \o Magic
  /\ stage' = "done"
  /\ UNCHANGED <<arr, npages, sent>>

Next == WriteMagic \/ WritePage \/ WriteFooter

Spec == Init /\ [][Next]_vars

=============================================================================
