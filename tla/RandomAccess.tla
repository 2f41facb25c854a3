---------------------------- MODULE RandomAccess ----------------------------
(***************************************************************************)
(* What RandomAccessFile::Pread (fmap.h) promises to those who call it:    *)
(* the FUSE read handler and, through it, the kernel.  A call ends either  *)
(* with an error or with the whole answer: every byte of the request that  *)
(* the file holds, and no other.  There is no short answer before the end  *)
(* of the file; a reader such as bench.c takes one for end of file.        *)
(*                                                                         *)
(* Reply maps a request to the bytes the file holds for it.                *)
(***************************************************************************)
EXTENDS Sequences

CONSTANTS Readers,   \* threads that call Pread
          Requests,  \* what they may ask for
          Reply,     \* [Requests -> the bytes owed]
          NoRequest  \* not a request

VARIABLES pending,   \* pending[r]: a call of r is under way
          req,       \* req[r]: the latest request of r
          ret        \* ret[r]: what that call returned

vars == <<pending, req, ret>>

NoAnswer == [status |-> "none", data |-> <<>>]
Failed   == [status |-> "error", data |-> <<>>]
Answer(data) == [status |-> "ok", data |-> data]

Init ==
  /\ pending = [r \in Readers |-> FALSE]
  /\ req = [r \in Readers |-> NoRequest]
  /\ ret = [r \in Readers |-> NoAnswer]

Invoke(r) ==
  /\ ~pending[r]
  /\ \E q \in Requests : req' = [req EXCEPT ![r] = q]
  /\ pending' = [pending EXCEPT ![r] = TRUE]
  /\ ret' = [ret EXCEPT ![r] = NoAnswer]

Finish(r, answer) ==
  /\ pending[r]
  /\ pending' = [pending EXCEPT ![r] = FALSE]
  /\ ret' = [ret EXCEPT ![r] = answer]
  /\ UNCHANGED req

Deliver(r) == Finish(r, Answer(Reply[req[r]]))
Reject(r)  == Finish(r, Failed)

Next == \E r \in Readers : Invoke(r) \/ Deliver(r) \/ Reject(r)

Spec == Init /\ [][Next]_vars

=============================================================================
