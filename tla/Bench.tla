------------------------------- MODULE Bench -------------------------------
(***************************************************************************)
(* The benchmark (bench.c): it reads one file from its start to what it    *)
(* takes for its end, with requests of one size, and prints how many bytes *)
(* that were.  In mode "bypass" it calls the file system directly and owns *)
(* the tree; in mode "posix" it calls pread(2), on a mounted file or any   *)
(* other.  malloc is assumed to succeed.                                   *)
(***************************************************************************)
EXTENDS Integers

CONSTANTS
  FileSizes,  \* sizes of the file that is read
  Buffers,    \* sizes of the buffer (-b); the code takes any
  MaxRW,      \* pread(2) transfers no more at a time
  NoReport    \* nothing was printed

ASSUME BenchAssumption ==
  /\ FileSizes \subseteq Nat
  /\ Buffers \subseteq Nat
  /\ MaxRW \in Nat \ {0}
  /\ NoReport \notin Nat

VARIABLES
  mode,    \* "bypass" or "posix"
  size,    \* size of the file
  bufsz,
  pc,      \* what main does next
  off,     \* bytes read so far
  nr,      \* what the latest read returned
  handle,  \* "open" or "closed"
  tree,    \* "built" or "none"
  report   \* the number of bytes printed

vars == <<mode, size, bufsz, pc, off, nr, handle, tree, report>>
args == <<mode, size, bufsz>>

Smaller(a, b) == IF a <= b THEN a ELSE b

Init ==
  /\ mode \in {"bypass", "posix"}
  /\ size \in FileSizes
  /\ bufsz \in Buffers
  /\ pc = "args"
  /\ off = 0 /\ nr = 0
  /\ handle = "closed" /\ tree = "none"
  /\ report = NoReport

-----------------------------------------------------------------------------
(* main *)

Goto(step) == pc' = step /\ UNCHANGED args

Exit == Goto("exited") /\ UNCHANGED <<off, nr, handle, tree, report>>

\* Too few names on the command line.
Usage == pc = "args" /\ Exit

ParseArgs ==
  /\ pc = "args"
  /\ Goto(IF mode = "bypass" THEN "init" ELSE "drop")
  /\ UNCHANGED <<off, nr, handle, tree, report>>

\* TEST_init_tree: it exits if the VTK file does not parse.
InitTree ==
  /\ pc = "init"
  /\ \/ Exit
     \/ tree' = "built" /\ Goto("drop") /\ UNCHANGED <<off, nr, handle, report>>

\* os_drop_caches: it exits if the caches cannot be dropped.
DropCaches ==
  /\ pc = "drop"
  /\ \/ Exit
     \/ Goto("open") /\ UNCHANGED <<off, nr, handle, tree, report>>

DestroyTree ==
  /\ pc = "destroy"
  /\ tree' = "none"
  /\ Goto("exited")
  /\ UNCHANGED <<off, nr, handle, report>>

-----------------------------------------------------------------------------
(* run_bypass and run_posix *)

Open ==
  /\ pc = "open"
  /\ \/ handle' = "closed" /\ Goto("destroy")
     \/ handle' = "open" /\ Goto("read")
  /\ UNCHANGED <<off, nr, tree, report>>

\* What a read of the rest of the file returns, errors aside: TEST_read keeps
\* the promise of RandomAccess; pread may be short.
Counts ==
  LET rest == size - off
  IN  CASE mode = "bypass" -> {Smaller(bufsz, rest)}
        [] mode = "posix"  ->
             IF bufsz = 0 \/ rest = 0 THEN {0}
             ELSE 1..Smaller(Smaller(bufsz, MaxRW), rest)

Read ==
  /\ pc = "read"
  /\ \E n \in Counts : nr' = n
  /\ Goto("count")
  /\ UNCHANGED <<off, handle, tree, report>>

\* The file stays open.
ReadFails ==
  /\ pc = "read"
  /\ Goto("destroy")
  /\ UNCHANGED <<off, nr, handle, tree, report>>

\* Mutant: a full buffer ends the loop.
StopWhenFull ==
  /\ pc = "count"
  /\ off' = off + nr
  /\ Goto(IF nr <= bufsz THEN "print" ELSE "read")
  /\ UNCHANGED <<nr, handle, tree, report>>

\* Mutant: the bytes asked for are counted.
CountAsked ==
  /\ pc = "count"
  /\ off' = off + bufsz
  /\ Goto(IF nr < bufsz THEN "print" ELSE "read")
  /\ UNCHANGED <<nr, handle, tree, report>>

\* Mutant: the offset stays.
ReadAgain ==
  /\ pc = "count"
  /\ Goto(IF nr < bufsz THEN "print" ELSE "read")
  /\ UNCHANGED <<off, nr, handle, tree, report>>

\* The end of a pass: fewer bytes than the buffer holds are the last ones.
Count ==
  /\ pc = "count"
  /\ off' = off + nr
  /\ Goto(IF nr < bufsz THEN "print" ELSE "read")
  /\ UNCHANGED <<nr, handle, tree, report>>

\* Mutant: the file is not closed.
PrintOnly ==
  /\ pc = "print"
  /\ report' = off
  /\ Goto("destroy")
  /\ UNCHANGED <<off, nr, handle, tree>>

\* The figures, then TEST_close or close.
PrintAndClose ==
  /\ pc = "print"
  /\ report' = off
  /\ handle' = "closed"
  /\ Goto("destroy")
  /\ UNCHANGED <<off, nr, tree>>

Next ==
  \/ Usage \/ ParseArgs \/ InitTree \/ DropCaches \/ Open
  \/ Read \/ ReadFails \/ Count \/ PrintAndClose \/ DestroyTree

Spec == Init /\ [][Next]_vars

\* One thread that is scheduled, and reads that return (FilePread).
FairSpec == Spec /\ WF_vars(Next)

-----------------------------------------------------------------------------
(* Properties. *)

\* Types of the state; no byte is counted that the file does not have.
TypeOK ==
  /\ mode \in {"bypass", "posix"}
  /\ size \in FileSizes /\ bufsz \in Buffers
  /\ pc \in {"args", "init", "drop", "open", "read", "count", "print", "destroy", "exited"}
  /\ off \in 0..size /\ nr \in Nat
  /\ handle \in {"open", "closed"} /\ tree \in {"built", "none"}
  /\ report \in Nat \cup {NoReport}

\* What run_bypass prints is the size of the file, whatever the buffer and
\* whether or not it divides the size: every byte was read, once.
CountsWholeFile == (mode = "bypass" /\ report # NoReport) => report = size

\* The program ends with an open file only if a read failed, and with a tree
\* only if it exits before the file is opened (run_bypass, main).
HoldsNothing ==
  pc = "exited" =>
    /\ handle = "open" => report = NoReport
    /\ tree = "built" => handle = "closed" /\ report = NoReport

\* The benchmark ends unless its buffer has no room: a read of 0 bytes is
\* then a full one, and the loop has no other end.
BenchEnds == bufsz > 0 => <>(pc = "exited")

=============================================================================
