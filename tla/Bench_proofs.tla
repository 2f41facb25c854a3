---------------------------- MODULE Bench_proofs ----------------------------
(***************************************************************************)
(* Proofs about Bench: that run_bypass counts every byte of a file of any  *)
(* size with a buffer of any size, and what is held when the program ends. *)
(***************************************************************************)
EXTENDS Bench, TLAPS

InUse == {"read", "count", "print"}

\* A read that has returned and is not yet counted; in mode "bypass" it is a
\* full one unless it ends the file.
Uncounted ==
  pc = "count" =>
    /\ off + nr <= size
    /\ mode = "bypass" /\ nr < bufsz => off + nr = size

\* In mode "bypass" the loop ends at the end of the file.
Ended ==
  mode = "bypass" =>
    /\ pc = "print" => off = size
    /\ report # NoReport => report = size

\* Who holds the file and the tree, by the step main is at.
Held ==
  /\ handle = "open" => pc \in InUse \cup {"destroy", "exited"} /\ report = NoReport
  /\ pc \notin {"destroy", "exited"} => report = NoReport
  /\ pc = "exited" /\ tree = "built" => handle = "closed" /\ report = NoReport

IInv == TypeOK /\ Uncounted /\ Ended /\ Held

LEMMA InitIInv == Init => IInv
<1> SUFFICES ASSUME Init PROVE IInv
  OBVIOUS
<1>1. size \in Nat /\ NoReport \notin Nat
  BY BenchAssumption DEF Init
<1> QED
  BY <1>1 DEF Init, IInv, TypeOK, Uncounted, Ended, Held, InUse

\* Steps of main before and after the loop.
LEMMA MainStep ==
  ASSUME IInv, Usage \/ ParseArgs \/ InitTree \/ DropCaches \/ Open \/ DestroyTree
  PROVE  IInv'
BY DEF IInv, TypeOK, Uncounted, Ended, Held, InUse, Usage, ParseArgs, InitTree,
       DropCaches, Open, DestroyTree, Exit, Goto, args

\* What TEST_read or pread returns lies in the file, and TEST_read returns
\* less than the buffer holds only at its end.
LEMMA CountsWithin ==
  ASSUME IInv, NEW n \in Counts
  PROVE  /\ n \in Nat /\ off + n <= size
         /\ mode = "bypass" /\ n < bufsz => off + n = size
<1>1. size \in Nat /\ bufsz \in Nat /\ off \in Nat /\ off <= size /\ MaxRW \in Nat \ {0}
  BY BenchAssumption DEF IInv, TypeOK
<1>2. CASE mode = "bypass"
  <2>1. n = Smaller(bufsz, size - off)
    BY <1>2 DEF Counts
  <2> QED
    BY <1>1, <2>1 DEF Smaller
<1>3. CASE mode = "posix"
  <2>1. n \in IF bufsz = 0 \/ size - off = 0 THEN {0}
              ELSE 1..Smaller(Smaller(bufsz, MaxRW), size - off)
    BY <1>3 DEF Counts
  <2> QED
    BY <1>1, <1>3, <2>1 DEF Smaller
<1> QED
  BY <1>2, <1>3 DEF IInv, TypeOK

LEMMA LoopStep ==
  ASSUME IInv, Read \/ ReadFails \/ Count \/ PrintAndClose
  PROVE  IInv'
<1> USE DEF IInv, TypeOK, Uncounted, Ended, Held, InUse, Goto, args
<1>1. size \in Nat /\ bufsz \in Nat
  BY BenchAssumption
<1>2. CASE Read
  <2>1. PICK n \in Counts : nr' = n
    BY <1>2 DEF Read
  <2>2. /\ n \in Nat /\ off + n <= size
        /\ mode = "bypass" /\ n < bufsz => off + n = size
    BY <2>1, CountsWithin
  <2> QED
    BY <1>1, <1>2, <2>1, <2>2 DEF Read
<1>3. CASE ReadFails
  BY <1>3 DEF ReadFails
<1>4. CASE Count
  BY <1>1, <1>4 DEF Count
<1>5. CASE PrintAndClose
  BY <1>1, <1>5 DEF PrintAndClose
<1> QED
  BY <1>2, <1>3, <1>4, <1>5

LEMMA Invariance == Spec => []IInv
<1>1. IInv /\ UNCHANGED vars => IInv'
  BY DEF IInv, TypeOK, Uncounted, Ended, Held, vars
<1>2. IInv /\ [Next]_vars => IInv'
  BY <1>1, MainStep, LoopStep DEF Next
<1> QED
  BY InitIInv, <1>2, PTL DEF Spec

\* The state stays well typed: off never passes the end of the file (bench.c).
THEOREM TypeCorrect == Spec => []TypeOK
<1>1. IInv => TypeOK
  BY DEF IInv
<1> QED
  BY <1>1, Invariance, PTL

\* run_bypass prints the size of the file, for every size and buffer.
THEOREM WholeFileCounted == Spec => []CountsWholeFile
<1>1. IInv => CountsWholeFile
  BY DEF IInv, Ended, CountsWholeFile
<1> QED
  BY <1>1, Invariance, PTL

\* What the program may still hold when it ends (run_bypass, main).
THEOREM NothingHeld == Spec => []HoldsNothing
<1>1. IInv => HoldsNothing
  BY DEF IInv, Held, HoldsNothing
<1> QED
  BY <1>1, Invariance, PTL

=============================================================================
