------------------------------ MODULE MCBench ------------------------------
(***************************************************************************)
(* Instances of Bench: buffers that divide the size of the file and others.*)
(***************************************************************************)
EXTENDS Bench
=============================================================================
