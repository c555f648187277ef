------------------------------- MODULE MCAlloc -------------------------------
(* An instance of Alloc for TLC. *)
EXTENDS Alloc
=============================================================================
