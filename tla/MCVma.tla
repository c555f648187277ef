------------------------------- MODULE MCVma -------------------------------
(* Instances of Vma for TLC. *)
EXTENDS Vma
=============================================================================
