------------------------------- MODULE MCKept -------------------------------
(* Kept for TLC: owners and process instances are interchangeable. *)
EXTENDS Kept, TLC

Symmetry == Permutations(Task) \cup Permutations(Inst)
=============================================================================
