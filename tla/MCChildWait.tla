---------------------------- MODULE MCChildWait ----------------------------
(* Instances of ChildWait for TLC. *)
EXTENDS ChildWait, TLC

Symmetry == Permutations(Caller) \union Permutations(Child)
=============================================================================
