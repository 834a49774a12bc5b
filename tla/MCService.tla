------------------------------ MODULE MCService ------------------------------
(* Service for TLC: runners and owners, runs and fingerprints are            *)
(* interchangeable.                                                          *)
EXTENDS Service, TLC

Symmetry ==
  Permutations(Runner) \cup Permutations(Owner) \cup Permutations(Inst)
    \cup Permutations(Fp)
=============================================================================
