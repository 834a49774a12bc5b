---------------------------- MODULE MCSupervisor ----------------------------
(* Model-checking instances of Supervisor, with the invariants of Custody. *)
EXTENDS Custody, TLC

Symmetry == Permutations(Pid) \cup Permutations(Caller) \cup Permutations(Scope)

\* The runtime, and what is left to do, may end with the last handle.
Ended == ownersDropped /\ UNCHANGED vars

EndingSpec == Init /\ [][Next \/ Ended]_vars
=============================================================================
