------------------------------ MODULE SingleRun ------------------------------
(***************************************************************************)
(* What a kept name promises to whoever uses it: at any time at most one   *)
(* of the programs started under the name runs, and a program that ended   *)
(* never runs again.  Kept implements it call by call, and Service uses    *)
(* the promise and passes it on.                                           *)
(***************************************************************************)
CONSTANT Inst

VARIABLES running, ended

Init == running = {} /\ ended = {}

Start(i) ==
  /\ running = {}
  /\ i \notin ended
  /\ running' = {i}
  /\ UNCHANGED ended

\* A program ends, or is refused before it ever ran.
End(i) ==
  /\ i \notin ended
  /\ running' = running \ {i}
  /\ ended' = ended \cup {i}

Next == \E i \in Inst : Start(i) \/ End(i)

Spec == Init /\ [][Next]_<<running, ended>>
=============================================================================
