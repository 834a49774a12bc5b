---------------------------- MODULE ScopePromise ----------------------------
(***************************************************************************)
(* What ProcessSupervisor promises of its scopes, without callers, mutexes *)
(* or monitors: a process is born into an open scope only, it ends once, a *)
(* drained scope never opens again, and it is reported when none of its    *)
(* processes is left.  Only without an owner may a process be abandoned,   *)
(* and then its scope no longer answers for it.  Supervisor implements it. *)
(***************************************************************************)
CONSTANTS Scope, Pid

VARIABLES phase, alive, ended, abandoned, ownerless

vars == <<phase, alive, ended, abandoned, ownerless>>

Init ==
  /\ phase = [s \in Scope |-> "none"]
  /\ alive = [s \in Scope |-> {}]
  /\ ended = {}
  /\ abandoned = {}
  /\ ownerless = FALSE

Live == UNION {alive[s] : s \in Scope}

Enter(s, before, after) ==
  /\ phase[s] = before
  /\ phase' = [phase EXCEPT ![s] = after]
  /\ UNCHANGED <<alive, ended, abandoned, ownerless>>

Open(s) == ~ownerless /\ Enter(s, "none", "open")

Drain(s) == Enter(s, "open", "draining")

Report(s) == alive[s] = {} /\ Enter(s, "draining", "reported")

Spawn(p, s) ==
  /\ phase[s] = "open"
  /\ p \notin Live \cup ended \cup abandoned
  /\ alive' = [alive EXCEPT ![s] = @ \cup {p}]
  /\ UNCHANGED <<phase, ended, abandoned, ownerless>>

Leave(p) == alive' = [s \in Scope |-> alive[s] \ {p}]

End(p) ==
  /\ p \in Live \cup abandoned
  /\ Leave(p)
  /\ abandoned' = abandoned \ {p}
  /\ ended' = ended \cup {p}
  /\ UNCHANGED <<phase, ownerless>>

Abandon(p) ==
  /\ ownerless
  /\ p \in Live
  /\ Leave(p)
  /\ abandoned' = abandoned \cup {p}
  /\ UNCHANGED <<phase, ended, ownerless>>

\* The last owner goes.
Drop == ownerless' = TRUE /\ UNCHANGED <<phase, alive, ended, abandoned>>

Next ==
  \/ \E s \in Scope :
       \/ Open(s) \/ Drain(s) \/ Report(s)
       \/ \E p \in Pid : Spawn(p, s)
  \/ \E p \in Pid : End(p) \/ Abandon(p)
  \/ Drop

Spec == Init /\ [][Next]_vars
=============================================================================
