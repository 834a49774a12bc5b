---------------------------- MODULE MCScenarios ----------------------------
(***************************************************************************)
(* Four uses of one supervisor for TLC.  A behaviour is one of the         *)
(* Supervisor's that stays within the bounds of the scenario chosen in its *)
(* initial state: at most so many scopes, processes and failed backend     *)
(* calls, and only the calls that the scenario is about.                   *)
(***************************************************************************)
EXTENDS Supervisor, TLC

VARIABLE scenario

Bounds(scopes, pids, failures, ops) ==
  [scopes |-> scopes, pids |-> pids, failures |-> failures, ops |-> ops]

\* Two terminations of one scope; calls for a process whose waits fail twice;
\* more terminated scopes than the history of reports holds; concurrent
\* shutdowns and spawns.
Scenarios ==
  [terminators |-> Bounds(1, 2, 1, {"terminate_scope"}),
   quarantine  |-> Bounds(1, 1, 2, {"terminate_scope", "terminate", "wait"}),
   history     |-> Bounds(2, 1, 0, {"terminate_scope", "shutdown"}),
   shutdown    |-> Bounds(2, 2, 0, {"shutdown"})]

\* The bounds do not name a scope, a process or a caller, so the model stays
\* symmetric in them.
WithinBounds ==
  LET bounds == Scenarios[scenario] IN
  /\ Cardinality(created) <= bounds.scopes
  /\ Cardinality({p \in Pid : spawnPc[p] # "idle"}) <= bounds.pids
  /\ faults <= bounds.failures
  /\ \A c \in Caller : call[c].op \in bounds.ops \cup {"none"}

ScenariosInit == Init /\ scenario \in DOMAIN Scenarios

ScenariosNext == Next /\ UNCHANGED scenario /\ WithinBounds'

ScenariosSpec == ScenariosInit /\ [][ScenariosNext]_<<vars, scenario>>

Symmetry == Permutations(Pid) \cup Permutations(Caller) \cup Permutations(Scope)
=============================================================================
