---------------------------- MODULE ProcessScope ----------------------------
(***************************************************************************)
(* The domain layer of Shepherd: the exit taxonomy (exit.rs), the process  *)
(* entity (process.rs), and the ProcessScope aggregate root (scope.rs) that *)
(* every change to a process goes through.                                 *)
(*                                                                         *)
(* The aggregate is pure code called under the registry mutex, so it is a  *)
(* set of constant operators: each takes the aggregate a method is called  *)
(* on and is the aggregate that the method leaves behind.  A process that  *)
(* is not in the aggregate's map has the state "Absent", and a scope that  *)
(* is not in the registry is NoScopeEntry.                                 *)
(***************************************************************************)

CONSTANT Pid      \* process identities, one per spawn attempt

(***************************************************************************)
(* Termination outcomes.  Verified ones are evidence of a reap; the others *)
(* say that cleanup could not be confirmed.  Of the unverified reasons only *)
(* those the supervisor produces are listed.                               *)
(***************************************************************************)
VerifiedOutcome == {"ExitedNaturally", "GracefulSuccess", "ForcedRequired"}
UnverifiedOutcome == {"ReapFailed", "WaitTimedOut", "ProcessDisappeared"}
Outcome == VerifiedOutcome \cup UnverifiedOutcome

NoExit == "NoExit"
OptOutcome == Outcome \cup {NoExit}

\* ProcessLifecycle.  Spawning and SpawnFailed are never constructed.
ProcessLifecycle == {"Running", "GracefulRequested", "Forcing",
                     "ExitedUnreaped", "Reaped"}
IsLive(state) == state \in {"Running", "GracefulRequested", "Forcing"}
IsTerminating(state) == state \in {"GracefulRequested", "Forcing"}

ScopeState == {"Open", "Draining", "Closed"}

(***************************************************************************)
(* The Process entity.  Its write-only `forced' flag is left out: nothing  *)
(* in the supervisor reads it.                                             *)
(***************************************************************************)
Process == [state : ProcessLifecycle \cup {"Absent"}, exit : OptOutcome]

NoProcess == [state |-> "Absent", exit |-> NoExit]
RunningProcess == [state |-> "Running", exit |-> NoExit]

RequestGraceful(process) ==
  IF process.state = "Running"
  THEN [process EXCEPT !.state = "GracefulRequested"]
  ELSE process

EscalateToForce(process) ==
  IF process.state \in {"Running", "GracefulRequested"}
  THEN [process EXCEPT !.state = "Forcing"]
  ELSE process

MarkExited(process) ==
  IF IsLive(process.state)
  THEN [process EXCEPT !.state = "ExitedUnreaped"]
  ELSE process

\* Whether mark_reaped accepts this exit: the first one, or a verified
\* correction of an unverified one.
AcceptsReap(process, exit) ==
  \/ IsLive(process.state)
  \/ process.state = "ExitedUnreaped"
  \/ /\ process.state = "Reaped"
     /\ process.exit \in UnverifiedOutcome
     /\ exit \in VerifiedOutcome

MarkReaped(process, exit) ==
  IF AcceptsReap(process, exit)
  THEN [state |-> "Reaped", exit |-> exit]
  ELSE process

(***************************************************************************)
(* The aggregate.                                                          *)
(***************************************************************************)
Scopes == [state : ScopeState \cup {"Absent"}, processes : [Pid -> Process]]

NoProcesses == [p \in Pid |-> NoProcess]
NoScopeEntry == [state |-> "Absent", processes |-> NoProcesses]
NewScope == [state |-> "Open", processes |-> NoProcesses]

IsOpen(scope) == scope.state = "Open"
Contains(scope, p) == scope.processes[p].state # "Absent"
ProcessIds(scope) == {p \in Pid : Contains(scope, p)}

\* attach_spawned; callers test CanAttach first (Err(ScopeClosed) otherwise).
CanAttach(scope, p) == IsOpen(scope) /\ ~Contains(scope, p)
AttachSpawned(scope, p) == [scope EXCEPT !.processes[p] = RunningProcess]

RequestTermination(scope, p) ==
  [scope EXCEPT !.processes[p] = RequestGraceful(@)]

EscalateTermination(scope, p) ==
  [scope EXCEPT !.processes[p] = EscalateToForce(@)]

BeginScopeTermination(scope) ==
  [state     |-> IF scope.state = "Open" THEN "Draining" ELSE scope.state,
   processes |-> [p \in Pid |-> RequestGraceful(scope.processes[p])]]

RecordExit(scope, p) == [scope EXCEPT !.processes[p] = MarkExited(@)]

\* Draining, and every process still tracked has a verified exit.
Drained(scope) ==
  /\ scope.state = "Draining"
  /\ \A p \in ProcessIds(scope) : scope.processes[p].exit \in VerifiedOutcome

RecordReaped(scope, p, exit) ==
  LET reaped == [scope EXCEPT !.processes[p] = MarkReaped(@, exit)]
  IN  IF AcceptsReap(scope.processes[p], exit) /\ Drained(reaped)
      THEN [reaped EXCEPT !.state = "Closed"]
      ELSE reaped

Prune(scope, p) ==
  IF /\ scope.processes[p].state = "Reaped"
     /\ scope.processes[p].exit \in VerifiedOutcome
  THEN [scope EXCEPT !.processes[p] = NoProcess]
  ELSE scope
=============================================================================
