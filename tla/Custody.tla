------------------------------- MODULE Custody -------------------------------
(***************************************************************************)
(* Who is responsible for a process at every moment: the invariants of     *)
(* Supervisor on which its ownership, report and shutdown guarantees rest. *)
(* Each part is inductive together with IndInv and the parts before it;    *)
(* any of them can be listed as an INVARIANT of a run of MCSupervisor.     *)
(***************************************************************************)
EXTENDS Supervisor

SpawnHeldPc == {"backend", "check", "attach", "orphan", "attached"}
DrainPc == {"join", "sweep", "reobserve"}
CommitPc == {"unregister", "retire", "remember"}
QuarantinePc == {"qGrace", "qErr", "qForce", "qRecord", "qNotify", "qPrune",
                 "qDone"}

-----------------------------------------------------------------------------
(* The registry only moves forward. *)

\* An exit is recorded exactly for the processes that are reaped.
Shaped(scope) ==
  \A p \in Pid : scope.processes[p].exit = NoExit <=>
                   scope.processes[p].state # "Reaped"

\* What the methods of the aggregate other than attach_spawned and
\* begin_termination may do: close a draining scope, drop or keep what is
\* verified, keep what is not.
ScopeEvolves(before, after) ==
  /\ \/ after.state = before.state
     \/ before.state = "Draining" /\ after.state = "Closed"
  /\ \A p \in Pid :
       /\ Contains(after, p) => Contains(before, p)
       /\ Contains(before, p) =>
            Contains(after, p) \/ before.processes[p].exit \in VerifiedOutcome
       /\ before.processes[p].exit \in VerifiedOutcome =>
            after.processes[p] \in {before.processes[p], NoProcess}

-----------------------------------------------------------------------------
(* Responsibility: the operation mutex, the life of a scope, of a spawn.   *)

\* A spawn worker between its admission and its end, and a terminator between
\* drain and return, hold the scope's operation mutex.
Mutex ==
  /\ \A p \in Pid : spawnPc[p] \in SpawnHeldPc => holder[home[p]] = p
  /\ \A c \in Caller :
       call[c].pc \in DrainPc \cup CommitPc => holder[call[c].scope] = c

\* A created scope is in the registry until its report is committed.
ScopeLife ==
  \A s \in Scope :
    /\ s \notin created => ~Registered(s) /\ s \notin serial /\ owed[s] = {}
    /\ s \in created => Registered(s) \/ s \in serial
    /\ s \in serial \/ owed[s] # {} => ~IsOpen(registry[s])
    /\ ~Registered(s) => \A p \in Pid : ~Contains(registry[s], p)

\* A call works on a scope that exists, drained and uncommitted before its
\* report is published, committed after.
CallLife ==
  \A c \in Caller :
    /\ call[c].pc \in ScopePc => call[c].scope \in created
    /\ todo[c] \subseteq created
    /\ call[c].pc \in DrainPc =>
         /\ Registered(call[c].scope) /\ ~IsOpen(registry[call[c].scope])
         /\ call[c].scope \notin serial
    /\ call[c].pc \in CommitPc => call[c].scope \in serial

\* A spawn that was admitted keeps its scope open until it attaches; only
\* attached processes have a monitor or an entry, in their own scope; an
\* orphan is the drop's doing and has been sent SIGKILL.
SpawnLife ==
  \A p \in Pid :
    /\ spawnPc[p] # "idle" => home[p] \in created
    /\ spawnPc[p] \in {"backend", "check", "attach"} => IsOpen(registry[home[p]])
    /\ monPc[p] # "none" <=> spawnPc[p] \in {"attached", "ok"}
    /\ spawnPc[p] \in {"check", "attach", "orphan", "attached", "ok"} =>
         os[p] # "None"
    /\ spawnPc[p] = "orphan" => ownersDropped /\ (Unreaped(p) => p \in killSent)
    /\ \A s \in Scope : Contains(registry[s], p) => home[p] = s /\ monPc[p] # "none"

RegistryShaped == \A s \in Scope : Shaped(registry[s])

DropLife == dropPc = "live" <=> ~ownersDropped

Responsible ==
  Mutex /\ ScopeLife /\ CallLife /\ SpawnLife /\ RegistryShaped /\ DropLife

-----------------------------------------------------------------------------
(* Evidence: the registry is the first to know of a verified exit.         *)

\* The registry is done with p: it was owned, and is no longer or has a
\* verified exit.
Settled(p) ==
  monPc[p] # "none" /\ (Owned(p) => RecordedExit(p) \in VerifiedOutcome)

WaitersFollow == \A p \in Pid : TryGet(waiters, p) \in VerifiedOutcome => Settled(p)
MonitorsFollow == \A p \in Pid : monExit[p] \in VerifiedOutcome => Settled(p)
PendingFollows ==
  \A s \in Scope, p \in Pid : pending[s][p] \in VerifiedOutcome => Settled(p)
WorkersFollow ==
  \A c \in Caller, p \in Pid :
    /\ subFut[c][p] \in VerifiedOutcome => Settled(p)
    /\ subObs[c][p] \in VerifiedOutcome => Settled(p)
    /\ subRes[c][p] \in VerifiedOutcome => Settled(p)

\* Until a process' monitor has recorded, nobody else records an exit for it.
MonitorFirst ==
  \A p \in Pid : monPc[p] \in {"none", "wait", "record", "recordFailed"} =>
    /\ Owned(p) => RecordedExit(p) = NoExit
    /\ \A c \in Caller : subPc[c][p] \notin QuarantinePc

\* What a retry publishes is verified; a completed slot is final.
RetryVerified ==
  \A c \in Caller, p \in Pid :
    subPc[c][p] \in {"qNotify", "qPrune", "qDone"} => subRes[c][p] \in VerifiedOutcome
SlotVerified ==
  \A p \in Pid : waiters.entries[p].kind = "Completed" =>
    TryGet(waiters, p) \in VerifiedOutcome

RegistryLeads ==
  /\ WaitersFollow /\ MonitorsFollow /\ PendingFollows /\ WorkersFollow
  /\ MonitorFirst /\ RetryVerified /\ SlotVerified

-----------------------------------------------------------------------------
(* Reports: nothing that a drained scope owned is forgotten.               *)

\* Whatever a committed scope still lists has a verified exit.
CommittedSettled ==
  \A s \in serial, p \in Pid :
    Contains(registry[s], p) => registry[s].processes[p].exit \in VerifiedOutcome

\* Until the report is committed, a process that was owed is still listed or
\* has a pending outcome, and a recorded exit is among the pending outcomes.
DrainRecorded ==
  \A s \in Scope \ serial, p \in Pid :
    /\ p \in owed[s] => Contains(registry[s], p) \/ pending[s][p] # NoExit
    /\ ~IsOpen(registry[s]) /\ registry[s].processes[p].exit # NoExit =>
         pending[s][p] # NoExit

\* A terminator has a worker for every process that is listed and has no
\* pending outcome, until all workers are joined.
DrainTracked ==
  \A c \in Caller, p \in Pid :
    call[c].pc \in DrainPc /\ Contains(registry[call[c].scope], p) =>
      \/ pending[call[c].scope][p] # NoExit
      \/ call[c].pc = "join" /\ subPc[c][p] # "idle"

Accounted ==
  CommittedSettled /\ DrainRecorded /\ DrainTracked
  /\ ReportCoversDrainedProcesses

-----------------------------------------------------------------------------
(* The bounded history of reports, and what a shutdown has still to do.    *)

\* The queue lists reports, each once, and is full once one was evicted; a
\* report is there from its commitment until it is remembered.
ReportHistory ==
  /\ IsFiniteSet(serial)
  /\ reports \subseteq serial
  /\ Len(completedScopes) <= ReportBound
  /\ \A i \in 1..Len(completedScopes) : completedScopes[i] \in reports
  /\ \A i, j \in 1..Len(completedScopes) :
       completedScopes[i] = completedScopes[j] => i = j
  /\ serial \ reports # {} => Len(completedScopes) = ReportBound
  /\ \A c \in Caller : call[c].pc \in CommitPc =>
       /\ call[c].scope \in reports
       /\ \A i \in 1..Len(completedScopes) : completedScopes[i] # call[c].scope

\* A scope without operation mutex is committed, and a committed scope still
\* registered is about to be removed.
ScopeRetired ==
  /\ created \subseteq operations \cup serial
  /\ \A s \in serial : Registered(s) =>
       \E c \in Caller : call[c].pc = "unregister" /\ call[c].scope = s
  /\ \A c \in Caller :
       /\ call[c].pc \in {"retire", "remember"} => ~Registered(call[c].scope)
       /\ call[c].pc = "recheck" => call[c].scope \in serial

\* terminate_scope's answer is UnknownScope for evicted reports only.
UnknownIsEvicted ==
  \A c \in Caller : result[c] = "UnknownScope" => call[c].scope \in serial \ reports

\* A shutdown without a failure so far has every registered scope before it.
ShutdownOf(c) ==
  /\ call[c].pc \in {"serial", "next"} => call[c].op = "shutdown"
  /\ call[c].pc \in {"reports", "operation", "recheck"} =>
       call[c].op = "terminate_scope"
  /\ call[c].op = "shutdown" /\ call[c].pc \notin {"idle", "done"} =>
       /\ shuttingDown /\ ~ownersDropped
       /\ result[c] \in {"None", "Unverified"}
       /\ result[c] = "None" /\ call[c].pc # "serial" =>
            \A s \in Scope : Registered(s) =>
              s \in todo[c] \/ (call[c].pc # "next" /\ s = call[c].scope)
  /\ result[c] = "ShutdownOk" => shuttingDown
ShutdownLife == \A c \in Caller : ShutdownOf(c)

Concluded ==
  ReportHistory /\ ScopeRetired /\ UnknownIsEvicted /\ ShutdownLife
  /\ ShutdownIsFinal

-----------------------------------------------------------------------------
(* The supervisor implements what ScopePromise says of its scopes.         *)

Phase ==
  [s \in Scope |-> IF s \notin created THEN "none"
                   ELSE IF s \in serial THEN "reported"
                   ELSE IF IsOpen(registry[s]) THEN "open" ELSE "draining"]

\* A child that the spawn found without an owner was killed, and is nobody's.
Disowned(p) == Unreaped(p) /\ spawnPc[p] \in {"orphan", "failed"}
Abandoned == {p \in Pid : Disowned(p)}
Reaped == {p \in Pid : IsReaped(p)}
AliveIn ==
  [s \in Scope |-> {p \in Pid : home[p] = s /\ Unreaped(p) /\ ~Disowned(p)}]

Promise == INSTANCE ScopePromise WITH
  phase <- Phase, alive <- AliveIn, ended <- Reaped, abandoned <- Abandoned,
  ownerless <- ownersDropped

\* Spawns, terminations, retries, shutdowns, cancellations and the drop together
\* do nothing that ScopePromise does not allow: no process is born into a scope
\* that drains, none is alive in one that is reported, no scope opens again, and
\* none is abandoned as long as there is an owner.
KeepsPromise == Promise!Spec
=============================================================================
