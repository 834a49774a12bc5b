----------------------------- MODULE Supervisor -----------------------------
(***************************************************************************)
(* ProcessSupervisor (shepherd-app/src/supervisor.rs) with the event       *)
(* handlers of dispatch.rs, the registry of registry.rs and the waiters of *)
(* shepherd-infra.                                                         *)
(*                                                                         *)
(* Concurrent activities, each a set of actions below:                     *)
(*   - callers: tasks of the embedding program, inside terminate_scope,    *)
(*     terminate, wait or shutdown; any of them may be cancelled at an     *)
(*     await (its future is dropped), except between two awaits;           *)
(*   - the workers of a terminate_scope's JoinSet, one per process, running *)
(*     terminate; a direct terminate or wait runs the same steps itself;   *)
(*   - spawn workers (spawn_owned), one per process identity;              *)
(*   - monitors (start_monitor), one per attached process;                 *)
(*   - the drop of the last user-facing handle;                            *)
(*   - the operating system, where a process exits, is killed, is reaped.  *)
(*                                                                         *)
(* An action is the code from one await, or from one mutex of shared state *)
(* to the next where the order of two critical sections can be observed.   *)
(***************************************************************************)
EXTENDS WaiterHistory, FiniteSets

CONSTANTS
  Scope,          \* scope identities
  Caller,         \* tasks that call the supervisor
  NoScope, NoTask,
  ReportBound,    \* SCOPE_REPORT_HISTORY_BOUND
  ForceTimeout,   \* whether TerminateOptions::force_timeout is Some
  MaxFaults,      \* bound on failed backend calls (wait, kill, cleanup)
  Calls           \* what the embedding program does, out of CallKind

CallKind == {"terminate_scope", "terminate", "wait", "shutdown", "cancel", "drop"}

ASSUME ScopeAssumption ==
  /\ NoScope \notin Scope
  /\ NoTask \notin Caller \cup Pid
  /\ Caller \cap Pid = {}
ASSUME BoundsAssumption ==
  /\ ReportBound \in Nat \ {0}
  /\ MaxFaults \in Nat
  /\ ForceTimeout \in BOOLEAN
  /\ Calls \subseteq CallKind

VARIABLES
  \* --- the operating system, behind the ProcessBackend port
  os,             \* os[p]: the life of the process that attempt p created
  killSent,       \* processes SIGKILL has been sent to
  faults,         \* failed backend calls so far
  \* --- Inner
  created,        \* scope identities already minted
  registry,       \* ScopeRegistry: the scope aggregates
  pending,        \* pending_outcomes
  waiters,        \* InMemoryWaiters
  operations,     \* keys of scope_operations
  holder,         \* holder[s]: who holds the scope's operation mutex
  serial,         \* scopes whose operation mutex holds Some(report)
  serialReport,   \* that report
  reports,        \* keys of reports (its values are the serial reports)
  completedScopes,
  shuttingDown, ownersDropped,
  shutdownSerial, \* holder of the shutdown_serial mutex
  \* --- tasks
  dropPc,         \* CleanupGuard::drop
  spawnPc, home,  \* spawn_owned, and the scope it was called with
  monPc, monExit, \* a monitor, and the exit in the event it dispatches
  call,           \* call[c]: what caller c is inside of
  result, report, \* what c's last call returned
  todo,           \* scopes a shutdown has still to terminate
  subPc, subFut, subObs, subRes,  \* a terminate or wait that c runs for p
  \* --- history
  owed            \* owed[s]: processes owned when s began to drain

osVars == <<os, killSent>>
regVars == <<created, registry, pending>>
opVars == <<operations, holder, serial, serialReport, reports, completedScopes>>
flagVars == <<shuttingDown, ownersDropped, dropPc>>
spawnVars == <<spawnPc, home>>
monVars == <<monPc, monExit>>
callVars == <<call, result, report, todo, shutdownSerial>>
subVars == <<subPc, subFut, subObs, subRes>>
vars == <<osVars, faults, regVars, waiters, opVars, flagVars, spawnVars,
          monVars, callVars, subVars, owed>>

-----------------------------------------------------------------------------
(* The operating system and the ProcessBackend port. *)

OsState == {"None", "Alive", "Exited", "Killed", "ExitReaped", "KillReaped"}
Unreaped(p) == os[p] \in {"Alive", "Exited", "Killed"}
IsReaped(p) == os[p] \in {"ExitReaped", "KillReaped"}
RawKilled(p) == os[p] = "KillReaped"

\* A process exits by itself or on a graceful signal, at any time.
OsExit(p) ==
  /\ os[p] = "Alive"
  /\ os' = [os EXCEPT ![p] = "Exited"]
  /\ UNCHANGED <<killSent, faults, regVars, waiters, opVars, flagVars,
                 spawnVars, monVars, callVars, subVars, owed>>

OsKill(p) ==
  /\ os[p] = "Alive"
  /\ p \in killSent
  /\ os' = [os EXCEPT ![p] = "Killed"]
  /\ UNCHANGED <<killSent, faults, regVars, waiters, opVars, flagVars,
                 spawnVars, monVars, callVars, subVars, owed>>

\* backend.wait(p) succeeds: the root is reaped, now or by a concurrent wait.
WaitOk(p) ==
  /\ os[p] \notin {"None", "Alive"}
  /\ os' = [os EXCEPT ![p] = IF @ \in {"Killed", "KillReaped"}
                             THEN "KillReaped" ELSE "ExitReaped"]
  /\ UNCHANGED faults

\* backend.wait(p) fails: a fault, or the child was already reaped and its
\* registration released.
WaitErr(p) ==
  /\ os[p] # "None"
  /\ \/ IsReaped(p) /\ UNCHANGED faults
     \/ Unreaped(p) /\ faults < MaxFaults /\ faults' = faults + 1
  /\ UNCHANGED os

\* SIGKILL to the processes of a set; a single signal may fail, unnoticed.
Kill(ps) == killSent' = killSent \cup {p \in ps : Unreaped(p)}
KillOrFail(p) ==
  \/ Kill({p}) /\ UNCHANGED faults
  \/ UNCHANGED killSent /\ faults < MaxFaults /\ faults' = faults + 1

-----------------------------------------------------------------------------
(* Shared state seen by every activity. *)

NoReport == [p \in Pid |-> NoExit]
Report == [Pid -> OptOutcome]

AllVerified(rep) == \A p \in Pid : rep[p] \in VerifiedOutcome \cup {NoExit}

Registered(s) == registry[s].state # "Absent"
Owned(p) == home[p] \in Scope /\ Contains(registry[home[p]], p)
RecordedExit(p) == registry[home[p]].processes[p].exit

\* Mutant: the latest outcome wins.
MergeLatest(outcome, previous) == outcome

\* pending_outcomes.entry(pid): insert, or replace unless already verified.
Merge(outcome, previous) ==
  IF previous \in VerifiedOutcome THEN previous ELSE outcome

\* signal_exit, as the slots and the registered receivers see it.
SignalAll(p, exit) ==
  /\ waiters' = SignalExit(waiters, p, exit)
  /\ subFut' = [c \in Caller |-> [subFut[c] EXCEPT ![p] =
                  ReceiverAfter(waiters, p, exit, @)]]
  /\ subObs' = [c \in Caller |-> [subObs[c] EXCEPT ![p] =
                  ReceiverAfter(waiters, p, exit, @)]]

Unregistered == "Unregistered"     \* no receiver held

Init ==
  /\ os = [p \in Pid |-> "None"]
  /\ killSent = {}
  /\ faults = 0
  /\ created = {}
  /\ registry = [s \in Scope |-> NoScopeEntry]
  /\ pending = [s \in Scope |-> NoReport]
  /\ waiters = NoWaiters
  /\ operations = {}
  /\ holder = [s \in Scope |-> NoTask]
  /\ serial = {}
  /\ serialReport = [s \in Scope |-> NoReport]
  /\ reports = {}
  /\ completedScopes = <<>>
  /\ shuttingDown = FALSE
  /\ ownersDropped = FALSE
  /\ shutdownSerial = NoTask
  /\ dropPc = "live"
  /\ spawnPc = [p \in Pid |-> "idle"]
  /\ home = [p \in Pid |-> NoScope]
  /\ monPc = [p \in Pid |-> "none"]
  /\ monExit = [p \in Pid |-> NoExit]
  /\ call = [c \in Caller |-> [op |-> "none", scope |-> NoScope, pc |-> "idle"]]
  /\ result = [c \in Caller |-> "None"]
  /\ report = [c \in Caller |-> NoReport]
  /\ todo = [c \in Caller |-> {}]
  /\ subPc = [c \in Caller |-> [p \in Pid |-> "idle"]]
  /\ subFut = [c \in Caller |-> [p \in Pid |-> Unregistered]]
  /\ subObs = [c \in Caller |-> [p \in Pid |-> Unregistered]]
  /\ subRes = [c \in Caller |-> [p \in Pid |-> "None"]]
  /\ owed = [s \in Scope |-> {}]

-----------------------------------------------------------------------------
(* Scope creation and the spawn worker (spawn_owned). *)

\* Mutant: scope creation does not look at the shutdown flag.
AdmitsScopeAlways == ~ownersDropped

\* Only a user-facing handle creates scopes, and only before a shutdown.
AdmitsScope == ~ownersDropped /\ ~shuttingDown

\* try_create_scope: the shutdown test and the insertion share the registry
\* lock.
CreateScope(s) ==
  /\ s \notin created
  /\ AdmitsScope
  /\ created' = created \cup {s}
  /\ registry' = [registry EXCEPT ![s] = NewScope]
  /\ operations' = operations \cup {s}
  /\ UNCHANGED <<osVars, faults, pending, waiters, holder, serial,
                 serialReport, reports, completedScopes, flagVars, spawnVars,
                 monVars, callVars, subVars, owed>>

\* The worker looks up the scope's operation mutex; without one the scope is
\* closed or unknown.
SpawnCall(p, s) ==
  /\ spawnPc[p] = "idle"
  /\ s \in created
  /\ ~ownersDropped
  /\ home' = [home EXCEPT ![p] = s]
  /\ spawnPc' = [spawnPc EXCEPT ![p] =
                   IF s \in operations THEN "lock" ELSE "failed"]
  /\ UNCHANGED <<osVars, faults, regVars, waiters, opVars, flagVars,
                 monVars, callVars, subVars, owed>>

\* Mutant: the scope's state is not tested under the operation mutex.
AdmitsSpawnDraining(s) == s \notin serial /\ ~shuttingDown /\ s \notin reports

\* Whether the checks under the operation mutex admit a spawn into s.
AdmitsSpawn(s) ==
  /\ s \notin serial
  /\ ~shuttingDown
  /\ s \notin reports
  /\ IsOpen(registry[s])

SpawnLock(p) ==
  LET s == home[p] IN
  /\ spawnPc[p] = "lock"
  /\ holder[s] = NoTask
  /\ IF AdmitsSpawn(s)
     THEN /\ holder' = [holder EXCEPT ![s] = p]
          /\ spawnPc' = [spawnPc EXCEPT ![p] = "backend"]
     ELSE /\ spawnPc' = [spawnPc EXCEPT ![p] = "failed"]
          /\ UNCHANGED holder
  /\ UNCHANGED <<osVars, faults, regVars, waiters, operations, serial,
                 serialReport, reports, completedScopes, flagVars, home,
                 monVars, callVars, subVars, owed>>

\* The operation guard is dropped with the worker's last step.
SpawnLeave(p, pc) ==
  /\ spawnPc' = [spawnPc EXCEPT ![p] = pc]
  /\ holder' = [holder EXCEPT ![home[p]] = NoTask]

SpawnBackendOk(p) ==
  /\ spawnPc[p] = "backend"
  /\ os' = [os EXCEPT ![p] = "Alive"]
  /\ spawnPc' = [spawnPc EXCEPT ![p] = "check"]
  /\ UNCHANGED <<killSent, faults, regVars, waiters, opVars, flagVars, home,
                 monVars, callVars, subVars, owed>>

SpawnBackendErr(p) ==
  /\ spawnPc[p] = "backend"
  /\ SpawnLeave(p, "failed")
  /\ UNCHANGED <<osVars, faults, regVars, waiters, operations, serial,
                 serialReport, reports, completedScopes, flagVars, home,
                 monVars, callVars, subVars, owed>>

\* Mutant: the flag is not read again once the child exists.
SpawnCheckSkipped(p) ==
  /\ spawnPc[p] = "check"
  /\ spawnPc' = [spawnPc EXCEPT ![p] = "attach"]
  /\ UNCHANGED <<osVars, faults, regVars, waiters, opVars, flagVars, home,
                 monVars, callVars, subVars, owed>>

\* owners_dropped is read after the child exists: a child too late for the
\* drop's sweep is swept here (hard_kill_all).
SpawnCheckOwners(p) ==
  /\ spawnPc[p] = "check"
  /\ IF ownersDropped
     THEN /\ Kill(Pid)
          /\ spawnPc' = [spawnPc EXCEPT ![p] = "orphan"]
     ELSE /\ spawnPc' = [spawnPc EXCEPT ![p] = "attach"]
          /\ UNCHANGED killSent
  /\ UNCHANGED <<os, faults, regVars, waiters, opVars, flagVars, home,
                 monVars, callVars, subVars, owed>>

\* Attach under the registry lock and start the monitor, or kill the orphan.
SpawnAttach(p) ==
  LET s == home[p] IN
  /\ spawnPc[p] = "attach"
  /\ IF CanAttach(registry[s], p)
     THEN /\ registry' = [registry EXCEPT ![s] = AttachSpawned(@, p)]
          /\ monPc' = [monPc EXCEPT ![p] = "wait"]
          /\ spawnPc' = [spawnPc EXCEPT ![p] = "attached"]
          /\ UNCHANGED killSent
     ELSE /\ Kill({p})
          /\ spawnPc' = [spawnPc EXCEPT ![p] = "orphan"]
          /\ UNCHANGED <<registry, monPc>>
  /\ UNCHANGED <<os, faults, created, pending, waiters, opVars, flagVars,
                 home, monExit, callVars, subVars, owed>>

\* The tail of kill_orphan: wait for the killed child, whatever it answers.
SpawnOrphan(p) ==
  /\ spawnPc[p] = "orphan"
  /\ WaitOk(p) \/ WaitErr(p)
  /\ SpawnLeave(p, "failed")
  /\ UNCHANGED <<killSent, regVars, waiters, operations, serial,
                 serialReport, reports, completedScopes, flagVars, home,
                 monVars, callVars, subVars, owed>>

SpawnReturn(p) ==
  /\ spawnPc[p] = "attached"
  /\ SpawnLeave(p, "ok")
  /\ UNCHANGED <<osVars, faults, regVars, waiters, operations, serial,
                 serialReport, reports, completedScopes, flagVars, home,
                 monVars, callVars, subVars, owed>>

-----------------------------------------------------------------------------
(* The monitor (start_monitor), and the handlers its event passes through: *)
(* WaitNotifierHandler, then RegistryPruneHandler.                         *)

MonitorWait(p) ==
  /\ monPc[p] = "wait"
  /\ \/ WaitOk(p) /\ monPc' = [monPc EXCEPT ![p] = "record"]
     \/ WaitErr(p) /\ monPc' = [monPc EXCEPT ![p] = "recordFailed"]
  /\ UNCHANGED <<killSent, regVars, waiters, opVars, flagVars, spawnVars,
                 monExit, callVars, subVars, owed>>

\* Mutant: a failed wait is taken for an exit.
MonitorOutcomeUnchecked(p) ==
  IF IsTerminating(registry[home[p]].processes[p].state)
  THEN "GracefulSuccess" ELSE "ExitedNaturally"

\* The outcome is derived from what happened, under the registry lock.
MonitorOutcome(p) ==
  CASE monPc[p] = "recordFailed" -> "ReapFailed"
    [] monPc[p] = "record" /\ ~IsTerminating(registry[home[p]].processes[p].state)
         -> "ExitedNaturally"
    [] OTHER -> IF RawKilled(p) THEN "ForcedRequired" ELSE "GracefulSuccess"

\* Mutant: outcomes reach the report through the JoinSet only.
PendingUntouched(s, p, outcome) == pending

\* A draining scope's outcome is persisted before anything can prune the root.
PendingAfterMonitor(s, p, outcome) ==
  IF IsOpen(registry[s]) THEN pending
  ELSE [pending EXCEPT ![s][p] = outcome]

MonitorRecord(p) ==
  LET s       == home[p]
      outcome == MonitorOutcome(p)
      exited  == RecordExit(registry[s], p)
      reaped  == AcceptsReap(exited.processes[p], outcome)
  IN
  /\ monPc[p] \in {"record", "recordFailed"}
  /\ IF Owned(p)
     THEN /\ registry' = [registry EXCEPT ![s] = RecordReaped(exited, p, outcome)]
          /\ pending' = PendingAfterMonitor(s, p, outcome)
          /\ monExit' = [monExit EXCEPT ![p] = outcome]
          /\ monPc' = [monPc EXCEPT ![p] = IF reaped THEN "notify" ELSE "done"]
     ELSE /\ monPc' = [monPc EXCEPT ![p] = "done"]
          /\ UNCHANGED <<registry, pending, monExit>>
  /\ UNCHANGED <<osVars, faults, created, waiters, opVars, flagVars,
                 spawnVars, callVars, subVars, owed>>

\* Mutants: every exit is published; only verified exits are.
NotifiesAlways(p, exit) == TRUE
NotifiesVerified(p, exit) == exit \in VerifiedOutcome

\* WaitNotifierHandler: an unverified exit is published only while the
\* registry still holds an unverified exit for the process.
Notifies(p, exit) ==
  exit \in VerifiedOutcome \/ (Owned(p) /\ RecordedExit(p) \in UnverifiedOutcome)

MonitorNotify(p) ==
  /\ monPc[p] = "notify"
  /\ IF Notifies(p, monExit[p])
     THEN SignalAll(p, monExit[p])
     ELSE UNCHANGED <<waiters, subFut, subObs>>
  /\ monPc' = [monPc EXCEPT ![p] =
                 IF monExit[p] \in VerifiedOutcome THEN "prune" ELSE "done"]
  /\ UNCHANGED <<osVars, faults, regVars, opVars, flagVars, spawnVars,
                 monExit, callVars, subPc, subRes, owed>>

MonitorPrune(p) ==
  /\ monPc[p] = "prune"
  /\ registry' = [registry EXCEPT ![home[p]] = Prune(@, p)]
  /\ monPc' = [monPc EXCEPT ![p] = "done"]
  /\ UNCHANGED <<osVars, faults, created, pending, waiters, opVars, flagVars,
                 spawnVars, monExit, callVars, subVars, owed>>

-----------------------------------------------------------------------------
(* terminate(p) and wait(p), as run by caller c: directly, or by a worker  *)
(* of its JoinSet (terminate), or while it re-observes outcomes (wait).    *)

Unknown == "Unknown"

SubDone(c, p, res) ==
  /\ subPc' = [subPc EXCEPT ![c][p] = "done"]
  /\ subRes' = [subRes EXCEPT ![c][p] = res]
  /\ subFut' = [subFut EXCEPT ![c][p] = Unregistered]
  /\ subObs' = [subObs EXCEPT ![c][p] = Unregistered]

SubStep(c, p, pc) ==
  /\ subPc' = [subPc EXCEPT ![c][p] = pc]
  /\ UNCHANGED <<subFut, subObs, subRes>>

\* The early answers of terminate: history, a process no longer owned, or a
\* verified exit in the registry; NoExit when there is work to do.
TerminateLookup(p) ==
  LET exit == TryGet(waiters, p) IN
  IF exit \in VerifiedOutcome THEN exit
  ELSE IF ~Owned(p) THEN IF exit # NoExit THEN exit ELSE Unknown
  ELSE IF RecordedExit(p) \in VerifiedOutcome THEN RecordedExit(p)
  ELSE NoExit

\* Request termination and register the receiver under the registry lock.  A
\* process with a recorded, unverified exit is quarantined: its monitor has
\* ended and the wait must be retried.
TerminateStart(c, p) ==
  LET found == TerminateLookup(p) IN
  /\ subPc[c][p] = "start"
  /\ IF found # NoExit
     THEN SubDone(c, p, found) /\ UNCHANGED <<registry, waiters>>
     ELSE /\ registry' = [registry EXCEPT ![home[p]] = RequestTermination(@, p)]
          /\ waiters' = WaitSlot(waiters, p)
          /\ IF RecordedExit(p) = NoExit
             THEN /\ subPc' = [subPc EXCEPT ![c][p] = "requested"]
                  /\ subFut' = [subFut EXCEPT ![c][p] = TryGet(waiters, p)]
             ELSE /\ subPc' = [subPc EXCEPT ![c][p] = "qGrace"]
                  /\ UNCHANGED subFut
          /\ UNCHANGED <<subObs, subRes>>
  /\ UNCHANGED <<osVars, faults, created, pending, opVars, flagVars,
                 spawnVars, monVars, callVars, owed>>

\* After the dispatch: an exit published meanwhile, or the graceful signal.
TerminateRequested(c, p) ==
  LET exit == TryGet(waiters, p) IN
  /\ subPc[c][p] = "requested"
  /\ \/ exit \in VerifiedOutcome /\ SubDone(c, p, exit)
     \/ /\ exit \in UnverifiedOutcome
        /\ subPc' = [subPc EXCEPT ![c][p] = "qGrace"]
        /\ subFut' = [subFut EXCEPT ![c][p] = Unregistered]
        /\ UNCHANGED <<subObs, subRes>>
     \/ exit = NoExit /\ SubStep(c, p, "grace")
  /\ UNCHANGED <<osVars, faults, regVars, waiters, opVars, flagVars,
                 spawnVars, monVars, callVars, owed>>

\* The receiver yields within the grace period or the force timeout.
TerminateObserved(c, p) ==
  /\ subPc[c][p] \in {"grace", "force"}
  /\ subFut[c][p] \in Outcome
  /\ SubDone(c, p, subFut[c][p])
  /\ UNCHANGED <<osVars, faults, regVars, waiters, opVars, flagVars,
                 spawnVars, monVars, callVars, owed>>

\* The grace period ends: escalate in the registry, then kill.
TerminateForce(c, p) ==
  /\ subPc[c][p] = "grace"
  /\ registry' = [registry EXCEPT ![home[p]] = EscalateTermination(@, p)]
  /\ KillOrFail(p)
  /\ SubStep(c, p, "force")
  /\ UNCHANGED <<os, created, pending, waiters, opVars, flagVars, spawnVars,
                 monVars, callVars, owed>>

TerminateTimeout(c, p) ==
  /\ ForceTimeout
  /\ subPc[c][p] = "force"
  /\ SubDone(c, p, "WaitTimedOut")
  /\ UNCHANGED <<osVars, faults, regVars, waiters, opVars, flagVars,
                 spawnVars, monVars, callVars, owed>>

(* retry_quarantined: at most two fresh waits through the backend. *)

RetryWait(c, p) ==
  /\ \/ /\ subPc[c][p] \in {"qGrace", "qForce"}
        /\ WaitOk(p)
        /\ SubStep(c, p, "qRecord")
     \/ /\ subPc[c][p] = "qGrace"
        /\ WaitErr(p)
        /\ SubStep(c, p, "qErr")
     \/ /\ subPc[c][p] = "qForce"
        /\ WaitErr(p)
        /\ SubDone(c, p, "ReapFailed")
  /\ UNCHANGED <<killSent, regVars, waiters, opVars, flagVars, spawnVars,
                 monVars, callVars, owed>>

\* A wait that failed at once still waits for the grace period and forces.
RetryForce(c, p) ==
  /\ subPc[c][p] \in {"qGrace", "qErr"}
  /\ KillOrFail(p)
  /\ SubStep(c, p, "qForce")
  /\ UNCHANGED <<os, regVars, waiters, opVars, flagVars, spawnVars,
                 monVars, callVars, owed>>

RetryTimeout(c, p) ==
  /\ ForceTimeout
  /\ subPc[c][p] = "qForce"
  /\ SubDone(c, p, "WaitTimedOut")
  /\ UNCHANGED <<osVars, faults, regVars, waiters, opVars, flagVars,
                 spawnVars, monVars, callVars, owed>>

\* record_recovered_exit, up to its dispatch: the correction and its
\* publication share the registry lock.  A verified exit already recorded
\* wins.  The dispatch that follows is an await: a cancelled caller's worker
\* stops there, its correction already published.
RetryRecord(c, p) ==
  LET s       == home[p]
      known   == IF Owned(p) THEN RecordedExit(p) ELSE NoExit
      outcome == IF RawKilled(p) THEN "ForcedRequired" ELSE "GracefulSuccess"
      exit    == IF known \in VerifiedOutcome THEN known ELSE outcome
      records == Owned(p) /\ known \notin VerifiedOutcome
      stopped == call[c].pc = "idle"
  IN
  /\ subPc[c][p] = "qRecord"
  /\ IF records
     THEN /\ registry' = [registry EXCEPT ![s] = RecordReaped(@, p, exit)]
          /\ pending' = PendingAfterMonitor(s, p, exit)
     ELSE UNCHANGED <<registry, pending>>
  /\ SignalAll(p, exit)
  /\ subRes' = [subRes EXCEPT ![c][p] = IF stopped THEN "None" ELSE exit]
  /\ subPc' = [subPc EXCEPT ![c][p] =
                 IF stopped THEN "idle" ELSE IF records THEN "qNotify" ELSE "qDone"]
  /\ UNCHANGED <<osVars, faults, created, opVars, flagVars, spawnVars,
                 monVars, callVars, owed>>

\* The dispatch of the correction: notify again (history may have expired),
\* then prune.
RetryNotify(c, p) ==
  /\ subPc[c][p] = "qNotify"
  /\ SignalAll(p, subRes[c][p])
  /\ subPc' = [subPc EXCEPT ![c][p] = "qPrune"]
  /\ UNCHANGED <<osVars, faults, regVars, opVars, flagVars, spawnVars,
                 monVars, callVars, subRes, owed>>

RetryPrune(c, p) ==
  /\ subPc[c][p] \in {"qPrune", "qDone"}
  /\ registry' = IF subPc[c][p] = "qPrune"
                 THEN [registry EXCEPT ![home[p]] = Prune(@, p)] ELSE registry
  /\ SubDone(c, p, subRes[c][p])
  /\ UNCHANGED <<osVars, faults, created, pending, waiters, opVars, flagVars,
                 spawnVars, monVars, callVars, owed>>

\* A JoinSet worker's observer, polled before its termination: a verified exit
\* ends the worker, an unverified one leaves it to the termination.
WorkerObserve(c, p) ==
  /\ subPc[c][p] \in {"start", "grace", "force", "qGrace", "qErr", "qForce"}
  /\ subObs[c][p] \in Outcome
  /\ IF subObs[c][p] \in VerifiedOutcome
     THEN SubDone(c, p, subObs[c][p])
     ELSE /\ subObs' = [subObs EXCEPT ![c][p] = Unregistered]
          /\ UNCHANGED <<subPc, subFut, subRes>>
  /\ UNCHANGED <<osVars, faults, regVars, waiters, opVars, flagVars,
                 spawnVars, monVars, callVars, owed>>

(* wait(p). *)

WaitLookup(p) ==
  LET exit == TryGet(waiters, p) IN
  IF exit # NoExit THEN exit
  ELSE IF Owned(p) THEN RecordedExit(p) ELSE Unknown

\* A re-observing terminate_scope waits for one process at a time, and keeps
\* the outcome it had when wait fails.
WaitStart(c, p) ==
  LET found == WaitLookup(p) IN
  /\ subPc[c][p] = "observe"
  /\ \A q \in Pid : subPc[c][q] # "observing"
  /\ IF found # NoExit
     THEN /\ SubDone(c, p, IF found = Unknown /\ call[c].op # "wait"
                           THEN subRes[c][p] ELSE found)
          /\ UNCHANGED waiters
     ELSE /\ waiters' = WaitSlot(waiters, p)
          /\ subFut' = [subFut EXCEPT ![c][p] = TryGet(waiters, p)]
          /\ subPc' = [subPc EXCEPT ![c][p] = "observing"]
          /\ UNCHANGED <<subObs, subRes>>
  /\ UNCHANGED <<osVars, faults, regVars, opVars, flagVars, spawnVars,
                 monVars, callVars, owed>>

WaitObserved(c, p) ==
  /\ subPc[c][p] = "observing"
  /\ subFut[c][p] \in Outcome
  /\ SubDone(c, p, subFut[c][p])
  /\ UNCHANGED <<osVars, faults, regVars, waiters, opVars, flagVars,
                 spawnVars, monVars, callVars, owed>>

ReobserveTimeout(c, p) ==
  /\ ForceTimeout
  /\ call[c].op # "wait"
  /\ subPc[c][p] = "observing"
  /\ SubDone(c, p, subRes[c][p])
  /\ UNCHANGED <<osVars, faults, regVars, waiters, opVars, flagVars,
                 spawnVars, monVars, callVars, owed>>

-----------------------------------------------------------------------------
(* terminate_scope and terminate_scope_operation. *)

\* A caller is free for a new call once no worker of a cancelled one runs on.
Free(c) ==
  /\ call[c].pc \in {"idle", "done"}
  /\ \A p \in Pid : subPc[c][p] = "idle"

BeginCall(c, op, s, pc) ==
  /\ op \in Calls
  /\ Free(c)
  /\ call' = [call EXCEPT ![c] = [op |-> op, scope |-> s, pc |-> pc]]
  /\ result' = [result EXCEPT ![c] = "None"]
  /\ report' = [report EXCEPT ![c] = NoReport]

Goto(c, pc) == call' = [call EXCEPT ![c].pc = pc]

\* terminate_scope_operation returns: to the program, or to shutdown's loop.
Return(c, res, rep) ==
  IF call[c].op = "shutdown"
  THEN /\ Goto(c, "next")
       /\ result' = [result EXCEPT ![c] =
                       IF res = "Report" /\ AllVerified(rep) THEN @ ELSE "Unverified"]
       /\ UNCHANGED report
  ELSE /\ Goto(c, "done")
       /\ result' = [result EXCEPT ![c] = res]
       /\ report' = [report EXCEPT ![c] = rep]

\* First read of the retained reports.
TerminateScopeCall(c, s) ==
  /\ s \in created
  /\ BeginCall(c, "terminate_scope", s, "reports")
  /\ UNCHANGED <<osVars, faults, regVars, waiters, opVars, flagVars,
                 spawnVars, monVars, todo, shutdownSerial, subVars, owed>>

\* reports, then scope_operations, then reports again if the mutex is gone.
TerminateScopeLookup(c) ==
  LET s == call[c].scope IN
  /\ \/ /\ call[c].pc \in {"reports", "recheck"}
        /\ s \in reports
        /\ Return(c, "Report", serialReport[s])
     \/ /\ call[c].pc = "reports"
        /\ s \notin reports
        /\ Goto(c, "operation")
        /\ UNCHANGED <<result, report>>
     \/ /\ call[c].pc = "operation"
        /\ Goto(c, IF s \in operations THEN "lock" ELSE "recheck")
        /\ UNCHANGED <<result, report>>
     \/ /\ call[c].pc = "recheck"
        /\ s \notin reports
        /\ Return(c, "UnknownScope", NoReport)
  /\ UNCHANGED <<osVars, faults, regVars, waiters, opVars, flagVars,
                 spawnVars, monVars, todo, shutdownSerial, subVars, owed>>

\* The operation mutex is acquired by a caller who finds the scope settled.
ScopeSettled(c) ==
  LET s == call[c].scope IN
  /\ call[c].pc = "lock"
  /\ holder[s] = NoTask
  /\ \/ /\ s \in serial \cup reports
        /\ Return(c, "Report", serialReport[s])
     \/ /\ s \notin serial \cup reports
        /\ ~Registered(s)
        /\ Return(c, "UnknownScope", NoReport)
  /\ UNCHANGED <<osVars, faults, regVars, waiters, opVars, flagVars,
                 spawnVars, monVars, todo, shutdownSerial, subVars, owed>>

\* Exits recorded before the scope began to drain are captured, once.
CaptureExits(s) ==
  [p \in Pid |-> IF pending[s][p] = NoExit
                 THEN registry[s].processes[p].exit ELSE pending[s][p]]

\* Drain the scope, capture the exits its monitors recorded while it was open,
\* register an observer for every other process, start the workers.
ScopeDrain(c) ==
  LET s    == call[c].scope
      ids  == ProcessIds(registry[s])
      live == {p \in ids : registry[s].processes[p].exit = NoExit}
      over == {p \in ids : registry[s].processes[p].exit \in VerifiedOutcome}
  IN
  /\ call[c].pc = "lock"
  /\ holder[s] = NoTask
  /\ s \notin serial \cup reports
  /\ Registered(s)
  /\ holder' = [holder EXCEPT ![s] = c]
  /\ registry' = [registry EXCEPT ![s] = BeginScopeTermination(@)]
  /\ pending' = [pending EXCEPT ![s] = CaptureExits(s)]
  /\ waiters' = [waiters EXCEPT !.entries = [p \in Pid |->
                   IF p \in live THEN WaitSlot(waiters, p).entries[p] ELSE @[p]]]
  /\ subObs' = [subObs EXCEPT ![c] = [p \in Pid |->
                  IF p \in live THEN TryGet(waiters, p) ELSE Unregistered]]
  /\ subPc' = [subPc EXCEPT ![c] = [p \in Pid |->
                 IF p \in over THEN "done" ELSE IF p \in ids THEN "start" ELSE "idle"]]
  /\ subRes' = [subRes EXCEPT ![c] = [p \in Pid |->
                  IF p \in over THEN registry[s].processes[p].exit ELSE "None"]]
  /\ owed' = [owed EXCEPT ![s] = @ \cup ids]
  /\ Goto(c, "join")
  /\ UNCHANGED <<osVars, faults, created, operations, serial, serialReport,
                 reports, completedScopes, flagVars, spawnVars, monVars, subFut,
                 result, report, todo, shutdownSerial>>

SubReset(c, p) ==
  /\ subPc' = [subPc EXCEPT ![c][p] = "idle"]
  /\ subRes' = [subRes EXCEPT ![c][p] = "None"]
  /\ UNCHANGED <<subFut, subObs>>

JoinOutcome(res) == IF res = Unknown THEN "ProcessDisappeared" ELSE res

\* join_next: a worker's outcome is merged into the pending outcomes.
ScopeJoin(c, p) ==
  /\ call[c].pc = "join"
  /\ subPc[c][p] = "done"
  /\ pending' = [pending EXCEPT ![call[c].scope][p] =
                   Merge(JoinOutcome(subRes[c][p]), @)]
  /\ SubReset(c, p)
  /\ UNCHANGED <<osVars, faults, created, registry, waiters, opVars, flagVars,
                 spawnVars, monVars, callVars, owed>>

\* All workers joined: the containment sweep starts.
ScopeSweep(c) ==
  /\ call[c].pc = "join"
  /\ \A p \in Pid : subPc[c][p] = "idle"
  /\ Kill({p \in Pid : home[p] = call[c].scope})
  /\ Goto(c, "sweep")
  /\ UNCHANGED <<os, faults, regVars, waiters, opVars, flagVars, spawnVars,
                 monVars, result, report, todo, shutdownSerial, subVars, owed>>

Release(c) == holder' = [holder EXCEPT ![call[c].scope] = NoTask]

ScopeSweepErr(c) ==
  /\ call[c].pc = "sweep"
  /\ faults < MaxFaults
  /\ faults' = faults + 1
  /\ Release(c)
  /\ Return(c, "Error", NoReport)
  /\ UNCHANGED <<osVars, regVars, waiters, operations, serial, serialReport,
                 reports, completedScopes, flagVars, spawnVars, monVars, todo,
                 shutdownSerial, subVars, owed>>

\* The sweep succeeds: outcomes still unverified are observed once more.
ScopeSweepOk(c) ==
  LET s     == call[c].scope
      again == {p \in Pid : pending[s][p] \in UnverifiedOutcome}
  IN
  /\ call[c].pc = "sweep"
  /\ subPc' = [subPc EXCEPT ![c] = [p \in Pid |->
                 IF p \in again THEN "observe" ELSE "idle"]]
  /\ subRes' = [subRes EXCEPT ![c] = [p \in Pid |->
                  IF p \in again THEN pending[s][p] ELSE "None"]]
  /\ Goto(c, "reobserve")
  /\ UNCHANGED <<osVars, faults, regVars, waiters, opVars, flagVars, spawnVars,
                 monVars, result, report, todo, shutdownSerial, subFut, subObs,
                 owed>>

\* Mutant: also merges for processes that were not observed again.
ReobservedAll(c) ==
  [p \in Pid |-> Merge(subRes[c][p], pending[call[c].scope][p])]

\* The outcomes a finished re-observation leaves in pending_outcomes.
Reobserved(c) ==
  [p \in Pid |->
     IF subPc[c][p] = "done"
     THEN Merge(subRes[c][p], pending[call[c].scope][p])
     ELSE pending[call[c].scope][p]]

ReobserveDone(c) ==
  /\ call[c].pc = "reobserve"
  /\ \A p \in Pid : subPc[c][p] \in {"idle", "done"}
  /\ pending' = [pending EXCEPT ![call[c].scope] = Reobserved(c)]
  /\ subPc' = [subPc EXCEPT ![c] = [p \in Pid |-> "idle"]]
  /\ subRes' = [subRes EXCEPT ![c] = [p \in Pid |-> "None"]]

\* Some outcome is unverified: the scope stays owned, for a later attempt.
ScopeUnverified(c) ==
  /\ ReobserveDone(c)
  /\ ~AllVerified(Reobserved(c))
  /\ Release(c)
  /\ Return(c, "Report", Reobserved(c))
  /\ UNCHANGED <<osVars, faults, created, registry, waiters, operations, serial,
                 serialReport, reports, completedScopes, flagVars, spawnVars,
                 monVars, todo, shutdownSerial, subFut, subObs, owed>>

\* Mutant: the report is published on the mutex only.
CommitToMutex(s, rep) ==
  /\ serial' = serial \cup {s}
  /\ serialReport' = [serialReport EXCEPT ![s] = rep]
  /\ UNCHANGED reports

CommitReport(s, rep) ==
  /\ serial' = serial \cup {s}
  /\ serialReport' = [serialReport EXCEPT ![s] = rep]
  /\ reports' = reports \cup {s}

\* All verified: the report is committed to the operation mutex and to the
\* history before the live entries go.
ScopePublish(c) ==
  /\ ReobserveDone(c)
  /\ AllVerified(Reobserved(c))
  /\ CommitReport(call[c].scope, Reobserved(c))
  /\ Goto(c, "unregister")
  /\ UNCHANGED <<osVars, faults, created, registry, waiters, operations, holder,
                 completedScopes, flagVars, spawnVars, monVars, result, report,
                 todo, shutdownSerial, subFut, subObs, owed>>

ScopeUnregister(c) ==
  LET s == call[c].scope IN
  /\ call[c].pc = "unregister"
  /\ registry' = [registry EXCEPT ![s] = NoScopeEntry]
  /\ Goto(c, "retire")
  /\ UNCHANGED <<osVars, faults, created, pending, waiters, opVars, flagVars,
                 spawnVars, monVars, result, report, todo, shutdownSerial,
                 subVars, owed>>

ScopeRetire(c) ==
  LET s == call[c].scope IN
  /\ call[c].pc = "retire"
  /\ operations' = operations \ {s}
  /\ pending' = [pending EXCEPT ![s] = NoReport]
  /\ Goto(c, "remember")
  /\ UNCHANGED <<osVars, faults, created, registry, waiters, holder, serial,
                 serialReport, reports, completedScopes, flagVars, spawnVars,
                 monVars, result, report, todo, shutdownSerial, subVars, owed>>

\* completed_scopes: push, and evict the oldest reports beyond the bound.
ScopeRemember(c) ==
  LET s      == call[c].scope
      queue  == Append(completedScopes, s)
      excess == IF Len(queue) > ReportBound THEN Len(queue) - ReportBound ELSE 0
  IN
  /\ call[c].pc = "remember"
  /\ completedScopes' = SubSeq(queue, excess + 1, Len(queue))
  /\ reports' = reports \ {queue[i] : i \in 1..excess}
  /\ Release(c)
  /\ Return(c, "Report", serialReport[s])
  /\ UNCHANGED <<osVars, faults, regVars, waiters, operations, serial,
                 serialReport, flagVars, spawnVars, monVars, todo,
                 shutdownSerial, subVars, owed>>

-----------------------------------------------------------------------------
(* Direct calls of terminate and wait; shutdown; cancellation; drop. *)

SingleCall(c, p) ==
  /\ spawnPc[p] = "ok"
  /\ ~ownersDropped
  /\ \/ /\ BeginCall(c, "terminate", NoScope, "single")
        /\ subPc' = [subPc EXCEPT ![c][p] = "start"]
     \/ /\ BeginCall(c, "wait", NoScope, "single")
        /\ subPc' = [subPc EXCEPT ![c][p] = "observe"]
  /\ UNCHANGED <<osVars, faults, regVars, waiters, opVars, flagVars,
                 spawnVars, monVars, todo, shutdownSerial, subFut, subObs,
                 subRes, owed>>

SingleReturn(c, p) ==
  /\ call[c].pc = "single"
  /\ subPc[c][p] = "done"
  /\ Goto(c, "done")
  /\ result' = [result EXCEPT ![c] = subRes[c][p]]
  /\ SubReset(c, p)
  /\ UNCHANGED <<osVars, faults, regVars, waiters, opVars, flagVars,
                 spawnVars, monVars, report, todo, shutdownSerial, owed>>

ShutdownCall(c) ==
  /\ ~ownersDropped
  /\ BeginCall(c, "shutdown", NoScope, "serial")
  /\ shuttingDown' = TRUE
  /\ UNCHANGED <<osVars, faults, regVars, waiters, opVars, ownersDropped,
                 dropPc, spawnVars, monVars, todo, shutdownSerial, subVars, owed>>

\* Serialised with other shutdowns; the registered scopes and their operation
\* mutexes are pinned under the registry lock.
ShutdownSnapshot(c) ==
  /\ call[c].pc = "serial"
  /\ shutdownSerial = NoTask
  /\ shutdownSerial' = c
  /\ todo' = [todo EXCEPT ![c] = {s \in Scope : Registered(s)}]
  /\ Goto(c, "next")
  /\ UNCHANGED <<osVars, faults, regVars, waiters, opVars, flagVars,
                 spawnVars, monVars, result, report, subVars, owed>>

ShutdownNext(c) ==
  /\ call[c].pc = "next"
  /\ \E s \in todo[c] :
       /\ todo' = [todo EXCEPT ![c] = @ \ {s}]
       /\ call' = [call EXCEPT ![c].scope = s, ![c].pc = "lock"]
  /\ UNCHANGED <<osVars, faults, regVars, waiters, opVars, flagVars, spawnVars,
                 monVars, result, report, shutdownSerial, subVars, owed>>

ShutdownReturn(c) ==
  /\ call[c].pc = "next"
  /\ todo[c] = {}
  /\ Goto(c, "done")
  /\ result' = [result EXCEPT ![c] = IF @ = "None" THEN "ShutdownOk" ELSE @]
  /\ shutdownSerial' = NoTask
  /\ UNCHANGED <<osVars, faults, regVars, waiters, opVars, flagVars, spawnVars,
                 monVars, report, todo, subVars, owed>>

\* The caller's future is dropped at an await: its guards are released and
\* its workers aborted, except one between two awaits.
Cancel(c) ==
  /\ "cancel" \in Calls
  /\ call[c].pc \in {"lock", "join", "sweep", "reobserve", "single", "serial"}
  /\ call' = [call EXCEPT ![c] = [op |-> "none", scope |-> NoScope, pc |-> "idle"]]
  /\ result' = [result EXCEPT ![c] = "None"]
  /\ todo' = [todo EXCEPT ![c] = {}]
  /\ holder' = [s \in Scope |-> IF holder[s] = c THEN NoTask ELSE holder[s]]
  /\ shutdownSerial' = IF shutdownSerial = c THEN NoTask ELSE shutdownSerial
  /\ subPc' = [subPc EXCEPT ![c] = [p \in Pid |->
                 IF @[p] = "qRecord" THEN @[p] ELSE "idle"]]
  /\ subRes' = [subRes EXCEPT ![c] = [p \in Pid |-> "None"]]
  /\ subFut' = [subFut EXCEPT ![c] = [p \in Pid |-> Unregistered]]
  /\ subObs' = [subObs EXCEPT ![c] = [p \in Pid |-> Unregistered]]
  /\ UNCHANGED <<osVars, faults, regVars, waiters, operations, serial,
                 serialReport, reports, completedScopes, flagVars, spawnVars,
                 monVars, report, owed>>

\* CleanupGuard::drop, with the last user-facing handle: no direct call is in
\* progress then.  An ObservedScope holds no such handle, so its
\* terminate_scope may still run.
DropOwners ==
  /\ \/ /\ "drop" \in Calls
        /\ dropPc = "live"
        /\ \A c \in Caller : Free(c) \/ call[c].op = "terminate_scope"
        /\ ownersDropped' = TRUE
        /\ dropPc' = "dropped"
        /\ UNCHANGED <<shuttingDown, killSent>>
     \/ /\ dropPc = "dropped"
        /\ shuttingDown' = TRUE
        /\ dropPc' = "closing"
        /\ UNCHANGED <<ownersDropped, killSent>>
     \/ /\ dropPc = "closing"
        /\ Kill(Pid)
        /\ dropPc' = "swept"
        /\ UNCHANGED <<ownersDropped, shuttingDown>>
  /\ UNCHANGED <<os, faults, regVars, waiters, opVars, spawnVars, monVars,
                 callVars, subVars, owed>>

-----------------------------------------------------------------------------
OsStep(p) == OsExit(p) \/ OsKill(p)

SpawnStep(p) ==
  \/ SpawnLock(p) \/ SpawnBackendOk(p) \/ SpawnBackendErr(p)
  \/ SpawnCheckOwners(p) \/ SpawnAttach(p) \/ SpawnOrphan(p) \/ SpawnReturn(p)

MonitorStep(p) ==
  MonitorWait(p) \/ MonitorRecord(p) \/ MonitorNotify(p) \/ MonitorPrune(p)

WorkerStep(c, p) ==
  \/ TerminateStart(c, p) \/ TerminateRequested(c, p) \/ TerminateObserved(c, p)
  \/ TerminateForce(c, p) \/ TerminateTimeout(c, p)
  \/ RetryWait(c, p) \/ RetryForce(c, p) \/ RetryTimeout(c, p)
  \/ RetryRecord(c, p) \/ RetryNotify(c, p) \/ RetryPrune(c, p)
  \/ WorkerObserve(c, p)
  \/ WaitStart(c, p) \/ WaitObserved(c, p) \/ ReobserveTimeout(c, p)

ScopeLock(c) == ScopeSettled(c) \/ ScopeDrain(c)

CallStep(c) ==
  \/ TerminateScopeLookup(c) \/ ScopeLock(c)
  \/ \E p \in Pid : ScopeJoin(c, p) \/ SingleReturn(c, p)
  \/ ScopeSweep(c) \/ ScopeSweepErr(c) \/ ScopeSweepOk(c)
  \/ ScopeUnverified(c) \/ ScopePublish(c)
  \/ ScopeUnregister(c) \/ ScopeRetire(c) \/ ScopeRemember(c)
  \/ ShutdownSnapshot(c) \/ ShutdownNext(c) \/ ShutdownReturn(c)

Next ==
  \/ \E s \in Scope : CreateScope(s)
  \/ \E p \in Pid, s \in Scope : SpawnCall(p, s)
  \/ \E p \in Pid : OsStep(p) \/ SpawnStep(p) \/ MonitorStep(p)
  \/ \E c \in Caller :
       \/ \E s \in Scope : TerminateScopeCall(c, s)
       \/ \E p \in Pid : SingleCall(c, p) \/ WorkerStep(c, p)
       \/ ShutdownCall(c) \/ CallStep(c) \/ Cancel(c)
  \/ DropOwners

Spec == Init /\ [][Next]_vars

(***************************************************************************)
(* Fairness.  Every task that is not waiting keeps being polled by the     *)
(* runtime, and a timer that was armed fires; tokio's mutexes are first-in *)
(* first-out, so a task queued on one gets it if it is freed again and     *)
(* again.  The kernel delivers SIGKILL, and a child that died is reported  *)
(* by wait.  Nothing makes a process exit by itself, a program call or     *)
(* cancel, or a backend call fail.                                         *)
(***************************************************************************)
Fairness ==
  /\ \A p \in Pid :
       /\ WF_vars(OsKill(p))
       /\ WF_vars(SpawnStep(p)) /\ SF_vars(SpawnLock(p))
       /\ WF_vars(MonitorStep(p))
  /\ \A c \in Caller :
       /\ WF_vars(CallStep(c)) /\ SF_vars(ScopeLock(c))
       /\ SF_vars(ShutdownSnapshot(c))
       /\ \A p \in Pid : WF_vars(WorkerStep(c, p))

FairSpec == Spec /\ Fairness

-----------------------------------------------------------------------------
(* Properties. *)

SpawnPc == {"idle", "lock", "backend", "check", "attach", "orphan", "attached",
            "ok", "failed"}
MonPc == {"none", "wait", "record", "recordFailed", "notify", "prune", "done"}
CallPc == {"idle", "reports", "operation", "recheck", "lock", "join", "sweep",
           "reobserve", "unregister", "retire", "remember", "single", "serial",
           "next", "done"}
CallRecord == [op : CallKind \cup {"none"}, scope : Scope \cup {NoScope},
               pc : CallPc]
SubPc == {"idle", "start", "requested", "grace", "force", "qGrace", "qErr",
          "qForce", "qRecord", "qNotify", "qPrune", "qDone", "observe",
          "observing", "done"}
Receiver == OptOutcome \cup {Unregistered}
SubResult == Outcome \cup {"None", Unknown}
CallResult == SubResult \cup {"Report", "UnknownScope", "Error", "Unverified",
                             "ShutdownOk"}

OsType ==
  /\ os \in [Pid -> OsState]
  /\ killSent \in SUBSET Pid
  /\ faults \in 0..MaxFaults
RegistryType ==
  /\ created \in SUBSET Scope
  /\ registry \in [Scope -> Scopes]
  /\ pending \in [Scope -> Report]
  /\ owed \in [Scope -> SUBSET Pid]
OperationType ==
  /\ operations \in SUBSET Scope
  /\ holder \in [Scope -> Caller \cup Pid \cup {NoTask}]
  /\ serial \in SUBSET Scope
  /\ serialReport \in [Scope -> Report]
  /\ reports \in SUBSET Scope
  /\ completedScopes \in Seq(Scope)
FlagType ==
  /\ shuttingDown \in BOOLEAN
  /\ ownersDropped \in BOOLEAN
  /\ dropPc \in {"live", "dropped", "closing", "swept"}
SpawnType ==
  /\ spawnPc \in [Pid -> SpawnPc]
  /\ home \in [Pid -> Scope \cup {NoScope}]
MonitorType ==
  /\ monPc \in [Pid -> MonPc]
  /\ monExit \in [Pid -> OptOutcome]
CallType ==
  /\ call \in [Caller -> CallRecord]
  /\ result \in [Caller -> CallResult]
  /\ report \in [Caller -> Report]
  /\ todo \in [Caller -> SUBSET Scope]
  /\ shutdownSerial \in Caller \cup {NoTask}
WorkerType ==
  /\ subPc \in [Caller -> [Pid -> SubPc]]
  /\ subFut \in [Caller -> [Pid -> Receiver]]
  /\ subObs \in [Caller -> [Pid -> Receiver]]
  /\ subRes \in [Caller -> [Pid -> SubResult]]

\* Every variable has its type.
TypeOK ==
  /\ OsType
  /\ RegistryType
  /\ waiters \in WaiterRecord
  /\ OperationType
  /\ FlagType
  /\ SpawnType
  /\ MonitorType
  /\ CallType
  /\ WorkerType

RegistryEvidence ==
  \A s \in Scope, p \in Pid :
    registry[s].processes[p].exit \in VerifiedOutcome => IsReaped(p)
PendingEvidence ==
  \A s \in Scope, p \in Pid : pending[s][p] \in VerifiedOutcome => IsReaped(p)
CommittedEvidence ==
  \A s \in Scope, p \in Pid :
    serialReport[s][p] \in VerifiedOutcome => IsReaped(p)
ReturnedEvidence ==
  \A c \in Caller, p \in Pid : report[c][p] \in VerifiedOutcome => IsReaped(p)
WaiterEvidence ==
  \A p \in Pid : TryGet(waiters, p) \in VerifiedOutcome => IsReaped(p)
MonitorEvidence ==
  \A p \in Pid : monExit[p] \in VerifiedOutcome => IsReaped(p)
WorkerEvidence ==
  \A c \in Caller, p \in Pid :
    /\ subFut[c][p] \in VerifiedOutcome => IsReaped(p)
    /\ subObs[c][p] \in VerifiedOutcome => IsReaped(p)
    /\ subRes[c][p] \in VerifiedOutcome => IsReaped(p)

\* A verified outcome for p, wherever it is held (registry, pending outcomes,
\* a committed or a returned report, waiter history, a monitor's event, a
\* receiver, a worker), is evidence that the operating system reaped p.
VerifiedMeansReaped ==
  /\ RegistryEvidence
  /\ PendingEvidence
  /\ CommittedEvidence
  /\ ReturnedEvidence
  /\ WaiterEvidence
  /\ MonitorEvidence
  /\ WorkerEvidence

(***************************************************************************)
(* What makes the two above inductive: an attempt that has not reached the *)
(* backend has no process; a monitor or a retry about to record an exit    *)
(* has seen the reap; a worker's result is there when it is used; only     *)
(* scope terminations re-observe, and each has a scope.                    *)
(***************************************************************************)
SpawnFresh ==
  \A p \in Pid : spawnPc[p] \in {"idle", "lock", "backend"} => os[p] = "None"
MonitorReady ==
  \A p \in Pid :
    /\ monPc[p] = "record" => IsReaped(p)
    /\ monPc[p] = "notify" => monExit[p] \in Outcome
WorkerReady ==
  \A c \in Caller, p \in Pid :
    /\ subPc[c][p] = "qRecord" => IsReaped(p)
    /\ subPc[c][p] \in {"qNotify", "qPrune", "qDone"} => subRes[c][p] \in Outcome
    /\ subPc[c][p] = "done" => subRes[c][p] \in Outcome \cup {Unknown}
    /\ subPc[c][p] \in {"observe", "observing"} =>
         call[c].op = "wait" \/ subRes[c][p] \in Outcome
CallReady ==
  \A c \in Caller :
    /\ call[c].pc \in CallPc \ {"idle", "single", "done"} =>
         call[c].op \in {"terminate_scope", "shutdown"}
    /\ call[c].pc = "reobserve" => \A p \in Pid :
         \/ subPc[c][p] = "idle"
         \/ subPc[c][p] \in {"observe", "observing", "done"} /\ subRes[c][p] \in Outcome

ScopePc == {"reports", "operation", "recheck", "lock", "join", "sweep",
            "reobserve", "unregister", "retire", "remember"}
CallScoped ==
  \A c \in Caller : call[c].pc \in ScopePc => call[c].scope \in Scope

IndInv ==
  TypeOK /\ VerifiedMeansReaped /\ SpawnFresh /\ MonitorReady /\ WorkerReady
  /\ CallReady /\ CallScoped

\* A process that exists and is not reaped is in the hands of the spawn worker
\* that created it, which holds the scope's operation mutex, or owned by its
\* scope in the registry without verified exit: no interleaving of spawn,
\* termination, shutdown and cancellation loses one.  (After the last handle
\* is dropped an orphan's failed wait is ignored.)
OwnedUntilReaped ==
  \A p \in Pid : Unreaped(p) =>
    \/ spawnPc[p] \in {"check", "attach", "orphan"} /\ holder[home[p]] = p
    \/ Owned(p) /\ RecordedExit(p) \notin VerifiedOutcome
    \/ ownersDropped /\ spawnPc[p] = "failed" /\ p \in killSent

\* A scope's committed report is the end of every process the scope ever
\* owned, whichever terminator, cancelled or not, did the work.
ReportedScopeIsDead ==
  \A s \in serial, p \in Pid : home[p] = s /\ monPc[p] # "none" => IsReaped(p)

\* A committed report lists every process that the scope owned when a
\* terminator began to drain it, though its monitor may since have pruned it
\* and that terminator been cancelled.
ReportCoversDrainedProcesses ==
  \A s \in serial, p \in Pid :
    p \in owed[s] => serialReport[s][p] \in VerifiedOutcome

\* A committed report is the whole truth about its scope: nothing of it is
\* alive, and no process that it owned is missing.
ReportIsComplete == ReportedScopeIsDead /\ ReportCoversDrainedProcesses

\* A terminator waiting for the operation mutex will find either the committed
\* report in it or the scope in the registry, never an unknown scope, even
\* when the report has left the bounded history ("In-flight callers own this
\* state even after bounded lookup history expires").
QueuedTerminatorAnswered ==
  \A c \in Caller :
    call[c].pc = "lock" /\ holder[call[c].scope] = NoTask =>
      call[c].scope \in serial \/ Registered(call[c].scope)

\* terminate_scope answers UnknownScope only for a scope whose report was
\* committed and then evicted by as many later ones as the bound.
UnknownMeansEvicted ==
  \A c \in Caller :
    result[c] = "UnknownScope" =>
      /\ call[c].scope \in serial \ reports
      /\ Cardinality(serial) > ReportBound

\* Neither a terminator that waits for another one's operation nor one that
\* comes later meets a gap between the live scope and its report: "repeat
\* callers cannot see a gap".
NoReportGap == QueuedTerminatorAnswered /\ UnknownMeansEvicted

\* After a shutdown returned Ok nothing it supervised is alive, nothing comes
\* to life later and no scope was created behind the shutdown's snapshot.
ShutdownIsFinal ==
  \A c \in Caller : result[c] = "ShutdownOk" =>
    /\ \A p \in Pid : ~Unreaped(p) /\ spawnPc[p] # "backend"
    /\ \A s \in Scope : ~Registered(s)

\* Waiter history never holds a failure that the registry has corrected: while
\* try_get answers an unverified exit, the process is still quarantined.
NoStaleFailure ==
  \A p \in Pid :
    TryGet(waiters, p) \in UnverifiedOutcome =>
      Owned(p) /\ RecordedExit(p) \in UnverifiedOutcome

\* Whichever of several calls publishes: its report covers what the scope owned,
\* nothing it calls verified is unreaped, no process is left without owner, and
\* no failure is answered that a retry has corrected.
RacingReportIsComplete ==
  VerifiedMeansReaped /\ OwnedUntilReaped /\ ReportIsComplete /\ NoStaleFailure

\* Once the drop of the last handle has swept, every process alive has been
\* sent SIGKILL, except one whose spawn worker is about to sweep it.
DropReachesLateSpawns ==
  dropPc = "swept" =>
    \A p \in Pid : os[p] = "Alive" => p \in killSent \/ spawnPc[p] = "check"

\* Verified evidence is never downgraded or changed: in the registry until the
\* entry is removed, in the pending outcomes until the report is committed.
EvidenceMonotone ==
  [][\A s \in Scope, p \in Pid :
       /\ registry[s].processes[p].exit \in VerifiedOutcome =>
            registry'[s].processes[p] \in {registry[s].processes[p], NoProcess}
       /\ pending[s][p] \in VerifiedOutcome =>
            pending'[s][p] = pending[s][p] \/ s \in serial]_vars

\* A terminate_scope that is not cancelled returns.
TerminateScopeReturns ==
  \A c \in Caller :
    call[c].op = "terminate_scope" /\ call[c].pc = "reports" ~>
      call[c].pc \in {"done", "idle"}
\* A wait on a process that has died returns, with whatever evidence its
\* monitor obtained, unless the caller gives it up.
WaitReturns ==
  \A c \in Caller, p \in Pid :
    subPc[c][p] \in {"observe", "observing"} /\ os[p] # "Alive" ~>
      subPc[c][p] \notin {"observe", "observing"}
\* Nobody waits for ever: with a force timeout a terminate_scope returns though
\* guards were dropped, waits failed or the process ignores signals, and a wait
\* on a dead process is woken by its monitor, also by one whose reap failed.
CallsReturn == TerminateScopeReturns /\ WaitReturns

\* wait answers UnknownProcess only for a process that was never owned.
WaitKnowsOwnedProcess ==
  \A c \in Caller : call[c].op = "wait" => result[c] # Unknown
=============================================================================
