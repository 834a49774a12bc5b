--------------------------- MODULE OwnershipProofs ---------------------------
(***************************************************************************)
(* Who answers for a process, for every value of the constants: the mutex  *)
(* of a scope, the life of scopes, calls and spawns, and what the drop of  *)
(* the last handle leaves behind.                                          *)
(*                                                                         *)
(* The inductive invariant is Responsible of module Custody, on top of     *)
(* IndInv.  Module EvidenceProofs goes on from it to what is known of a    *)
(* process, GuaranteeProofs to what callers are promised.                  *)
(***************************************************************************)
EXTENDS Custody, SupervisorProofs

-----------------------------------------------------------------------------
(* The aggregate moves forward. *)

\* The constants that no exit of one kind is mistaken for one of another.
LEMMA OutcomeKinds ==
  /\ NoExit \notin VerifiedOutcome /\ NoExit \notin UnverifiedOutcome
  /\ NoExit \notin Outcome
  /\ VerifiedOutcome \cap UnverifiedOutcome = {}
  /\ Outcome = VerifiedOutcome \cup UnverifiedOutcome
  /\ Unknown \notin Outcome /\ Unregistered \notin Outcome /\ "None" \notin Outcome
  /\ Unknown # NoExit
BY DEF NoExit, Unknown, Unregistered, Outcome, VerifiedOutcome, UnverifiedOutcome

\* A registry entry is a record of its two fields.
LEMMA ScopeFields ==
  ASSUME NEW scope \in Scopes
  PROVE  /\ scope.state \in ScopeState \cup {"Absent"}
         /\ scope.processes \in [Pid -> Process]
         /\ scope = [state |-> scope.state, processes |-> scope.processes]
         /\ \A p \in Pid :
              /\ scope.processes[p] \in Process
              /\ scope.processes[p].state \in ProcessLifecycle \cup {"Absent"}
              /\ scope.processes[p].exit \in OptOutcome
BY DEF Scopes, Process

\* The methods of Process keep a recorded exit and bring nothing to life.
LEMMA ProcessForward ==
  ASSUME NEW process \in Process,
         process.exit = NoExit <=> process.state # "Reaped"
  PROVE  /\ \A next \in {RequestGraceful(process), EscalateToForce(process),
                         MarkExited(process)} :
              /\ next.state = "Absent" <=> process.state = "Absent"
              /\ next.exit = process.exit
              /\ next.exit = NoExit <=> next.state # "Reaped"
              /\ process.exit # NoExit => next = process
         /\ \A exit \in Outcome :
              LET next == MarkReaped(process, exit) IN
              /\ next.state = "Absent" <=> process.state = "Absent"
              /\ next.exit = NoExit <=> next.state # "Reaped"
              /\ process.exit \in VerifiedOutcome => next = process
              /\ exit \in VerifiedOutcome /\ process.state # "Absent" =>
                   next.exit \in VerifiedOutcome
              /\ process.state # "Absent" => next.exit # NoExit
<1> USE DEF Process, ProcessLifecycle, OptOutcome
<1>1. \A next \in {RequestGraceful(process), EscalateToForce(process),
                   MarkExited(process)} :
        /\ next.state = "Absent" <=> process.state = "Absent"
        /\ next.exit = process.exit
        /\ next.exit = NoExit <=> next.state # "Reaped"
        /\ process.exit # NoExit => next = process
  BY DEF RequestGraceful, EscalateToForce, MarkExited, IsLive
<1>2. ASSUME NEW exit \in Outcome
      PROVE  LET next == MarkReaped(process, exit) IN
              /\ next.state = "Absent" <=> process.state = "Absent"
              /\ next.exit = NoExit <=> next.state # "Reaped"
              /\ process.exit \in VerifiedOutcome => next = process
              /\ exit \in VerifiedOutcome /\ process.state # "Absent" =>
                   next.exit \in VerifiedOutcome
              /\ process.state # "Absent" => next.exit # NoExit
  BY <1>2, OutcomeKinds DEF MarkReaped, AcceptsReap, IsLive
<1> QED BY <1>1, <1>2

\* Every method but attach_spawned and begin_termination moves the aggregate
\* forward.
LEMMA ScopeForward ==
  ASSUME NEW scope \in Scopes, Shaped(scope), NEW p \in Pid,
         NEW next \in {scope, RequestTermination(scope, p),
                       EscalateTermination(scope, p), RecordExit(scope, p),
                       Prune(scope, p)}
  PROVE  ScopeEvolves(scope, next) /\ Shaped(next)
<1>1. /\ scope.processes \in [Pid -> Process]
      /\ \A q \in Pid : /\ scope.processes[q] \in Process
                        /\ scope.processes[q].exit = NoExit <=>
                             scope.processes[q].state # "Reaped"
  BY ScopeFields DEF Shaped
<1>2. ASSUME NEW after \in Process,
             next.state = scope.state,
             next.processes = [scope.processes EXCEPT ![p] = after],
             after.state = "Absent" <=> scope.processes[p].state = "Absent",
             after.exit = NoExit <=> after.state # "Reaped",
             scope.processes[p].exit # NoExit => after = scope.processes[p]
      PROVE  ScopeEvolves(scope, next) /\ Shaped(next)
  <2>1. \A q \in Pid : next.processes[q] =
                         IF q = p THEN after ELSE scope.processes[q]
    BY <1>1, <1>2
  <2> QED BY <1>1, <1>2, <2>1, OutcomeKinds DEF ScopeEvolves, Shaped, Contains
<1>3. CASE next = scope
  BY <1>1, <1>3, OutcomeKinds DEF ScopeEvolves, Shaped, Contains
<1>4. CASE next = RequestTermination(scope, p)
  <2>1. RequestGraceful(scope.processes[p]) \in Process
    BY <1>1, ProcessTypes
  <2>2. /\ next.state = scope.state
        /\ next.processes = [scope.processes EXCEPT ![p] =
                               RequestGraceful(scope.processes[p])]
    BY <1>4, ScopeFields DEF RequestTermination
  <2> QED BY <1>1, <1>2, <2>1, <2>2, ProcessForward
<1>5. CASE next = EscalateTermination(scope, p)
  <2>1. EscalateToForce(scope.processes[p]) \in Process
    BY <1>1, ProcessTypes
  <2>2. /\ next.state = scope.state
        /\ next.processes = [scope.processes EXCEPT ![p] =
                               EscalateToForce(scope.processes[p])]
    BY <1>5, ScopeFields DEF EscalateTermination
  <2> QED BY <1>1, <1>2, <2>1, <2>2, ProcessForward
<1>6. CASE next = RecordExit(scope, p)
  <2>1. MarkExited(scope.processes[p]) \in Process
    BY <1>1, ProcessTypes
  <2>2. /\ next.state = scope.state
        /\ next.processes = [scope.processes EXCEPT ![p] =
                               MarkExited(scope.processes[p])]
    BY <1>6, ScopeFields DEF RecordExit
  <2> QED BY <1>1, <1>2, <2>1, <2>2, ProcessForward
<1>7. CASE next = Prune(scope, p)
  <2>1. CASE next = scope
    BY <1>3, <2>1
  <2>2. CASE /\ scope.processes[p].exit \in VerifiedOutcome
             /\ next = [scope EXCEPT !.processes[p] = NoProcess]
    <3>1. /\ next.state = scope.state
          /\ next.processes = [scope.processes EXCEPT ![p] = NoProcess]
      BY <2>2, ScopeFields
    <3>2. \A q \in Pid : next.processes[q] =
                           IF q = p THEN NoProcess ELSE scope.processes[q]
      BY <1>1, <3>1
    <3>3. NoProcess.state = "Absent" /\ NoProcess.exit = NoExit
      BY DEF NoProcess
    <3> QED
      BY <1>1, <2>2, <3>1, <3>2, <3>3, OutcomeKinds DEF ScopeEvolves, Shaped,
         Contains
  <2> QED BY <1>7, <2>1, <2>2 DEF Prune
<1> QED BY <1>3, <1>4, <1>5, <1>6, <1>7

\* record_reaped moves the aggregate forward; for a process it lists, the exit
\* is recorded, and verified if it was or if the new one is.
LEMMA RecordReapedForward ==
  ASSUME NEW scope \in Scopes, Shaped(scope), NEW p \in Pid, NEW exit \in Outcome
  PROVE  LET next == RecordReaped(scope, p, exit) IN
         /\ ScopeEvolves(scope, next) /\ Shaped(next)
         /\ Contains(scope, p) => Contains(next, p) /\ next.processes[p].exit # NoExit
         /\ Contains(scope, p) /\ exit \in VerifiedOutcome =>
              next.processes[p].exit \in VerifiedOutcome
         /\ \A q \in Pid \ {p} : next.processes[q] = scope.processes[q]
<1> DEFINE after == MarkReaped(scope.processes[p], exit)
           next  == RecordReaped(scope, p, exit)
<1>1. /\ scope.processes \in [Pid -> Process]
      /\ \A q \in Pid : /\ scope.processes[q] \in Process
                        /\ scope.processes[q].exit = NoExit <=>
                             scope.processes[q].state # "Reaped"
  BY ScopeFields DEF Shaped
<1>2. /\ after.state = "Absent" <=> scope.processes[p].state = "Absent"
      /\ after.exit = NoExit <=> after.state # "Reaped"
      /\ scope.processes[p].exit \in VerifiedOutcome => after = scope.processes[p]
      /\ exit \in VerifiedOutcome /\ scope.processes[p].state # "Absent" =>
           after.exit \in VerifiedOutcome
      /\ scope.processes[p].state # "Absent" => after.exit # NoExit
  BY <1>1, ProcessForward
<1> DEFINE reaped == [scope EXCEPT !.processes[p] = MarkReaped(@, exit)]
<1>3. /\ reaped.state = scope.state
      /\ reaped.processes = [scope.processes EXCEPT ![p] = after]
      /\ [reaped EXCEPT !.state = "Closed"].state = "Closed"
      /\ [reaped EXCEPT !.state = "Closed"].processes = reaped.processes
  BY ScopeFields
<1>4. \/ next = reaped
      \/ reaped.state = "Draining" /\ next = [reaped EXCEPT !.state = "Closed"]
  BY DEF RecordReaped, Drained
<1> HIDE DEF after, next, reaped
<1>5. /\ next.processes = [scope.processes EXCEPT ![p] = after]
      /\ next.state = scope.state \/ (scope.state = "Draining" /\ next.state = "Closed")
  BY <1>3, <1>4
<1>6. \A q \in Pid : next.processes[q] =
                       IF q = p THEN after ELSE scope.processes[q]
  BY <1>1, <1>5
<1>7. ScopeEvolves(scope, next) /\ Shaped(next)
  BY <1>1, <1>2, <1>5, <1>6, OutcomeKinds DEF ScopeEvolves, Shaped, Contains
<1>8. /\ Contains(scope, p) => Contains(next, p) /\ next.processes[p].exit # NoExit
      /\ Contains(scope, p) /\ exit \in VerifiedOutcome =>
           next.processes[p].exit \in VerifiedOutcome
      /\ \A q \in Pid \ {p} : next.processes[q] = scope.processes[q]
  BY <1>2, <1>6 DEF Contains
<1> QED BY <1>7, <1>8 DEF next

-----------------------------------------------------------------------------
(* What most steps do not undo. *)

RegistryForward ==
  \A s \in Scope : ScopeEvolves(registry[s], registry'[s]) /\ Shaped(registry'[s])
OsForward ==
  \A p \in Pid : /\ os[p] # "None" => os'[p] # "None"
                 /\ Unreaped(p)' => Unreaped(p)
                 /\ os'[p] = "Alive" => os[p] = "Alive"
MonitorsForward == \A p \in Pid : monPc'[p] = "none" <=> monPc[p] = "none"
KillsForward == killSent \subseteq killSent'

\* A step of the background neither attaches a process nor revives one.
Background == RegistryForward /\ OsForward /\ MonitorsForward /\ KillsForward

\* The types that the steps below keep using.
LEMMA Types ==
  ASSUME Blocks
  PROVE  /\ os \in [Pid -> OsState]
         /\ registry \in [Scope -> Scopes] /\ created \in SUBSET Scope
         /\ pending \in [Scope -> Report] /\ owed \in [Scope -> SUBSET Pid]
         /\ holder \in [Scope -> Caller \cup Pid \cup {NoTask}]
         /\ serial \in SUBSET Scope
         /\ spawnPc \in [Pid -> SpawnPc] /\ home \in [Pid -> Scope \cup {NoScope}]
         /\ monPc \in [Pid -> MonPc] /\ monExit \in [Pid -> OptOutcome]
         /\ call \in [Caller -> CallRecord] /\ todo \in [Caller -> SUBSET Scope]
         /\ subPc \in [Caller -> [Pid -> SubPc]]
         /\ subFut \in [Caller -> [Pid -> Receiver]]
         /\ subObs \in [Caller -> [Pid -> Receiver]]
         /\ subRes \in [Caller -> [Pid -> SubResult]]
         /\ waiters \in WaiterRecord
BY DEF Blocks, OsInv, OsType, RegInv, RegistryType, OpInv, OperationType,
   SpawnInv, SpawnType, MonInv, MonitorType, CallInv, CallType, SubInv,
   WorkerType, HistoryInv

\* A registry that is left alone moves forward, and so does one with one scope
\* that does.
LEMMA RegistryKept ==
  ASSUME Blocks, RegistryShaped,
         \/ UNCHANGED registry
         \/ \E s \in Scope, next \in Scopes :
              /\ registry' = [registry EXCEPT ![s] = next]
              /\ ScopeEvolves(registry[s], next) /\ Shaped(next)
  PROVE  RegistryForward
<1>1. registry \in [Scope -> Scopes]
  BY Types
<1>2. \A s \in Scope : ScopeEvolves(registry[s], registry[s]) /\ Shaped(registry[s])
  BY <1>1, OutcomeKinds DEF RegistryShaped, ScopeEvolves, Shaped, Contains
<1>3. CASE UNCHANGED registry
  BY <1>2, <1>3 DEF RegistryForward
<1>4. ASSUME NEW s \in Scope, NEW next \in Scopes,
             registry' = [registry EXCEPT ![s] = next],
             ScopeEvolves(registry[s], next), Shaped(next)
      PROVE  RegistryForward
  <2>1. \A t \in Scope : registry'[t] = IF t = s THEN next ELSE registry[t]
    BY <1>1, <1>4
  <2> QED BY <1>2, <1>4, <2>1 DEF RegistryForward
<1> QED BY <1>3, <1>4

\* The parts of Responsible that a step keeps if it leaves their variables
\* alone, up to what the background does.
LEMMA ResponsibleFrames ==
  ASSUME Blocks, Responsible
  PROVE  /\ UNCHANGED <<spawnPc, home, holder, call>> => Mutex'
         /\ RegistryForward /\ UNCHANGED <<created, serial, owed>> => ScopeLife'
         /\ RegistryForward /\ UNCHANGED <<call, todo, created, serial>> => CallLife'
         /\ Background /\ UNCHANGED <<spawnPc, home, created, ownersDropped>> =>
              SpawnLife'
         /\ RegistryForward => RegistryShaped'
         /\ UNCHANGED <<dropPc, ownersDropped>> => DropLife'
<1> USE DEF Responsible
<1>1. UNCHANGED <<spawnPc, home, holder, call>> => Mutex'
  BY DEF Mutex
<1>2. ASSUME RegistryForward, UNCHANGED <<created, serial, owed>> PROVE ScopeLife'
  BY <1>2 DEF ScopeLife, RegistryForward, ScopeEvolves, Registered, IsOpen
<1>3. ASSUME RegistryForward, UNCHANGED <<call, todo, created, serial>> PROVE CallLife'
  <2>1. \A s \in Scope : /\ Registered(s) => Registered(s)'
                         /\ ~IsOpen(registry[s]) => ~IsOpen(registry[s])'
    BY <1>3 DEF RegistryForward, ScopeEvolves, Registered, IsOpen
  <2>2. \A c \in Caller : call[c].pc \in ScopePc => call[c].scope \in Scope
    BY DEF Blocks, CallInv, CallScoped
  <2> QED BY <1>3, <2>1, <2>2 DEF CallLife, DrainPc, CommitPc, ScopePc
<1>4. ASSUME Background, UNCHANGED <<spawnPc, home, created, ownersDropped>>
      PROVE  SpawnLife'
  <2>1. \A s \in Scope :
          /\ IsOpen(registry[s]) => IsOpen(registry[s])'
          /\ \A p \in Pid : Contains(registry[s], p)' => Contains(registry[s], p)
    BY <1>4 DEF Background, RegistryForward, ScopeEvolves, IsOpen
  <2>2. \A p \in Pid : spawnPc[p] # "idle" => home[p] \in Scope
    BY Types DEF SpawnLife
  <2> QED
    BY <1>4, <2>1, <2>2 DEF SpawnLife, Background, OsForward, MonitorsForward,
       KillsForward
<1>5. RegistryForward => RegistryShaped'
  BY DEF RegistryForward, RegistryShaped
<1>6. UNCHANGED <<dropPc, ownersDropped>> => DropLife'
  BY DEF DropLife
<1> QED BY <1>1, <1>2, <1>3, <1>4, <1>5, <1>6

\* A step that only works in the background changes nobody's responsibility.
LEMMA BackgroundKeeps ==
  ASSUME Blocks, Responsible, Background,
         UNCHANGED <<spawnPc, home, holder, call, created, serial, owed, todo,
                     ownersDropped, dropPc>>
  PROVE  Responsible'
BY ResponsibleFrames DEF Background, Responsible

-----------------------------------------------------------------------------
(* The steps of the background: the system, monitors, workers. *)

\* A step that leaves the system and the monitors alone.
LEMMA StillForward ==
  ASSUME Blocks
  PROVE  /\ UNCHANGED os => OsForward
         /\ UNCHANGED monPc => MonitorsForward
         /\ UNCHANGED killSent => KillsForward
BY DEF OsForward, MonitorsForward, KillsForward, Unreaped

\* A wait reaps at most; a signal adds to those sent.
LEMMA BackendForward ==
  ASSUME Blocks, NEW p \in Pid
  PROVE  /\ WaitOk(p) => OsForward
         /\ WaitErr(p) => OsForward
         /\ KillOrFail(p) => KillsForward
         /\ \A ps \in SUBSET Pid : Kill(ps) => KillsForward
BY Types DEF WaitOk, WaitErr, OsForward, Unreaped, KillOrFail, Kill, KillsForward,
   OsState

LEMMA OsBackground ==
  ASSUME Blocks, Responsible, NEW p \in Pid, OsStep(p)
  PROVE  Background
<1> USE DEF OsStep, OsExit, OsKill
<1>1. OsForward
  BY Types DEF OsForward, Unreaped, OsState
<1>2. RegistryForward
  BY RegistryKept DEF Responsible, regVars
<1> QED
  BY <1>1, <1>2, StillForward DEF Background, monVars

LEMMA MonitorBackground ==
  ASSUME Blocks, Responsible, NEW p \in Pid, MonitorStep(p)
  PROVE  Background
<1> USE DEF Responsible
<1>1. ASSUME NEW pc, pc # "none", monPc[p] # "none", monPc' = [monPc EXCEPT ![p] = pc]
      PROVE  MonitorsForward
  BY <1>1, Types DEF MonitorsForward
<1>2. CASE MonitorWait(p)
  <2>1. OsForward
    BY <1>2, BackendForward DEF MonitorWait
  <2>2. RegistryForward
    BY <1>2, RegistryKept DEF MonitorWait, regVars
  <2>3. MonitorsForward
    BY <1>1, <1>2 DEF MonitorWait
  <2> QED BY <1>2, <2>1, <2>2, <2>3, StillForward DEF MonitorWait, Background
<1>3. CASE MonitorRecord(p)
  <2>1. MonitorsForward
    <3>1. /\ monPc[p] # "none"
          /\ \E pc \in {"notify", "done"} : monPc' = [monPc EXCEPT ![p] = pc]
      BY <1>3, Zenon DEF MonitorRecord
    <3> QED BY <1>1, <3>1
  <2>2. UNCHANGED <<os, killSent>>
    BY <1>3 DEF MonitorRecord, osVars
  <2>3. RegistryForward
    <3>1. CASE ~Owned(p)
      BY <1>3, <3>1, RegistryKept DEF MonitorRecord
    <3>2. CASE Owned(p)
      <4> DEFINE s == home[p]
                 exited == RecordExit(registry[s], p)
                 next == RecordReaped(exited, p, MonitorOutcome(p))
      <4>1. s \in Scope /\ registry[s] \in Scopes /\ Shaped(registry[s])
        BY <3>2, RegistryAnswer DEF RegistryShaped
      <4>2. registry' = [registry EXCEPT ![s] = next]
        BY <1>3, <3>2, Zenon DEF MonitorRecord
      <4>3. MonitorOutcome(p) \in Outcome
        BY <1>3, MonitorOutcomeEvidence DEF MonitorRecord
      <4>4. /\ exited \in Scopes /\ ScopeEvolves(registry[s], exited)
            /\ Shaped(exited)
            /\ \A q \in Pid : exited.processes[q].exit = registry[s].processes[q].exit
        BY <4>1, ScopeMethodTypes, ScopeForward
      <4> HIDE DEF s, exited
      <4>5. next \in Scopes /\ ScopeEvolves(exited, next) /\ Shaped(next)
        BY <4>3, <4>4, RecordReapedType, RecordReapedForward DEF OptOutcome
      <4> HIDE DEF next
      <4>6. ScopeEvolves(registry[s], next)
        BY <4>4, <4>5 DEF ScopeEvolves, Contains, NoProcess
      <4> QED BY <4>1, <4>2, <4>5, <4>6, RegistryKept
    <3> QED BY <3>1, <3>2
  <2> QED BY <2>1, <2>2, <2>3, StillForward DEF Background
<1>4. CASE MonitorNotify(p)
  <2>1. MonitorsForward
    <3>1. /\ monPc[p] # "none"
          /\ \E pc \in {"prune", "done"} : monPc' = [monPc EXCEPT ![p] = pc]
      BY <1>4, Zenon DEF MonitorNotify
    <3> QED BY <1>1, <3>1
  <2>2. RegistryForward
    BY <1>4, RegistryKept DEF MonitorNotify, regVars
  <2> QED
    BY <1>4, <2>1, <2>2, StillForward DEF MonitorNotify, Background, osVars
<1>5. CASE MonitorPrune(p)
  <2>1. MonitorsForward
    BY <1>1, <1>5 DEF MonitorPrune
  <2>2. RegistryForward
    <3>1. monPc[p] # "none" /\ home[p] \in Scope
      BY <1>5, Types DEF MonitorPrune, SpawnLife
    <3>2. registry[home[p]] \in Scopes /\ Shaped(registry[home[p]])
      BY <3>1, Types DEF RegistryShaped
    <3>3. Prune(registry[home[p]], p) \in Scopes
      BY <3>2, ScopeMethodTypes
    <3> QED
      BY <1>5, <3>1, <3>2, <3>3, ScopeForward, RegistryKept DEF MonitorPrune
  <2> QED
    BY <1>5, <2>1, <2>2, StillForward DEF MonitorPrune, Background, osVars
<1> QED BY <1>2, <1>3, <1>4, <1>5 DEF MonitorStep

\* A method applied to p's entry in its own scope, if it has one.
LEMMA EntryForward ==
  ASSUME Blocks, RegistryShaped, NEW p \in Pid, NEW next,
         registry' = [registry EXCEPT ![home[p]] = next],
         home[p] \in Scope =>
           /\ next \in Scopes
           /\ ScopeEvolves(registry[home[p]], next) /\ Shaped(next)
  PROVE  RegistryForward
<1>1. CASE home[p] \in Scope
  BY <1>1, RegistryKept
<1>2. CASE home[p] \notin Scope
  <2>1. registry' = registry
    BY <1>2, Types
  <2> QED BY <2>1, RegistryKept
<1> QED BY <1>1, <1>2

\* The steps of terminate and wait, and the join of a worker.
LEMMA WorkerBackground ==
  ASSUME Blocks, Responsible, NEW c \in Caller, NEW p \in Pid,
         WorkerStep(c, p) \/ ScopeJoin(c, p)
  PROVE  /\ Background
         /\ UNCHANGED <<spawnPc, home, holder, call, created, serial, owed, todo,
                        ownersDropped, dropPc, monPc, monExit>>
<1> USE DEF Responsible
<1>1. home[p] \in Scope => /\ registry[home[p]] \in Scopes
                           /\ Shaped(registry[home[p]])
  BY Types DEF RegistryShaped
<1>2. ASSUME UNCHANGED <<osVars, faults, registry, created, opVars, flagVars,
                         spawnVars, monVars, callVars, owed>>
      PROVE  /\ Background
             /\ UNCHANGED <<spawnPc, home, holder, call, created, serial, owed,
                            todo, ownersDropped, dropPc, monPc, monExit>>
  <2>1. RegistryForward
    BY <1>2, RegistryKept
  <2> QED
    BY <1>2, <2>1, StillForward DEF Background, osVars, opVars, flagVars,
       spawnVars, monVars, callVars
<1>3. CASE \/ TerminateRequested(c, p) \/ TerminateObserved(c, p)
           \/ TerminateTimeout(c, p) \/ RetryTimeout(c, p) \/ RetryNotify(c, p)
  BY <1>2, <1>3 DEF TerminateRequested, TerminateObserved, TerminateTimeout,
     RetryTimeout, RetryNotify, regVars
<1>4. CASE \/ WorkerObserve(c, p) \/ WaitStart(c, p) \/ WaitObserved(c, p)
           \/ ReobserveTimeout(c, p) \/ ScopeJoin(c, p)
  BY <1>2, <1>4 DEF WorkerObserve, WaitStart, WaitObserved, ReobserveTimeout,
     ScopeJoin, regVars
<1>5. CASE TerminateStart(c, p)
  <2>1. UNCHANGED <<os, killSent, created, holder, serial, flagVars, spawnVars,
                    monVars, callVars, owed>>
    BY <1>5 DEF TerminateStart, osVars, opVars
  <2>2. RegistryForward
    <3>1. CASE UNCHANGED registry
      BY <3>1, RegistryKept
    <3>2. CASE registry' = [registry EXCEPT ![home[p]] =
                              RequestTermination(registry[home[p]], p)]
      BY <1>1, <3>2, ScopeMethodTypes, ScopeForward, EntryForward
    <3> QED BY <1>5, <3>1, <3>2 DEF TerminateStart
  <2> QED
    BY <2>1, <2>2, StillForward DEF Background, flagVars, spawnVars, monVars,
       callVars
<1>6. CASE TerminateForce(c, p)
  <2>1. UNCHANGED <<os, created, holder, serial, flagVars, spawnVars,
                    monVars, callVars, owed>>
    BY <1>6 DEF TerminateForce, opVars
  <2>2. RegistryForward
    BY <1>1, <1>6, ScopeMethodTypes, ScopeForward, EntryForward DEF TerminateForce
  <2>3. KillsForward
    BY <1>6, BackendForward DEF TerminateForce
  <2> QED
    BY <2>1, <2>2, <2>3, StillForward DEF Background, flagVars, spawnVars, monVars,
       callVars
<1>7. CASE RetryWait(c, p)
  <2>1. UNCHANGED <<killSent, registry, created, holder, serial, flagVars,
                    spawnVars, monVars, callVars, owed>>
    BY <1>7 DEF RetryWait, opVars, regVars
  <2>2. OsForward
    BY <1>7, BackendForward DEF RetryWait
  <2> QED
    BY <2>1, <2>2, RegistryKept, StillForward DEF Background, flagVars, spawnVars,
       monVars, callVars
<1>8. CASE RetryForce(c, p)
  <2>1. UNCHANGED <<os, registry, created, holder, serial, flagVars,
                    spawnVars, monVars, callVars, owed>>
    BY <1>8 DEF RetryForce, opVars, regVars
  <2>2. KillsForward
    BY <1>8, BackendForward DEF RetryForce
  <2> QED
    BY <2>1, <2>2, RegistryKept, StillForward DEF Background, flagVars, spawnVars,
       monVars, callVars
<1>9. CASE RetryRecord(c, p)
  <2>1. UNCHANGED <<os, killSent, created, holder, serial, flagVars, spawnVars,
                    monVars, callVars, owed>>
    BY <1>9 DEF RetryRecord, osVars, opVars
  <2>2. RegistryForward
    <3>1. CASE UNCHANGED registry
      BY <3>1, RegistryKept
    <3>2. CASE /\ Owned(p)
               /\ \E exit \in VerifiedOutcome : registry' =
                    [registry EXCEPT ![home[p]] =
                       RecordReaped(registry[home[p]], p, exit)]
      <4>1. PICK exit \in VerifiedOutcome : registry' =
                   [registry EXCEPT ![home[p]] =
                      RecordReaped(registry[home[p]], p, exit)]
        BY <3>2
      <4>2. exit \in Outcome /\ exit \in OptOutcome
        BY OutcomeKinds DEF OptOutcome
      <4> QED
        BY <1>1, <4>1, <4>2, RecordReapedType, RecordReapedForward, EntryForward
    <3>3. \/ UNCHANGED registry
          \/ /\ Owned(p)
             /\ \E exit \in VerifiedOutcome : registry' =
                  [registry EXCEPT ![home[p]] =
                     RecordReaped(registry[home[p]], p, exit)]
      BY <1>9 DEF RetryRecord, VerifiedOutcome
    <3> QED BY <3>1, <3>2, <3>3
  <2> QED
    BY <2>1, <2>2, StillForward DEF Background, flagVars, spawnVars, monVars,
       callVars
<1>10. CASE RetryPrune(c, p)
  <2>1. UNCHANGED <<os, killSent, created, holder, serial, flagVars, spawnVars,
                    monVars, callVars, owed>>
    BY <1>10 DEF RetryPrune, osVars, opVars
  <2>2. RegistryForward
    <3>1. \/ UNCHANGED registry
          \/ registry' = [registry EXCEPT ![home[p]] = Prune(registry[home[p]], p)]
      BY <1>10 DEF RetryPrune
    <3> QED
      BY <1>1, <3>1, RegistryKept, ScopeMethodTypes, ScopeForward, EntryForward
  <2> QED
    BY <2>1, <2>2, StillForward DEF Background, flagVars, spawnVars, monVars,
       callVars
<1> QED
  BY <1>3, <1>4, <1>5, <1>6, <1>7, <1>8, <1>9, <1>10 DEF WorkerStep

-----------------------------------------------------------------------------
(* Scope creation and the spawn worker. *)

\* A new scope is open, empty and nobody's yet.
LEMMA CreateResponsible ==
  ASSUME Blocks, Responsible, NEW s \in Scope, CreateScope(s)
  PROVE  Responsible'
<1> USE DEF Responsible
<1>1. /\ s \notin created /\ created' = created \cup {s}
      /\ UNCHANGED <<os, killSent, holder, serial, spawnPc, home, monPc, call,
                     todo, ownersDropped, dropPc, owed>>
  BY DEF CreateScope, osVars, flagVars, spawnVars, monVars, callVars
<1>2. \A t \in Scope : registry'[t] = IF t = s THEN NewScope ELSE registry[t]
  BY Types DEF CreateScope
<1>3. /\ NewScope.state = "Open"
      /\ \A p \in Pid : NewScope.processes[p] = NoProcess
      /\ NoProcess.state = "Absent" /\ NoProcess.exit = NoExit
  BY DEF NewScope, NoProcesses, NoProcess
<1>4. Mutex' /\ DropLife'
  BY <1>1, ResponsibleFrames
<1>5. ScopeLife'
  BY <1>1, <1>2, <1>3 DEF ScopeLife, Registered, IsOpen
<1>6. CallLife'
  BY <1>1, <1>2, Types DEF CallLife, DrainPc, CommitPc, ScopePc, Registered, IsOpen
<1>7. SpawnLife'
  <2>1. \A p \in Pid : spawnPc[p] # "idle" => home[p] \in Scope \ {s}
    BY <1>1, Types DEF SpawnLife
  <2>2. \A p \in Pid, t \in Scope :
          Contains(registry[t], p)' => Contains(registry[t], p)
    BY <1>2, <1>3 DEF Contains
  <2> QED BY <1>1, <1>2, <2>1, <2>2 DEF SpawnLife, Unreaped
<1>8. RegistryShaped'
  BY <1>2, <1>3 DEF RegistryShaped, Shaped
<1> QED BY <1>4, <1>5, <1>6, <1>7, <1>8

\* A spawn worker's move that leaves registry and monitors alone.
LEMMA SpawnMoves ==
  ASSUME Blocks, Responsible, NEW p \in Pid, NEW pc \in SpawnPc,
         spawnPc' = [spawnPc EXCEPT ![p] = pc],
         UNCHANGED <<registry, created, serial, owed, call, todo, monPc,
                     ownersDropped, dropPc>>,
         KillsForward,
         \A q \in Pid : (q # p \/ pc = "orphan") => (Unreaped(q)' => Unreaped(q)),
         \A q \in Pid : os[q] # "None" => os'[q] # "None",
         \A q \in Pid \ {p} : home'[q] = home[q],
         Mutex',
         home'[p] \in created,
         pc \in {"attached", "ok"} <=> spawnPc[p] \in {"attached", "ok"},
         pc \in {"backend", "check", "attach"} => IsOpen(registry[home'[p]]),
         pc \in {"check", "attach", "orphan", "attached", "ok"} => os'[p] # "None",
         pc = "orphan" => ownersDropped /\ (Unreaped(p)' => p \in killSent'),
         spawnPc[p] = "idle" \/ home'[p] = home[p]
  PROVE  Responsible'
<1> USE DEF Responsible
<1>1. RegistryForward
  BY RegistryKept
<1>2. ScopeLife' /\ CallLife' /\ RegistryShaped' /\ DropLife'
  BY <1>1, ResponsibleFrames
<1>3. \A q \in Pid : spawnPc'[q] = IF q = p THEN pc ELSE spawnPc[q]
  BY Types
<1>4. \A q \in Pid, s \in Scope : Contains(registry[s], q)' = Contains(registry[s], q)
  OBVIOUS
<1>5. \A q \in Pid : spawnPc[q] = "idle" => monPc[q] = "none"
  BY DEF SpawnLife
<1>6. SpawnLife'
  <2> SUFFICES ASSUME NEW q \in Pid
               PROVE
      /\ spawnPc'[q] # "idle" => home'[q] \in created'
      /\ spawnPc'[q] \in {"backend", "check", "attach"} => IsOpen(registry[home[q]])'
      /\ monPc'[q] # "none" <=> spawnPc'[q] \in {"attached", "ok"}
      /\ spawnPc'[q] \in {"check", "attach", "orphan", "attached", "ok"} =>
           os'[q] # "None"
      /\ spawnPc'[q] = "orphan" =>
           ownersDropped' /\ (Unreaped(q)' => q \in killSent')
      /\ \A s \in Scope : Contains(registry[s], q)' =>
           home'[q] = s /\ monPc'[q] # "none"
    BY DEF SpawnLife
  <2>1. CASE q = p
    BY <1>3, <1>4, <1>5, <2>1 DEF SpawnLife
  <2>2. CASE q # p
    BY <1>3, <1>4, <2>2 DEF SpawnLife, KillsForward
  <2> QED BY <2>1, <2>2
<1> QED BY <1>2, <1>6

\* A spawn worker is started.
LEMMA SpawnCallResponsible ==
  ASSUME Blocks, Responsible, NEW p \in Pid, NEW s \in Scope, SpawnCall(p, s)
  PROVE  Responsible'
<1> USE DEF SpawnCall
<1>1. PICK pc \in {"lock", "failed"} : spawnPc' = [spawnPc EXCEPT ![p] = pc]
  OBVIOUS
<1>2. /\ UNCHANGED <<os, killSent, registry, created, serial, owed, call, todo,
                     monPc, ownersDropped, dropPc, holder>>
      /\ home' = [home EXCEPT ![p] = s]
  BY DEF osVars, regVars, opVars, callVars, monVars, flagVars
<1>3. home'[p] = s /\ \A q \in Pid \ {p} : home'[q] = home[q]
  BY <1>2, Types
<1>4. Mutex'
  BY <1>1, <1>2, <1>3, Types DEF Responsible, Mutex, SpawnHeldPc
<1>5. pc \in SpawnPc /\ pc \notin {"idle", "backend", "check", "attach", "orphan",
                                   "attached", "ok"}
  BY DEF SpawnPc
<1>6. \A q \in Pid : Unreaped(q)' = Unreaped(q)
  BY <1>2 DEF Unreaped
<1>7. KillsForward
  BY <1>2 DEF KillsForward
<1> HIDE DEF SpawnCall
<1>8. spawnPc[p] = "idle" /\ s \in created
  BY DEF SpawnCall
<1> QED
  BY <1>1, <1>2, <1>3, <1>4, <1>5, <1>6, <1>7, <1>8, SpawnMoves

\* A spawn is admitted with the mutex, while the scope is open.
LEMMA SpawnLockResponsible ==
  ASSUME Blocks, Responsible, NEW p \in Pid, SpawnLock(p)
  PROVE  Responsible'
<1>1. /\ UNCHANGED <<os, killSent, registry, created, serial, owed, call, todo,
                     monPc, ownersDropped, dropPc, home>>
      /\ spawnPc[p] = "lock" /\ holder[home[p]] = NoTask
  BY DEF SpawnLock, osVars, regVars, callVars, monVars, flagVars
<1>2. home[p] \in created /\ home[p] \in Scope
  BY <1>1, Types DEF Responsible, SpawnLife
<1>3. PICK pc \in {"backend", "failed"} :
        /\ spawnPc' = [spawnPc EXCEPT ![p] = pc]
        /\ pc = "backend" => /\ holder' = [holder EXCEPT ![home[p]] = p]
                             /\ IsOpen(registry[home[p]])
        /\ pc = "failed" => UNCHANGED holder
  BY DEF SpawnLock, AdmitsSpawn
<1>4. Mutex'
  <2>1. \A q \in Pid : spawnPc'[q] = IF q = p THEN pc ELSE spawnPc[q]
    BY <1>3, Types
  <2>2. \A t \in Scope : holder'[t] = IF pc = "backend" /\ t = home[p] THEN p
                                      ELSE holder[t]
    BY <1>2, <1>3, Types
  <2>3. \A c \in Caller : call[c].pc \in ScopePc => call[c].scope \in Scope
    BY DEF Blocks, CallInv, CallScoped
  <2>4. \A q \in Pid : spawnPc[q] # "idle" => home[q] \in Scope
    BY Types DEF Responsible, SpawnLife
  <2> QED
    BY <1>1, <1>2, <1>3, <2>1, <2>2, <2>3, <2>4, ScopeAssumption DEF Responsible,
       Mutex, SpawnHeldPc, DrainPc, CommitPc, ScopePc
<1>5. pc \in SpawnPc /\ pc \notin {"check", "attach", "orphan", "attached", "ok"}
  BY DEF SpawnPc
<1>6. \A q \in Pid : Unreaped(q)' = Unreaped(q)
  BY <1>1 DEF Unreaped
<1>7. KillsForward
  BY <1>1 DEF KillsForward
<1> QED
  BY <1>1, <1>2, <1>3, <1>4, <1>5, <1>6, <1>7, SpawnMoves

\* The holder's last step frees the mutex.
LEMMA LeaveMutex ==
  ASSUME Blocks, Responsible, NEW p \in Pid, spawnPc[p] \in SpawnHeldPc,
         NEW pc \in {"failed", "ok"}, SpawnLeave(p, pc), UNCHANGED <<home, call>>
  PROVE  Mutex'
<1>1. \A q \in Pid : spawnPc'[q] = IF q = p THEN pc ELSE spawnPc[q]
  BY Types DEF SpawnLeave
<1>2. home[p] \in Scope /\ \A q \in Pid : spawnPc[q] # "idle" => home[q] \in Scope
  BY Types DEF Responsible, SpawnLife, SpawnHeldPc
<1>3. \A t \in Scope : holder'[t] = IF t = home[p] THEN NoTask ELSE holder[t]
  BY <1>2, Types DEF SpawnLeave
<1>4. \A c \in Caller : call[c].pc \in ScopePc => call[c].scope \in Scope
  BY DEF Blocks, CallInv, CallScoped
<1>5. /\ \A q \in Pid : spawnPc[q] \in SpawnHeldPc => holder[home[q]] = q
      /\ \A c \in Caller :
           call[c].pc \in DrainPc \cup CommitPc => holder[call[c].scope] = c
  BY DEF Responsible, Mutex
<1>6. ASSUME NEW q \in Pid, spawnPc'[q] \in SpawnHeldPc PROVE holder'[home'[q]] = q
  <2>1. q # p /\ spawnPc[q] \in SpawnHeldPc
    BY <1>1, <1>6 DEF SpawnHeldPc
  <2> QED BY <1>2, <1>3, <1>5, <2>1 DEF SpawnHeldPc
<1>7. ASSUME NEW c \in Caller, call'[c].pc \in DrainPc \cup CommitPc
      PROVE  holder'[call'[c].scope] = c
  <2>1. holder[call[c].scope] = c /\ call[c].scope \in Scope
    BY <1>4, <1>5, <1>7 DEF DrainPc, CommitPc, ScopePc
  <2>2. c # p
    BY ScopeAssumption
  <2> QED BY <1>3, <1>5, <2>1, <2>2
<1> QED BY <1>6, <1>7 DEF Mutex

\* The moves of an admitted spawn that keep the mutex, and its failures.
LEMMA SpawnHeldResponsible ==
  ASSUME Blocks, Responsible, NEW p \in Pid,
         SpawnBackendOk(p) \/ SpawnBackendErr(p) \/ SpawnCheckOwners(p)
  PROVE  Responsible'
<1>1. /\ UNCHANGED <<registry, created, serial, owed, call, todo, monPc,
                     ownersDropped, dropPc, home>>
      /\ spawnPc[p] \in {"backend", "check"}
  BY DEF SpawnBackendOk, SpawnBackendErr, SpawnCheckOwners, regVars, opVars,
     callVars, monVars, flagVars
<1>2. /\ home[p] \in created /\ home[p] \in Scope
      /\ IsOpen(registry[home[p]])
      /\ spawnPc[p] = "check" => os[p] # "None"
  BY <1>1, Types DEF Responsible, SpawnLife
<1>3. ASSUME NEW pc \in SpawnHeldPc, spawnPc' = [spawnPc EXCEPT ![p] = pc],
             UNCHANGED holder
      PROVE  Mutex'
  <2>1. \A q \in Pid : spawnPc'[q] = IF q = p THEN pc ELSE spawnPc[q]
    BY <1>3, Types
  <2> QED BY <1>1, <1>3, <2>1 DEF Responsible, Mutex, SpawnHeldPc
<1>4. CASE SpawnBackendOk(p)
  <2>1. /\ spawnPc' = [spawnPc EXCEPT ![p] = "check"]
        /\ UNCHANGED <<killSent, holder>>
    BY <1>4 DEF SpawnBackendOk, opVars
  <2>2. \A q \in Pid : os'[q] = IF q = p THEN "Alive" ELSE os[q]
    BY <1>4, Types DEF SpawnBackendOk
  <2>3. Mutex'
    BY <1>3, <2>1 DEF SpawnHeldPc
  <2>4. KillsForward
    BY <2>1 DEF KillsForward
  <2>5. \A q \in Pid : q # p => (Unreaped(q)' => Unreaped(q))
    BY <2>2 DEF Unreaped
  <2>6. "check" \in SpawnPc
    BY DEF SpawnPc
  <2> QED
    BY <1>1, <1>2, <2>1, <2>2, <2>3, <2>4, <2>5, <2>6, SpawnMoves
<1>5. CASE SpawnBackendErr(p)
  <2>1. SpawnLeave(p, "failed") /\ UNCHANGED <<os, killSent>>
    BY <1>5 DEF SpawnBackendErr, osVars
  <2>2. Mutex'
    BY <1>1, <2>1, LeaveMutex DEF SpawnHeldPc
  <2>3. KillsForward /\ \A q \in Pid : Unreaped(q)' = Unreaped(q)
    BY <2>1 DEF KillsForward, Unreaped
  <2>4. "failed" \in SpawnPc
    BY DEF SpawnPc
  <2> QED
    BY <1>1, <1>2, <2>1, <2>2, <2>3, <2>4, SpawnMoves DEF SpawnLeave
<1>6. CASE SpawnCheckOwners(p)
  <2>1. PICK pc \in {"orphan", "attach"} :
          /\ spawnPc' = [spawnPc EXCEPT ![p] = pc]
          /\ pc = "orphan" => ownersDropped /\ Kill(Pid)
          /\ pc = "attach" => UNCHANGED killSent
    BY <1>6 DEF SpawnCheckOwners
  <2>2. UNCHANGED <<os, holder>> /\ spawnPc[p] = "check"
    BY <1>6 DEF SpawnCheckOwners, opVars
  <2>3. Mutex'
    BY <1>3, <2>1, <2>2 DEF SpawnHeldPc
  <2>4. KillsForward /\ \A q \in Pid : Unreaped(q)' = Unreaped(q)
    BY <2>1, <2>2 DEF KillsForward, Kill, Unreaped
  <2>5. pc = "orphan" => (Unreaped(p)' => p \in killSent')
    BY <2>1, <2>4 DEF Kill
  <2>6. pc \in SpawnPc
    BY DEF SpawnPc
  <2> QED
    BY <1>1, <1>2, <2>1, <2>2, <2>3, <2>4, <2>5, <2>6, SpawnMoves
<1> QED BY <1>4, <1>5, <1>6

\* The ends of a spawn worker that holds the mutex.
LEMMA SpawnEndResponsible ==
  ASSUME Blocks, Responsible, NEW p \in Pid, SpawnOrphan(p) \/ SpawnReturn(p)
  PROVE  Responsible'
<1>1. /\ UNCHANGED <<registry, created, serial, owed, call, todo, monPc,
                     ownersDropped, dropPc, home, killSent>>
      /\ spawnPc[p] \in {"orphan", "attached"}
  BY DEF SpawnOrphan, SpawnReturn, regVars, callVars, monVars, flagVars, osVars
<1>2. home[p] \in created /\ os[p] # "None"
  BY <1>1 DEF Responsible, SpawnLife
<1>3. KillsForward
  BY <1>1 DEF KillsForward
<1>4. OsForward
  BY BackendForward, StillForward DEF SpawnOrphan, SpawnReturn, osVars
<1>5. CASE SpawnOrphan(p)
  <2>1. spawnPc[p] = "orphan" /\ SpawnLeave(p, "failed")
    BY <1>5 DEF SpawnOrphan
  <2>2. Mutex' /\ "failed" \in SpawnPc
    BY <1>1, <2>1, LeaveMutex DEF SpawnHeldPc, SpawnPc
  <2> QED
    BY <1>1, <1>2, <1>3, <1>4, <2>1, <2>2, SpawnMoves DEF SpawnLeave, OsForward
<1>6. CASE SpawnReturn(p)
  <2>1. spawnPc[p] = "attached" /\ SpawnLeave(p, "ok")
    BY <1>6 DEF SpawnReturn
  <2>2. Mutex' /\ "ok" \in SpawnPc
    BY <1>1, <2>1, LeaveMutex DEF SpawnHeldPc, SpawnPc
  <2> QED
    BY <1>1, <1>2, <1>3, <1>4, <2>1, <2>2, SpawnMoves DEF SpawnLeave, OsForward
<1> QED BY <1>5, <1>6

\* An admitted spawn always attaches: its scope is open and does not list it.
LEMMA AttachEffect ==
  ASSUME Blocks, Responsible, NEW p \in Pid, SpawnAttach(p)
  PROVE  /\ spawnPc[p] = "attach" /\ home[p] \in Scope /\ home[p] \in created
         /\ IsOpen(registry[home[p]])
         /\ monPc[p] = "none"
         /\ monPc' = [monPc EXCEPT ![p] = "wait"]
         /\ spawnPc' = [spawnPc EXCEPT ![p] = "attached"]
         /\ \A s \in Scope :
              /\ registry'[s].state = registry[s].state
              /\ \A q \in Pid : registry'[s].processes[q] =
                   IF s = home[p] /\ q = p THEN RunningProcess
                   ELSE registry[s].processes[q]
         /\ UNCHANGED <<os, killSent, created, holder, serial, owed, call, todo,
                        ownersDropped, dropPc, home>>
<1>1. /\ spawnPc[p] = "attach" /\ home[p] \in Scope /\ home[p] \in created
      /\ IsOpen(registry[home[p]])
      /\ monPc[p] = "none" /\ ~Contains(registry[home[p]], p)
  BY Types DEF SpawnAttach, Responsible, SpawnLife
<1>2. CanAttach(registry[home[p]], p)
  BY <1>1 DEF CanAttach
<1>3. /\ registry' = [registry EXCEPT ![home[p]] = AttachSpawned(@, p)]
      /\ monPc' = [monPc EXCEPT ![p] = "wait"]
      /\ spawnPc' = [spawnPc EXCEPT ![p] = "attached"]
      /\ UNCHANGED <<os, killSent, created, holder, serial, owed, call, todo,
                     ownersDropped, dropPc, home>>
  BY <1>2 DEF SpawnAttach, opVars, flagVars, callVars
<1>4. \A s \in Scope : registry'[s] = IF s = home[p] THEN AttachSpawned(registry[s], p)
                                      ELSE registry[s]
  BY <1>1, <1>3, Types
<1>5. /\ registry[home[p]] \in Scopes
      /\ registry[home[p]].processes \in [Pid -> Process]
  BY <1>1, Types, ScopeFields
<1>6. /\ AttachSpawned(registry[home[p]], p).state = registry[home[p]].state
      /\ AttachSpawned(registry[home[p]], p).processes =
           [registry[home[p]].processes EXCEPT ![p] = RunningProcess]
  BY <1>5, ScopeFields DEF AttachSpawned
<1>7. \A s \in Scope :
        /\ registry'[s].state = registry[s].state
        /\ \A q \in Pid : registry'[s].processes[q] =
             IF s = home[p] /\ q = p THEN RunningProcess
             ELSE registry[s].processes[q]
  BY <1>4, <1>5, <1>6
<1> QED BY <1>1, <1>3, <1>7

LEMMA SpawnAttachResponsible ==
  ASSUME Blocks, Responsible, NEW p \in Pid, SpawnAttach(p)
  PROVE  Responsible'
<1> USE DEF Responsible
<1>1. /\ spawnPc[p] = "attach" /\ home[p] \in Scope /\ home[p] \in created
      /\ IsOpen(registry[home[p]]) /\ monPc[p] = "none"
      /\ UNCHANGED <<os, killSent, created, holder, serial, owed, call, todo,
                     ownersDropped, dropPc, home>>
  BY AttachEffect
<1>2. \A q \in Pid : /\ spawnPc'[q] = IF q = p THEN "attached" ELSE spawnPc[q]
                     /\ monPc'[q] = IF q = p THEN "wait" ELSE monPc[q]
  BY AttachEffect, Types
<1>3. \A s \in Scope :
        /\ registry'[s].state = registry[s].state
        /\ \A q \in Pid : registry'[s].processes[q] =
             IF s = home[p] /\ q = p THEN RunningProcess
             ELSE registry[s].processes[q]
  BY AttachEffect
<1>4. RunningProcess.state = "Running" /\ RunningProcess.exit = NoExit
  BY DEF RunningProcess
<1>5. Mutex'
  BY <1>1, <1>2 DEF Mutex, SpawnHeldPc
<1>6. ScopeLife'
  <2>1. \A s \in Scope : s # home[p] =>
          \A q \in Pid : Contains(registry[s], q)' = Contains(registry[s], q)
    BY <1>3 DEF Contains
  <2>2. \A s \in Scope : /\ Registered(s)' = Registered(s)
                         /\ IsOpen(registry[s])' = IsOpen(registry[s])
    BY <1>3 DEF Registered, IsOpen
  <2>3. Registered(home[p])
    BY <1>1 DEF Registered, IsOpen
  <2> QED BY <1>1, <2>1, <2>2, <2>3 DEF ScopeLife
<1>7. CallLife'
  <2>1. \A c \in Caller : call[c].pc \in ScopePc => call[c].scope \in Scope
    BY DEF Blocks, CallInv, CallScoped
  <2>2. \A s \in Scope : /\ Registered(s)' = Registered(s)
                         /\ IsOpen(registry[s])' = IsOpen(registry[s])
    BY <1>3 DEF Registered, IsOpen
  <2> QED BY <1>1, <2>1, <2>2 DEF CallLife, DrainPc, CommitPc, ScopePc
<1>8. SpawnLife'
  <2>1. \A q \in Pid : spawnPc[q] # "idle" => home[q] \in Scope
    BY Types DEF SpawnLife
  <2>2. \A s \in Scope : IsOpen(registry[s])' = IsOpen(registry[s])
    BY <1>3 DEF IsOpen
  <2>3. \A s \in Scope, q \in Pid : q # p =>
          Contains(registry[s], q)' = Contains(registry[s], q)
    BY <1>3 DEF Contains
  <2>4. \A s \in Scope : Contains(registry[s], p)' => s = home[p]
    BY <1>1, <1>3 DEF Contains, SpawnLife
  <2> QED BY <1>1, <1>2, <2>1, <2>2, <2>3, <2>4 DEF SpawnLife, Unreaped
<1>9. RegistryShaped'
  BY <1>3, <1>4 DEF RegistryShaped, Shaped
<1>10. DropLife'
  BY <1>1, ResponsibleFrames
<1> QED BY <1>5, <1>6, <1>7, <1>8, <1>9, <1>10

-----------------------------------------------------------------------------
(* Calls. *)

\* Where the callers are after a move of one of them.
CallAt(c, op, s, pc) ==
  \A d \in Caller :
    /\ call'[d].op = IF d = c THEN op ELSE call[d].op
    /\ call'[d].scope = IF d = c THEN s ELSE call[d].scope
    /\ call'[d].pc = IF d = c THEN pc ELSE call[d].pc

\* A call starts, moves on or returns.
LEMMA CallMovesAt ==
  ASSUME Blocks, NEW c \in Caller
  PROVE  /\ \A pc \in CallPc : Goto(c, pc) => CallAt(c, call[c].op, call[c].scope, pc)
         /\ \A res, rep : Return(c, res, rep) =>
              CallAt(c, call[c].op, call[c].scope,
                     IF call[c].op = "shutdown" THEN "next" ELSE "done")
         /\ \A op, s, pc : BeginCall(c, op, s, pc) => CallAt(c, op, s, pc)
<1>1. ASSUME NEW pc \in CallPc, Goto(c, pc)
      PROVE  CallAt(c, call[c].op, call[c].scope, pc)
  BY <1>1, GotoCall DEF CallAt
<1>2. ASSUME NEW res, NEW rep, Return(c, res, rep)
      PROVE  CallAt(c, call[c].op, call[c].scope,
                    IF call[c].op = "shutdown" THEN "next" ELSE "done")
  <2>1. {"next", "done"} \subseteq CallPc
    BY DEF CallPc
  <2>2. CASE call[c].op = "shutdown"
    BY <1>1, <1>2, <2>1, <2>2 DEF Return
  <2>3. CASE call[c].op # "shutdown"
    BY <1>1, <1>2, <2>1, <2>3 DEF Return
  <2> QED BY <2>2, <2>3
<1>3. ASSUME NEW op, NEW s, NEW pc, BeginCall(c, op, s, pc)
      PROVE  CallAt(c, op, s, pc)
  BY <1>3, Types DEF BeginCall, CallAt
<1> QED BY <1>1, <1>2, <1>3

\* A call moves without changing registry, reports or spawns: it may let go of
\* the mutex, and keeps it where it needs it.
LEMMA CallKeeps ==
  ASSUME Blocks, Responsible, NEW c \in Caller, NEW op, NEW s, NEW pc,
         CallAt(c, op, s, pc),
         UNCHANGED <<registry, serial, owed, spawnPc, home, created, os, monPc,
                     ownersDropped, dropPc>>,
         KillsForward,
         pc \in ScopePc => s \in created,
         \A d \in Caller : todo'[d] \subseteq created,
         pc \in DrainPc => call[c].pc \in DrainPc /\ s = call[c].scope,
         pc \in CommitPc => call[c].pc \in CommitPc /\ s = call[c].scope,
         \/ UNCHANGED holder
         \/ /\ pc \notin DrainPc \cup CommitPc
            /\ \A t \in Scope : holder'[t] \in
                 {holder[t]} \cup (IF holder[t] = c THEN {NoTask} ELSE {})
  PROVE  Responsible'
<1> USE DEF Responsible
<1>1. RegistryForward
  BY RegistryKept
<1>2. Background
  BY <1>1, StillForward DEF Background
<1>3. ScopeLife' /\ SpawnLife' /\ RegistryShaped' /\ DropLife'
  BY <1>1, <1>2, ResponsibleFrames
<1>4. /\ \A d \in Caller : call[d].pc \in ScopePc => call[d].scope \in Scope
      /\ \A q \in Pid : spawnPc[q] # "idle" => home[q] \in Scope
  BY Types DEF Blocks, CallInv, CallScoped, SpawnLife
<1>5. \A d \in Caller \ {c} : /\ call'[d].pc = call[d].pc
                              /\ call'[d].scope = call[d].scope
  BY DEF CallAt
<1>6. call'[c].pc = pc /\ call'[c].scope = s
  BY DEF CallAt
<1>7. Mutex'
  <2>1. ASSUME NEW q \in Pid, spawnPc[q] \in SpawnHeldPc PROVE holder'[home[q]] = q
    <3>1. holder[home[q]] = q /\ home[q] \in Scope /\ q # c
      BY <1>4, <2>1, ScopeAssumption DEF Mutex, SpawnHeldPc
    <3> QED BY <3>1
  <2>2. ASSUME NEW d \in Caller, call'[d].pc \in DrainPc \cup CommitPc
        PROVE  holder'[call'[d].scope] = d
    <3>1. CASE d = c
      BY <1>6, <2>2, <3>1 DEF Mutex
    <3>2. CASE d # c
      <4>1. holder[call[d].scope] = d /\ call[d].scope \in Scope
        BY <1>4, <1>5, <2>2, <3>2 DEF Mutex, DrainPc, CommitPc, ScopePc
      <4> QED BY <1>5, <3>2, <4>1
    <3> QED BY <3>1, <3>2
  <2> QED BY <2>1, <2>2 DEF Mutex
<1>8. CallLife'
  <2> SUFFICES ASSUME NEW d \in Caller
               PROVE
         /\ call'[d].pc \in ScopePc => call'[d].scope \in created
         /\ todo'[d] \subseteq created
         /\ call'[d].pc \in DrainPc =>
              /\ Registered(call'[d].scope) /\ ~IsOpen(registry[call'[d].scope])
              /\ call'[d].scope \notin serial
         /\ call'[d].pc \in CommitPc => call'[d].scope \in serial
    BY DEF CallLife, Registered
  <2>1. CASE d = c
    BY <1>6, <2>1 DEF CallLife
  <2>2. CASE d # c
    BY <1>5, <2>2 DEF CallLife
  <2> QED BY <2>1, <2>2
<1> QED BY <1>3, <1>7, <1>8

\* What a call's step leaves alone when it only moves.
CallOnly ==
  UNCHANGED <<registry, serial, owed, spawnPc, home, created, os, monPc,
              ownersDropped, dropPc>>

\* The steps of calls that take no mutex, commit nothing and remove nothing.
LEMMA CallResponsible ==
  ASSUME Blocks, Responsible, NEW c \in Caller,
         \/ \E s \in Scope : TerminateScopeCall(c, s)
         \/ \E p \in Pid : SingleCall(c, p) \/ SingleReturn(c, p)
         \/ ShutdownCall(c) \/ TerminateScopeLookup(c) \/ ScopeSettled(c)
         \/ ScopeSweep(c) \/ ScopeSweepOk(c) \/ ScopeRetire(c)
         \/ ShutdownSnapshot(c) \/ ShutdownNext(c) \/ ShutdownReturn(c)
  PROVE  Responsible'
<1> USE DEF CallOnly
<1>1. /\ call[c].pc \in ScopePc => call[c].scope \in created
      /\ \A d \in Caller : todo[d] \subseteq created
  BY DEF Responsible, CallLife
<1>2. /\ {"next", "done", "operation", "lock", "recheck", "sweep", "reobserve",
          "remember"} \subseteq CallPc
      /\ {"reports", "recheck", "operation", "lock", "join", "sweep",
          "reobserve", "unregister", "retire", "remember"} = ScopePc
      /\ {"single", "serial", "next", "done"} \cap ScopePc = {}
      /\ DrainPc = {"join", "sweep", "reobserve"}
      /\ CommitPc = {"unregister", "retire", "remember"}
  BY DEF CallPc, ScopePc, DrainPc, CommitPc
<1>3. UNCHANGED killSent => KillsForward
  BY DEF KillsForward
<1>4. ASSUME NEW s \in Scope, TerminateScopeCall(c, s) PROVE Responsible'
  <2>1. CallAt(c, "terminate_scope", s, "reports") /\ s \in created
    BY <1>4, CallMovesAt DEF TerminateScopeCall
  <2>2. CallOnly /\ UNCHANGED <<killSent, todo, holder>>
    BY <1>4 DEF TerminateScopeCall, osVars, regVars, opVars, flagVars, spawnVars,
       monVars
  <2> QED BY <1>1, <1>2, <1>3, <2>1, <2>2, CallKeeps
<1>5. ASSUME NEW p \in Pid, SingleCall(c, p) PROVE Responsible'
  <2>1. PICK op \in {"terminate", "wait"} : CallAt(c, op, NoScope, "single")
    BY <1>5, CallMovesAt DEF SingleCall
  <2>2. CallOnly /\ UNCHANGED <<killSent, todo, holder>>
    BY <1>5 DEF SingleCall, osVars, regVars, opVars, flagVars, spawnVars, monVars
  <2> QED BY <1>1, <1>2, <1>3, <2>1, <2>2, CallKeeps
<1>6. ASSUME NEW p \in Pid, SingleReturn(c, p) PROVE Responsible'
  <2>1. CallAt(c, call[c].op, call[c].scope, "done")
    BY <1>2, <1>6, CallMovesAt DEF SingleReturn
  <2>2. CallOnly /\ UNCHANGED <<killSent, todo, holder>>
    BY <1>6 DEF SingleReturn, osVars, regVars, opVars, flagVars, spawnVars, monVars
  <2> QED BY <1>1, <1>2, <1>3, <2>1, <2>2, CallKeeps
<1>7. CASE ShutdownCall(c)
  <2>1. CallAt(c, "shutdown", NoScope, "serial")
    BY <1>7, CallMovesAt DEF ShutdownCall
  <2>2. CallOnly /\ UNCHANGED <<killSent, todo, holder>>
    BY <1>7 DEF ShutdownCall, osVars, regVars, opVars, spawnVars, monVars
  <2> QED BY <1>1, <1>2, <1>3, <2>1, <2>2, CallKeeps
<1>8. CASE TerminateScopeLookup(c) \/ ScopeSettled(c)
  <2>1. /\ CallOnly /\ UNCHANGED <<killSent, todo, holder>>
        /\ call[c].pc \in {"reports", "recheck", "operation", "lock"}
    BY <1>8 DEF TerminateScopeLookup, ScopeSettled, osVars, regVars, opVars,
       flagVars, spawnVars, monVars
  <2>2. PICK pc \in {"next", "done", "operation", "lock", "recheck"} :
          CallAt(c, call[c].op, call[c].scope, pc)
    BY <1>2, <1>8, CallMovesAt DEF TerminateScopeLookup, ScopeSettled
  <2> QED BY <1>1, <1>2, <1>3, <2>1, <2>2, CallKeeps
<1>9. CASE ScopeSweep(c) \/ ScopeSweepOk(c) \/ ScopeRetire(c)
  <2>1. CallOnly /\ UNCHANGED <<todo, holder>>
    BY <1>9 DEF ScopeSweep, ScopeSweepOk, ScopeRetire, osVars, regVars, opVars,
       flagVars, spawnVars, monVars
  <2>2. KillsForward
    BY <1>9 DEF ScopeSweep, ScopeSweepOk, ScopeRetire, osVars, Kill, KillsForward
  <2>3. \/ /\ call[c].pc = "join" /\ CallAt(c, call[c].op, call[c].scope, "sweep")
        \/ /\ call[c].pc = "sweep"
           /\ CallAt(c, call[c].op, call[c].scope, "reobserve")
        \/ /\ call[c].pc = "retire"
           /\ CallAt(c, call[c].op, call[c].scope, "remember")
    BY <1>2, <1>9, CallMovesAt DEF ScopeSweep, ScopeSweepOk, ScopeRetire
  <2> QED BY <1>1, <1>2, <2>1, <2>2, <2>3, CallKeeps
<1>10. CASE ShutdownSnapshot(c)
  <2>1. CallAt(c, call[c].op, call[c].scope, "next")
    BY <1>2, <1>10, CallMovesAt DEF ShutdownSnapshot
  <2>2. CallOnly /\ UNCHANGED <<killSent, holder>>
    BY <1>10 DEF ShutdownSnapshot, osVars, regVars, opVars, flagVars, spawnVars,
       monVars
  <2>3. \A d \in Caller : todo'[d] \subseteq created
    <3>1. {s \in Scope : Registered(s)} \subseteq created
      BY DEF Responsible, ScopeLife
    <3> QED BY <1>1, <1>10, <3>1, Types DEF ShutdownSnapshot
  <2> QED BY <1>1, <1>2, <1>3, <2>1, <2>2, <2>3, CallKeeps
<1>11. CASE ShutdownNext(c)
  <2>1. PICK s \in todo[c] :
          /\ todo' = [todo EXCEPT ![c] = @ \ {s}]
          /\ call' = [call EXCEPT ![c].scope = s, ![c].pc = "lock"]
    BY <1>11 DEF ShutdownNext
  <2>2. CallAt(c, call[c].op, s, "lock")
    <3>1. \A d \in Caller : call[d] \in CallRecord
      BY Types
    <3> QED BY <2>1, <3>1, Types DEF CallAt, CallRecord
  <2>3. CallOnly /\ UNCHANGED <<killSent, holder>>
    BY <1>11 DEF ShutdownNext, osVars, regVars, opVars, flagVars, spawnVars,
       monVars
  <2>4. \A d \in Caller : todo'[d] \subseteq created
    BY <1>1, <2>1, Types
  <2> QED BY <1>1, <1>2, <1>3, <2>1, <2>2, <2>3, <2>4, CallKeeps
<1>12. CASE ShutdownReturn(c)
  <2>1. CallAt(c, call[c].op, call[c].scope, "done")
    BY <1>2, <1>12, CallMovesAt DEF ShutdownReturn
  <2>2. CallOnly /\ UNCHANGED <<killSent, todo, holder>>
    BY <1>12 DEF ShutdownReturn, osVars, regVars, opVars, flagVars, spawnVars,
       monVars
  <2> QED BY <1>1, <1>2, <1>3, <2>1, <2>2, CallKeeps
<1> QED
  BY <1>4, <1>5, <1>6, <1>7, <1>8, <1>9, <1>10, <1>11, <1>12

\* The steps that let go of the mutex.
LEMMA ReleaseResponsible ==
  ASSUME Blocks, Responsible, NEW c \in Caller,
         \/ ScopeSweepErr(c) \/ ScopeUnverified(c) \/ ScopeRemember(c)
         \/ Cancel(c)
  PROVE  Responsible'
<1> USE DEF CallOnly
<1>1. \A d \in Caller : todo[d] \subseteq created
  BY DEF Responsible, CallLife
<1>2. /\ {"next", "done", "idle"} \cap (ScopePc \cup DrainPc \cup CommitPc) = {}
      /\ ScopePc = {"reports", "recheck", "operation", "lock"} \cup DrainPc \cup CommitPc
  BY DEF ScopePc, DrainPc, CommitPc
<1>3. CASE ScopeSweepErr(c) \/ ScopeUnverified(c) \/ ScopeRemember(c)
  <2>1. CallOnly /\ UNCHANGED <<killSent, todo>>
    BY <1>3 DEF ScopeSweepErr, ScopeUnverified, ScopeRemember, osVars, regVars,
       opVars, flagVars, spawnVars, monVars
  <2>2. PICK pc \in {"next", "done"} : CallAt(c, call[c].op, call[c].scope, pc)
    BY <1>3, CallMovesAt DEF ScopeSweepErr, ScopeUnverified, ScopeRemember
  <2>3. /\ call[c].pc \in DrainPc \cup CommitPc
        /\ Release(c)
    BY <1>3 DEF ScopeSweepErr, ScopeUnverified, ScopeRemember, ReobserveDone,
       DrainPc, CommitPc
  <2>4. holder[call[c].scope] = c /\ call[c].scope \in Scope
    BY <1>2, <2>3 DEF Responsible, Mutex, Blocks, CallInv, CallScoped
  <2>5. \A t \in Scope : holder'[t] \in
          {holder[t]} \cup (IF holder[t] = c THEN {NoTask} ELSE {})
    BY <2>3, <2>4, Types DEF Release
  <2>6. KillsForward
    BY <2>1 DEF KillsForward
  <2> QED BY <1>1, <1>2, <2>1, <2>2, <2>5, <2>6, CallKeeps
<1>4. CASE Cancel(c)
  <2>1. /\ CallOnly /\ UNCHANGED killSent
        /\ call' = [call EXCEPT ![c] = [op |-> "none", scope |-> NoScope,
                                        pc |-> "idle"]]
        /\ todo' = [todo EXCEPT ![c] = {}]
        /\ holder' = [s \in Scope |-> IF holder[s] = c THEN NoTask ELSE holder[s]]
    BY <1>4 DEF Cancel, osVars, regVars, opVars, flagVars, spawnVars, monVars
  <2>2. CallAt(c, "none", NoScope, "idle")
    BY <2>1, Types DEF CallAt
  <2>3. KillsForward
    BY <2>1 DEF KillsForward
  <2>4. \A d \in Caller : todo'[d] \subseteq created
    BY <1>1, <2>1, Types
  <2>5. \A t \in Scope : holder'[t] \in
          {holder[t]} \cup (IF holder[t] = c THEN {NoTask} ELSE {})
    BY <2>1
  <2> QED BY <1>2, <2>1, <2>2, <2>3, <2>4, <2>5, CallKeeps
<1> QED BY <1>3, <1>4

\* Only one caller at a time drains or commits a scope.
LEMMA OneTerminator ==
  ASSUME Responsible, NEW c \in Caller, NEW d \in Caller,
         call[c].pc \in DrainPc \cup CommitPc, call[d].pc \in DrainPc \cup CommitPc,
         call[c].scope = call[d].scope
  PROVE  c = d
BY DEF Responsible, Mutex

\* Committing a report.
LEMMA PublishResponsible ==
  ASSUME Blocks, Responsible, NEW c \in Caller, ScopePublish(c)
  PROVE  Responsible'
<1> USE DEF Responsible
<1> DEFINE s == call[c].scope
<1>1. /\ call[c].pc = "reobserve" /\ serial' = serial \cup {s}
      /\ UNCHANGED <<registry, holder, owed, spawnPc, home, created, os, killSent,
                     monPc, ownersDropped, dropPc, todo>>
  BY DEF ScopePublish, ReobserveDone, CommitReport, osVars, flagVars, spawnVars,
     monVars
<1>2. CallAt(c, call[c].op, s, "unregister")
  BY CallMovesAt DEF ScopePublish, CallPc
<1>3. /\ s \in Scope /\ s \in created /\ ~IsOpen(registry[s])
      /\ holder[s] = c
  BY <1>1, Types DEF CallLife, DrainPc, ScopePc, Mutex
<1>4. \A d \in Caller \ {c} : call[d].pc \in DrainPc => call[d].scope # s
  BY <1>1, OneTerminator DEF DrainPc
<1>5. RegistryForward
  BY <1>1, RegistryKept
<1>6. SpawnLife' /\ RegistryShaped' /\ DropLife'
  BY <1>1, <1>5, StillForward, ResponsibleFrames DEF Background
<1> HIDE DEF s
<1>7. Mutex'
  BY <1>1, <1>2, <1>3 DEF Mutex, CallAt, DrainPc, CommitPc, s
<1>8. ScopeLife'
  BY <1>1, <1>3 DEF ScopeLife, Registered
<1>9. CallLife'
  <2> SUFFICES ASSUME NEW d \in Caller
               PROVE
         /\ call'[d].pc \in ScopePc => call'[d].scope \in created
         /\ todo'[d] \subseteq created
         /\ call'[d].pc \in DrainPc =>
              /\ Registered(call'[d].scope) /\ ~IsOpen(registry[call'[d].scope])
              /\ call'[d].scope \notin serial'
         /\ call'[d].pc \in CommitPc => call'[d].scope \in serial'
    BY <1>1 DEF CallLife, Registered
  <2>1. CASE d = c
    BY <1>1, <1>2, <1>3, <2>1 DEF CallLife, CallAt, DrainPc
  <2>2. CASE d # c
    BY <1>1, <1>2, <1>4, <2>2 DEF CallLife, CallAt
  <2> QED BY <2>1, <2>2
<1> QED BY <1>6, <1>7, <1>8, <1>9

\* Removing a committed scope from the registry.
LEMMA UnregisterResponsible ==
  ASSUME Blocks, Responsible, NEW c \in Caller, ScopeUnregister(c)
  PROVE  Responsible'
<1> USE DEF Responsible
<1> DEFINE s == call[c].scope
<1>1. /\ call[c].pc = "unregister"
      /\ registry' = [registry EXCEPT ![s] = NoScopeEntry]
      /\ UNCHANGED <<serial, holder, owed, spawnPc, home, created, os, killSent,
                     monPc, ownersDropped, dropPc, todo>>
  BY DEF ScopeUnregister, osVars, flagVars, spawnVars, monVars, opVars
<1>2. CallAt(c, call[c].op, s, "retire")
  BY CallMovesAt DEF ScopeUnregister, CallPc
<1>3. /\ s \in Scope /\ s \in created /\ s \in serial /\ ~IsOpen(registry[s])
      /\ holder[s] = c
  BY <1>1, Types DEF CallLife, CommitPc, ScopePc, Mutex, ScopeLife
<1>4. \A t \in Scope : registry'[t] = IF t = s THEN NoScopeEntry ELSE registry[t]
  BY <1>1, Types
<1>5. /\ NoScopeEntry.state = "Absent"
      /\ \A p \in Pid : /\ NoScopeEntry.processes[p].state = "Absent"
                        /\ NoScopeEntry.processes[p].exit = NoExit
  BY DEF NoScopeEntry, NoProcesses, NoProcess
<1> HIDE DEF s
<1>6. Mutex'
  BY <1>1, <1>2, <1>3 DEF Mutex, CallAt, DrainPc, CommitPc, s
<1>7. ScopeLife'
  BY <1>1, <1>3, <1>4, <1>5 DEF ScopeLife, Registered, IsOpen, Contains
<1>8. CallLife'
  <2> SUFFICES ASSUME NEW d \in Caller
               PROVE
         /\ call'[d].pc \in ScopePc => call'[d].scope \in created
         /\ todo'[d] \subseteq created
         /\ call'[d].pc \in DrainPc =>
              /\ registry'[call'[d].scope].state # "Absent"
              /\ ~IsOpen(registry'[call'[d].scope])
              /\ call'[d].scope \notin serial
         /\ call'[d].pc \in CommitPc => call'[d].scope \in serial
    BY <1>1 DEF CallLife, Registered
  <2>1. CASE d = c
    BY <1>1, <1>2, <1>3, <2>1 DEF CallLife, CallAt, DrainPc
  <2>2. CASE d # c
    <3>1. call'[d].pc = call[d].pc /\ call'[d].scope = call[d].scope
      BY <1>2, <2>2 DEF CallAt
    <3>2. call[d].pc \in DrainPc => call[d].scope \in Scope /\ call[d].scope # s
      BY <1>3, Types DEF CallLife, DrainPc, ScopePc
    <3>3. call[d].pc \in DrainPc =>
            /\ registry'[call[d].scope].state # "Absent"
            /\ registry'[call[d].scope].state # "Open"
            /\ call[d].scope \notin serial
      BY <1>4, <3>2 DEF CallLife, Registered, IsOpen
    <3> QED BY <1>1, <3>1, <3>3 DEF CallLife, IsOpen
  <2> QED BY <2>1, <2>2
<1>9. SpawnLife'
  <2>1. \A p \in Pid, t \in Scope : Contains(registry[t], p)' => Contains(registry[t], p)
    BY <1>4, <1>5 DEF Contains
  <2>2. \A p \in Pid : spawnPc[p] \in {"backend", "check", "attach"} =>
          home[p] \in Scope /\ home[p] # s
    BY <1>3, Types DEF SpawnLife
  <2> QED BY <1>1, <1>4, <2>1, <2>2 DEF SpawnLife, Unreaped
<1>10. RegistryShaped'
  BY <1>4, <1>5 DEF RegistryShaped, Shaped
<1>11. DropLife'
  BY <1>1, ResponsibleFrames
<1> QED BY <1>6, <1>7, <1>8, <1>9, <1>10, <1>11

\* begin_termination: an open scope drains; what it lists stays listed.
LEMMA BeginTerminationEffect ==
  ASSUME NEW scope \in Scopes, Shaped(scope)
  PROVE  LET next == BeginScopeTermination(scope) IN
         /\ next.state = IF scope.state = "Open" THEN "Draining" ELSE scope.state
         /\ Shaped(next)
         /\ \A p \in Pid :
              /\ Contains(next, p) = Contains(scope, p)
              /\ next.processes[p].exit = scope.processes[p].exit
              /\ scope.processes[p].exit # NoExit =>
                   next.processes[p] = scope.processes[p]
<1> DEFINE next == BeginScopeTermination(scope)
<1>1. /\ next.state = IF scope.state = "Open" THEN "Draining" ELSE scope.state
      /\ \A p \in Pid : next.processes[p] = RequestGraceful(scope.processes[p])
  BY DEF BeginScopeTermination
<1>2. \A p \in Pid :
        LET after == RequestGraceful(scope.processes[p]) IN
        /\ after.state = "Absent" <=> scope.processes[p].state = "Absent"
        /\ after.exit = scope.processes[p].exit
        /\ after.exit = NoExit <=> after.state # "Reaped"
        /\ scope.processes[p].exit # NoExit => after = scope.processes[p]
  BY ScopeFields, ProcessForward DEF Shaped
<1> HIDE DEF next
<1> QED BY <1>1, <1>2 DEF Shaped, Contains, next

\* What a terminator that begins to drain does to the parts of Responsible.
LEMMA DrainEffect ==
  ASSUME Blocks, Responsible, NEW c \in Caller, ScopeDrain(c)
  PROVE  LET s == call[c].scope IN
         /\ s \in Scope /\ s \in created /\ s \notin serial /\ Registered(s)
         /\ call[c].pc = "lock" /\ holder[s] = NoTask
         /\ CallAt(c, call[c].op, s, "join")
         /\ \A t \in Scope :
              /\ holder'[t] = IF t = s THEN c ELSE holder[t]
              /\ owed'[t] = IF t = s THEN owed[t] \cup ProcessIds(registry[s])
                            ELSE owed[t]
              /\ registry'[t].state = IF t = s /\ registry[t].state = "Open"
                                      THEN "Draining" ELSE registry[t].state
              /\ Shaped(registry'[t])
              /\ \A p \in Pid :
                   /\ Contains(registry[t], p)' = Contains(registry[t], p)
                   /\ registry'[t].processes[p].exit = registry[t].processes[p].exit
                   /\ registry[t].processes[p].exit # NoExit =>
                        registry'[t].processes[p] = registry[t].processes[p]
         /\ UNCHANGED <<os, killSent, created, serial, serialReport, spawnPc, home,
                        monPc, monExit, ownersDropped, dropPc, todo, subFut>>
<1> DEFINE s == call[c].scope
<1>1. /\ call[c].pc = "lock" /\ holder[s] = NoTask /\ s \notin serial
      /\ Registered(s)
      /\ holder' = [holder EXCEPT ![s] = c]
      /\ registry' = [registry EXCEPT ![s] = BeginScopeTermination(@)]
      /\ owed' = [owed EXCEPT ![s] = @ \cup ProcessIds(registry[s])]
      /\ Goto(c, "join")
  BY DEF ScopeDrain
<1>2. UNCHANGED <<os, killSent, created, serial, serialReport, spawnPc, home, monPc,
                  monExit, ownersDropped, dropPc, todo, subFut>>
  BY DEF ScopeDrain, osVars, flagVars, spawnVars, monVars
<1>3. s \in Scope /\ s \in created
  BY <1>1, Types DEF Responsible, CallLife, ScopePc
<1>4. CallAt(c, call[c].op, s, "join")
  BY <1>1, CallMovesAt DEF CallPc
<1> HIDE DEF s
<1>5. \A t \in Scope : registry[t] \in Scopes /\ Shaped(registry[t])
  BY Types DEF Responsible, RegistryShaped
<1>6. \A t \in Scope : registry'[t] = IF t = s THEN BeginScopeTermination(registry[t])
                                      ELSE registry[t]
  BY <1>1, <1>3, Types
<1>7. \A t \in Scope :
        /\ registry'[t].state = IF t = s /\ registry[t].state = "Open"
                                THEN "Draining" ELSE registry[t].state
        /\ Shaped(registry'[t])
        /\ \A p \in Pid :
             /\ Contains(registry[t], p)' = Contains(registry[t], p)
             /\ registry'[t].processes[p].exit = registry[t].processes[p].exit
             /\ registry[t].processes[p].exit # NoExit =>
                  registry'[t].processes[p] = registry[t].processes[p]
  <2> SUFFICES ASSUME NEW t \in Scope
               PROVE
        /\ registry'[t].state = IF t = s /\ registry[t].state = "Open"
                                THEN "Draining" ELSE registry[t].state
        /\ Shaped(registry'[t])
        /\ \A p \in Pid :
             /\ Contains(registry'[t], p) = Contains(registry[t], p)
             /\ registry'[t].processes[p].exit = registry[t].processes[p].exit
             /\ registry[t].processes[p].exit # NoExit =>
                  registry'[t].processes[p] = registry[t].processes[p]
    BY DEF Contains
  <2>1. CASE t = s
    BY <1>5, <1>6, <2>1, BeginTerminationEffect
  <2>2. CASE t # s
    BY <1>5, <1>6, <2>2
  <2> QED BY <2>1, <2>2
<1>8. \A t \in Scope :
        /\ holder'[t] = IF t = s THEN c ELSE holder[t]
        /\ owed'[t] = IF t = s THEN owed[t] \cup ProcessIds(registry[s])
                      ELSE owed[t]
  BY <1>1, <1>3, Types
<1> QED BY <1>1, <1>2, <1>3, <1>4, <1>7, <1>8 DEF s

LEMMA DrainResponsible ==
  ASSUME Blocks, Responsible, NEW c \in Caller, ScopeDrain(c)
  PROVE  Responsible'
<1> USE DEF Responsible
<1> DEFINE s == call[c].scope
<1>1. /\ s \in Scope /\ s \in created /\ s \notin serial /\ Registered(s)
      /\ holder[s] = NoTask /\ CallAt(c, call[c].op, s, "join")
      /\ UNCHANGED <<os, killSent, created, serial, spawnPc, home, monPc,
                     ownersDropped, dropPc, todo>>
  BY DrainEffect
<1>2. \A t \in Scope :
        /\ holder'[t] = IF t = s THEN c ELSE holder[t]
        /\ t # s => owed'[t] = owed[t]
        /\ registry'[t].state = IF t = s /\ registry[t].state = "Open"
                                THEN "Draining" ELSE registry[t].state
        /\ Shaped(registry'[t])
        /\ \A p \in Pid : Contains(registry[t], p)' = Contains(registry[t], p)
  BY DrainEffect
<1> HIDE DEF s
<1>3. \A t \in Scope : Registered(t)' = Registered(t)
  BY <1>2 DEF Registered
<1>4. /\ \A t \in Scope \ {s} : IsOpen(registry'[t]) = IsOpen(registry[t])
      /\ ~IsOpen(registry'[s])
  BY <1>1, <1>2 DEF IsOpen
<1>5. \A d \in Caller : call[d].pc \in ScopePc => call[d].scope \in Scope
  BY Types DEF CallLife
<1>6. \A p \in Pid : spawnPc[p] # "idle" => home[p] \in Scope
  BY Types DEF SpawnLife
<1>7. Mutex'
  <2>1. ASSUME NEW p \in Pid, spawnPc'[p] \in SpawnHeldPc PROVE holder'[home'[p]] = p
    <3>1. holder[home[p]] = p /\ home[p] \in Scope /\ p # NoTask
      BY <1>1, <1>6, <2>1, ScopeAssumption DEF Mutex, SpawnHeldPc
    <3> QED BY <1>1, <1>2, <3>1
  <2>2. ASSUME NEW d \in Caller, call'[d].pc \in DrainPc \cup CommitPc
        PROVE  holder'[call'[d].scope] = d
    <3>1. CASE d = c
      BY <1>1, <1>2, <3>1 DEF CallAt
    <3>2. CASE d # c
      <4>1. call'[d].pc = call[d].pc /\ call'[d].scope = call[d].scope
        BY <1>1, <3>2 DEF CallAt
      <4>2. holder[call[d].scope] = d /\ call[d].scope \in Scope /\ d # NoTask
        BY <1>5, <2>2, <4>1, ScopeAssumption DEF Mutex, DrainPc, CommitPc, ScopePc
      <4> QED BY <1>1, <1>2, <4>1, <4>2
    <3> QED BY <3>1, <3>2
  <2> QED BY <2>1, <2>2 DEF Mutex
<1>8. ScopeLife'
  <2>1. \A t \in Scope : t # s => owed'[t] = owed[t]
    BY <1>2
  <2>2. \A t \in Scope : IsOpen(registry[t])' = IsOpen(registry'[t])
    OBVIOUS
  <2> QED BY <1>1, <1>2, <1>3, <1>4, <2>1, <2>2 DEF ScopeLife
<1>9. CallLife'
  <2> SUFFICES ASSUME NEW d \in Caller
               PROVE
         /\ call'[d].pc \in ScopePc => call'[d].scope \in created'
         /\ todo'[d] \subseteq created'
         /\ call'[d].pc \in DrainPc =>
              /\ registry'[call'[d].scope].state \notin {"Absent", "Open"}
              /\ call'[d].scope \notin serial'
         /\ call'[d].pc \in CommitPc => call'[d].scope \in serial'
    BY DEF CallLife, Registered, IsOpen
  <2>1. CASE d = c
    <3>1. call'[d].pc = "join" /\ call'[d].scope = s
      BY <1>1, <2>1 DEF CallAt
    <3>2. registry'[s].state \notin {"Absent", "Open"}
      BY <1>1, <1>2 DEF Registered
    <3>3. "join" \notin CommitPc
      BY DEF CommitPc
    <3> QED BY <1>1, <3>1, <3>2, <3>3 DEF CallLife
  <2>2. CASE d # c
    <3>1. call'[d].pc = call[d].pc /\ call'[d].scope = call[d].scope
      BY <1>1, <2>2 DEF CallAt
    <3>2. call[d].pc \in DrainPc => call[d].scope \in Scope
      BY <1>5 DEF DrainPc, ScopePc
    <3>3. call[d].pc \in DrainPc =>
            /\ registry'[call[d].scope].state # "Absent"
            /\ registry'[call[d].scope].state # "Open"
      BY <1>2, <3>2 DEF CallLife, Registered, IsOpen
    <3> QED BY <1>1, <3>1, <3>3 DEF CallLife, Registered, IsOpen
  <2> QED BY <2>1, <2>2
<1>10. SpawnLife'
  <2>1. \A p \in Pid : spawnPc[p] \in {"backend", "check", "attach"} =>
          home[p] \in Scope /\ home[p] # s
    BY <1>1, <1>6, ScopeAssumption DEF Mutex, SpawnHeldPc
  <2>2. \A p \in Pid : spawnPc[p] \in {"backend", "check", "attach"} =>
          registry'[home[p]].state = "Open"
    BY <1>2, <2>1 DEF SpawnLife, IsOpen
  <2> QED BY <1>1, <1>2, <2>2 DEF SpawnLife, Unreaped, IsOpen
<1>11. RegistryShaped' /\ DropLife'
  BY <1>1, <1>2, ResponsibleFrames DEF RegistryShaped
<1> QED BY <1>7, <1>8, <1>9, <1>10, <1>11

\* The drop of the last handle.
LEMMA DropResponsible ==
  ASSUME Blocks, Responsible, DropOwners
  PROVE  Responsible'
<1> USE DEF Responsible
<1>1. UNCHANGED <<os, registry, holder, serial, owed, spawnPc, home, created,
                  monPc, call, todo>>
  BY DEF DropOwners, regVars, opVars, spawnVars, monVars, callVars
<1>2. KillsForward /\ (ownersDropped => ownersDropped') /\ DropLife'
  BY Types DEF DropOwners, Kill, KillsForward, DropLife, Blocks, FlagInv, FlagType
<1>3. RegistryForward
  BY <1>1, RegistryKept
<1>4. Mutex' /\ ScopeLife' /\ CallLife' /\ RegistryShaped'
  BY <1>1, <1>3, ResponsibleFrames
<1>5. SpawnLife'
  BY <1>1, <1>2 DEF SpawnLife, KillsForward, Unreaped
<1> QED BY <1>2, <1>4, <1>5

LEMMA InitResponsible == Init => Responsible
<1> SUFFICES ASSUME Init PROVE Responsible
  OBVIOUS
<1>1. /\ \A s \in Scope : registry[s] = NoScopeEntry /\ owed[s] = {}
      /\ \A p \in Pid : spawnPc[p] = "idle" /\ monPc[p] = "none"
      /\ \A c \in Caller : call[c].pc = "idle" /\ todo[c] = {}
      /\ serial = {} /\ created = {} /\ dropPc = "live" /\ ~ownersDropped
  BY DEF Init
<1>2. /\ NoScopeEntry.state = "Absent"
      /\ \A p \in Pid : /\ NoScopeEntry.processes[p].state = "Absent"
                        /\ NoScopeEntry.processes[p].exit = NoExit
  BY DEF NoScopeEntry, NoProcesses, NoProcess
<1>3. Mutex /\ DropLife
  BY <1>1 DEF Mutex, SpawnHeldPc, DrainPc, CommitPc, DropLife
<1>4. ScopeLife
  BY <1>1, <1>2 DEF ScopeLife, Registered, IsOpen, Contains
<1>5. CallLife
  BY <1>1 DEF CallLife, ScopePc, DrainPc, CommitPc
<1>6. SpawnLife /\ RegistryShaped
  BY <1>1, <1>2 DEF SpawnLife, RegistryShaped, Shaped, Contains
<1> QED BY <1>3, <1>4, <1>5, <1>6 DEF Responsible

LEMMA NextResponsible == Blocks /\ Responsible /\ [Next]_vars => Responsible'
<1> SUFFICES ASSUME Blocks, Responsible, [Next]_vars PROVE Responsible'
  OBVIOUS
<1>1. CASE UNCHANGED vars
  <2>1. RegistryForward
    BY <1>1, RegistryKept DEF vars, regVars, Responsible
  <2> QED
    BY <1>1, <2>1, StillForward, BackgroundKeeps DEF Background, vars, osVars,
       regVars, opVars, flagVars, spawnVars, monVars, callVars
<1>2. ASSUME NEW s \in Scope, CreateScope(s) PROVE Responsible'
  BY <1>2, CreateResponsible
<1>3. ASSUME NEW p \in Pid, NEW s \in Scope, SpawnCall(p, s) PROVE Responsible'
  BY <1>3, SpawnCallResponsible
<1>4. ASSUME NEW p \in Pid, OsStep(p) PROVE Responsible'
  <2>1. UNCHANGED <<spawnPc, home, holder, call, created, serial, owed, todo,
                    ownersDropped, dropPc>>
    BY <1>4 DEF OsStep, OsExit, OsKill, regVars, opVars, flagVars, spawnVars,
       callVars
  <2> QED BY <1>4, <2>1, OsBackground, BackgroundKeeps
<1>5. ASSUME NEW p \in Pid, SpawnStep(p) PROVE Responsible'
  BY <1>5, SpawnLockResponsible, SpawnHeldResponsible, SpawnEndResponsible,
     SpawnAttachResponsible DEF SpawnStep
<1>6. ASSUME NEW p \in Pid, MonitorStep(p) PROVE Responsible'
  <2>1. UNCHANGED <<spawnPc, home, holder, call, created, serial, owed, todo,
                    ownersDropped, dropPc>>
    BY <1>6 DEF MonitorStep, MonitorWait, MonitorRecord, MonitorNotify,
       MonitorPrune, regVars, opVars, flagVars, spawnVars, callVars
  <2> QED BY <1>6, <2>1, MonitorBackground, BackgroundKeeps
<1>7. ASSUME NEW c \in Caller, NEW p \in Pid, WorkerStep(c, p) \/ ScopeJoin(c, p)
      PROVE  Responsible'
  <2>1. /\ Background
        /\ UNCHANGED <<spawnPc, home, holder, call, created, serial, owed, todo,
                       ownersDropped, dropPc>>
    BY <1>7, WorkerBackground
  <2> QED BY <2>1, BackgroundKeeps
<1>8. ASSUME NEW c \in Caller, CallStep(c) PROVE Responsible'
  BY <1>7, <1>8, CallResponsible, ReleaseResponsible, PublishResponsible,
     UnregisterResponsible, DrainResponsible DEF CallStep, ScopeLock
<1>9. ASSUME NEW c \in Caller,
             \/ \E s \in Scope : TerminateScopeCall(c, s)
             \/ \E p \in Pid : SingleCall(c, p)
             \/ ShutdownCall(c) \/ Cancel(c)
      PROVE  Responsible'
  BY <1>9, CallResponsible, ReleaseResponsible
<1>10. ASSUME DropOwners PROVE Responsible'
  BY <1>10, DropResponsible
<1> QED
  BY <1>1, <1>2, <1>3, <1>4, <1>5, <1>6, <1>7, <1>8, <1>9, <1>10 DEF Next

\* At every moment the mutex, the scope, the call and the spawn worker that
\* answer for a process are the ones that the code expects: a spawn worker or
\* a terminator at work holds the scope's operation mutex, a created scope is
\* registered until its report is committed, an admitted spawn finds its scope
\* open, only attached processes are listed.
THEOREM Responsibility == Spec => []Responsible
<1>1. Init => Blocks /\ Responsible
  BY InitBlocks, InitResponsible
<1>2. Blocks /\ Responsible /\ [Next]_vars => Blocks' /\ Responsible'
  BY NextBlocks, NextResponsible
<1> QED BY <1>1, <1>2, PTL DEF Spec

-----------------------------------------------------------------------------
(* The drop of the last handle. *)

\* Every call of the program leaves the system alone but for signals, and the
\* spawn workers and the drop altogether.
LEMMA CallsAreQuiet ==
  ASSUME Blocks, NEW c \in Caller,
         \/ \E s \in Scope : TerminateScopeCall(c, s)
         \/ \E p \in Pid : SingleCall(c, p) \/ SingleReturn(c, p)
         \/ ShutdownCall(c) \/ TerminateScopeLookup(c) \/ ScopeLock(c)
         \/ ScopeSweep(c) \/ ScopeSweepErr(c) \/ ScopeSweepOk(c)
         \/ ScopeUnverified(c) \/ ScopePublish(c)
         \/ ScopeUnregister(c) \/ ScopeRetire(c) \/ ScopeRemember(c)
         \/ ShutdownSnapshot(c) \/ ShutdownNext(c) \/ ShutdownReturn(c)
         \/ Cancel(c)
  PROVE  /\ UNCHANGED <<os, spawnPc, home, monPc, monExit, created, dropPc,
                        ownersDropped>>
         /\ KillsForward
<1> USE DEF osVars, regVars, flagVars, spawnVars, monVars, KillsForward
<1>1. CASE \/ \E s \in Scope : TerminateScopeCall(c, s)
           \/ \E p \in Pid : SingleCall(c, p) \/ SingleReturn(c, p)
           \/ ShutdownCall(c) \/ TerminateScopeLookup(c) \/ ScopeLock(c)
  BY <1>1 DEF TerminateScopeCall, SingleCall, SingleReturn, ShutdownCall,
     TerminateScopeLookup, ScopeLock, ScopeSettled, ScopeDrain
<1>2. CASE ScopeSweep(c)
  BY <1>2 DEF ScopeSweep, Kill
<1>3. CASE ScopeSweepErr(c) \/ ScopeSweepOk(c) \/ ScopeUnverified(c)
           \/ ScopePublish(c) \/ ScopeUnregister(c)
  BY <1>3 DEF ScopeSweepErr, ScopeSweepOk, ScopeUnverified, ScopePublish,
     ScopeUnregister
<1>4. CASE ScopeRetire(c) \/ ScopeRemember(c) \/ ShutdownSnapshot(c)
           \/ ShutdownNext(c) \/ ShutdownReturn(c) \/ Cancel(c)
  BY <1>4 DEF ScopeRetire, ScopeRemember, ShutdownSnapshot, ShutdownNext,
     ShutdownReturn, Cancel
<1> QED BY <1>1, <1>2, <1>3, <1>4

LEMMA NextDrop ==
  Blocks /\ Responsible /\ DropReachesLateSpawns /\ [Next]_vars =>
    DropReachesLateSpawns'
<1> SUFFICES ASSUME Blocks, Responsible, DropReachesLateSpawns, [Next]_vars
             PROVE  DropReachesLateSpawns'
  OBVIOUS
<1>1. ASSUME UNCHANGED <<spawnPc, dropPc>>, KillsForward,
             \A p \in Pid : os'[p] = "Alive" => os[p] = "Alive"
      PROVE  DropReachesLateSpawns'
  BY <1>1 DEF DropReachesLateSpawns, KillsForward
<1>2. ASSUME Background, UNCHANGED <<spawnPc, dropPc>>
      PROVE  DropReachesLateSpawns'
  BY <1>1, <1>2 DEF Background, OsForward
<1>3. CASE UNCHANGED vars
  BY <1>1, <1>3 DEF vars, osVars, spawnVars, flagVars, KillsForward
<1>4. ASSUME NEW s \in Scope, CreateScope(s) PROVE DropReachesLateSpawns'
  BY <1>1, <1>4 DEF CreateScope, osVars, spawnVars, flagVars, KillsForward
<1>5. ASSUME NEW p \in Pid, NEW s \in Scope, SpawnCall(p, s)
      PROVE  DropReachesLateSpawns'
  <2>1. dropPc = "live" /\ UNCHANGED dropPc
    BY <1>5 DEF SpawnCall, flagVars, Responsible, DropLife
  <2> QED BY <2>1 DEF DropReachesLateSpawns
<1>6. ASSUME NEW p \in Pid, OsStep(p) PROVE DropReachesLateSpawns'
  <2>1. UNCHANGED <<spawnPc, dropPc>>
    BY <1>6 DEF OsStep, OsExit, OsKill, flagVars, spawnVars
  <2> QED BY <1>2, <1>6, <2>1, OsBackground
<1>7. ASSUME NEW p \in Pid, MonitorStep(p) PROVE DropReachesLateSpawns'
  <2>1. UNCHANGED <<spawnPc, dropPc>>
    BY <1>7 DEF MonitorStep, MonitorWait, MonitorRecord, MonitorNotify,
       MonitorPrune, flagVars, spawnVars
  <2> QED BY <1>2, <1>7, <2>1, MonitorBackground
<1>8. ASSUME NEW c \in Caller, NEW p \in Pid, WorkerStep(c, p) \/ ScopeJoin(c, p)
      PROVE  DropReachesLateSpawns'
  BY <1>2, <1>8, WorkerBackground
<1>9. ASSUME NEW c \in Caller,
             \/ CallStep(c) /\ ~(\E p \in Pid : ScopeJoin(c, p))
             \/ \E s \in Scope : TerminateScopeCall(c, s)
             \/ \E p \in Pid : SingleCall(c, p)
             \/ ShutdownCall(c) \/ Cancel(c)
      PROVE  DropReachesLateSpawns'
  <2>1. UNCHANGED <<os, spawnPc, dropPc>> /\ KillsForward
    BY <1>9, CallsAreQuiet DEF CallStep
  <2> QED BY <1>1, <2>1
<1>10. ASSUME NEW p \in Pid, SpawnStep(p) PROVE DropReachesLateSpawns'
  <2>1. CASE SpawnLock(p) \/ SpawnBackendErr(p) \/ SpawnReturn(p)
    <3>1. /\ UNCHANGED <<os, killSent, dropPc>>
          /\ \A q \in Pid : spawnPc[q] = "check" => spawnPc'[q] = "check"
      BY <2>1, Types DEF SpawnLock, SpawnBackendErr, SpawnReturn, SpawnLeave,
         osVars, flagVars
    <3> QED BY <3>1 DEF DropReachesLateSpawns
  <2>2. CASE SpawnBackendOk(p)
    <3>1. /\ UNCHANGED <<killSent, dropPc>>
          /\ \A q \in Pid : /\ os'[q] = IF q = p THEN "Alive" ELSE os[q]
                            /\ spawnPc'[q] = IF q = p THEN "check" ELSE spawnPc[q]
      BY <2>2, Types DEF SpawnBackendOk, flagVars
    <3> QED BY <3>1 DEF DropReachesLateSpawns
  <2>3. CASE SpawnCheckOwners(p)
    <3>1. UNCHANGED <<os, dropPc>>
      BY <2>3 DEF SpawnCheckOwners, flagVars
    <3>2. dropPc = "swept" => Kill(Pid)
      BY <2>3 DEF SpawnCheckOwners, Responsible, DropLife
    <3> QED BY <3>1, <3>2 DEF DropReachesLateSpawns, Kill, Unreaped
  <2>4. CASE SpawnAttach(p)
    <3>1. UNCHANGED <<os, killSent, dropPc>> /\ spawnPc[p] = "attach"
      BY <2>4, AttachEffect
    <3>2. \A q \in Pid : spawnPc[q] = "check" => spawnPc'[q] = "check"
      BY <2>4, <3>1, AttachEffect, Types
    <3> QED BY <3>1, <3>2 DEF DropReachesLateSpawns
  <2>5. CASE SpawnOrphan(p)
    <3>1. /\ UNCHANGED <<killSent, dropPc>>
          /\ \A q \in Pid : spawnPc[q] = "check" => spawnPc'[q] = "check"
      BY <2>5, Types DEF SpawnOrphan, SpawnLeave, flagVars
    <3>2. OsForward
      BY <2>5, BackendForward DEF SpawnOrphan
    <3> QED BY <3>1, <3>2 DEF DropReachesLateSpawns, OsForward
  <2> QED BY <1>10, <2>1, <2>2, <2>3, <2>4, <2>5 DEF SpawnStep
<1>11. CASE DropOwners
  <2>1. UNCHANGED <<os, spawnPc>>
    BY <1>11 DEF DropOwners, spawnVars
  <2>2. CASE dropPc' = "swept"
    BY <1>11, <2>1, <2>2 DEF DropOwners, Kill, Unreaped, DropReachesLateSpawns
  <2> QED BY <2>2 DEF DropReachesLateSpawns
<1> QED
  BY <1>3, <1>4, <1>5, <1>6, <1>7, <1>8, <1>9, <1>10, <1>11 DEF Next, CallStep

\* CleanupGuard::drop reaches every process: once it has swept, whatever is
\* alive has been sent SIGKILL or is a child whose spawn worker has yet to read
\* owners_dropped and will sweep it.
THEOREM DropReachesEveryProcess == Spec => []DropReachesLateSpawns
<1>1. Init => Blocks /\ Responsible /\ DropReachesLateSpawns
  BY InitBlocks, InitResponsible DEF Init, DropReachesLateSpawns
<1>2. /\ Blocks /\ Responsible /\ DropReachesLateSpawns /\ [Next]_vars
      => Blocks' /\ Responsible' /\ DropReachesLateSpawns'
  BY NextBlocks, NextResponsible, NextDrop
<1> QED BY <1>1, <1>2, PTL DEF Spec
=============================================================================
