-------------------------- MODULE SupervisorProofs --------------------------
(***************************************************************************)
(* Type correctness of Supervisor, and its central safety property         *)
(* VerifiedMeansReaped, for every value of the constants: any number of    *)
(* scopes, processes and callers, any history bounds, any faults.          *)
(*                                                                         *)
(* The inductive invariant IndInv is proved block by block, a block being  *)
(* what IndInv says of the variables of one part of the system.  An action *)
(* disturbs a few blocks; the lemma Frames takes care of the others.       *)
(***************************************************************************)
EXTENDS Supervisor, OperatorLemmas

OsInv == OsType
RegInv == RegistryType /\ RegistryEvidence /\ PendingEvidence
HistoryInv == waiters \in WaiterRecord /\ WaiterEvidence
OpInv == OperationType /\ CommittedEvidence
FlagInv == FlagType
SpawnInv == SpawnType /\ SpawnFresh
MonInv == MonitorType /\ MonitorEvidence /\ MonitorReady
CallInv == CallType /\ ReturnedEvidence /\ CallScoped
SubInv == WorkerType /\ WorkerEvidence
ReadyInv == WorkerReady /\ CallReady

Blocks ==
  /\ OsInv /\ RegInv /\ HistoryInv /\ OpInv /\ FlagInv
  /\ SpawnInv /\ MonInv /\ CallInv /\ SubInv /\ ReadyInv

\* No step takes a reap back.
Keeps == \A p \in Pid : IsReaped(p) => IsReaped(p)'

\* The blocks are the conjuncts of IndInv, in another order.
LEMMA BlocksAreIndInv == IndInv <=> Blocks
BY DEF IndInv, TypeOK, VerifiedMeansReaped, Blocks, OsInv, RegInv, HistoryInv,
       OpInv, FlagInv, SpawnInv, MonInv, CallInv, SubInv, ReadyInv

\* A block whose variables do not change is preserved by a step that takes no
\* reap back.
LEMMA Frames ==
  ASSUME Blocks, Keeps
  PROVE  /\ UNCHANGED <<os, killSent, faults>> => OsInv'
         /\ UNCHANGED <<created, registry, pending, owed>> => RegInv'
         /\ UNCHANGED waiters => HistoryInv'
         /\ UNCHANGED opVars => OpInv'
         /\ UNCHANGED flagVars => FlagInv'
         /\ UNCHANGED <<spawnPc, home, os>> => SpawnInv'
         /\ UNCHANGED monVars => MonInv'
         /\ UNCHANGED callVars => CallInv'
         /\ UNCHANGED subVars => SubInv'
         /\ UNCHANGED <<call, subPc, subRes>> => ReadyInv'
<1> USE DEF Blocks, Keeps
<1>1. ASSUME UNCHANGED <<os, killSent, faults>> PROVE OsInv'
  BY <1>1 DEF OsInv, OsType
<1>2. ASSUME UNCHANGED <<created, registry, pending, owed>> PROVE RegInv'
  BY <1>2 DEF RegInv, RegistryType, RegistryEvidence, PendingEvidence
<1>3. ASSUME UNCHANGED waiters PROVE HistoryInv'
  BY <1>3 DEF HistoryInv, WaiterEvidence, TryGet
<1>4. ASSUME UNCHANGED opVars PROVE OpInv'
  BY <1>4 DEF OpInv, OperationType, CommittedEvidence, opVars
<1>5. ASSUME UNCHANGED flagVars PROVE FlagInv'
  BY <1>5 DEF FlagInv, FlagType, flagVars
<1>6. ASSUME UNCHANGED <<spawnPc, home, os>> PROVE SpawnInv'
  BY <1>6 DEF SpawnInv, SpawnType, SpawnFresh
<1>7. ASSUME UNCHANGED monVars PROVE MonInv'
  BY <1>7 DEF MonInv, MonitorType, MonitorEvidence, MonitorReady, monVars
<1>8. ASSUME UNCHANGED callVars PROVE CallInv'
  BY <1>8 DEF CallInv, CallType, ReturnedEvidence, CallScoped, callVars
<1>9. ASSUME UNCHANGED subVars PROVE SubInv'
  BY <1>9 DEF SubInv, WorkerType, WorkerEvidence, subVars
<1>10. ASSUME UNCHANGED <<call, subPc, subRes>> PROVE ReadyInv'
  BY <1>10 DEF ReadyInv, WorkerReady, CallReady
<1> QED BY <1>1, <1>2, <1>3, <1>4, <1>5, <1>6, <1>7, <1>8, <1>9, <1>10

\* The initial states satisfy the blocks.
LEMMA InitBlocks == Init => Blocks
<1> SUFFICES ASSUME Init PROVE Blocks
  OBVIOUS
<1> USE DEF Init
<1>1. OsInv
  BY BoundsAssumption DEF OsInv, OsType, OsState
<1>2. RegInv
  BY ScopeTypes DEF RegInv, RegistryType, RegistryEvidence, PendingEvidence,
    NoReport, Report, OptOutcome, VerifiedOutcome, NoExit
<1>3. HistoryInv
  BY DEF HistoryInv, WaiterEvidence, TryGet, NoWaiters, WaiterRecord, Slot,
    NoSlot, OptOutcome, VerifiedOutcome, NoExit
<1>4. OpInv
  BY DEF OpInv, OperationType, CommittedEvidence, NoReport, Report, OptOutcome,
    VerifiedOutcome, NoExit
<1>5. FlagInv
  BY DEF FlagInv, FlagType
<1>6. SpawnInv
  BY DEF SpawnInv, SpawnType, SpawnFresh, SpawnPc
<1>7. MonInv
  BY DEF MonInv, MonitorType, MonitorEvidence, MonitorReady, MonPc, OptOutcome,
    VerifiedOutcome, NoExit
<1>8. CallInv
  BY DEF CallInv, CallType, ReturnedEvidence, CallScoped, ScopePc, CallRecord,
    CallPc, CallResult, SubResult, NoReport, Report, OptOutcome, VerifiedOutcome, NoExit
<1>9. SubInv
  BY DEF SubInv, WorkerType, WorkerEvidence, SubPc, Receiver, SubResult,
    Unregistered, VerifiedOutcome
<1>10. ReadyInv
  BY DEF ReadyInv, WorkerReady, CallReady
<1> QED
  BY <1>1, <1>2, <1>3, <1>4, <1>5, <1>6, <1>7, <1>8, <1>9, <1>10 DEF Blocks

-----------------------------------------------------------------------------
(* The operating system, scope creation and the spawn worker. *)

\* A process that dies was not reaped before, and stays known to the system.
LEMMA OsSteps ==
  ASSUME Blocks, NEW p \in Pid, OsStep(p)
  PROVE  Blocks'
<1> USE DEF OsStep, OsExit, OsKill
<1>1. Keeps
  BY DEF Keeps, IsReaped, Blocks, OsInv, OsType
<1>2. OsInv'
  BY DEF Blocks, OsInv, OsType, OsState
<1>3. SpawnInv'
  BY DEF Blocks, SpawnInv, SpawnType, SpawnFresh, OsInv, OsType, spawnVars
<1> QED
  BY <1>1, <1>2, <1>3, Frames DEF Blocks, regVars, opVars, flagVars, spawnVars,
     monVars, callVars, subVars

\* try_create_scope inserts an open scope without processes.
LEMMA CreateScopeStep ==
  ASSUME Blocks, NEW s \in Scope, CreateScope(s)
  PROVE  Blocks'
<1> USE DEF CreateScope
<1>1. Keeps
  BY DEF Keeps, IsReaped, osVars
<1>2. RegInv'
  BY ScopeTypes, <1>1 DEF Blocks, RegInv, RegistryType, RegistryEvidence,
     PendingEvidence, Keeps, NoExit, VerifiedOutcome
<1>3. OpInv'
  BY <1>1 DEF Blocks, OpInv, OperationType, CommittedEvidence, Keeps
<1> QED
  BY <1>1, <1>2, <1>3, Frames DEF Blocks, osVars, opVars, flagVars, spawnVars,
     monVars, callVars, subVars

\* A spawn worker starts: no process exists for its attempt yet.
LEMMA SpawnCallStep ==
  ASSUME Blocks, NEW p \in Pid, NEW s \in Scope, SpawnCall(p, s)
  PROVE  Blocks'
<1> USE DEF SpawnCall
<1>1. Keeps
  BY DEF Keeps, IsReaped, osVars
<1>2. SpawnInv'
  BY DEF Blocks, SpawnInv, SpawnType, SpawnFresh, SpawnPc, osVars
<1> QED
  BY <1>1, <1>2, Frames DEF Blocks, osVars, regVars, opVars, flagVars,
     spawnVars, monVars, callVars, subVars

\* Taking or leaving the operation mutex keeps its type.
LEMMA HolderType ==
  ASSUME Blocks, Keeps,
         UNCHANGED <<operations, serial, serialReport, reports, completedScopes>>,
         holder' \in [Scope -> Caller \cup Pid \cup {NoTask}]
  PROVE  OpInv'
BY DEF Blocks, OpInv, OperationType, CommittedEvidence, Keeps

\* A spawn worker takes the operation mutex, or fails.
LEMMA SpawnLockStep ==
  ASSUME Blocks, NEW p \in Pid, SpawnLock(p)
  PROVE  Blocks'
<1> USE DEF SpawnLock
<1>1. Keeps
  BY DEF Keeps, IsReaped, osVars
<1>2. holder' \in [Scope -> Caller \cup Pid \cup {NoTask}]
  BY DEF Blocks, OpInv, OperationType
<1>3. OpInv'
  BY <1>1, <1>2, HolderType
<1>4. SpawnInv'
  BY DEF Blocks, SpawnInv, SpawnType, SpawnFresh, SpawnPc, osVars
<1> QED
  BY <1>1, <1>3, <1>4, Frames DEF Blocks, osVars, regVars, flagVars,
     monVars, callVars, subVars

\* Dropping the operation guard of a spawn keeps the types.
LEMMA SpawnLeaveHolder ==
  ASSUME Blocks, NEW p \in Pid, NEW pc, SpawnLeave(p, pc)
  PROVE  holder' \in [Scope -> Caller \cup Pid \cup {NoTask}]
BY DEF Blocks, OpInv, OperationType, SpawnLeave

\* The child comes to life only where there was none.
LEMMA SpawnBackendOkStep ==
  ASSUME Blocks, NEW p \in Pid, SpawnBackendOk(p)
  PROVE  Blocks'
<1> USE DEF SpawnBackendOk
<1>1. Keeps
  BY DEF Keeps, IsReaped, Blocks, OsInv, OsType, SpawnInv, SpawnFresh
<1>2. OsInv'
  BY DEF Blocks, OsInv, OsType, OsState
<1>3. SpawnInv'
  BY DEF Blocks, SpawnInv, SpawnType, SpawnFresh, SpawnPc, OsInv, OsType
<1> QED
  BY <1>1, <1>2, <1>3, Frames DEF Blocks, regVars, opVars, flagVars, spawnVars,
     monVars, callVars, subVars

\* The ends of a spawn worker other than the orphan's.
LEMMA SpawnLeaveSteps ==
  ASSUME Blocks, NEW p \in Pid, SpawnBackendErr(p) \/ SpawnReturn(p)
  PROVE  Blocks'
<1> USE DEF SpawnBackendErr, SpawnReturn
<1>1. Keeps
  BY DEF Keeps, IsReaped, osVars
<1>2. OpInv'
  BY <1>1, SpawnLeaveHolder, HolderType
<1>3. SpawnInv'
  BY DEF Blocks, SpawnInv, SpawnType, SpawnFresh, SpawnPc, SpawnLeave, osVars
<1> QED
  BY <1>1, <1>2, <1>3, Frames DEF Blocks, osVars, regVars, flagVars,
     monVars, callVars, subVars

\* The late check of owners_dropped sweeps or goes on.
LEMMA SpawnCheckOwnersStep ==
  ASSUME Blocks, NEW p \in Pid, SpawnCheckOwners(p)
  PROVE  Blocks'
<1> USE DEF SpawnCheckOwners
<1>1. Keeps
  BY DEF Keeps, IsReaped
<1>2. OsInv'
  BY DEF Blocks, OsInv, OsType, Kill
<1>3. SpawnInv'
  BY DEF Blocks, SpawnInv, SpawnType, SpawnFresh, SpawnPc
<1> QED
  BY <1>1, <1>2, <1>3, Frames DEF Blocks, regVars, opVars, flagVars, spawnVars,
     monVars, callVars, subVars

\* attach_spawned inserts a running process, without exit.
LEMMA SpawnAttachStep ==
  ASSUME Blocks, NEW p \in Pid, SpawnAttach(p)
  PROVE  Blocks'
<1> USE DEF SpawnAttach
<1>1. Keeps
  BY DEF Keeps, IsReaped
<1>2. OsInv'
  BY DEF Blocks, OsInv, OsType, Kill
<1>3. RegInv'
  <2>1. registry \in [Scope -> Scopes] /\ created' = created /\ pending' = pending
        /\ owed' = owed
    BY DEF Blocks, RegInv, RegistryType
  <2>2. CASE UNCHANGED registry
    BY <1>1, <2>1, <2>2, Frames
  <2>3. CASE registry' = [registry EXCEPT ![home[p]] = AttachSpawned(@, p)]
    <3>1. \A s \in Scope :
            /\ registry'[s] \in Scopes
            /\ \A q \in Pid : registry'[s].processes[q].exit
                                \in {registry[s].processes[q].exit, NoExit}
      BY <2>1, <2>3, ScopeMethodTypes
    <3> QED
      BY <1>1, <2>1, <2>3, <3>1 DEF Blocks, RegInv, RegistryType,
         RegistryEvidence, PendingEvidence, Keeps, VerifiedOutcome, NoExit
  <2> QED BY <2>2, <2>3
<1>4. SpawnInv'
  BY DEF Blocks, SpawnInv, SpawnType, SpawnFresh, SpawnPc
<1>5. MonInv'
  BY <1>1 DEF Blocks, MonInv, MonitorType, MonitorEvidence, MonitorReady, MonPc,
     Keeps
<1> QED
  BY <1>1, <1>2, <1>3, <1>4, <1>5, Frames DEF Blocks, opVars, flagVars,
     callVars, subVars

\* backend.wait, whatever it answers, takes no reap back; a success is a reap.
LEMMA WaitOutcome ==
  ASSUME Blocks, NEW p \in Pid, UNCHANGED killSent, WaitOk(p) \/ WaitErr(p)
  PROVE  /\ Keeps /\ OsInv'
         /\ WaitOk(p) => IsReaped(p)'
         /\ \A q \in Pid : os[q] = "None" => os'[q] = "None"
         /\ UNCHANGED <<spawnPc, home>> => SpawnInv'
<1> USE DEF WaitOk, WaitErr
<1>1. OsInv'
  BY BoundsAssumption DEF Blocks, OsInv, OsType, OsState
<1>2. Keeps
  BY DEF Keeps, IsReaped, Blocks, OsInv, OsType
<1>3. WaitOk(p) => IsReaped(p)'
  BY DEF IsReaped, Blocks, OsInv, OsType
<1>4. \A q \in Pid : os[q] = "None" => os'[q] = "None"
  BY DEF Blocks, OsInv, OsType
<1>5. UNCHANGED <<spawnPc, home>> => SpawnInv'
  BY <1>4 DEF Blocks, SpawnInv, SpawnType, SpawnFresh
<1> QED BY <1>1, <1>2, <1>3, <1>4, <1>5

\* kill_orphan: a wait that may reap, never the reverse.
LEMMA SpawnOrphanStep ==
  ASSUME Blocks, NEW p \in Pid, SpawnOrphan(p)
  PROVE  Blocks'
<1> USE DEF SpawnOrphan
<1>1. Keeps /\ OsInv' /\ \A q \in Pid : os[q] = "None" => os'[q] = "None"
  BY WaitOutcome
<1>2. OpInv'
  BY <1>1, SpawnLeaveHolder, HolderType
<1>3. SpawnInv'
  BY <1>1 DEF Blocks, SpawnInv, SpawnType, SpawnFresh, SpawnPc, SpawnLeave
<1> QED
  BY <1>1, <1>2, <1>3, Frames DEF Blocks, regVars, flagVars,
     monVars, callVars, subVars

-----------------------------------------------------------------------------
(* The monitor. *)

\* A monitor that goes on to record an exit has seen the reap.
LEMMA MonitorWaitStep ==
  ASSUME Blocks, NEW p \in Pid, MonitorWait(p)
  PROVE  Blocks'
<1> USE DEF MonitorWait
<1>1. Keeps /\ OsInv' /\ SpawnInv' /\ (WaitOk(p) => IsReaped(p)')
  BY WaitOutcome DEF spawnVars
<1>2. MonInv'
  <2>1. \/ WaitOk(p) /\ monPc' = [monPc EXCEPT ![p] = "record"]
        \/ monPc' = [monPc EXCEPT ![p] = "recordFailed"]
    OBVIOUS
  <2> QED
    BY <1>1, <2>1 DEF Blocks, MonInv, MonitorType, MonitorEvidence,
       MonitorReady, MonPc, Keeps
<1> QED
  BY <1>1, <1>2, Frames DEF Blocks, regVars, opVars, flagVars, callVars, subVars

\* A registry update that introduces no exit but one that is evidence of a
\* reap keeps the registry block.
LEMMA RegistryUpdate ==
  ASSUME Blocks, Keeps, UNCHANGED <<created, owed>>,
         registry' \in [Scope -> Scopes],
         pending' \in [Scope -> Report],
         \A s \in Scope, q \in Pid :
           registry'[s].processes[q].exit \in VerifiedOutcome =>
             registry[s].processes[q].exit \in VerifiedOutcome \/ IsReaped(q)',
         \A s \in Scope, q \in Pid :
           pending'[s][q] \in VerifiedOutcome =>
             pending[s][q] \in VerifiedOutcome \/ IsReaped(q)'
  PROVE  RegInv'
BY DEF Blocks, RegInv, RegistryType, RegistryEvidence, PendingEvidence, Keeps

\* The outcome a monitor records is verified only if its wait succeeded.
LEMMA MonitorOutcomeEvidence ==
  ASSUME Blocks, NEW p \in Pid, monPc[p] \in {"record", "recordFailed"}
  PROVE  /\ MonitorOutcome(p) \in Outcome
         /\ MonitorOutcome(p) \in VerifiedOutcome => IsReaped(p)
<1>1. MonitorOutcome(p) \in Outcome
  BY DEF MonitorOutcome, Outcome, VerifiedOutcome, UnverifiedOutcome
<1>2. monPc[p] = "recordFailed" => MonitorOutcome(p) = "ReapFailed"
  BY DEF MonitorOutcome
<1>3. monPc[p] = "record" => IsReaped(p)
  BY DEF Blocks, MonInv, MonitorReady
<1> QED BY <1>1, <1>2, <1>3 DEF VerifiedOutcome

\* Persisting an outcome for a draining scope.
LEMMA PendingAfterMonitorType ==
  ASSUME Blocks, NEW s \in Scope, NEW p \in Pid, NEW outcome \in Outcome
  PROVE  /\ PendingAfterMonitor(s, p, outcome) \in [Scope -> Report]
         /\ \A t \in Scope, q \in Pid :
              PendingAfterMonitor(s, p, outcome)[t][q] \in
                {pending[t][q]} \cup (IF q = p THEN {outcome} ELSE {})
BY DEF PendingAfterMonitor, Blocks, RegInv, RegistryType, Report, OptOutcome

\* start_monitor records an exit, verified only if its wait reaped.
LEMMA MonitorRecordStep ==
  ASSUME Blocks, NEW p \in Pid, MonitorRecord(p)
  PROVE  Blocks'
<1> DEFINE outcome == MonitorOutcome(p)
<1>1. Keeps
  BY DEF Keeps, IsReaped, osVars, MonitorRecord
<1>2. outcome \in Outcome /\ (outcome \in VerifiedOutcome => IsReaped(p))
  BY MonitorOutcomeEvidence DEF MonitorRecord
<1>3. CASE ~Owned(p)
  <2>1. MonInv'
    BY <1>1, <1>3 DEF MonitorRecord, Blocks, MonInv, MonitorType,
       MonitorEvidence, MonitorReady, MonPc, Keeps
  <2> QED
    BY <1>1, <1>3, <2>1, Frames DEF MonitorRecord, Blocks, osVars, opVars,
       flagVars, spawnVars, callVars, subVars
<1>4. CASE Owned(p)
  <2> DEFINE s == home[p]
             next == RecordReaped(RecordExit(registry[s], p), p, outcome)
  <2>1. s \in Scope /\ registry[s] \in Scopes /\ registry \in [Scope -> Scopes]
    BY <1>4 DEF Owned, Blocks, RegInv, RegistryType
  <2>2. /\ registry' = [registry EXCEPT ![s] = next]
        /\ pending' = PendingAfterMonitor(s, p, outcome)
        /\ monExit' = [monExit EXCEPT ![p] = outcome]
        /\ \E pc \in {"notify", "done"} : monPc' = [monPc EXCEPT ![p] = pc]
        /\ UNCHANGED <<created, owed>>
    BY <1>4, Zenon DEF MonitorRecord
  <2> HIDE DEF outcome, s
  <2>3. /\ RecordExit(registry[s], p) \in Scopes
        /\ \A q \in Pid : RecordExit(registry[s], p).processes[q].exit
                            = registry[s].processes[q].exit
    BY <2>1, ScopeMethodTypes
  <2>4. /\ next \in Scopes
        /\ \A q \in Pid : next.processes[q].exit \in
             {registry[s].processes[q].exit} \cup (IF q = p THEN {outcome} ELSE {})
    BY <1>2, <2>3, RecordReapedType DEF OptOutcome
  <2> HIDE DEF next
  <2>5. IsReaped(p) => IsReaped(p)'
    BY <1>1 DEF Keeps
  <2>6. RegInv'
    <3>1. registry' \in [Scope -> Scopes]
      BY <2>1, <2>2, <2>4
    <3>2. \A t \in Scope, q \in Pid :
            registry'[t].processes[q].exit \in VerifiedOutcome =>
              registry[t].processes[q].exit \in VerifiedOutcome \/ IsReaped(q)'
      BY <1>2, <2>1, <2>2, <2>4, <2>5
    <3>3. /\ pending' \in [Scope -> Report]
          /\ \A t \in Scope, q \in Pid : pending'[t][q] \in
               {pending[t][q]} \cup (IF q = p THEN {outcome} ELSE {})
      BY <1>2, <2>1, <2>2, PendingAfterMonitorType
    <3>4. \A t \in Scope, q \in Pid :
            pending'[t][q] \in VerifiedOutcome =>
              pending[t][q] \in VerifiedOutcome \/ IsReaped(q)'
      BY <1>2, <2>5, <3>3
    <3> QED BY <1>1, <2>2, <3>1, <3>2, <3>3, <3>4, RegistryUpdate
  <2>7. MonInv'
    BY <1>1, <1>2, <2>2, <2>5 DEF Blocks, MonInv, MonitorType, MonitorEvidence,
       MonitorReady, MonPc, Keeps, OptOutcome
  <2> QED
    BY <1>1, <2>6, <2>7, Frames DEF MonitorRecord, Blocks, osVars, opVars,
       flagVars, spawnVars, callVars, subVars
<1> QED BY <1>3, <1>4

\* Publishing an exit that is evidence of a reap, or an unverified one.
LEMMA SignalAllKeeps ==
  ASSUME Blocks, Keeps, NEW p \in Pid, NEW exit \in Outcome,
         exit \in VerifiedOutcome => IsReaped(p),
         SignalAll(p, exit)
  PROVE  /\ HistoryInv'
         /\ subFut' \in [Caller -> [Pid -> Receiver]]
         /\ subObs' \in [Caller -> [Pid -> Receiver]]
         /\ \A c \in Caller, q \in Pid :
              /\ subFut'[c][q] \in VerifiedOutcome => IsReaped(q)'
              /\ subObs'[c][q] \in VerifiedOutcome => IsReaped(q)'
<1>1. HistoryInv'
  <2>1. waiters \in WaiterRecord /\ WaiterEvidence
    BY DEF Blocks, HistoryInv
  <2>2. /\ waiters' \in WaiterRecord
        /\ \A q \in Pid : TryGet(waiters', q) \in
             {TryGet(waiters, q), NoExit} \cup (IF q = p THEN {exit} ELSE {})
    BY <2>1, SignalExitType DEF SignalAll
  <2>3. NoExit \notin VerifiedOutcome
    BY DEF NoExit, VerifiedOutcome
  <2> QED BY <2>1, <2>2, <2>3 DEF HistoryInv, WaiterEvidence, Keeps
<1>2. ASSUME NEW sub \in [Caller -> [Pid -> Receiver]], NEW next,
             \A c \in Caller, q \in Pid : sub[c][q] \in VerifiedOutcome => IsReaped(q),
             next = [c \in Caller |-> [sub[c] EXCEPT ![p] =
                       ReceiverAfter(waiters, p, exit, @)]]
      PROVE  /\ next \in [Caller -> [Pid -> Receiver]]
             /\ \A c \in Caller, q \in Pid :
                  next[c][q] \in VerifiedOutcome => IsReaped(q)'
  <2>1. \A c \in Caller : ReceiverAfter(waiters, p, exit, sub[c][p]) \in {exit, sub[c][p]}
    BY ReceiverAfterValue
  <2>2. \A c \in Caller, q \in Pid :
          next[c][q] = IF q = p THEN ReceiverAfter(waiters, p, exit, sub[c][p])
                       ELSE sub[c][q]
    BY <1>2
  <2>3. exit \in Receiver
    BY DEF Receiver, OptOutcome
  <2>4. next \in [Caller -> [Pid -> Receiver]]
    BY <1>2, <2>1, <2>3
  <2> QED BY <1>2, <2>1, <2>2, <2>4 DEF Keeps
<1>3. /\ subFut \in [Caller -> [Pid -> Receiver]]
      /\ subObs \in [Caller -> [Pid -> Receiver]]
      /\ \A c \in Caller, q \in Pid :
           /\ subFut[c][q] \in VerifiedOutcome => IsReaped(q)
           /\ subObs[c][q] \in VerifiedOutcome => IsReaped(q)
  BY DEF Blocks, SubInv, WorkerType, WorkerEvidence
<1>4. /\ subFut' = [c \in Caller |-> [subFut[c] EXCEPT ![p] =
                      ReceiverAfter(waiters, p, exit, @)]]
      /\ subObs' = [c \in Caller |-> [subObs[c] EXCEPT ![p] =
                      ReceiverAfter(waiters, p, exit, @)]]
  BY DEF SignalAll
<1>5. /\ subFut' \in [Caller -> [Pid -> Receiver]]
      /\ \A c \in Caller, q \in Pid : subFut'[c][q] \in VerifiedOutcome => IsReaped(q)'
  BY <1>2, <1>3, <1>4
<1>6. /\ subObs' \in [Caller -> [Pid -> Receiver]]
      /\ \A c \in Caller, q \in Pid : subObs'[c][q] \in VerifiedOutcome => IsReaped(q)'
  BY <1>2, <1>3, <1>4
<1> QED BY <1>1, <1>5, <1>6

\* WaitNotifierHandler publishes the exit of the monitor's event.
LEMMA MonitorNotifyStep ==
  ASSUME Blocks, NEW p \in Pid, MonitorNotify(p)
  PROVE  Blocks'
<1> USE DEF MonitorNotify
<1>1. Keeps
  BY DEF Keeps, IsReaped, osVars
<1>2. monExit[p] \in Outcome /\ (monExit[p] \in VerifiedOutcome => IsReaped(p))
  BY DEF Blocks, MonInv, MonitorReady, MonitorEvidence
<1>3. HistoryInv' /\ SubInv'
  <2>1. CASE SignalAll(p, monExit[p])
    BY <1>1, <1>2, <2>1, SignalAllKeeps DEF Blocks, SubInv, WorkerType,
       WorkerEvidence, Keeps
  <2>2. CASE UNCHANGED <<waiters, subFut, subObs>>
    BY <1>1, <2>2, Frames DEF subVars
  <2> QED BY <2>1, <2>2
<1>4. MonInv'
  BY <1>1 DEF Blocks, MonInv, MonitorType, MonitorEvidence, MonitorReady, MonPc,
     Keeps
<1> QED
  BY <1>1, <1>3, <1>4, Frames DEF Blocks, osVars, regVars, opVars, flagVars,
     spawnVars, callVars

\* Pruning an entry introduces no exit.
LEMMA PruneKeeps ==
  ASSUME Blocks, Keeps, NEW p \in Pid, UNCHANGED <<created, pending, owed>>,
         registry' = [registry EXCEPT ![home[p]] = Prune(@, p)]
  PROVE  RegInv'
<1>1. /\ registry \in [Scope -> Scopes]
      /\ pending \in [Scope -> Report]
  BY DEF Blocks, RegInv, RegistryType
<1>2. \A s \in Scope :
        /\ registry'[s] \in Scopes
        /\ \A q \in Pid : registry'[s].processes[q].exit
                            \in {registry[s].processes[q].exit, NoExit}
  BY <1>1, ScopeMethodTypes
<1>3. NoExit \notin VerifiedOutcome
  BY DEF NoExit, VerifiedOutcome
<1> QED BY <1>1, <1>2, <1>3, RegistryUpdate

\* RegistryPruneHandler removes an entry: no evidence appears.
LEMMA MonitorPruneStep ==
  ASSUME Blocks, NEW p \in Pid, MonitorPrune(p)
  PROVE  Blocks'
<1> USE DEF MonitorPrune
<1>1. Keeps
  BY DEF Keeps, IsReaped, osVars
<1>2. RegInv'
  BY <1>1, PruneKeeps
<1>3. MonInv'
  BY <1>1 DEF Blocks, MonInv, MonitorType, MonitorEvidence, MonitorReady, MonPc,
     Keeps
<1> QED
  BY <1>1, <1>2, <1>3, Frames DEF Blocks, osVars, opVars, flagVars, spawnVars,
     callVars, subVars

-----------------------------------------------------------------------------
(* terminate and wait. *)

\* A caller that re-observes runs waits only.
LEMMA NotReobserving ==
  ASSUME Blocks, NEW c \in Caller, NEW p \in Pid,
         subPc[c][p] \notin {"idle", "observe", "observing", "done"}
  PROVE  call[c].pc # "reobserve"
BY DEF Blocks, ReadyInv, CallReady

\* A terminate or wait that ends with an outcome for which there is evidence.
LEMMA SubDoneKeeps ==
  ASSUME Blocks, Keeps, NEW c \in Caller, NEW p \in Pid,
         NEW res \in Outcome \cup {Unknown},
         res \in VerifiedOutcome => IsReaped(p)',
         call[c].pc = "reobserve" => res \in Outcome,
         SubDone(c, p, res), UNCHANGED call
  PROVE  SubInv' /\ ReadyInv'
<1>1. /\ subPc \in [Caller -> [Pid -> SubPc]]
      /\ subFut \in [Caller -> [Pid -> Receiver]]
      /\ subObs \in [Caller -> [Pid -> Receiver]]
      /\ subRes \in [Caller -> [Pid -> SubResult]]
  BY DEF Blocks, SubInv, WorkerType
<1>2. /\ "done" \in SubPc /\ Unregistered \in Receiver /\ res \in SubResult
      /\ Unregistered \notin VerifiedOutcome
  BY DEF SubPc, Receiver, SubResult, Unregistered, VerifiedOutcome
<1>3. \A d \in Caller, q \in Pid :
        /\ subPc'[d][q] = IF d = c /\ q = p THEN "done" ELSE subPc[d][q]
        /\ subRes'[d][q] = IF d = c /\ q = p THEN res ELSE subRes[d][q]
        /\ subFut'[d][q] = IF d = c /\ q = p THEN Unregistered ELSE subFut[d][q]
        /\ subObs'[d][q] = IF d = c /\ q = p THEN Unregistered ELSE subObs[d][q]
  BY <1>1 DEF SubDone
<1>4. WorkerType'
  BY <1>1, <1>2 DEF SubDone, WorkerType
<1>5. WorkerEvidence'
  BY <1>2, <1>3 DEF Blocks, SubInv, WorkerEvidence, Keeps
<1>6. WorkerReady'
  BY <1>3 DEF Blocks, ReadyInv, WorkerReady, Keeps
<1>7. CallReady'
  BY <1>3 DEF Blocks, ReadyInv, CallReady
<1> QED BY <1>4, <1>5, <1>6, <1>7 DEF SubInv, ReadyInv

\* A terminate that moves on to a point that needs no result yet.
LEMMA SubMoves ==
  ASSUME Blocks, Keeps, NEW c \in Caller, NEW p \in Pid,
         subPc[c][p] \notin {"idle", "observe", "observing", "done"},
         NEW pc \in {"requested", "grace", "force", "qGrace", "qErr", "qForce",
                     "qRecord"},
         pc = "qRecord" => IsReaped(p)',
         subPc' = [subPc EXCEPT ![c][p] = pc],
         UNCHANGED <<call, subRes>>
  PROVE  /\ ReadyInv'
         /\ UNCHANGED <<subFut, subObs>> => SubInv'
<1>1. /\ subPc \in [Caller -> [Pid -> SubPc]]
      /\ pc \in SubPc
  BY DEF Blocks, SubInv, WorkerType, SubPc
<1>2. \A d \in Caller, q \in Pid :
        subPc'[d][q] = IF d = c /\ q = p THEN pc ELSE subPc[d][q]
  BY <1>1
<1>3. subPc' \in [Caller -> [Pid -> SubPc]]
  BY <1>1
<1>4. call[c].pc # "reobserve"
  BY NotReobserving
<1>5. WorkerReady'
  BY <1>2 DEF Blocks, ReadyInv, WorkerReady, Keeps
<1>6. CallReady'
  BY <1>2, <1>4 DEF Blocks, ReadyInv, CallReady
<1>7. UNCHANGED <<subFut, subObs>> => SubInv'
  BY <1>3 DEF Blocks, SubInv, WorkerType, WorkerEvidence, Keeps
<1> QED BY <1>5, <1>6, <1>7 DEF ReadyInv

\* A receiver that is taken anew, or given up, holds evidence or nothing.
LEMMA ReceiverMoves ==
  ASSUME Blocks, Keeps, NEW c \in Caller, NEW p \in Pid,
         NEW fut \in Receiver, fut \in VerifiedOutcome => IsReaped(p)',
         NEW obs \in Receiver, obs \in VerifiedOutcome => IsReaped(p)',
         subPc' \in [Caller -> [Pid -> SubPc]], UNCHANGED subRes,
         subFut' \in {subFut, [subFut EXCEPT ![c][p] = fut]},
         subObs' \in {subObs, [subObs EXCEPT ![c][p] = obs]}
  PROVE  SubInv'
<1>1. /\ subFut \in [Caller -> [Pid -> Receiver]]
      /\ subObs \in [Caller -> [Pid -> Receiver]]
      /\ subRes \in [Caller -> [Pid -> SubResult]]
  BY DEF Blocks, SubInv, WorkerType
<1>2. \A d \in Caller, q \in Pid :
        /\ subFut'[d][q] \in {subFut[d][q]} \cup (IF d = c /\ q = p THEN {fut} ELSE {})
        /\ subObs'[d][q] \in {subObs[d][q]} \cup (IF d = c /\ q = p THEN {obs} ELSE {})
  BY <1>1
<1>3. WorkerType'
  <2>1. [subFut EXCEPT ![c][p] = fut] \in [Caller -> [Pid -> Receiver]]
    BY <1>1
  <2>2. [subObs EXCEPT ![c][p] = obs] \in [Caller -> [Pid -> Receiver]]
    BY <1>1
  <2> QED BY <1>1, <2>1, <2>2 DEF WorkerType
<1>4. WorkerEvidence'
  BY <1>2 DEF Blocks, SubInv, WorkerEvidence, Keeps
<1> QED BY <1>3, <1>4 DEF SubInv

\* What the history answers is an exit with evidence, or nothing.
LEMMA HistoryAnswer ==
  ASSUME Blocks, NEW p \in Pid
  PROVE  /\ TryGet(waiters, p) \in OptOutcome
         /\ TryGet(waiters, p) \in VerifiedOutcome => IsReaped(p)
         /\ TryGet(waiters, p) \in Receiver
BY WaitSlotType DEF Blocks, HistoryInv, WaiterEvidence, Receiver

\* What the registry records for an owned process.
LEMMA RegistryAnswer ==
  ASSUME Blocks, NEW p \in Pid, Owned(p)
  PROVE  /\ home[p] \in Scope /\ registry[home[p]] \in Scopes
         /\ RecordedExit(p) \in OptOutcome
         /\ RecordedExit(p) \in VerifiedOutcome => IsReaped(p)
<1>1. home[p] \in Scope /\ registry[home[p]] \in Scopes
  BY DEF Owned, Blocks, RegInv, RegistryType
<1>2. registry[home[p]].processes[p] \in Process
  BY <1>1 DEF Scopes
<1> QED
  BY <1>1, <1>2 DEF RecordedExit, Process, Blocks, RegInv, RegistryEvidence

\* An answer that terminate or wait finds at once has evidence.
LEMMA LookupAnswers ==
  ASSUME Blocks, NEW p \in Pid
  PROVE  /\ TerminateLookup(p) \in OptOutcome \cup {Unknown}
         /\ TerminateLookup(p) \in VerifiedOutcome => IsReaped(p)
         /\ TerminateLookup(p) = NoExit => Owned(p)
         /\ WaitLookup(p) \in OptOutcome \cup {Unknown}
         /\ WaitLookup(p) \in VerifiedOutcome => IsReaped(p)
<1>2. /\ Unknown \notin VerifiedOutcome /\ NoExit \notin VerifiedOutcome
      /\ Unknown # NoExit
  BY DEF Unknown, VerifiedOutcome, NoExit
<1>3. \/ TerminateLookup(p) \in {TryGet(waiters, p), Unknown}
      \/ Owned(p) /\ TerminateLookup(p) \in {RecordedExit(p), NoExit}
  BY DEF TerminateLookup
<1>4. \/ WaitLookup(p) \in {TryGet(waiters, p), Unknown}
      \/ Owned(p) /\ WaitLookup(p) = RecordedExit(p)
  BY DEF WaitLookup
<1>5. TerminateLookup(p) = NoExit => Owned(p)
  BY <1>2 DEF TerminateLookup
<1> QED
  BY <1>2, <1>3, <1>4, <1>5, HistoryAnswer, RegistryAnswer DEF OptOutcome

\* A kill, or its failure, reaps nothing and takes no reap back.
LEMMA KillKeeps ==
  ASSUME Blocks, UNCHANGED os,
         \/ \E p \in Pid : KillOrFail(p)
         \/ UNCHANGED faults /\ \E ps \in SUBSET Pid : Kill(ps)
  PROVE  OsInv' /\ Keeps
<1>1. Keeps
  BY DEF Keeps, IsReaped
<1>2. killSent' \in SUBSET Pid /\ faults' \in 0..MaxFaults
  BY BoundsAssumption DEF Blocks, OsInv, OsType, KillOrFail, Kill
<1> QED
  BY <1>1, <1>2 DEF Blocks, OsInv, OsType

\* terminate: an early answer, or a request and a fresh receiver.
LEMMA TerminateStartStep ==
  ASSUME Blocks, NEW c \in Caller, NEW p \in Pid, TerminateStart(c, p)
  PROVE  Blocks'
<1>1. /\ Keeps
      /\ subPc[c][p] = "start"
      /\ UNCHANGED <<osVars, faults, created, pending, opVars, flagVars,
                     spawnVars, monVars, callVars, owed>>
  BY DEF TerminateStart, Keeps, IsReaped, osVars
<1>2. /\ TerminateLookup(p) \in OptOutcome \cup {Unknown}
      /\ TerminateLookup(p) \in VerifiedOutcome => IsReaped(p)'
  BY <1>1, LookupAnswers DEF Keeps
<1>3. CASE TerminateLookup(p) # NoExit
  <2>1. TerminateLookup(p) \in Outcome \cup {Unknown}
    BY <1>2, <1>3 DEF OptOutcome
  <2>2. call[c].pc # "reobserve"
    BY <1>1, NotReobserving
  <2>3. SubInv' /\ ReadyInv'
    BY <1>1, <1>2, <1>3, <2>1, <2>2, SubDoneKeeps DEF TerminateStart, callVars
  <2> QED
    BY <1>1, <1>3, <2>3, Frames DEF TerminateStart, Blocks, osVars, opVars,
       flagVars, spawnVars, monVars, callVars
<1>4. CASE TerminateLookup(p) = NoExit
  <2>1. /\ registry' = [registry EXCEPT ![home[p]] = RequestTermination(@, p)]
        /\ waiters' = WaitSlot(waiters, p)
        /\ UNCHANGED <<subObs, subRes>>
        /\ \/ /\ subPc' = [subPc EXCEPT ![c][p] = "requested"]
              /\ subFut' = [subFut EXCEPT ![c][p] = TryGet(waiters, p)]
           \/ /\ subPc' = [subPc EXCEPT ![c][p] = "qGrace"]
              /\ UNCHANGED subFut
    BY <1>4 DEF TerminateStart
  <2>2. home[p] \in Scope /\ registry[home[p]] \in Scopes
    BY <1>4, LookupAnswers, RegistryAnswer
  <2>3. RegInv'
    <3>1. registry \in [Scope -> Scopes] /\ pending \in [Scope -> Report]
      BY DEF Blocks, RegInv, RegistryType
    <3>2. \A s \in Scope :
            /\ registry'[s] \in Scopes
            /\ \A q \in Pid : registry'[s].processes[q].exit
                                = registry[s].processes[q].exit
      BY <2>1, <2>2, <3>1, ScopeMethodTypes
    <3> QED BY <1>1, <2>1, <3>1, <3>2, RegistryUpdate
  <2>4. HistoryInv'
    <3>1. waiters \in WaiterRecord /\ NoExit \notin VerifiedOutcome
      BY DEF Blocks, HistoryInv, NoExit, VerifiedOutcome
    <3> QED
      BY <1>1, <2>1, <3>1, WaitSlotType DEF Blocks, HistoryInv, WaiterEvidence,
         Keeps
  <2>5. ReadyInv'
    BY <1>1, <2>1, SubMoves DEF callVars
  <2>6. SubInv'
    <3>1. subPc' \in [Caller -> [Pid -> SubPc]]
      <4>1. \A pc \in SubPc :
              [subPc EXCEPT ![c][p] = pc] \in [Caller -> [Pid -> SubPc]]
        BY DEF Blocks, SubInv, WorkerType
      <4> QED BY <2>1, <4>1 DEF SubPc
    <3>2. /\ TryGet(waiters, p) \in Receiver
          /\ TryGet(waiters, p) \in VerifiedOutcome => IsReaped(p)'
      BY <1>1, HistoryAnswer DEF Keeps
    <3> QED BY <1>1, <2>1, <3>1, <3>2, ReceiverMoves
  <2> QED
    BY <1>1, <2>3, <2>4, <2>5, <2>6, Frames DEF Blocks, osVars, opVars,
       flagVars, spawnVars, monVars, callVars
<1> QED BY <1>3, <1>4

\* The steps of terminate that leave the registry and the waiters alone.
LEMMA TerminateQuietSteps ==
  ASSUME Blocks, NEW c \in Caller, NEW p \in Pid,
         \/ TerminateRequested(c, p) \/ TerminateObserved(c, p)
         \/ TerminateTimeout(c, p) \/ RetryTimeout(c, p)
         \/ WorkerObserve(c, p) \/ WaitObserved(c, p) \/ ReobserveTimeout(c, p)
  PROVE  Blocks'
<1>1. /\ Keeps
      /\ UNCHANGED <<osVars, faults, regVars, waiters, opVars, flagVars,
                     spawnVars, monVars, callVars, owed>>
  BY DEF TerminateRequested, TerminateObserved, TerminateTimeout, RetryTimeout,
     WorkerObserve, WaitObserved, ReobserveTimeout, Keeps, IsReaped, osVars
<1>2. /\ Unregistered \in Receiver /\ Unregistered \notin VerifiedOutcome
      /\ "WaitTimedOut" \in Outcome /\ "WaitTimedOut" \notin VerifiedOutcome
  BY DEF Receiver, Unregistered, Outcome, UnverifiedOutcome, VerifiedOutcome
<1>3. /\ subFut[c][p] \in VerifiedOutcome => IsReaped(p)'
      /\ subObs[c][p] \in VerifiedOutcome => IsReaped(p)'
      /\ subRes[c][p] \in VerifiedOutcome => IsReaped(p)'
      /\ TryGet(waiters, p) \in VerifiedOutcome => IsReaped(p)'
  BY <1>1, HistoryAnswer DEF Blocks, SubInv, WorkerEvidence, Keeps
<1>4. VerifiedOutcome \subseteq Outcome
  BY DEF Outcome
<1>5. SubInv' /\ ReadyInv'
  <2>1. CASE TerminateRequested(c, p)
    <3>1. CASE TryGet(waiters, p) \in VerifiedOutcome /\ SubDone(c, p, TryGet(waiters, p))
      BY <1>1, <1>3, <1>4, <3>1, SubDoneKeeps DEF callVars
    <3>2. CASE /\ subPc' = [subPc EXCEPT ![c][p] = "qGrace"]
               /\ subFut' = [subFut EXCEPT ![c][p] = Unregistered]
               /\ UNCHANGED <<subObs, subRes>>
      <4>1. subPc' \in [Caller -> [Pid -> SubPc]]
        BY <3>2 DEF Blocks, SubInv, WorkerType, SubPc
      <4>2. SubInv'
        BY <1>1, <1>2, <3>2, <4>1, ReceiverMoves
      <4> QED BY <1>1, <2>1, <3>2, <4>2, SubMoves DEF TerminateRequested, callVars
    <3>3. CASE SubStep(c, p, "grace")
      BY <1>1, <2>1, <3>3, SubMoves DEF TerminateRequested, SubStep, callVars
    <3> QED BY <2>1, <3>1, <3>2, <3>3 DEF TerminateRequested
  <2>2. CASE TerminateObserved(c, p) \/ WaitObserved(c, p)
    BY <1>1, <1>3, <2>2, SubDoneKeeps DEF TerminateObserved, WaitObserved, callVars
  <2>3. CASE TerminateTimeout(c, p) \/ RetryTimeout(c, p)
    BY <1>1, <1>2, <2>3, SubDoneKeeps DEF TerminateTimeout, RetryTimeout, callVars
  <2>4. CASE WorkerObserve(c, p)
    <3>1. CASE subObs[c][p] \in VerifiedOutcome
      BY <1>1, <1>3, <1>4, <2>4, <3>1, SubDoneKeeps DEF WorkerObserve, callVars
    <3>2. CASE subObs[c][p] \notin VerifiedOutcome
      <4>1. /\ subObs' = [subObs EXCEPT ![c][p] = Unregistered]
            /\ UNCHANGED <<subPc, subFut, subRes>>
        BY <2>4, <3>2 DEF WorkerObserve
      <4>2. subPc' \in [Caller -> [Pid -> SubPc]]
        BY <4>1 DEF Blocks, SubInv, WorkerType
      <4>3. SubInv'
        BY <1>1, <1>2, <4>1, <4>2, ReceiverMoves
      <4> QED BY <1>1, <4>1, <4>3, Frames DEF callVars
    <3> QED BY <3>1, <3>2
  <2>5. CASE ReobserveTimeout(c, p)
    <3>1. subRes[c][p] \in Outcome
      BY <2>5 DEF ReobserveTimeout, Blocks, ReadyInv, WorkerReady
    <3> QED BY <1>1, <1>3, <2>5, <3>1, SubDoneKeeps DEF ReobserveTimeout, callVars
  <2> QED BY <2>1, <2>2, <2>3, <2>4, <2>5
<1> QED
  BY <1>1, <1>5, Frames DEF Blocks, osVars, regVars, opVars, flagVars,
     spawnVars, monVars, callVars

\* Escalation changes no exit.
LEMMA TerminateForceStep ==
  ASSUME Blocks, NEW c \in Caller, NEW p \in Pid, TerminateForce(c, p)
  PROVE  Blocks'
<1> USE DEF TerminateForce
<1>1. OsInv' /\ Keeps
  BY KillKeeps
<1>2. RegInv'
  <2>1. registry \in [Scope -> Scopes] /\ pending \in [Scope -> Report]
    BY DEF Blocks, RegInv, RegistryType
  <2>2. \A s \in Scope :
          /\ registry'[s] \in Scopes
          /\ \A q \in Pid : registry'[s].processes[q].exit
                              = registry[s].processes[q].exit
    BY <2>1, ScopeMethodTypes
  <2> QED BY <1>1, <2>1, <2>2, RegistryUpdate
<1>3. SubInv' /\ ReadyInv'
  BY <1>1, SubMoves DEF SubStep, callVars
<1> QED
  BY <1>1, <1>2, <1>3, Frames DEF Blocks, opVars, flagVars, spawnVars, monVars,
     callVars

\* A fresh wait of retry_quarantined: only its success is a reap.
LEMMA RetryWaitStep ==
  ASSUME Blocks, NEW c \in Caller, NEW p \in Pid, RetryWait(c, p)
  PROVE  Blocks'
<1> USE DEF RetryWait
<1>1. Keeps /\ OsInv' /\ SpawnInv' /\ (WaitOk(p) => IsReaped(p)')
  BY WaitOutcome DEF spawnVars
<1>2. SubInv' /\ ReadyInv'
  <2>1. CASE subPc[c][p] \in {"qGrace", "qForce"} /\ WaitOk(p) /\ SubStep(c, p, "qRecord")
    BY <1>1, <2>1, SubMoves DEF SubStep, callVars
  <2>2. CASE subPc[c][p] = "qGrace" /\ SubStep(c, p, "qErr")
    BY <1>1, <2>2, SubMoves DEF SubStep, callVars
  <2>3. CASE subPc[c][p] = "qForce" /\ SubDone(c, p, "ReapFailed")
    <3>1. "ReapFailed" \in Outcome /\ "ReapFailed" \notin VerifiedOutcome
      BY DEF Outcome, UnverifiedOutcome, VerifiedOutcome
    <3> QED BY <1>1, <2>3, <3>1, SubDoneKeeps DEF callVars
  <2> QED BY <2>1, <2>2, <2>3
<1> QED
  BY <1>1, <1>2, Frames DEF Blocks, regVars, opVars, flagVars, monVars, callVars

\* The forced signal of retry_quarantined.
LEMMA RetryForceStep ==
  ASSUME Blocks, NEW c \in Caller, NEW p \in Pid, RetryForce(c, p)
  PROVE  Blocks'
<1> USE DEF RetryForce
<1>1. OsInv' /\ Keeps
  BY KillKeeps
<1>2. SubInv' /\ ReadyInv'
  BY <1>1, SubMoves DEF SubStep, callVars
<1> QED
  BY <1>1, <1>2, Frames DEF Blocks, regVars, opVars, flagVars, spawnVars,
     monVars, callVars

\* record_recovered_exit records and publishes the exit of a reaped process.
LEMMA RetryRecordStep ==
  ASSUME Blocks, NEW c \in Caller, NEW p \in Pid, RetryRecord(c, p)
  PROVE  Blocks'
<1> DEFINE s       == home[p]
           known   == IF Owned(p) THEN RecordedExit(p) ELSE NoExit
           outcome == IF RawKilled(p) THEN "ForcedRequired" ELSE "GracefulSuccess"
           exit    == IF known \in VerifiedOutcome THEN known ELSE outcome
           records == Owned(p) /\ known \notin VerifiedOutcome
           res     == IF call[c].pc = "idle" THEN "None" ELSE exit
           pc      == IF call[c].pc = "idle" THEN "idle"
                      ELSE IF records THEN "qNotify" ELSE "qDone"
<1>1. /\ Keeps
      /\ subPc[c][p] = "qRecord"
      /\ IF records
         THEN /\ registry' = [registry EXCEPT ![s] = RecordReaped(@, p, exit)]
              /\ pending' = PendingAfterMonitor(s, p, exit)
         ELSE UNCHANGED <<registry, pending>>
      /\ SignalAll(p, exit)
      /\ subRes' = [subRes EXCEPT ![c][p] = res]
      /\ subPc' = [subPc EXCEPT ![c][p] = pc]
      /\ UNCHANGED <<osVars, faults, created, opVars, flagVars, spawnVars,
                     monVars, callVars, owed>>
  BY DEF RetryRecord, Keeps, IsReaped, osVars
<1>2. exit \in VerifiedOutcome /\ exit \in Outcome
  BY DEF VerifiedOutcome, Outcome
<1>3. records => Owned(p)
  OBVIOUS
<1>4. /\ pc \in {"idle", "qNotify", "qDone"} /\ res \in {"None", exit}
      /\ pc # "idle" => res = exit
  OBVIOUS
<1> HIDE DEF exit, records, res, pc
<1>5. IsReaped(p) /\ IsReaped(p)'
  BY <1>1 DEF Blocks, ReadyInv, WorkerReady, Keeps
<1>6. RegInv'
  <2>1. CASE ~records
    BY <1>1, <2>1, Frames
  <2>2. CASE records
    <3>1. s \in Scope /\ registry[s] \in Scopes /\ registry \in [Scope -> Scopes]
      BY <1>3, <2>2, RegistryAnswer DEF Blocks, RegInv, RegistryType
    <3> HIDE DEF s
    <3>2. /\ RecordReaped(registry[s], p, exit) \in Scopes
          /\ \A q \in Pid : RecordReaped(registry[s], p, exit).processes[q].exit \in
               {registry[s].processes[q].exit} \cup (IF q = p THEN {exit} ELSE {})
      BY <1>2, <3>1, RecordReapedType DEF OptOutcome
    <3>3. /\ registry' \in [Scope -> Scopes]
          /\ \A t \in Scope, q \in Pid :
               registry'[t].processes[q].exit \in VerifiedOutcome =>
                 registry[t].processes[q].exit \in VerifiedOutcome \/ IsReaped(q)'
      BY <1>1, <1>5, <2>2, <3>1, <3>2
    <3>4. /\ pending' \in [Scope -> Report]
          /\ \A t \in Scope, q \in Pid :
               pending'[t][q] \in VerifiedOutcome =>
                 pending[t][q] \in VerifiedOutcome \/ IsReaped(q)'
      <4>1. /\ pending' \in [Scope -> Report]
            /\ \A t \in Scope, q \in Pid : pending'[t][q] \in
                 {pending[t][q]} \cup (IF q = p THEN {exit} ELSE {})
        BY <1>1, <1>2, <2>2, <3>1, PendingAfterMonitorType
      <4> QED BY <1>5, <4>1
    <3> QED BY <1>1, <3>3, <3>4, RegistryUpdate
  <2> QED BY <2>1, <2>2
<1>7. /\ HistoryInv'
      /\ subFut' \in [Caller -> [Pid -> Receiver]]
      /\ subObs' \in [Caller -> [Pid -> Receiver]]
      /\ \A d \in Caller, q \in Pid :
           /\ subFut'[d][q] \in VerifiedOutcome => IsReaped(q)'
           /\ subObs'[d][q] \in VerifiedOutcome => IsReaped(q)'
  BY <1>1, <1>2, <1>5, SignalAllKeeps
<1>8. /\ subPc' \in [Caller -> [Pid -> SubPc]]
      /\ subRes' \in [Caller -> [Pid -> SubResult]]
      /\ \A d \in Caller, q \in Pid :
           /\ subPc'[d][q] = IF d = c /\ q = p THEN pc ELSE subPc[d][q]
           /\ subRes'[d][q] = IF d = c /\ q = p THEN res ELSE subRes[d][q]
  <2>1. pc \in SubPc /\ res \in SubResult
    BY <1>2, <1>4 DEF SubPc, SubResult
  <2> QED BY <1>1, <2>1 DEF Blocks, SubInv, WorkerType
<1>9. SubInv'
  BY <1>1, <1>4, <1>5, <1>7, <1>8 DEF Blocks, SubInv, WorkerType, WorkerEvidence, Keeps,
     VerifiedOutcome
<1>10. ReadyInv'
  <2>1. call[c].pc # "reobserve" /\ UNCHANGED call
    BY <1>1, NotReobserving DEF callVars
  <2>2. WorkerReady'
    BY <1>1, <1>2, <1>4, <1>8, <2>1 DEF Blocks, ReadyInv, WorkerReady, Keeps
  <2>3. CallReady'
    BY <1>8, <2>1 DEF Blocks, ReadyInv, CallReady
  <2> QED BY <2>2, <2>3 DEF ReadyInv
<1> QED
  BY <1>1, <1>6, <1>7, <1>9, <1>10, Frames DEF Blocks, osVars, opVars, flagVars,
     spawnVars, monVars, callVars

\* The dispatch of the correction: the second notification, then the prune.
LEMMA RetryNotifyStep ==
  ASSUME Blocks, NEW c \in Caller, NEW p \in Pid, RetryNotify(c, p)
  PROVE  Blocks'
<1> USE DEF RetryNotify
<1>1. Keeps
  BY DEF Keeps, IsReaped, osVars
<1>2. subRes[c][p] \in Outcome /\ (subRes[c][p] \in VerifiedOutcome => IsReaped(p))
  BY DEF Blocks, ReadyInv, WorkerReady, SubInv, WorkerEvidence
<1>3. HistoryInv' /\ SubInv'
  <2>1. subPc' \in [Caller -> [Pid -> SubPc]]
    BY DEF Blocks, SubInv, WorkerType, SubPc
  <2> QED
    BY <1>1, <1>2, <2>1, SignalAllKeeps DEF Blocks, SubInv, WorkerType,
       WorkerEvidence, Keeps
<1>4. ReadyInv'
  <2>1. call[c].pc # "reobserve" /\ UNCHANGED call
    BY NotReobserving DEF callVars
  <2>2. \A d \in Caller, q \in Pid :
          subPc'[d][q] = IF d = c /\ q = p THEN "qPrune" ELSE subPc[d][q]
    BY DEF Blocks, SubInv, WorkerType
  <2>3. WorkerReady'
    BY <1>1, <1>2, <2>1, <2>2 DEF Blocks, ReadyInv, WorkerReady, Keeps
  <2>4. CallReady'
    BY <2>1, <2>2 DEF Blocks, ReadyInv, CallReady
  <2> QED BY <2>3, <2>4 DEF ReadyInv
<1> QED
  BY <1>1, <1>3, <1>4, Frames DEF Blocks, osVars, regVars, opVars, flagVars,
     spawnVars, monVars, callVars

\* The end of record_recovered_exit.
LEMMA RetryPruneStep ==
  ASSUME Blocks, NEW c \in Caller, NEW p \in Pid, RetryPrune(c, p)
  PROVE  Blocks'
<1> USE DEF RetryPrune
<1>1. Keeps
  BY DEF Keeps, IsReaped, osVars
<1>2. RegInv'
  <2>1. CASE UNCHANGED registry
    BY <1>1, <2>1, Frames
  <2>2. CASE registry' = [registry EXCEPT ![home[p]] = Prune(@, p)]
    BY <1>1, <2>2, PruneKeeps
  <2> QED BY <2>1, <2>2
<1>3. subRes[c][p] \in Outcome /\ (subRes[c][p] \in VerifiedOutcome => IsReaped(p)')
  BY <1>1 DEF Blocks, ReadyInv, WorkerReady, SubInv, WorkerEvidence, Keeps
<1>4. SubInv' /\ ReadyInv'
  BY <1>1, <1>3, SubDoneKeeps DEF callVars
<1> QED
  BY <1>1, <1>2, <1>4, Frames DEF Blocks, osVars, opVars, flagVars, spawnVars,
     monVars, callVars

\* wait: an answer at once, or a receiver.
LEMMA WaitStartStep ==
  ASSUME Blocks, NEW c \in Caller, NEW p \in Pid, WaitStart(c, p)
  PROVE  Blocks'
<1>1. /\ Keeps
      /\ subPc[c][p] = "observe"
      /\ UNCHANGED <<osVars, faults, regVars, opVars, flagVars, spawnVars,
                     monVars, callVars, owed>>
  BY DEF WaitStart, Keeps, IsReaped, osVars
<1>2. /\ WaitLookup(p) \in OptOutcome \cup {Unknown}
      /\ WaitLookup(p) \in VerifiedOutcome => IsReaped(p)'
  BY <1>1, LookupAnswers DEF Keeps
<1>3. /\ subRes[c][p] \in VerifiedOutcome => IsReaped(p)'
      /\ call[c].op # "wait" => subRes[c][p] \in Outcome
      /\ call[c].pc = "reobserve" => call[c].op # "wait"
  BY <1>1 DEF Blocks, ReadyInv, WorkerReady, CallReady, SubInv, WorkerEvidence,
     Keeps, CallPc
<1>4. CASE WaitLookup(p) # NoExit
  <2> DEFINE res == IF WaitLookup(p) = Unknown /\ call[c].op # "wait"
                    THEN subRes[c][p] ELSE WaitLookup(p)
  <2>1. /\ SubDone(c, p, res)
        /\ UNCHANGED waiters
    BY <1>4 DEF WaitStart
  <2>2. /\ res \in Outcome \cup {Unknown}
        /\ res \in VerifiedOutcome => IsReaped(p)'
        /\ call[c].pc = "reobserve" => res \in Outcome
    BY <1>2, <1>3, <1>4 DEF OptOutcome
  <2> HIDE DEF res
  <2>3. SubInv' /\ ReadyInv'
    BY <1>1, <2>1, <2>2, SubDoneKeeps DEF callVars
  <2> QED
    BY <1>1, <2>1, <2>3, Frames DEF Blocks, osVars, regVars, opVars, flagVars,
       spawnVars, monVars, callVars
<1>5. CASE WaitLookup(p) = NoExit
  <2>1. /\ waiters' = WaitSlot(waiters, p)
        /\ subFut' = [subFut EXCEPT ![c][p] = TryGet(waiters, p)]
        /\ subPc' = [subPc EXCEPT ![c][p] = "observing"]
        /\ UNCHANGED <<subObs, subRes>>
    BY <1>5 DEF WaitStart
  <2>2. HistoryInv'
    <3>1. waiters \in WaiterRecord /\ NoExit \notin VerifiedOutcome
      BY DEF Blocks, HistoryInv, NoExit, VerifiedOutcome
    <3> QED
      BY <1>1, <2>1, <3>1, WaitSlotType DEF Blocks, HistoryInv, WaiterEvidence,
         Keeps
  <2>3. /\ subPc' \in [Caller -> [Pid -> SubPc]]
        /\ \A d \in Caller, q \in Pid :
             subPc'[d][q] = IF d = c /\ q = p THEN "observing" ELSE subPc[d][q]
    BY <2>1 DEF Blocks, SubInv, WorkerType, SubPc
  <2>4. SubInv'
    <3>1. /\ TryGet(waiters, p) \in Receiver
          /\ TryGet(waiters, p) \in VerifiedOutcome => IsReaped(p)'
      BY <1>1, HistoryAnswer DEF Keeps
    <3> QED BY <1>1, <2>1, <2>3, <3>1, ReceiverMoves
  <2>5. WorkerReady'
    BY <1>1, <2>1, <2>3 DEF Blocks, ReadyInv, WorkerReady, Keeps, callVars
  <2>6. CallReady'
    BY <1>1, <2>1, <2>3 DEF Blocks, ReadyInv, CallReady, callVars
  <2> QED
    BY <1>1, <2>2, <2>4, <2>5, <2>6, Frames DEF Blocks, ReadyInv, osVars,
       regVars, opVars, flagVars, spawnVars, monVars, callVars
<1> QED BY <1>4, <1>5

-----------------------------------------------------------------------------
(* terminate_scope, shutdown, cancellation and drop. *)

\* A caller moves on inside its call.
LEMMA GotoCall ==
  ASSUME Blocks, NEW c \in Caller, NEW pc \in CallPc, Goto(c, pc)
  PROVE  /\ call' \in [Caller -> CallRecord]
         /\ \A d \in Caller :
              /\ call'[d].op = call[d].op
              /\ call'[d].scope = call[d].scope
              /\ call'[d].pc = IF d = c THEN pc ELSE call[d].pc
<1>1. call \in [Caller -> CallRecord]
  BY DEF Blocks, CallInv, CallType
<1>2. \A d \in Caller : call[d] \in CallRecord
  BY <1>1
<1>3. [call[c] EXCEPT !.pc = pc] \in CallRecord
  BY <1>2 DEF CallRecord
<1>4. call' = [call EXCEPT ![c] = [call[c] EXCEPT !.pc = pc]]
  BY <1>1 DEF Goto
<1> QED BY <1>1, <1>2, <1>3, <1>4 DEF CallRecord

\* Where a caller is: its scope is a scope, or none.
LEMMA CallScope ==
  ASSUME Blocks, NEW c \in Caller
  PROVE  /\ call[c] \in CallRecord
         /\ call[c].scope \in Scope \cup {NoScope}
         /\ call[c].op \in CallKind \cup {"none"}
         /\ call[c].pc \in CallPc
         /\ call[c].pc \in ScopePc => call[c].scope \in Scope
BY DEF Blocks, CallInv, CallType, CallRecord, CallScoped

\* A step that only ends workers, and enters no re-observation, leaves every
\* worker's result where it is used.
LEMMA ReadyShrinks ==
  ASSUME Blocks, Keeps,
         \A d \in Caller, q \in Pid :
           \/ subPc'[d][q] = subPc[d][q] /\ subRes'[d][q] = subRes[d][q]
           \/ subPc'[d][q] = "idle"
           \/ subPc'[d][q] = "qRecord" /\ subPc[d][q] = "qRecord",
         \A d \in Caller :
           \/ call'[d].op = call[d].op
           \/ \A q \in Pid : subPc'[d][q] \in {"idle", "qRecord"},
         \A d \in Caller :
           call'[d].pc \in CallPc \ {"idle", "single", "done"} =>
             call'[d].op \in {"terminate_scope", "shutdown"},
         \A d \in Caller :
           call'[d].pc = "reobserve" => call[d].pc = "reobserve"
  PROVE  ReadyInv'
<1>1. WorkerReady'
  BY DEF Blocks, ReadyInv, WorkerReady, Keeps
<1>2. CallReady'
  BY DEF Blocks, ReadyInv, CallReady
<1> QED BY <1>1, <1>2 DEF ReadyInv

\* The same for a step of one caller within its call.
LEMMA GotoReady ==
  ASSUME Blocks, Keeps, NEW c \in Caller, NEW pc \in CallPc \ {"reobserve"},
         Goto(c, pc),
         pc \in {"done", "single"} \/ call[c].op \in {"terminate_scope", "shutdown"},
         \A d \in Caller, q \in Pid :
           \/ subPc'[d][q] = subPc[d][q] /\ subRes'[d][q] = subRes[d][q]
           \/ subPc'[d][q] = "idle"
  PROVE  ReadyInv'
<1>1. \A d \in Caller :
        /\ call'[d].op = call[d].op
        /\ call'[d].pc = IF d = c THEN pc ELSE call[d].pc
  BY GotoCall
<1>2. \A d \in Caller :
        call'[d].pc \in CallPc \ {"idle", "single", "done"} =>
          call'[d].op \in {"terminate_scope", "shutdown"}
  BY <1>1 DEF Blocks, ReadyInv, CallReady
<1> QED BY <1>1, <1>2, ReadyShrinks

\* A caller that moves on keeps what its last call returned.
LEMMA GotoKeeps ==
  ASSUME Blocks, Keeps, NEW c \in Caller, NEW pc \in CallPc, Goto(c, pc),
         pc \in ScopePc => call[c].pc \in ScopePc,
         UNCHANGED <<result, report>>,
         todo' \in [Caller -> SUBSET Scope],
         shutdownSerial' \in Caller \cup {NoTask}
  PROVE  CallInv'
BY GotoCall DEF Blocks, CallInv, CallType, ReturnedEvidence, CallScoped, Keeps

\* A terminate_scope_operation returns a report that is evidence.
LEMMA ReturnKeeps ==
  ASSUME Blocks, Keeps, NEW c \in Caller,
         NEW res \in {"Report", "UnknownScope", "Error"}, NEW rep \in Report,
         \A p \in Pid : rep[p] \in VerifiedOutcome => IsReaped(p)',
         Return(c, res, rep),
         UNCHANGED <<todo, shutdownSerial>>
  PROVE  /\ CallInv'
         /\ (\A d \in Caller, q \in Pid :
               \/ subPc'[d][q] = subPc[d][q] /\ subRes'[d][q] = subRes[d][q]
               \/ subPc'[d][q] = "idle") => ReadyInv'
<1>1. {"next", "done"} \subseteq CallPc \ {"reobserve"}
  BY DEF CallPc
<1>2. \/ Goto(c, "next") /\ call[c].op = "shutdown"
      \/ Goto(c, "done")
  BY DEF Return
<1>3. call' \in [Caller -> CallRecord]
  BY <1>1, <1>2, GotoCall
<1>4. result' \in [Caller -> CallResult] /\ report' \in [Caller -> Report]
  <2>1. {"Report", "UnknownScope", "Error", "Unverified"} \subseteq CallResult
    BY DEF CallResult
  <2> QED BY <2>1 DEF Return, Blocks, CallInv, CallType
<1>5. ReturnedEvidence'
  <2>1. \A d \in Caller : report'[d] \in {report[d]} \cup (IF d = c THEN {rep} ELSE {})
    BY DEF Return, Blocks, CallInv, CallType
  <2> QED BY <2>1 DEF Blocks, CallInv, ReturnedEvidence, Keeps
<1>6. CallInv'
  <2>1. CallScoped'
    BY <1>1, <1>2, GotoCall DEF Blocks, CallInv, CallScoped, ScopePc
  <2> QED BY <1>3, <1>4, <1>5, <2>1 DEF Blocks, CallInv, CallType
<1>7. ASSUME \A d \in Caller, q \in Pid :
               \/ subPc'[d][q] = subPc[d][q] /\ subRes'[d][q] = subRes[d][q]
               \/ subPc'[d][q] = "idle"
      PROVE  ReadyInv'
  BY <1>1, <1>2, <1>7, GotoReady
<1> QED BY <1>6, <1>7

\* The reports a terminate_scope can return without doing any work.
LEMMA CommittedReport ==
  ASSUME Blocks, Keeps, NEW s \in Scope
  PROVE  /\ serialReport[s] \in Report
         /\ \A p \in Pid : serialReport[s][p] \in VerifiedOutcome => IsReaped(p)'
BY DEF Blocks, OpInv, OperationType, CommittedEvidence, Keeps

\* A report without outcomes is a report, and claims nothing.
LEMMA EmptyReport ==
  /\ NoReport \in Report
  /\ \A p \in Pid : NoReport[p] \notin VerifiedOutcome
BY DEF NoReport, Report, OptOutcome, NoExit, VerifiedOutcome

\* A call begins: nothing of an earlier one is left.
LEMMA BeginCallKeeps ==
  ASSUME Blocks, Keeps, NEW c \in Caller,
         NEW op \in CallKind, NEW s \in Scope \cup {NoScope},
         NEW pc \in CallPc \ {"reobserve"}, pc \in ScopePc => s \in Scope,
         BeginCall(c, op, s, pc), UNCHANGED <<todo, shutdownSerial>>
  PROVE  /\ CallInv'
         /\ \A d \in Caller : call'[d] = IF d = c
              THEN [op |-> op, scope |-> s, pc |-> pc] ELSE call[d]
         /\ \A q \in Pid : subPc[c][q] = "idle"
         /\ /\ UNCHANGED <<subPc, subRes>>
            /\ pc = "single" \/ op \in {"terminate_scope", "shutdown"}
            => ReadyInv'
<1>1. \A d \in Caller : call'[d] = IF d = c
        THEN [op |-> op, scope |-> s, pc |-> pc] ELSE call[d]
  BY DEF BeginCall, Blocks, CallInv, CallType
<1>2. \A q \in Pid : subPc[c][q] = "idle"
  BY DEF BeginCall, Free
<1>3. call' \in [Caller -> CallRecord]
  <2>1. [op |-> op, scope |-> s, pc |-> pc] \in CallRecord
    BY DEF CallRecord
  <2> QED BY <2>1 DEF BeginCall, Blocks, CallInv, CallType
<1>4. /\ result' \in [Caller -> CallResult] /\ report' \in [Caller -> Report]
      /\ \A d \in Caller : report'[d] \in {report[d], NoReport}
  <2>1. "None" \in CallResult /\ NoReport \in Report
    BY EmptyReport DEF CallResult, SubResult
  <2> QED BY <2>1 DEF BeginCall, Blocks, CallInv, CallType
<1>5. CallInv'
  BY <1>1, <1>3, <1>4, EmptyReport DEF Blocks, CallInv, CallType,
     ReturnedEvidence, CallScoped, Keeps
<1>6. ASSUME UNCHANGED <<subPc, subRes>>,
             pc = "single" \/ op \in {"terminate_scope", "shutdown"}
      PROVE  ReadyInv'
  BY <1>1, <1>2, <1>6, ReadyShrinks DEF Blocks, ReadyInv, CallReady
<1> QED BY <1>1, <1>2, <1>5, <1>6

\* The calls that only begin.
LEMMA BeginSteps ==
  ASSUME Blocks, NEW c \in Caller,
         (\E s \in Scope : TerminateScopeCall(c, s)) \/ ShutdownCall(c)
  PROVE  Blocks'
<1> USE DEF TerminateScopeCall, ShutdownCall
<1>1. Keeps
  BY DEF Keeps, IsReaped, osVars
<1>2. /\ {"terminate_scope", "shutdown"} \subseteq CallKind
      /\ {"reports", "serial"} \subseteq CallPc \ {"reobserve"}
      /\ "serial" \notin ScopePc
  BY DEF CallKind, CallPc, ScopePc
<1>3. CallInv' /\ ReadyInv'
  BY <1>1, <1>2, BeginCallKeeps DEF subVars
<1>4. FlagInv'
  BY DEF Blocks, FlagInv, FlagType, flagVars
<1> QED
  BY <1>1, <1>3, <1>4, Frames DEF Blocks, osVars, regVars, opVars, spawnVars,
     monVars, subVars

\* A direct terminate or wait begins.
LEMMA SingleCallStep ==
  ASSUME Blocks, NEW c \in Caller, NEW p \in Pid, SingleCall(c, p)
  PROVE  Blocks'
<1>1. /\ Keeps
      /\ UNCHANGED <<osVars, faults, regVars, waiters, opVars, flagVars,
                     spawnVars, monVars, todo, shutdownSerial, subFut, subObs,
                     subRes, owed>>
  BY DEF SingleCall, Keeps, IsReaped, osVars
<1>2. PICK op \in {"terminate", "wait"}, pc \in {"start", "observe"} :
        /\ BeginCall(c, op, NoScope, "single")
        /\ subPc' = [subPc EXCEPT ![c][p] = pc]
        /\ pc = "observe" => op = "wait"
  BY DEF SingleCall
<1>3. /\ op \in CallKind /\ pc \in SubPc
      /\ "single" \in CallPc \ {"reobserve"} /\ "single" \notin ScopePc
  BY DEF CallKind, CallPc, SubPc, ScopePc
<1>4. /\ CallInv'
      /\ \A d \in Caller : call'[d] = IF d = c
           THEN [op |-> op, scope |-> NoScope, pc |-> "single"] ELSE call[d]
      /\ \A q \in Pid : subPc[c][q] = "idle"
  BY <1>1, <1>2, <1>3, BeginCallKeeps
<1>5. /\ subPc' \in [Caller -> [Pid -> SubPc]]
      /\ \A d \in Caller, q \in Pid :
           subPc'[d][q] = IF d = c /\ q = p THEN pc ELSE subPc[d][q]
  BY <1>2, <1>3 DEF Blocks, SubInv, WorkerType
<1>6. SubInv'
  BY <1>1, <1>5 DEF Blocks, SubInv, WorkerType, WorkerEvidence, Keeps
<1>7. WorkerReady'
  BY <1>1, <1>2, <1>4, <1>5 DEF Blocks, ReadyInv, WorkerReady, Keeps
<1>8. CallReady'
  BY <1>1, <1>4, <1>5 DEF Blocks, ReadyInv, CallReady
<1> QED
  BY <1>1, <1>4, <1>6, <1>7, <1>8, Frames DEF Blocks, ReadyInv, osVars, regVars,
     opVars, flagVars, spawnVars, monVars

\* The lookups of terminate_scope, and a scope that is already settled.
LEMMA LookupSteps ==
  ASSUME Blocks, NEW c \in Caller, TerminateScopeLookup(c) \/ ScopeSettled(c)
  PROVE  Blocks'
<1> DEFINE s == call[c].scope
<1>1. /\ Keeps
      /\ UNCHANGED <<osVars, faults, regVars, waiters, opVars, flagVars,
                     spawnVars, monVars, todo, shutdownSerial, subVars, owed>>
  BY DEF TerminateScopeLookup, ScopeSettled, Keeps, IsReaped, osVars
<1>2. reports \subseteq Scope /\ serial \subseteq Scope
  BY DEF Blocks, OpInv, OperationType
<1>3. \/ s \in Scope /\ Return(c, "Report", serialReport[s])
      \/ Return(c, "UnknownScope", NoReport)
      \/ /\ \E pc \in {"operation", "lock", "recheck"} : Goto(c, pc)
         /\ call[c].pc \in {"reports", "operation"}
         /\ UNCHANGED <<result, report>>
  BY <1>2 DEF TerminateScopeLookup, ScopeSettled
<1>4. CallInv' /\ ReadyInv'
  <2>1. CASE s \in Scope /\ Return(c, "Report", serialReport[s])
    BY <1>1, <2>1, CommittedReport, ReturnKeeps DEF subVars
  <2>2. CASE Return(c, "UnknownScope", NoReport)
    BY <1>1, <2>2, EmptyReport, ReturnKeeps DEF subVars
  <2>3. CASE /\ \E pc \in {"operation", "lock", "recheck"} : Goto(c, pc)
             /\ call[c].pc \in {"reports", "operation"}
             /\ UNCHANGED <<result, report>>
    <3>1. PICK pc \in {"operation", "lock", "recheck"} : Goto(c, pc)
      BY <2>3
    <3>2. pc \in CallPc \ {"reobserve"}
      BY DEF CallPc
    <3>3. call[c].op \in {"terminate_scope", "shutdown"}
      BY <2>3 DEF Blocks, ReadyInv, CallReady, CallPc
    <3>4. CallInv'
      BY <1>1, <2>3, <3>1, <3>2, GotoKeeps DEF Blocks, CallInv, CallType, ScopePc
    <3> QED BY <1>1, <3>1, <3>2, <3>3, <3>4, GotoReady DEF subVars
  <2> QED BY <1>3, <2>1, <2>2, <2>3
<1> QED
  BY <1>1, <1>4, Frames DEF Blocks, osVars, regVars, opVars, flagVars,
     spawnVars, monVars, subVars

\* The exits of an aggregate in the registry, typed and with evidence.
LEMMA RecordedExits ==
  ASSUME Blocks, NEW s \in Scope
  PROVE  /\ registry[s] \in Scopes
         /\ \A p \in Pid :
              /\ registry[s].processes[p].exit \in OptOutcome
              /\ registry[s].processes[p].exit \in VerifiedOutcome => IsReaped(p)
<1>1. registry[s] \in Scopes
  BY DEF Blocks, RegInv, RegistryType
<1>2. \A p \in Pid : registry[s].processes[p] \in Process
  BY <1>1 DEF Scopes
<1> QED
  BY <1>1, <1>2 DEF Process, Blocks, RegInv, RegistryEvidence

\* A scope begins to drain: the exits captured are those recorded, and the
\* receivers taken hold what the history answers.
LEMMA ScopeDrainStep ==
  ASSUME Blocks, NEW c \in Caller, ScopeDrain(c)
  PROVE  Blocks'
<1> DEFINE s    == call[c].scope
           ids  == ProcessIds(registry[s])
           live == {p \in ids : registry[s].processes[p].exit = NoExit}
           over == {p \in ids : registry[s].processes[p].exit \in VerifiedOutcome}
           entry(p) == IF p \in live THEN WaitSlot(waiters, p).entries[p]
                       ELSE waiters.entries[p]
           obs(p) == IF p \in live THEN TryGet(waiters, p) ELSE Unregistered
           pc(p) == IF p \in over THEN "done" ELSE IF p \in ids THEN "start" ELSE "idle"
           res(p) == IF p \in over THEN registry[s].processes[p].exit ELSE "None"
<1>1. /\ Keeps
      /\ call[c].pc = "lock"
      /\ holder' = [holder EXCEPT ![s] = c]
      /\ registry' = [registry EXCEPT ![s] = BeginScopeTermination(@)]
      /\ pending' = [pending EXCEPT ![s] = CaptureExits(s)]
      /\ owed' = [owed EXCEPT ![s] = @ \cup ids]
      /\ Goto(c, "join")
      /\ UNCHANGED <<osVars, faults, created, operations, serial, serialReport,
                     reports, completedScopes, flagVars, spawnVars, monVars,
                     subFut, result, report, todo, shutdownSerial>>
  BY DEF ScopeDrain, Keeps, IsReaped, osVars
<1>2. /\ waiters' = [waiters EXCEPT !.entries = [p \in Pid |-> entry(p)]]
      /\ subObs' = [subObs EXCEPT ![c] = [p \in Pid |-> obs(p)]]
      /\ subPc' = [subPc EXCEPT ![c] = [p \in Pid |-> pc(p)]]
      /\ subRes' = [subRes EXCEPT ![c] = [p \in Pid |-> res(p)]]
  BY DEF ScopeDrain
<1>3. s \in Scope /\ ids \subseteq Pid
  BY <1>1, CallScope DEF ScopePc, ProcessIds
<1>4. /\ registry[s] \in Scopes
      /\ \A p \in Pid :
           /\ registry[s].processes[p].exit \in OptOutcome
           /\ registry[s].processes[p].exit \in VerifiedOutcome => IsReaped(p)'
  BY <1>1, <1>3, RecordedExits DEF Keeps
<1>5. OpInv'
  BY <1>1, <1>3, HolderType DEF Blocks, OpInv, OperationType
<1>6. RegInv'
  <2>1. /\ registry \in [Scope -> Scopes] /\ pending \in [Scope -> Report]
        /\ created \in SUBSET Scope /\ owed \in [Scope -> SUBSET Pid]
    BY DEF Blocks, RegInv, RegistryType
  <2>2. \A t \in Scope :
          /\ registry'[t] \in Scopes
          /\ \A q \in Pid : registry'[t].processes[q].exit
                              = registry[t].processes[q].exit
    <3>1. CASE Pid = {}
      <4>1. BeginScopeTermination(registry[s]) \in Scopes
        BY <1>4, <3>1 DEF BeginScopeTermination, Scopes, ScopeState
      <4> QED BY <1>1, <1>3, <2>1, <3>1, <4>1
    <3>2. CASE Pid # {}
      BY <1>1, <1>3, <1>4, <2>1, <3>2, ScopeMethodTypes
    <3> QED BY <3>1, <3>2
  <2>3. /\ CaptureExits(s) \in Report
        /\ \A q \in Pid : CaptureExits(s)[q]
             \in {pending[s][q], registry[s].processes[q].exit}
    BY <1>3, <1>4, <2>1 DEF CaptureExits, Report
  <2>4. registry' \in [Scope -> Scopes]
    BY <1>1, <2>1, <2>2
  <2>5. pending' \in [Scope -> Report]
    BY <1>1, <2>1, <2>3
  <2>6. created' \in SUBSET Scope /\ owed' \in [Scope -> SUBSET Pid]
    BY <1>1, <1>3, <2>1
  <2>7. RegistryEvidence'
    BY <1>1, <2>2 DEF Blocks, RegInv, RegistryEvidence, Keeps
  <2>8. \A t \in Scope : pending'[t] = IF t = s THEN CaptureExits(s) ELSE pending[t]
    BY <1>1, <2>1
  <2>9. PendingEvidence'
    BY <1>1, <1>4, <2>3, <2>8 DEF Blocks, RegInv, PendingEvidence, Keeps
  <2> QED BY <2>4, <2>5, <2>6, <2>7, <2>9 DEF RegInv, RegistryType
<1>7. HistoryInv'
  <2>1. waiters \in WaiterRecord
    BY DEF Blocks, HistoryInv
  <2>2. \A p \in Pid : entry(p) \in Slot /\ entry(p).exit \in {TryGet(waiters, p), NoExit}
    <3> SUFFICES ASSUME NEW p \in Pid
                 PROVE  entry(p) \in Slot /\ entry(p).exit \in {TryGet(waiters, p), NoExit}
      OBVIOUS
    <3>1. CASE p \in live
      BY <2>1, <3>1, WaitSlotType DEF TryGet, WaiterRecord
    <3>2. CASE p \notin live
      BY <2>1, <3>2 DEF TryGet, WaiterRecord
    <3> QED BY <3>1, <3>2
  <2> HIDE DEF entry
  <2>3. waiters' \in WaiterRecord
    BY <1>2, <2>1, <2>2 DEF WaiterRecord
  <2>4. \A p \in Pid : TryGet(waiters', p) = entry(p).exit
    BY <1>2, <2>1 DEF TryGet, WaiterRecord
  <2>5. NoExit \notin VerifiedOutcome
    BY DEF NoExit, VerifiedOutcome
  <2> QED
    BY <1>1, <2>2, <2>3, <2>4, <2>5 DEF Blocks, HistoryInv, WaiterEvidence, Keeps
<1>8. /\ \A p \in Pid : /\ obs(p) \in Receiver
                        /\ obs(p) \in VerifiedOutcome => IsReaped(p)'
      /\ \A p \in Pid : /\ res(p) \in SubResult
                        /\ res(p) \in VerifiedOutcome => IsReaped(p)'
      /\ \A p \in Pid : /\ pc(p) \in SubPc
                        /\ pc(p) \in {"idle", "start", "done"}
                        /\ pc(p) = "done" => res(p) \in Outcome
  <2>1. \A p \in Pid : obs(p) \in Receiver /\ (obs(p) \in VerifiedOutcome => IsReaped(p)')
    BY <1>1, HistoryAnswer DEF Keeps, Receiver, Unregistered, VerifiedOutcome
  <2>2. \A p \in Pid : res(p) \in SubResult /\ (res(p) \in VerifiedOutcome => IsReaped(p)')
    BY <1>4 DEF SubResult, Outcome, VerifiedOutcome
  <2>3. \A p \in Pid : /\ pc(p) \in SubPc /\ pc(p) \in {"idle", "start", "done"}
                       /\ pc(p) = "done" => res(p) \in Outcome
    BY DEF SubPc, Outcome
  <2> QED BY <2>1, <2>2, <2>3
<1> HIDE DEF obs, res, pc
<1>9. \A d \in Caller, q \in Pid :
        /\ subPc'[d][q] = IF d = c THEN pc(q) ELSE subPc[d][q]
        /\ subRes'[d][q] = IF d = c THEN res(q) ELSE subRes[d][q]
        /\ subObs'[d][q] = IF d = c THEN obs(q) ELSE subObs[d][q]
  BY <1>2 DEF Blocks, SubInv, WorkerType
<1>10. SubInv'
  <2>1. /\ subPc' \in [Caller -> [Pid -> SubPc]]
        /\ subObs' \in [Caller -> [Pid -> Receiver]]
        /\ subRes' \in [Caller -> [Pid -> SubResult]]
    BY <1>2, <1>8 DEF Blocks, SubInv, WorkerType
  <2> QED
    BY <1>1, <1>8, <1>9, <2>1 DEF Blocks, SubInv, WorkerType, WorkerEvidence, Keeps
<1>11. "join" \in CallPc /\ "lock" \in ScopePc /\ call[c].op \in {"terminate_scope", "shutdown"}
  BY <1>1 DEF CallPc, ScopePc, Blocks, ReadyInv, CallReady
<1>12. CallInv'
  BY <1>1, <1>11, GotoKeeps DEF Blocks, CallInv, CallType
<1>13. \A d \in Caller :
         /\ call'[d].op = call[d].op
         /\ call'[d].pc = IF d = c THEN "join" ELSE call[d].pc
  BY <1>1, <1>11, GotoCall
<1>14. WorkerReady'
  BY <1>1, <1>8, <1>9, <1>13 DEF Blocks, ReadyInv, WorkerReady, Keeps
<1>15. CallReady'
  BY <1>9, <1>11, <1>13 DEF Blocks, ReadyInv, CallReady
<1> QED
  BY <1>1, <1>5, <1>6, <1>7, <1>10, <1>12, <1>14, <1>15, Frames DEF Blocks,
     ReadyInv, osVars, flagVars, spawnVars, monVars

\* The sub-state of one worker is cleared.
LEMMA SubResetKeeps ==
  ASSUME Blocks, Keeps, NEW c \in Caller, NEW p \in Pid, SubReset(c, p)
  PROVE  /\ SubInv'
         /\ \A d \in Caller, q \in Pid :
              \/ subPc'[d][q] = subPc[d][q] /\ subRes'[d][q] = subRes[d][q]
              \/ subPc'[d][q] = "idle"
<1>1. /\ "idle" \in SubPc /\ "None" \in SubResult /\ "None" \notin VerifiedOutcome
  BY DEF SubPc, SubResult, VerifiedOutcome
<1>2. /\ subPc' \in [Caller -> [Pid -> SubPc]]
      /\ subRes' \in [Caller -> [Pid -> SubResult]]
  BY <1>1 DEF SubReset, Blocks, SubInv, WorkerType
<1>3. \A d \in Caller, q \in Pid :
        /\ subPc'[d][q] = IF d = c /\ q = p THEN "idle" ELSE subPc[d][q]
        /\ subRes'[d][q] = IF d = c /\ q = p THEN "None" ELSE subRes[d][q]
  BY DEF SubReset, Blocks, SubInv, WorkerType
<1> QED
  BY <1>1, <1>2, <1>3 DEF SubReset, Blocks, SubInv, WorkerType, WorkerEvidence,
     Keeps

\* join_next: a worker's verified outcome is evidence, and stays so when merged.
LEMMA ScopeJoinStep ==
  ASSUME Blocks, NEW c \in Caller, NEW p \in Pid, ScopeJoin(c, p)
  PROVE  Blocks'
<1> USE DEF ScopeJoin
<1> DEFINE s == call[c].scope
           old == pending[s][p]
           new == Merge(JoinOutcome(subRes[c][p]), old)
<1>1. Keeps /\ UNCHANGED call
  BY DEF Keeps, IsReaped, osVars, callVars
<1>2. SubInv' /\ ReadyInv'
  <2>1. \A d \in Caller : call[d].pc \in CallPc \ {"idle", "single", "done"} =>
          call[d].op \in {"terminate_scope", "shutdown"}
    BY DEF Blocks, ReadyInv, CallReady
  <2> QED BY <1>1, <2>1, SubResetKeeps, ReadyShrinks
<1>3. RegInv'
  <2>1. s \in Scope
    BY CallScope DEF ScopePc
  <2>2. /\ registry \in [Scope -> Scopes] /\ pending \in [Scope -> Report]
    BY DEF Blocks, RegInv, RegistryType
  <2>3. subRes[c][p] \in Outcome \cup {Unknown}
    BY DEF Blocks, ReadyInv, WorkerReady
  <2>4. /\ JoinOutcome(subRes[c][p]) \in Outcome
        /\ JoinOutcome(subRes[c][p]) \in VerifiedOutcome => IsReaped(p)'
    BY <1>1, <2>3 DEF JoinOutcome, Outcome, UnverifiedOutcome, VerifiedOutcome,
       Blocks, SubInv, WorkerEvidence, Keeps
  <2>5. /\ new \in OptOutcome
        /\ new \in VerifiedOutcome => old \in VerifiedOutcome \/ IsReaped(p)'
    BY <2>4 DEF Merge, OptOutcome, Outcome
  <2> HIDE DEF new
  <2>6. pending' = [pending EXCEPT ![s][p] = new]
    BY <2>1, <2>2 DEF new
  <2>7. /\ pending' \in [Scope -> Report]
        /\ \A t \in Scope, q \in Pid :
             pending'[t][q] = IF t = s /\ q = p THEN new ELSE pending[t][q]
    BY <2>1, <2>2, <2>5, <2>6 DEF Report
  <2> QED BY <1>1, <2>2, <2>5, <2>7, RegistryUpdate
<1> QED
  BY <1>1, <1>2, <1>3, Frames DEF Blocks, osVars, opVars, flagVars, spawnVars,
     monVars, callVars

\* A direct call returns what its worker found.
LEMMA SingleReturnStep ==
  ASSUME Blocks, NEW c \in Caller, NEW p \in Pid, SingleReturn(c, p)
  PROVE  Blocks'
<1> USE DEF SingleReturn
<1>1. Keeps
  BY DEF Keeps, IsReaped, osVars
<1>2. "done" \in CallPc \ {"reobserve"} /\ "done" \notin ScopePc
  BY DEF CallPc, ScopePc
<1>3. SubInv' /\ ReadyInv'
  BY <1>1, <1>2, SubResetKeeps, GotoReady
<1>4. CallInv'
  <2>1. result' \in [Caller -> CallResult]
    BY DEF Blocks, CallInv, CallType, SubInv, WorkerType, CallResult
  <2> QED
    BY <1>1, <1>2, <2>1, GotoCall DEF Blocks, CallInv, CallType,
       ReturnedEvidence, CallScoped, Keeps
<1> QED
  BY <1>1, <1>3, <1>4, Frames DEF Blocks, osVars, regVars, opVars, flagVars,
     spawnVars, monVars

\* The steps of a terminate_scope or shutdown that only move it on.
LEMMA SweepStep ==
  ASSUME Blocks, NEW c \in Caller, ScopeSweep(c)
  PROVE  Blocks'
<1> USE DEF ScopeSweep
<1>1. OsInv' /\ Keeps
  BY KillKeeps
<1>2. /\ "sweep" \in CallPc \ {"reobserve"} /\ "join" \in ScopePc
      /\ call[c].op \in {"terminate_scope", "shutdown"}
  BY DEF CallPc, ScopePc, Blocks, ReadyInv, CallReady
<1>3. CallInv'
  BY <1>1, <1>2, GotoKeeps DEF Blocks, CallInv, CallType
<1>4. ReadyInv'
  BY <1>1, <1>2, GotoReady DEF subVars
<1> QED
  BY <1>1, <1>3, <1>4, Frames DEF Blocks, regVars, opVars, flagVars, spawnVars,
     monVars, subVars

\* Releasing the operation mutex keeps the operation block.
LEMMA ReleaseKeeps ==
  ASSUME Blocks, Keeps, NEW c \in Caller, Release(c),
         UNCHANGED <<operations, serial, serialReport, reports, completedScopes>>
  PROVE  OpInv'
BY HolderType DEF Release, Blocks, OpInv, OperationType

\* The containment sweep fails: the scope stays owned.
LEMMA ScopeSweepErrStep ==
  ASSUME Blocks, NEW c \in Caller, ScopeSweepErr(c)
  PROVE  Blocks'
<1> USE DEF ScopeSweepErr
<1>1. Keeps
  BY DEF Keeps, IsReaped, osVars
<1>2. OsInv'
  BY BoundsAssumption DEF Blocks, OsInv, OsType, osVars
<1>3. OpInv'
  BY <1>1, ReleaseKeeps
<1>4. CallInv' /\ ReadyInv'
  BY <1>1, EmptyReport, ReturnKeeps DEF subVars
<1> QED
  BY <1>1, <1>2, <1>3, <1>4, Frames DEF Blocks, osVars, regVars, flagVars,
     spawnVars, monVars, subVars

\* The sweep succeeds: the outcomes to observe again are unverified.
LEMMA ScopeSweepOkStep ==
  ASSUME Blocks, NEW c \in Caller, ScopeSweepOk(c)
  PROVE  Blocks'
<1> DEFINE s     == call[c].scope
           again == {p \in Pid : pending[s][p] \in UnverifiedOutcome}
           pc(p) == IF p \in again THEN "observe" ELSE "idle"
           res(p) == IF p \in again THEN pending[s][p] ELSE "None"
<1>1. /\ Keeps
      /\ call[c].pc = "sweep"
      /\ subPc' = [subPc EXCEPT ![c] = [p \in Pid |-> pc(p)]]
      /\ subRes' = [subRes EXCEPT ![c] = [p \in Pid |-> res(p)]]
      /\ Goto(c, "reobserve")
      /\ UNCHANGED <<osVars, faults, regVars, waiters, opVars, flagVars,
                     spawnVars, monVars, result, report, todo, shutdownSerial,
                     subFut, subObs, owed>>
  BY DEF ScopeSweepOk, Keeps, IsReaped, osVars
<1>2. \A p \in Pid : /\ pc(p) \in SubPc /\ res(p) \in SubResult
                     /\ res(p) \notin VerifiedOutcome
                     /\ pc(p) = "idle" \/ (pc(p) = "observe" /\ res(p) \in Outcome)
  BY DEF SubPc, SubResult, Outcome, UnverifiedOutcome, VerifiedOutcome
<1> HIDE DEF pc, res
<1>3. \A d \in Caller, q \in Pid :
        /\ subPc'[d][q] = IF d = c THEN pc(q) ELSE subPc[d][q]
        /\ subRes'[d][q] = IF d = c THEN res(q) ELSE subRes[d][q]
  BY <1>1 DEF Blocks, SubInv, WorkerType
<1>4. SubInv'
  <2>1. /\ subPc' \in [Caller -> [Pid -> SubPc]]
        /\ subRes' \in [Caller -> [Pid -> SubResult]]
    BY <1>1, <1>2 DEF Blocks, SubInv, WorkerType
  <2> QED
    BY <1>1, <1>2, <1>3, <2>1 DEF Blocks, SubInv, WorkerType, WorkerEvidence, Keeps
<1>5. /\ "reobserve" \in CallPc /\ "sweep" \in ScopePc
      /\ call[c].op \in {"terminate_scope", "shutdown"}
  BY <1>1 DEF CallPc, ScopePc, Blocks, ReadyInv, CallReady
<1>6. CallInv'
  BY <1>1, <1>5, GotoKeeps DEF Blocks, CallInv, CallType
<1>7. \A d \in Caller :
        /\ call'[d].op = call[d].op
        /\ call'[d].pc = IF d = c THEN "reobserve" ELSE call[d].pc
  BY <1>1, <1>5, GotoCall
<1>8. WorkerReady'
  BY <1>1, <1>2, <1>3, <1>7 DEF Blocks, ReadyInv, WorkerReady, Keeps
<1>9. CallReady'
  BY <1>2, <1>3, <1>5, <1>7 DEF Blocks, ReadyInv, CallReady
<1> QED
  BY <1>1, <1>4, <1>6, <1>8, <1>9, Frames DEF Blocks, ReadyInv, osVars, regVars,
     opVars, flagVars, spawnVars, monVars

\* What a re-observation leaves in the pending outcomes is a report whose
\* verified outcomes are evidence.
LEMMA ReobservedKeeps ==
  ASSUME Blocks, Keeps, NEW c \in Caller, ReobserveDone(c),
         UNCHANGED <<created, registry, owed, subFut, subObs>>
  PROVE  /\ call[c].scope \in Scope
         /\ call[c].op \in {"terminate_scope", "shutdown"}
         /\ Reobserved(c) \in Report
         /\ \A p \in Pid : Reobserved(c)[p] \in VerifiedOutcome => IsReaped(p)'
         /\ RegInv' /\ SubInv'
         /\ \A d \in Caller, q \in Pid :
              \/ subPc'[d][q] = subPc[d][q] /\ subRes'[d][q] = subRes[d][q]
              \/ subPc'[d][q] = "idle"
<1> DEFINE s == call[c].scope
<1>1. /\ s \in Scope
      /\ call[c].op \in {"terminate_scope", "shutdown"}
  BY CallScope DEF ReobserveDone, ScopePc, CallPc, Blocks, ReadyInv, CallReady
<1>2. /\ pending \in [Scope -> Report] /\ registry \in [Scope -> Scopes]
      /\ \A p \in Pid : pending[s][p] \in OptOutcome
      /\ \A p \in Pid : pending[s][p] \in VerifiedOutcome => IsReaped(p)'
  BY <1>1 DEF Blocks, RegInv, RegistryType, PendingEvidence, Report, Keeps
<1>3. \A p \in Pid : subPc[c][p] = "done" => subRes[c][p] \in Outcome
  BY DEF ReobserveDone, Blocks, ReadyInv, CallReady
<1>4. \A p \in Pid : subRes[c][p] \in VerifiedOutcome => IsReaped(p)'
  BY DEF Blocks, SubInv, WorkerEvidence, Keeps
<1>5. \A p \in Pid :
        Reobserved(c)[p] \in {pending[s][p]} \cup
                             (IF subPc[c][p] = "done" THEN {subRes[c][p]} ELSE {})
  BY DEF Reobserved, Merge
<1>6. Reobserved(c) \in Report
  <2>1. Reobserved(c) = [p \in Pid |-> Reobserved(c)[p]]
    BY DEF Reobserved
  <2>2. \A p \in Pid : Reobserved(c)[p] \in OptOutcome
    BY <1>2, <1>3, <1>5 DEF OptOutcome
  <2> QED BY <2>1, <2>2 DEF Report
<1>7. \A p \in Pid : Reobserved(c)[p] \in VerifiedOutcome => IsReaped(p)'
  BY <1>2, <1>4, <1>5
<1>8. RegInv'
  <2>1. /\ pending' \in [Scope -> Report]
        /\ \A t \in Scope : pending'[t] = IF t = s THEN Reobserved(c) ELSE pending[t]
    BY <1>1, <1>2, <1>6 DEF ReobserveDone
  <2> QED BY <1>2, <1>7, <2>1, RegistryUpdate
<1>9. \A d \in Caller, q \in Pid :
        /\ subPc'[d][q] = IF d = c THEN "idle" ELSE subPc[d][q]
        /\ subRes'[d][q] = IF d = c THEN "None" ELSE subRes[d][q]
  BY DEF ReobserveDone, Blocks, SubInv, WorkerType
<1>10. SubInv'
  <2>1. "idle" \in SubPc /\ "None" \in SubResult /\ "None" \notin VerifiedOutcome
    BY DEF SubPc, SubResult, VerifiedOutcome
  <2>2. /\ subPc' \in [Caller -> [Pid -> SubPc]]
        /\ subRes' \in [Caller -> [Pid -> SubResult]]
    BY <2>1 DEF ReobserveDone, Blocks, SubInv, WorkerType
  <2> QED
    BY <1>9, <2>1, <2>2 DEF Blocks, SubInv, WorkerType, WorkerEvidence, Keeps
<1> QED BY <1>1, <1>6, <1>7, <1>8, <1>9, <1>10

\* An unverified end: the report is returned and the scope stays owned.
LEMMA ScopeUnverifiedStep ==
  ASSUME Blocks, NEW c \in Caller, ScopeUnverified(c)
  PROVE  Blocks'
<1> USE DEF ScopeUnverified
<1>1. Keeps
  BY DEF Keeps, IsReaped, osVars
<1>2. /\ RegInv' /\ SubInv' /\ Reobserved(c) \in Report
      /\ \A p \in Pid : Reobserved(c)[p] \in VerifiedOutcome => IsReaped(p)'
      /\ \A d \in Caller, q \in Pid :
           \/ subPc'[d][q] = subPc[d][q] /\ subRes'[d][q] = subRes[d][q]
           \/ subPc'[d][q] = "idle"
  BY <1>1, ReobservedKeeps
<1>3. OpInv'
  BY <1>1, ReleaseKeeps
<1>4. CallInv' /\ ReadyInv'
  BY <1>1, <1>2, ReturnKeeps
<1> QED
  BY <1>1, <1>2, <1>3, <1>4, Frames DEF Blocks, osVars, flagVars, spawnVars,
     monVars

\* A verified end: the report that is committed is evidence for each process.
LEMMA ScopePublishStep ==
  ASSUME Blocks, NEW c \in Caller, ScopePublish(c)
  PROVE  Blocks'
<1> USE DEF ScopePublish
<1>1. Keeps
  BY DEF Keeps, IsReaped, osVars
<1>2. /\ call[c].scope \in Scope
      /\ call[c].op \in {"terminate_scope", "shutdown"}
      /\ RegInv' /\ SubInv' /\ Reobserved(c) \in Report
      /\ \A p \in Pid : Reobserved(c)[p] \in VerifiedOutcome => IsReaped(p)'
      /\ \A d \in Caller, q \in Pid :
           \/ subPc'[d][q] = subPc[d][q] /\ subRes'[d][q] = subRes[d][q]
           \/ subPc'[d][q] = "idle"
  BY <1>1, ReobservedKeeps
<1>3. OpInv'
  <2>1. serialReport \in [Scope -> Report] /\ serial \subseteq Scope /\ reports \subseteq Scope
    BY DEF Blocks, OpInv, OperationType
  <2>2. /\ serial' \subseteq Scope /\ reports' \subseteq Scope
        /\ serialReport' \in [Scope -> Report]
        /\ \A t \in Scope : serialReport'[t] =
             IF t = call[c].scope THEN Reobserved(c) ELSE serialReport[t]
    BY <1>2, <2>1 DEF CommitReport
  <2> QED
    BY <1>1, <1>2, <2>2 DEF Blocks, OpInv, OperationType, CommittedEvidence, Keeps
<1>4. "unregister" \in CallPc \ {"reobserve"} /\ call[c].pc \in ScopePc
  BY DEF CallPc, ScopePc, ReobserveDone
<1>5. CallInv'
  BY <1>1, <1>4, GotoKeeps DEF Blocks, CallInv, CallType
<1>6. ReadyInv'
  BY <1>1, <1>2, <1>4, GotoReady
<1> QED
  BY <1>1, <1>2, <1>3, <1>5, <1>6, Frames DEF Blocks, osVars, flagVars,
     spawnVars, monVars

\* The live entries of a reported scope go: registry, mutex, pending outcomes.
LEMMA ScopeRetireSteps ==
  ASSUME Blocks, NEW c \in Caller, ScopeUnregister(c) \/ ScopeRetire(c)
  PROVE  Blocks'
<1> USE DEF ScopeUnregister, ScopeRetire
<1>1. Keeps
  BY DEF Keeps, IsReaped, osVars
<1>2. /\ {"retire", "remember"} \subseteq CallPc \ {"reobserve"}
      /\ call[c].pc \in ScopePc
      /\ call[c].op \in {"terminate_scope", "shutdown"}
  BY DEF CallPc, ScopePc, Blocks, ReadyInv, CallReady
<1>3. CallInv'
  BY <1>1, <1>2, GotoKeeps DEF Blocks, CallInv, CallType
<1>4. ReadyInv'
  BY <1>1, <1>2, GotoReady DEF subVars
<1>5. RegInv'
  <2>1. /\ registry \in [Scope -> Scopes] /\ pending \in [Scope -> Report]
        /\ NoExit \notin VerifiedOutcome
    BY DEF Blocks, RegInv, RegistryType, NoExit, VerifiedOutcome
  <2>2. CASE ScopeUnregister(c)
    BY <1>1, <2>1, <2>2, ScopeTypes, RegistryUpdate DEF regVars
  <2>3. CASE ScopeRetire(c)
    BY <1>1, <2>1, <2>3, EmptyReport, RegistryUpdate
  <2> QED BY <2>2, <2>3
<1>6. OpInv'
  BY <1>1 DEF Blocks, OpInv, OperationType, CommittedEvidence, Keeps, opVars
<1> QED
  BY <1>1, <1>3, <1>4, <1>5, <1>6, Frames DEF Blocks, osVars, flagVars,
     spawnVars, monVars, subVars

\* The bounded history of reports: push the newest, evict the oldest.
LEMMA ScopeRememberStep ==
  ASSUME Blocks, NEW c \in Caller, ScopeRemember(c)
  PROVE  Blocks'
<1> DEFINE s      == call[c].scope
           queue  == Append(completedScopes, s)
           excess == IF Len(queue) > ReportBound THEN Len(queue) - ReportBound ELSE 0
<1>1. /\ Keeps
      /\ call[c].pc = "remember"
      /\ completedScopes' = SubSeq(queue, excess + 1, Len(queue))
      /\ reports' \subseteq reports
      /\ Release(c)
      /\ Return(c, "Report", serialReport[s])
      /\ UNCHANGED <<osVars, faults, regVars, waiters, operations, serial,
                     serialReport, flagVars, spawnVars, monVars, todo,
                     shutdownSerial, subVars, owed>>
  BY DEF ScopeRemember, Keeps, IsReaped, osVars
<1>2. s \in Scope
  BY <1>1, CallScope DEF ScopePc
<1>3. CallInv' /\ ReadyInv'
  BY <1>1, <1>2, CommittedReport, ReturnKeeps DEF subVars
<1>4. completedScopes' \in Seq(Scope)
  <2>1. queue \in Seq(Scope)
    BY <1>2, AppendProperties DEF Blocks, OpInv, OperationType
  <2> HIDE DEF queue
  <2>2. Len(queue) \in Nat /\ excess \in Nat
    BY <2>1, BoundsAssumption, LenProperties
  <2>3. \A i \in excess + 1 .. Len(queue) : queue[i] \in Scope
    BY <2>1, <2>2, ElementOfSeq
  <2> HIDE DEF excess
  <2> QED BY <1>1, <2>2, <2>3, SubSeqProperties
<1>5. OpInv'
  <2>1. holder' \in [Scope -> Caller \cup Pid \cup {NoTask}]
    BY <1>1 DEF Release, Blocks, OpInv, OperationType
  <2> QED
    BY <1>1, <1>4, <2>1 DEF Blocks, OpInv, OperationType, CommittedEvidence, Keeps
<1> QED
  BY <1>1, <1>3, <1>5, Frames DEF Blocks, osVars, regVars, flagVars, spawnVars,
     monVars, subVars

\* shutdown's own steps: the snapshot, the next scope, the return.
LEMMA ShutdownSteps ==
  ASSUME Blocks, NEW c \in Caller,
         ShutdownSnapshot(c) \/ ShutdownNext(c) \/ ShutdownReturn(c)
  PROVE  Blocks'
<1>1. /\ Keeps
      /\ call[c].pc \in {"serial", "next"}
      /\ UNCHANGED <<osVars, faults, regVars, waiters, opVars, flagVars,
                     spawnVars, monVars, report, subVars, owed>>
  BY DEF ShutdownSnapshot, ShutdownNext, ShutdownReturn, Keeps, IsReaped, osVars
<1>2. /\ call[c].op \in {"terminate_scope", "shutdown"}
      /\ {"next", "done", "lock"} \subseteq CallPc \ {"reobserve"}
      /\ "next" \notin ScopePc /\ "done" \notin ScopePc
  BY <1>1 DEF Blocks, ReadyInv, CallReady, CallPc, ScopePc
<1>3. CASE ShutdownSnapshot(c)
  <2>1. Goto(c, "next") /\ UNCHANGED <<result, report>>
    BY <1>1, <1>3 DEF ShutdownSnapshot
  <2>2. todo' \in [Caller -> SUBSET Scope] /\ shutdownSerial' \in Caller \cup {NoTask}
    BY <1>3 DEF ShutdownSnapshot, Blocks, CallInv, CallType
  <2>3. CallInv' /\ ReadyInv'
    BY <1>1, <1>2, <2>1, <2>2, GotoKeeps, GotoReady DEF subVars
  <2> QED
    BY <1>1, <2>3, Frames DEF Blocks, osVars, regVars, opVars, flagVars,
       spawnVars, monVars, subVars
<1>4. CASE ShutdownNext(c)
  <2>1. PICK s \in todo[c] :
          /\ todo' = [todo EXCEPT ![c] = @ \ {s}]
          /\ call' = [call EXCEPT ![c].scope = s, ![c].pc = "lock"]
    BY <1>4 DEF ShutdownNext
  <2>2. /\ s \in Scope /\ todo' \in [Caller -> SUBSET Scope]
        /\ UNCHANGED <<result, shutdownSerial>>
    BY <1>4, <2>1 DEF ShutdownNext, Blocks, CallInv, CallType
  <2>3. /\ call' \in [Caller -> CallRecord]
        /\ \A d \in Caller :
             /\ call'[d].op = call[d].op
             /\ d # c => call'[d] = call[d]
        /\ call'[c].scope = s /\ call'[c].pc = "lock"
    <3>1. call \in [Caller -> CallRecord] /\ call[c] \in CallRecord
      BY DEF Blocks, CallInv, CallType
    <3>2. [call[c] EXCEPT !.scope = s, !.pc = "lock"] \in CallRecord
      BY <1>2, <2>2, <3>1 DEF CallRecord
    <3>3. call' = [call EXCEPT ![c] = [call[c] EXCEPT !.scope = s, !.pc = "lock"]]
      BY <2>1, <3>1
    <3> QED BY <3>1, <3>2, <3>3 DEF CallRecord
  <2>4. CallInv'
    BY <1>1, <2>2, <2>3 DEF Blocks, CallInv, CallType, ReturnedEvidence,
       CallScoped, Keeps
  <2>5. ReadyInv'
    BY <1>1, <1>2, <2>3, ReadyShrinks DEF Blocks, ReadyInv, CallReady, subVars
  <2> QED
    BY <1>1, <2>4, <2>5, Frames DEF Blocks, osVars, regVars, opVars, flagVars,
       spawnVars, monVars, subVars
<1>5. CASE ShutdownReturn(c)
  <2>1. Goto(c, "done") /\ UNCHANGED <<report, todo>> /\ shutdownSerial' = NoTask
    BY <1>1, <1>5 DEF ShutdownReturn
  <2>2. result' \in [Caller -> CallResult]
    <3>1. "ShutdownOk" \in CallResult
      BY DEF CallResult
    <3> QED BY <1>5, <3>1 DEF ShutdownReturn, Blocks, CallInv, CallType
  <2>3. CallInv'
    BY <1>1, <1>2, <2>1, <2>2, GotoCall DEF Blocks, CallInv, CallType,
       ReturnedEvidence, CallScoped, Keeps
  <2>4. ReadyInv'
    BY <1>1, <1>2, <2>1, GotoReady DEF subVars
  <2> QED
    BY <1>1, <2>3, <2>4, Frames DEF Blocks, osVars, regVars, opVars, flagVars,
       spawnVars, monVars, subVars
<1> QED BY <1>3, <1>4, <1>5

\* A cancelled caller leaves nothing behind but a retry between two awaits.
LEMMA CancelStep ==
  ASSUME Blocks, NEW c \in Caller, Cancel(c)
  PROVE  Blocks'
<1> USE DEF Cancel
<1> DEFINE idle == [op |-> "none", scope |-> NoScope, pc |-> "idle"]
<1>1. Keeps
  BY DEF Keeps, IsReaped, osVars
<1>2. holder' \in [Scope -> Caller \cup Pid \cup {NoTask}]
  BY DEF Blocks, OpInv, OperationType
<1>3. OpInv'
  BY <1>1, <1>2, HolderType
<1>4. /\ call' \in [Caller -> CallRecord]
      /\ \A d \in Caller : call'[d] = IF d = c THEN idle ELSE call[d]
  <2>1. idle \in CallRecord
    BY DEF CallRecord, CallPc
  <2> QED BY <2>1 DEF Blocks, CallInv, CallType
<1>5. /\ result' \in [Caller -> CallResult] /\ todo' \in [Caller -> SUBSET Scope]
      /\ shutdownSerial' \in Caller \cup {NoTask}
  <2>1. "None" \in CallResult
    BY DEF CallResult, SubResult
  <2> QED BY <2>1 DEF Blocks, CallInv, CallType
<1>6. CallInv'
  BY <1>1, <1>4, <1>5 DEF Blocks, CallInv, CallType, ReturnedEvidence,
     CallScoped, ScopePc, Keeps
<1>7. /\ subPc \in [Caller -> [Pid -> SubPc]]
      /\ subFut \in [Caller -> [Pid -> Receiver]]
      /\ subObs \in [Caller -> [Pid -> Receiver]]
      /\ subRes \in [Caller -> [Pid -> SubResult]]
  BY DEF Blocks, SubInv, WorkerType
<1>8. \A d \in Caller, q \in Pid :
        /\ subPc'[d][q] = IF d = c /\ subPc[c][q] # "qRecord"
                          THEN "idle" ELSE subPc[d][q]
        /\ subRes'[d][q] = IF d = c THEN "None" ELSE subRes[d][q]
        /\ subFut'[d][q] = IF d = c THEN Unregistered ELSE subFut[d][q]
        /\ subObs'[d][q] = IF d = c THEN Unregistered ELSE subObs[d][q]
  BY <1>7
<1>9. SubInv'
  <2>1. /\ "idle" \in SubPc /\ Unregistered \in Receiver /\ "None" \in SubResult
        /\ Unregistered \notin VerifiedOutcome /\ "None" \notin VerifiedOutcome
    BY DEF SubPc, Receiver, SubResult, Unregistered, VerifiedOutcome
  <2>2. /\ subPc' \in [Caller -> [Pid -> SubPc]]
        /\ subFut' \in [Caller -> [Pid -> Receiver]]
        /\ subObs' \in [Caller -> [Pid -> Receiver]]
        /\ subRes' \in [Caller -> [Pid -> SubResult]]
    BY <1>7, <2>1
  <2> QED
    BY <1>1, <1>8, <2>1, <2>2 DEF Blocks, SubInv, WorkerType, WorkerEvidence, Keeps
<1>10. ReadyInv'
  BY <1>1, <1>4, <1>8, ReadyShrinks DEF Blocks, ReadyInv, CallReady
<1> QED
  BY <1>1, <1>3, <1>6, <1>9, <1>10, Frames DEF Blocks, osVars, regVars,
     flagVars, spawnVars, monVars

\* The drop of the last handle only sets flags and kills.
LEMMA DropOwnersStep ==
  ASSUME Blocks, DropOwners
  PROVE  Blocks'
<1> USE DEF DropOwners
<1>1. Keeps
  BY DEF Keeps, IsReaped
<1>2. OsInv'
  BY DEF Kill, Blocks, OsInv, OsType
<1>3. FlagInv'
  BY DEF Blocks, FlagInv, FlagType
<1> QED
  BY <1>1, <1>2, <1>3, Frames DEF Blocks, regVars, opVars, spawnVars, monVars,
     callVars, subVars

-----------------------------------------------------------------------------
(* The theorems. *)

\* Every step of the supervisor and of its environment keeps the blocks.
LEMMA NextBlocks == Blocks /\ [Next]_vars => Blocks'
<1> SUFFICES ASSUME Blocks, [Next]_vars PROVE Blocks'
  OBVIOUS
<1>1. CASE UNCHANGED vars
  <2>1. Keeps
    BY <1>1 DEF Keeps, IsReaped, vars, osVars
  <2> QED
    BY <1>1, <2>1, Frames DEF Blocks, vars, osVars, regVars, opVars, flagVars,
       spawnVars, monVars, callVars, subVars
<1>2. ASSUME NEW s \in Scope, CreateScope(s) PROVE Blocks'
  BY <1>2, CreateScopeStep
<1>3. ASSUME NEW p \in Pid, NEW s \in Scope, SpawnCall(p, s) PROVE Blocks'
  BY <1>3, SpawnCallStep
<1>4. ASSUME NEW p \in Pid, OsStep(p) PROVE Blocks'
  BY <1>4, OsSteps
<1>5. ASSUME NEW p \in Pid, SpawnStep(p) PROVE Blocks'
  BY <1>5, SpawnLockStep, SpawnBackendOkStep, SpawnLeaveSteps,
     SpawnCheckOwnersStep, SpawnAttachStep, SpawnOrphanStep DEF SpawnStep
<1>6. ASSUME NEW p \in Pid, MonitorStep(p) PROVE Blocks'
  BY <1>6, MonitorWaitStep, MonitorRecordStep, MonitorNotifyStep,
     MonitorPruneStep DEF MonitorStep
<1>7. ASSUME NEW c \in Caller, NEW p \in Pid, WorkerStep(c, p) PROVE Blocks'
  BY <1>7, TerminateStartStep, TerminateQuietSteps, TerminateForceStep,
     RetryWaitStep, RetryForceStep, RetryRecordStep, RetryNotifyStep,
     RetryPruneStep, WaitStartStep DEF WorkerStep
<1>8. ASSUME NEW c \in Caller, CallStep(c) PROVE Blocks'
  BY <1>8, LookupSteps, ScopeDrainStep, ScopeJoinStep, SingleReturnStep,
     SweepStep, ScopeSweepErrStep, ScopeSweepOkStep, ScopeUnverifiedStep,
     ScopePublishStep, ScopeRetireSteps, ScopeRememberStep, ShutdownSteps
     DEF CallStep, ScopeLock
<1>9. ASSUME NEW c \in Caller,
             \/ \E s \in Scope : TerminateScopeCall(c, s)
             \/ \E p \in Pid : SingleCall(c, p)
             \/ ShutdownCall(c) \/ Cancel(c)
      PROVE  Blocks'
  BY <1>9, BeginSteps, SingleCallStep, CancelStep
<1>10. ASSUME DropOwners PROVE Blocks'
  BY <1>10, DropOwnersStep
<1> QED
  BY <1>1, <1>2, <1>3, <1>4, <1>5, <1>6, <1>7, <1>8, <1>9, <1>10 DEF Next

\* IndInv is an inductive invariant of the supervisor, whatever the numbers of
\* scopes, processes and callers, the history bounds and the faults.
THEOREM InductiveInvariant == Spec => []IndInv
<1>1. Init => Blocks
  BY InitBlocks
<1>2. Blocks /\ [Next]_vars => Blocks'
  BY NextBlocks
<1>3. Blocks => IndInv
  BY BlocksAreIndInv
<1> QED BY <1>1, <1>2, <1>3, PTL DEF Spec

\* Type correctness of every variable of the supervisor.
THEOREM TypeCorrect == Spec => []TypeOK
<1>1. IndInv => TypeOK
  BY DEF IndInv
<1> QED BY <1>1, InductiveInvariant, PTL

\* A verified outcome, wherever the supervisor holds it (registry, pending
\* outcomes, committed and returned reports, waiter history, monitors,
\* workers), is evidence that the operating system reaped the process.
THEOREM VerifiedOutcomesAreEvidence == Spec => []VerifiedMeansReaped
<1>1. IndInv => VerifiedMeansReaped
  BY DEF IndInv
<1> QED BY <1>1, InductiveInvariant, PTL
=============================================================================
