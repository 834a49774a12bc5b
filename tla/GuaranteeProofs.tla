-------------------------- MODULE GuaranteeProofs --------------------------
(***************************************************************************)
(* What ProcessSupervisor guarantees its callers, for every value of the   *)
(* constants: no process is lost, verified evidence never changes, a       *)
(* committed report is complete, an unknown scope is one whose report was  *)
(* evicted, and a shutdown that returned Ok is final.                      *)
(*                                                                         *)
(* Each rests on IndInv, Responsible and Evidence; the last two also on    *)
(* the parts of Concluded.                                                 *)
(***************************************************************************)
EXTENDS EvidenceProofs, FiniteSetTheorems

Held == Blocks /\ Responsible /\ Evidence

\* A process with a monitor is owned until it is reaped; a spawn that failed
\* leaves no child behind but one that the drop has killed.
Living(p) ==
  /\ monPc[p] # "none" /\ Unreaped(p) => Owned(p)
  /\ spawnPc[p] = "failed" /\ Unreaped(p) => ownersDropped /\ p \in killSent
NothingLost == \A p \in Pid : Living(p)

-----------------------------------------------------------------------------
(* Every step moves the registry forward. *)

\* A process with a monitor stays one, of the same scope.
MonitorsStay ==
  \A p \in Pid : monPc[p] # "none" => monPc'[p] # "none" /\ home'[p] = home[p]

LEMMA WidenMoves ==
  ASSUME NEW rec \in SUBSET Pid, RegistryMoves(rec)
  PROVE  RegistryMoves(Pid)
BY DEF RegistryMoves

LEMMA BackgroundMoves ==
  ASSUME Blocks, Responsible, Background, UNCHANGED home
  PROVE  RegistryMoves(Pid) /\ MonitorsStay
<1>1. RegistryMoves(Pid)
  BY EvolveMoves DEF Background
<1> QED BY <1>1 DEF Background, MonitorsForward, MonitorsStay

LEMMA DrainMoves ==
  ASSUME Blocks, Responsible, NEW c \in Caller, ScopeDrain(c)
  PROVE  RegistryMoves(Pid)
<1>1. \A t \in Scope, p \in Pid :
        /\ Contains(registry[t], p)' = Contains(registry[t], p)
        /\ registry'[t].processes[p].exit = registry[t].processes[p].exit
        /\ registry[t].processes[p].exit # NoExit =>
             registry'[t].processes[p] = registry[t].processes[p]
  BY DrainEffect
<1> QED BY <1>1, OutcomeKinds DEF RegistryMoves

LEMMA NextMoves ==
  ASSUME Held, [Next]_vars
  PROVE  RegistryMoves(Pid) /\ MonitorsStay
<1> USE DEF Held
<1>1. ASSUME UNCHANGED <<registry, monPc, home>> PROVE RegistryMoves(Pid) /\ MonitorsStay
  BY <1>1, StillMoves, WidenMoves DEF MonitorsStay
<1>2. CASE UNCHANGED vars
  BY <1>1, <1>2 DEF vars, regVars, monVars, spawnVars
<1>3. CASE \E s \in Scope : CreateScope(s)
  BY <1>3, CreateMoves, WidenMoves DEF CreateScope, MonitorsStay, monVars, spawnVars
<1>4. ASSUME NEW p \in Pid, NEW s \in Scope, SpawnCall(p, s)
      PROVE  RegistryMoves(Pid) /\ MonitorsStay
  <2>1. UNCHANGED <<registry, monPc>> /\ monPc[p] = "none"
    BY <1>4 DEF SpawnCall, regVars, monVars, Responsible, SpawnLife
  <2>2. \A q \in Pid \ {p} : home'[q] = home[q]
    BY <1>4, Types DEF SpawnCall
  <2> QED BY <2>1, <2>2, StillMoves, WidenMoves DEF MonitorsStay
<1>5. ASSUME NEW p \in Pid, OsStep(p) \/ MonitorStep(p)
      PROVE  RegistryMoves(Pid) /\ MonitorsStay
  <2>1. UNCHANGED home
    BY <1>5 DEF OsStep, OsExit, OsKill, MonitorStep, MonitorWait, MonitorRecord,
       MonitorNotify, MonitorPrune, spawnVars
  <2> QED BY <1>5, <2>1, OsBackground, MonitorBackground, BackgroundMoves
<1>6. ASSUME NEW p \in Pid, SpawnStep(p) PROVE RegistryMoves(Pid) /\ MonitorsStay
  <2>1. CASE SpawnAttach(p)
    BY <2>1, AttachMoves, WidenMoves DEF MonitorsMove, MonitorsStay
  <2>2. CASE ~SpawnAttach(p)
    BY <1>1, <1>6, <2>2 DEF SpawnStep, SpawnLock, SpawnBackendOk, SpawnBackendErr,
       SpawnCheckOwners, SpawnOrphan, SpawnReturn, regVars, monVars
  <2> QED BY <2>1, <2>2
<1>7. ASSUME NEW c \in Caller, NEW p \in Pid, WorkerStep(c, p) \/ ScopeJoin(c, p)
      PROVE  RegistryMoves(Pid) /\ MonitorsStay
  BY <1>7, WorkerBackground, BackgroundMoves
<1>8. ASSUME NEW c \in Caller,
             \/ CallStep(c) /\ ~(\E p \in Pid : ScopeJoin(c, p))
             \/ \E s \in Scope : TerminateScopeCall(c, s)
             \/ \E p \in Pid : SingleCall(c, p)
             \/ ShutdownCall(c) \/ Cancel(c)
      PROVE  RegistryMoves(Pid) /\ MonitorsStay
  <2>1. UNCHANGED <<monPc, home>>
    BY <1>8, CallsAreQuiet DEF CallStep
  <2>2. CASE ScopeUnregister(c)
    BY <2>1, <2>2, UnregisterMoves, WidenMoves DEF MonitorsStay
  <2>3. CASE ScopeDrain(c)
    BY <2>1, <2>3, DrainMoves DEF MonitorsStay
  <2>4. CASE ~ScopeUnregister(c) /\ ~ScopeDrain(c)
    <3>1. UNCHANGED registry
      BY <1>8, <2>4 DEF CallStep, ScopeLock, TerminateScopeCall, SingleCall,
         SingleReturn, ShutdownCall, Cancel, TerminateScopeLookup, ScopeSettled,
         ScopeSweep, ScopeSweepErr, ScopeSweepOk, ScopeUnverified, ScopePublish,
         ScopeRetire, ScopeRemember, ShutdownSnapshot, ShutdownNext, ShutdownReturn,
         regVars
    <3> QED BY <1>1, <2>1, <3>1
  <2> QED BY <2>2, <2>3, <2>4
<1>9. CASE DropOwners
  BY <1>1, <1>9 DEF DropOwners, regVars, monVars, spawnVars
<1> QED BY <1>2, <1>3, <1>4, <1>5, <1>6, <1>7, <1>8, <1>9 DEF Next, CallStep

-----------------------------------------------------------------------------
(* No process is lost. *)

LEMMA LivingKept ==
  ASSUME Held, NEW p \in Pid, Living(p), RegistryMoves(Pid), MonitorsStay,
         Unreaped(p)' => Unreaped(p),
         monPc'[p] # "none" => monPc[p] # "none",
         \/ spawnPc'[p] = "failed" => spawnPc[p] = "failed" \/ os[p] = "None"
         \/ ownersDropped' /\ p \in killSent',
         KillsForward, ownersDropped => ownersDropped'
  PROVE  Living(p)'
<1> USE DEF Held
<1>1. ASSUME monPc'[p] # "none", Unreaped(p)' PROVE Owned(p)'
  <2> DEFINE s == home[p]
  <2>1. Unreaped(p) /\ Owned(p) /\ home'[p] = s
    BY <1>1 DEF Living, MonitorsStay
  <2>2. s \in Scope /\ Contains(registry[s], p)
    BY <2>1 DEF Owned
  <2>3. registry[s].processes[p].exit \notin VerifiedOutcome
    BY <2>1, <2>2 DEF Blocks, RegInv, RegistryEvidence, Unreaped, IsReaped
  <2>4. s \notin serial
    BY <2>2, <2>3 DEF Evidence, Accounted, CommittedSettled
  <2> HIDE DEF s
  <2>5. Contains(registry'[s], p)
    BY <2>2, <2>3, <2>4 DEF RegistryMoves
  <2> QED BY <2>1, <2>2, <2>5 DEF Owned
<1>2. ASSUME spawnPc'[p] = "failed", Unreaped(p)' PROVE ownersDropped' /\ p \in killSent'
  <2>1. Unreaped(p) /\ os[p] # "None"
    BY <1>2 DEF Unreaped
  <2> QED BY <1>2, <2>1 DEF Living, KillsForward
<1> QED BY <1>1, <1>2 DEF Living

LEMMA NextLost == Held /\ NothingLost /\ [Next]_vars => NothingLost'
<1> SUFFICES ASSUME Held, NothingLost, [Next]_vars, NEW q \in Pid PROVE Living(q)'
  BY DEF NothingLost
<1> USE DEF Held
<1>1. RegistryMoves(Pid) /\ MonitorsStay /\ Living(q)
  BY NextMoves DEF NothingLost
<1>2. ASSUME OsForward, MonitorsForward, KillsForward,
             UNCHANGED <<spawnPc, ownersDropped>>
      PROVE  Living(q)'
  BY <1>1, <1>2, LivingKept DEF OsForward, MonitorsForward
<1>3. ASSUME UNCHANGED <<os, monPc, spawnPc, ownersDropped>>, KillsForward
      PROVE  Living(q)'
  BY <1>2, <1>3, StillForward
<1>4. CASE UNCHANGED vars
  BY <1>3, <1>4 DEF vars, osVars, monVars, spawnVars, flagVars, KillsForward
<1>5. CASE \E s \in Scope : CreateScope(s)
  BY <1>3, <1>5 DEF CreateScope, osVars, monVars, spawnVars, flagVars, KillsForward
<1>6. ASSUME NEW p \in Pid, OsStep(p) PROVE Living(q)'
  <2>1. UNCHANGED <<spawnPc, ownersDropped>>
    BY <1>6 DEF OsStep, OsExit, OsKill, flagVars, spawnVars
  <2> QED BY <1>2, <1>6, <2>1, OsBackground DEF Background
<1>7. ASSUME NEW p \in Pid, MonitorStep(p) PROVE Living(q)'
  <2>1. UNCHANGED <<spawnPc, ownersDropped>>
    BY <1>7 DEF MonitorStep, MonitorWait, MonitorRecord, MonitorNotify,
       MonitorPrune, flagVars, spawnVars
  <2> QED BY <1>2, <1>7, <2>1, MonitorBackground DEF Background
<1>8. ASSUME NEW c \in Caller, NEW p \in Pid, WorkerStep(c, p) \/ ScopeJoin(c, p)
      PROVE  Living(q)'
  BY <1>2, <1>8, WorkerBackground DEF Background
<1>9. ASSUME NEW c \in Caller,
             \/ CallStep(c) /\ ~(\E p \in Pid : ScopeJoin(c, p))
             \/ \E s \in Scope : TerminateScopeCall(c, s)
             \/ \E p \in Pid : SingleCall(c, p)
             \/ ShutdownCall(c) \/ Cancel(c)
      PROVE  Living(q)'
  <2>1. UNCHANGED <<os, monPc, spawnPc, ownersDropped>> /\ KillsForward
    BY <1>9, CallsAreQuiet DEF CallStep
  <2> QED BY <1>3, <2>1
<1>10. CASE DropOwners
  <2>1. UNCHANGED <<os, monPc, spawnPc>> /\ (ownersDropped => ownersDropped')
        /\ KillsForward
    BY <1>10 DEF DropOwners, monVars, spawnVars, Kill, KillsForward
  <2> QED BY <1>1, <2>1, StillForward, LivingKept DEF OsForward
<1>11. ASSUME NEW p \in Pid, NEW pc, spawnPc' = [spawnPc EXCEPT ![p] = pc],
              UNCHANGED <<monPc, ownersDropped>>, KillsForward, OsForward,
              pc = "failed" => os[p] = "None" \/ (ownersDropped' /\ p \in killSent')
                               \/ ~Unreaped(p)
       PROVE  Living(q)'
  <2>1. spawnPc'[q] = IF q = p THEN pc ELSE spawnPc[q]
    BY <1>11, Types
  <2>2. CASE Unreaped(q)
    BY <1>1, <1>11, <2>1, <2>2, LivingKept DEF OsForward
  <2>3. CASE ~Unreaped(q)
    BY <1>11, <2>3 DEF OsForward, Living
  <2> QED BY <2>2, <2>3
<1>12. ASSUME NEW p \in Pid, NEW s \in Scope, SpawnCall(p, s) PROVE Living(q)'
  <2>1. UNCHANGED <<os, monPc, ownersDropped, killSent>> /\ os[p] = "None"
    BY <1>12 DEF SpawnCall, osVars, monVars, flagVars, Blocks, SpawnInv, SpawnFresh
  <2> QED BY <1>11, <1>12, <2>1, StillForward DEF SpawnCall
<1>13. ASSUME NEW p \in Pid, SpawnStep(p) PROVE Living(q)'
  <2>1. CASE SpawnLock(p) \/ SpawnBackendErr(p)
    <3>1. UNCHANGED <<os, monPc, ownersDropped, killSent>> /\ os[p] = "None"
      BY <2>1 DEF SpawnLock, SpawnBackendErr, osVars, monVars, flagVars, Blocks,
         SpawnInv, SpawnFresh
    <3>2. PICK pc : spawnPc' = [spawnPc EXCEPT ![p] = pc]
      BY <2>1 DEF SpawnLock, SpawnBackendErr, SpawnLeave
    <3> QED BY <1>11, <3>1, <3>2, StillForward
  <2>2. CASE SpawnReturn(p) \/ SpawnCheckOwners(p)
    <3>1. UNCHANGED <<os, monPc, ownersDropped>> /\ KillsForward
      BY <2>2 DEF SpawnReturn, SpawnCheckOwners, osVars, monVars, flagVars, Kill,
         KillsForward
    <3>2. PICK pc \in {"ok", "orphan", "attach"} : spawnPc' = [spawnPc EXCEPT ![p] = pc]
      BY <2>2 DEF SpawnReturn, SpawnCheckOwners, SpawnLeave
    <3> QED BY <1>11, <3>1, <3>2, StillForward
  <2>3. CASE SpawnOrphan(p)
    <3>1. UNCHANGED <<monPc, ownersDropped, killSent>> /\ spawnPc[p] = "orphan"
          /\ OsForward
      BY <2>3, BackendForward DEF SpawnOrphan, monVars, flagVars
    <3>2. ownersDropped /\ (Unreaped(p) => p \in killSent)
      BY <3>1 DEF Responsible, SpawnLife
    <3> QED BY <1>11, <2>3, <3>1, <3>2, StillForward DEF SpawnOrphan, SpawnLeave
  <2>4. CASE SpawnBackendOk(p)
    <3>1. /\ UNCHANGED <<monPc, ownersDropped, killSent>> /\ monPc[p] = "none"
          /\ spawnPc'[q] = IF q = p THEN "check" ELSE spawnPc[q]
          /\ os'[q] = IF q = p THEN "Alive" ELSE os[q]
      BY <2>4, Types DEF SpawnBackendOk, monVars, flagVars, Responsible, SpawnLife
    <3>2. CASE q = p
      BY <3>1, <3>2 DEF Living
    <3>3. CASE q # p
      BY <1>1, <3>1, <3>3, StillForward, LivingKept DEF Unreaped
    <3> QED BY <3>2, <3>3
  <2>5. CASE SpawnAttach(p)
    <3>1. /\ UNCHANGED <<os, ownersDropped, killSent, home>> /\ home[p] \in Scope
          /\ spawnPc'[q] = IF q = p THEN "attached" ELSE spawnPc[q]
          /\ monPc'[q] = IF q = p THEN "wait" ELSE monPc[q]
      BY <2>5, AttachEffect, Types
    <3>2. CASE q = p
      <4>1. registry'[home[p]].processes[p] = RunningProcess
        BY <2>5, <3>1, AttachEffect
      <4> QED BY <3>1, <3>2, <4>1 DEF Living, Owned, Contains, RunningProcess
    <3>3. CASE q # p
      BY <1>1, <3>1, <3>3, StillForward, LivingKept DEF Unreaped
    <3> QED BY <3>2, <3>3
  <2> QED BY <1>13, <2>1, <2>2, <2>3, <2>4, <2>5 DEF SpawnStep
<1> QED
  BY <1>4, <1>5, <1>6, <1>7, <1>8, <1>9, <1>10, <1>12, <1>13 DEF Next, CallStep

\* What is not lost is where OwnedUntilReaped says.
LEMMA NothingLostMeansOwned == Held /\ NothingLost => OwnedUntilReaped
<1> SUFFICES ASSUME Held, NothingLost, NEW p \in Pid, Unreaped(p)
             PROVE  \/ /\ spawnPc[p] \in {"check", "attach", "orphan"}
                       /\ holder[home[p]] = p
                    \/ Owned(p) /\ RecordedExit(p) \notin VerifiedOutcome
                    \/ ownersDropped /\ spawnPc[p] = "failed" /\ p \in killSent
  BY DEF OwnedUntilReaped
<1> USE DEF Held
<1>1. spawnPc[p] \in SpawnPc \ {"idle", "lock", "backend"}
  BY Types DEF Blocks, SpawnInv, SpawnFresh, Unreaped
<1>2. CASE spawnPc[p] \in {"check", "attach", "orphan"}
  BY <1>2 DEF Responsible, Mutex, SpawnHeldPc
<1>3. CASE spawnPc[p] \in {"attached", "ok"}
  <2>1. Owned(p)
    BY <1>3 DEF NothingLost, Living, Responsible, SpawnLife
  <2>2. RecordedExit(p) \notin VerifiedOutcome
    BY <2>1 DEF Owned, RecordedExit, Blocks, RegInv, RegistryEvidence, Unreaped, IsReaped
  <2> QED BY <2>1, <2>2
<1>4. CASE spawnPc[p] = "failed"
  BY <1>4 DEF NothingLost, Living
<1> QED BY <1>1, <1>2, <1>3, <1>4 DEF SpawnPc

LEMMA LostInvariant == Spec => [](Held /\ NothingLost)
<1>1. Init => NothingLost
  BY DEF Init, NothingLost, Living, Unreaped
<1>2. Held /\ NothingLost /\ [Next]_vars => NothingLost'
  BY NextLost
<1>3. Spec => []Held
  BY EvidenceInvariant DEF Held
<1> QED BY <1>1, <1>2, <1>3, PTL DEF Spec

\* No interleaving of spawn, termination, shutdown, cancellation and drop loses
\* a process: one that is not reaped is with the spawn worker that created it,
\* owned by its scope without a verified exit, or an orphan that the drop of
\* the last handle has killed.
THEOREM NoProcessIsLost == Spec => []OwnedUntilReaped
<1>1. Held /\ NothingLost => OwnedUntilReaped
  BY NothingLostMeansOwned
<1> QED BY <1>1, LostInvariant, PTL

\* A committed report is the whole truth about its scope: nothing that the
\* scope owned is alive, and no process that it owned when a terminator drained
\* it is missing from the report or unverified in it.
THEOREM ReportsAreComplete == Spec => []ReportIsComplete
<1>1. Held /\ NothingLost => ReportIsComplete
  <2> SUFFICES ASSUME Held, NothingLost, NEW s \in serial, NEW p \in Pid,
                      home[p] = s, monPc[p] # "none", ~IsReaped(p)
               PROVE  FALSE
    BY DEF ReportIsComplete, ReportedScopeIsDead, Held, Evidence, Accounted
  <2> USE DEF Held
  <2>1. os[p] \in OsState /\ os[p] # "None"
    BY Types DEF Responsible, SpawnLife
  <2>2. Unreaped(p)
    BY <2>1 DEF OsState, Unreaped, IsReaped
  <2>3. Contains(registry[s], p) /\ s \in Scope
    BY <2>2 DEF NothingLost, Living, Owned
  <2>4. registry[s].processes[p].exit \in VerifiedOutcome
    BY <2>3 DEF Evidence, Accounted, CommittedSettled
  <2> QED BY <2>3, <2>4 DEF Blocks, RegInv, RegistryEvidence
<1> QED BY <1>1, LostInvariant, PTL

-----------------------------------------------------------------------------
(* Verified evidence never changes. *)

PendingKeepsEvidence ==
  \A s \in Scope, p \in Pid : pending[s][p] \in VerifiedOutcome =>
    pending'[s][p] = pending[s][p] \/ s \in serial

\* Recording an exit for a process that has none verified yet.
LEMMA RecordKeepsEvidence ==
  ASSUME Held, NEW p \in Pid, NEW outcome, Owned(p),
         RecordedExit(p) \notin VerifiedOutcome,
         pending' = PendingAfterMonitor(home[p], p, outcome)
  PROVE  PendingKeepsEvidence
<1> USE DEF Held
<1>1. home[p] \in Scope
  BY DEF Owned
<1>2. \A s \in Scope, q \in Pid :
        pending'[s][q] # pending[s][q] => s = home[p] /\ q = p
  BY <1>1, Types DEF PendingAfterMonitor, Report
<1>3. pending[home[p]][p] \notin VerifiedOutcome
  BY <1>1 DEF Evidence, RegistryLeads, PendingFollows, Settled
<1> QED BY <1>2, <1>3 DEF PendingKeepsEvidence

LEMMA NextPending == Held /\ [Next]_vars => PendingKeepsEvidence
<1> SUFFICES ASSUME Held, [Next]_vars PROVE PendingKeepsEvidence
  OBVIOUS
<1> USE DEF Held
<1>1. ASSUME UNCHANGED pending PROVE PendingKeepsEvidence
  BY <1>1 DEF PendingKeepsEvidence
<1>2. ASSUME NEW p \in Pid, MonitorRecord(p) PROVE PendingKeepsEvidence
  <2>1. CASE ~Owned(p)
    BY <1>1, <1>2, <2>1 DEF MonitorRecord
  <2>2. CASE Owned(p)
    <3>1. RecordedExit(p) = NoExit
      BY <1>2, <2>2 DEF MonitorRecord, Evidence, RegistryLeads, MonitorFirst
    <3>2. pending' = PendingAfterMonitor(home[p], p, MonitorOutcome(p))
      BY <1>2, <2>2, Zenon DEF MonitorRecord
    <3> QED BY <2>2, <3>1, <3>2, OutcomeKinds, RecordKeepsEvidence
  <2> QED BY <2>1, <2>2
<1>3. ASSUME NEW c \in Caller, NEW p \in Pid, RetryRecord(c, p)
      PROVE  PendingKeepsEvidence
  <2>1. CASE ~Owned(p) \/ RecordedExit(p) \in VerifiedOutcome
    BY <1>1, <1>3, <2>1 DEF RetryRecord
  <2>2. CASE Owned(p) /\ RecordedExit(p) \notin VerifiedOutcome
    <3>1. pending' = PendingAfterMonitor(home[p], p,
                       IF RawKilled(p) THEN "ForcedRequired" ELSE "GracefulSuccess")
      BY <1>3, <2>2 DEF RetryRecord
    <3> QED BY <2>2, <3>1, RecordKeepsEvidence
  <2> QED BY <2>1, <2>2
<1>4. ASSUME NEW c \in Caller, ScopeDrain(c) PROVE PendingKeepsEvidence
  <2>1. \A t \in Scope, q \in Pid : pending'[t][q] # pending[t][q] =>
          pending[t][q] = NoExit
    BY <1>4, DrainSlots
  <2> QED BY <2>1, OutcomeKinds DEF PendingKeepsEvidence
<1>5. ASSUME NEW c \in Caller, NEW p \in Pid, ScopeJoin(c, p)
      PROVE  PendingKeepsEvidence
  <2>1. call[c].scope \in Scope
    BY <1>5, Types DEF ScopeJoin, Responsible, CallLife, ScopePc
  <2>2. \A t \in Scope, q \in Pid : pending'[t][q] =
          IF t = call[c].scope /\ q = p
          THEN Merge(JoinOutcome(subRes[c][p]), pending[t][q]) ELSE pending[t][q]
    BY <1>5, <2>1, Types DEF ScopeJoin, Report
  <2> QED BY <2>2 DEF PendingKeepsEvidence, Merge
<1>6. ASSUME NEW c \in Caller, ReobserveDone(c) PROVE PendingKeepsEvidence
  <2>1. \A t \in Scope, q \in Pid : pending[t][q] \in VerifiedOutcome =>
          pending'[t][q] = pending[t][q]
    BY <1>6, ReobservedOutcomes
  <2> QED BY <2>1 DEF PendingKeepsEvidence
<1>7. ASSUME NEW c \in Caller, ScopeRetire(c) PROVE PendingKeepsEvidence
  <2>1. /\ call[c].scope \in serial
        /\ \A t \in Scope : t # call[c].scope => pending'[t] = pending[t]
    BY <1>7, Types DEF ScopeRetire, Responsible, CallLife, CommitPc
  <2> QED BY <2>1 DEF PendingKeepsEvidence
<1>8. CASE UNCHANGED vars \/ DropOwners \/ \E s \in Scope : CreateScope(s)
  BY <1>1, <1>8 DEF vars, regVars, DropOwners, CreateScope
<1>9. CASE \/ \E p \in Pid, s \in Scope : SpawnCall(p, s)
           \/ \E p \in Pid : OsStep(p) \/ SpawnStep(p)
  BY <1>1, <1>9 DEF SpawnCall, OsStep, OsExit, OsKill, SpawnStep, SpawnLock,
     SpawnBackendOk, SpawnBackendErr, SpawnCheckOwners, SpawnAttach, SpawnOrphan,
     SpawnReturn, regVars
<1>10. ASSUME NEW p \in Pid, MonitorStep(p) PROVE PendingKeepsEvidence
  BY <1>1, <1>2, <1>10 DEF MonitorStep, MonitorWait, MonitorNotify, MonitorPrune,
     regVars
<1>11. ASSUME NEW c \in Caller, NEW p \in Pid, WorkerStep(c, p)
       PROVE  PendingKeepsEvidence
  BY <1>1, <1>3, <1>11 DEF WorkerStep, TerminateStart, TerminateRequested,
     TerminateObserved, TerminateForce, TerminateTimeout, RetryWait, RetryForce,
     RetryTimeout, RetryNotify, RetryPrune, WorkerObserve, WaitStart, WaitObserved,
     ReobserveTimeout, regVars
<1>12. ASSUME NEW c \in Caller,
              \/ CallStep(c)
              \/ \E s \in Scope : TerminateScopeCall(c, s)
              \/ \E p \in Pid : SingleCall(c, p)
              \/ ShutdownCall(c) \/ Cancel(c)
       PROVE  PendingKeepsEvidence
  <2>1. CASE \/ \E p \in Pid : ScopeJoin(c, p)
             \/ ScopeDrain(c) \/ ScopeUnverified(c) \/ ScopePublish(c) \/ ScopeRetire(c)
    BY <1>4, <1>5, <1>6, <1>7, <2>1 DEF ScopeUnverified, ScopePublish
  <2>2. CASE \/ TerminateScopeLookup(c) \/ ScopeSettled(c) \/ ScopeSweep(c)
             \/ ScopeSweepErr(c) \/ ScopeSweepOk(c) \/ ScopeUnregister(c)
             \/ ScopeRemember(c) \/ ShutdownSnapshot(c) \/ ShutdownNext(c)
             \/ ShutdownReturn(c)
    BY <1>1, <2>2 DEF TerminateScopeLookup, ScopeSettled, ScopeSweep, ScopeSweepErr,
       ScopeSweepOk, ScopeUnregister, ScopeRemember, ShutdownSnapshot, ShutdownNext,
       ShutdownReturn, regVars
  <2>3. CASE \/ \E s \in Scope : TerminateScopeCall(c, s)
             \/ \E p \in Pid : SingleCall(c, p) \/ SingleReturn(c, p)
             \/ ShutdownCall(c) \/ Cancel(c)
    BY <1>1, <2>3 DEF TerminateScopeCall, SingleCall, SingleReturn, ShutdownCall,
       Cancel, regVars
  <2> QED BY <1>12, <2>1, <2>2, <2>3 DEF CallStep, ScopeLock
<1> QED BY <1>8, <1>9, <1>10, <1>11, <1>12 DEF Next

\* Verified evidence is never downgraded or changed: in the registry until
\* prune or the removal of the scope, in pending_outcomes until the report is
\* committed; neither a late monitor, nor a retry, nor the merge of a worker's
\* failure touches it.
THEOREM EvidenceIsMonotone == Spec => EvidenceMonotone
<1>1. Held /\ [Next]_vars =>
        [\A s \in Scope, p \in Pid :
           /\ registry[s].processes[p].exit \in VerifiedOutcome =>
                registry'[s].processes[p] \in {registry[s].processes[p], NoProcess}
           /\ pending[s][p] \in VerifiedOutcome =>
                pending'[s][p] = pending[s][p] \/ s \in serial]_vars
  BY NextMoves, NextPending DEF RegistryMoves, PendingKeepsEvidence
<1>2. Spec => []Held
  BY EvidenceInvariant DEF Held
<1> QED BY <1>1, <1>2, PTL DEF Spec, EvidenceMonotone

-----------------------------------------------------------------------------
(* The history of reports and the end of a shutdown: what each part of      *)
(* Concluded asks of a step.                                                *)

Ended == Held /\ NothingLost /\ Concluded

LEMMA ConcludedFrames ==
  ASSUME Ended
  PROVE  /\ /\ UNCHANGED <<serial, reports, completedScopes>>
            /\ \A d \in Caller : call'[d].pc \in CommitPc =>
                 call[d].pc \in CommitPc /\ call'[d].scope = call[d].scope
            => ReportHistory'
         /\ /\ UNCHANGED serial
            /\ created' \subseteq operations' \cup serial
            /\ \A t \in serial : Registered(t)' => Registered(t)
            /\ \A d \in Caller :
                 /\ call[d].pc = "unregister" =>
                      \/ call'[d].pc = "unregister" /\ call'[d].scope = call[d].scope
                      \/ registry'[call[d].scope].state = "Absent"
                 /\ call'[d].pc \in {"retire", "remember"} =>
                      \/ /\ call[d].pc \in {"retire", "remember"}
                         /\ call'[d].scope = call[d].scope
                      \/ registry'[call'[d].scope].state = "Absent"
                 /\ call'[d].pc = "recheck" => call'[d].scope \in serial
            => ScopeRetired'
         /\ /\ serial \ reports \subseteq serial' \ reports'
            /\ \A d \in Caller : result'[d] = "UnknownScope" =>
                 \/ result[d] = "UnknownScope" /\ call'[d].scope = call[d].scope
                 \/ call'[d].scope \in serial' \ reports'
            => UnknownIsEvicted'
<1> USE DEF Ended, Concluded
<1>1. ASSUME UNCHANGED <<serial, reports, completedScopes>>,
             \A d \in Caller : call'[d].pc \in CommitPc =>
               call[d].pc \in CommitPc /\ call'[d].scope = call[d].scope
      PROVE  ReportHistory'
  BY <1>1 DEF ReportHistory
<1>2. ASSUME UNCHANGED serial, created' \subseteq operations' \cup serial,
             \A t \in serial : Registered(t)' => Registered(t),
             \A d \in Caller :
               /\ call[d].pc = "unregister" =>
                    \/ call'[d].pc = "unregister" /\ call'[d].scope = call[d].scope
                    \/ registry'[call[d].scope].state = "Absent"
               /\ call'[d].pc \in {"retire", "remember"} =>
                    \/ /\ call[d].pc \in {"retire", "remember"}
                       /\ call'[d].scope = call[d].scope
                    \/ registry'[call'[d].scope].state = "Absent"
               /\ call'[d].pc = "recheck" => call'[d].scope \in serial
      PROVE  ScopeRetired'
  <2>1. ASSUME NEW t \in serial, Registered(t)'
        PROVE  \E d \in Caller : call'[d].pc = "unregister" /\ call'[d].scope = t
    <3>1. PICK d \in Caller : call[d].pc = "unregister" /\ call[d].scope = t
      BY <1>2, <2>1 DEF ScopeRetired
    <3>2. registry'[t].state # "Absent"
      BY <2>1 DEF Registered
    <3> QED BY <1>2, <3>1, <3>2 DEF Registered
  <2>2. ASSUME NEW d \in Caller, call'[d].pc \in {"retire", "remember"}
        PROVE  registry'[call'[d].scope].state = "Absent"
    <3>1. CASE registry'[call'[d].scope].state = "Absent"
      BY <3>1
    <3>2. CASE /\ call[d].pc \in {"retire", "remember"}
               /\ call'[d].scope = call[d].scope
      <4>1. call[d].scope \in serial /\ ~Registered(call[d].scope)
        BY <3>2 DEF Held, Responsible, CallLife, CommitPc, ScopeRetired
      <4> QED BY <1>2, <3>2, <4>1 DEF Registered
    <3> QED BY <1>2, <2>2, <3>1, <3>2
  <2> QED BY <1>2, <2>1, <2>2 DEF ScopeRetired, Registered
<1>3. ASSUME serial \ reports \subseteq serial' \ reports',
             \A d \in Caller : result'[d] = "UnknownScope" =>
               \/ result[d] = "UnknownScope" /\ call'[d].scope = call[d].scope
               \/ call'[d].scope \in serial' \ reports'
      PROVE  UnknownIsEvicted'
  BY <1>3 DEF UnknownIsEvicted
<1> QED BY <1>1, <1>2, <1>3

\* A shutdown's life and end, where a step leaves its call alone.
LEMMA ShutdownFrames ==
  ASSUME Ended, shuttingDown => shuttingDown',
         \A t \in Scope : Registered(t)' => Registered(t) \/ ~shuttingDown
  PROVE  /\ \A d \in Caller :
              /\ UNCHANGED <<call[d].op, call[d].pc, call[d].scope, result[d], todo[d]>>
              /\ ownersDropped' => ownersDropped \/ call[d].op # "shutdown"
                                   \/ call[d].pc \in {"idle", "done"}
              => ShutdownOf(d)'
         /\ /\ \A p \in Pid :
                 /\ Unreaped(p)' => Unreaped(p) \/ spawnPc[p] = "backend"
                 /\ spawnPc'[p] = "backend" => spawnPc[p] = "backend" \/ ~shuttingDown
            /\ \A d \in Caller : result'[d] = "ShutdownOk" => result[d] = "ShutdownOk"
            => ShutdownIsFinal'
<1> USE DEF Ended, Concluded
<1>1. ASSUME NEW d \in Caller,
             UNCHANGED <<call[d].op, call[d].pc, call[d].scope, result[d], todo[d]>>,
             ownersDropped' => ownersDropped \/ call[d].op # "shutdown"
                               \/ call[d].pc \in {"idle", "done"}
      PROVE  ShutdownOf(d)'
  <2>1. ShutdownOf(d)
    BY DEF ShutdownLife
  <2> QED BY <1>1, <2>1 DEF ShutdownOf
<1>2. ASSUME \A p \in Pid :
               /\ Unreaped(p)' => Unreaped(p) \/ spawnPc[p] = "backend"
               /\ spawnPc'[p] = "backend" => spawnPc[p] = "backend" \/ ~shuttingDown,
             \A d \in Caller : result'[d] = "ShutdownOk" => result[d] = "ShutdownOk"
      PROVE  ShutdownIsFinal'
  <2> SUFFICES ASSUME NEW d \in Caller, result'[d] = "ShutdownOk"
               PROVE  /\ \A p \in Pid : ~Unreaped(p)' /\ spawnPc'[p] # "backend"
                      /\ \A t \in Scope : ~Registered(t)'
    BY DEF ShutdownIsFinal
  <2>1. result[d] = "ShutdownOk" /\ shuttingDown
    BY <1>2 DEF ShutdownLife, ShutdownOf
  <2> QED BY <1>2, <2>1 DEF ShutdownIsFinal
<1> QED BY <1>1, <1>2

\* The steps outside the calls of the program.
LEMMA QuietConcluded ==
  ASSUME Ended, UNCHANGED <<serial, reports, completedScopes, call, result, todo>>,
         created' \subseteq operations' \cup serial,
         shuttingDown => shuttingDown',
         \A t \in Scope : Registered(t)' => Registered(t) \/ (t \notin serial /\ ~shuttingDown),
         \A d \in Caller : ownersDropped' => ownersDropped \/ call[d].op # "shutdown"
                                             \/ call[d].pc \in {"idle", "done"},
         \A p \in Pid :
           /\ Unreaped(p)' => Unreaped(p) \/ spawnPc[p] = "backend"
           /\ spawnPc'[p] = "backend" => spawnPc[p] = "backend" \/ ~shuttingDown
  PROVE  Concluded'
<1>1. serial \subseteq Scope
  BY Types DEF Ended, Held
<1>2. ReportHistory' /\ UnknownIsEvicted'
  BY ConcludedFrames
<1>3. ScopeRetired'
  <2>1. \A d \in Caller : call[d].pc = "recheck" => call[d].scope \in serial
    BY DEF Ended, Concluded, ScopeRetired
  <2> QED BY <1>1, <2>1, ConcludedFrames
<1>4. ShutdownLife' /\ ShutdownIsFinal'
  BY ShutdownFrames DEF ShutdownLife
<1> QED BY <1>2, <1>3, <1>4 DEF Concluded

LEMMA BackgroundConcluded ==
  ASSUME Ended, [Next]_vars, ~(\E c \in Caller : CallStep(c) \/ Cancel(c) \/ ShutdownCall(c)
                                 \/ (\E s \in Scope : TerminateScopeCall(c, s))
                                 \/ (\E p \in Pid : SingleCall(c, p)))
  PROVE  Concluded'
<1> USE DEF Ended, Held
<1>0. created \subseteq operations \cup serial /\ serial \subseteq Scope
  BY Types DEF Concluded, ScopeRetired
<1>1. ASSUME UNCHANGED <<serial, reports, completedScopes, call, result, todo, created,
                         operations, shuttingDown, ownersDropped, spawnPc>>,
             RegistryForward, OsForward
      PROVE  Concluded'
  BY <1>0, <1>1, QuietConcluded DEF RegistryForward, ScopeEvolves, Registered, OsForward
<1>2. CASE UNCHANGED vars
  <2>1. RegistryForward
    BY <1>2, RegistryKept DEF vars, regVars, Responsible
  <2> QED BY <1>1, <1>2, <2>1, StillForward DEF vars, osVars, regVars, opVars, flagVars,
          spawnVars, callVars
<1>3. ASSUME NEW p \in Pid, OsStep(p) \/ MonitorStep(p) PROVE Concluded'
  <2>1. UNCHANGED <<serial, reports, completedScopes, call, result, todo, created,
                    operations, shuttingDown, ownersDropped, spawnPc>>
    BY <1>3 DEF OsStep, OsExit, OsKill, MonitorStep, MonitorWait, MonitorRecord,
       MonitorNotify, MonitorPrune, regVars, opVars, flagVars, spawnVars, callVars
  <2> QED BY <1>1, <1>3, <2>1, OsBackground, MonitorBackground DEF Background
<1>4. ASSUME NEW c \in Caller, NEW p \in Pid, WorkerStep(c, p) PROVE Concluded'
  <2>1. UNCHANGED <<serial, reports, completedScopes, call, result, todo, created,
                    operations, shuttingDown, ownersDropped, spawnPc>>
    BY <1>4 DEF WorkerStep, TerminateStart, TerminateRequested,
       TerminateObserved, TerminateForce, TerminateTimeout, RetryWait, RetryForce,
       RetryTimeout, RetryRecord, RetryNotify, RetryPrune, WorkerObserve, WaitStart,
       WaitObserved, ReobserveTimeout, regVars, opVars, flagVars, spawnVars, callVars
  <2> QED BY <1>1, <1>4, <2>1, WorkerBackground DEF Background
<1>5. ASSUME NEW s \in Scope, CreateScope(s) PROVE Concluded'
  <2>1. UNCHANGED <<serial, reports, completedScopes, call, result, todo, shuttingDown,
                    ownersDropped, spawnPc, os>>
    BY <1>5 DEF CreateScope, flagVars, callVars, osVars, spawnVars
  <2>2. ~shuttingDown /\ s \notin serial
    BY <1>5 DEF CreateScope, AdmitsScope, Responsible, ScopeLife
  <2>3. \A t \in Scope : t # s => registry'[t] = registry[t]
    BY <1>5, Types DEF CreateScope
  <2>4. created' \subseteq operations' \cup serial
    BY <1>0, <1>5 DEF CreateScope
  <2> QED BY <2>1, <2>2, <2>3, <2>4, QuietConcluded DEF Registered, Unreaped
<1>6. ASSUME NEW p \in Pid, NEW s \in Scope, SpawnCall(p, s) PROVE Concluded'
  <2>1. UNCHANGED <<serial, reports, completedScopes, call, result, todo, shuttingDown,
                    ownersDropped, os, created, operations, registry>>
    BY <1>6 DEF SpawnCall, flagVars, callVars, osVars, regVars, opVars
  <2>2. \A q \in Pid : spawnPc'[q] = "backend" => spawnPc[q] = "backend"
    BY <1>6, Types DEF SpawnCall
  <2> QED BY <1>0, <2>1, <2>2, QuietConcluded DEF Registered, Unreaped
<1>7. ASSUME NEW p \in Pid, SpawnStep(p) PROVE Concluded'
  <2>1. UNCHANGED <<serial, reports, completedScopes, call, result, todo, shuttingDown,
                    ownersDropped, created, operations>>
    BY <1>7 DEF SpawnStep, SpawnLock, SpawnBackendOk, SpawnBackendErr,
       SpawnCheckOwners, SpawnAttach, SpawnOrphan, SpawnReturn, flagVars, callVars,
       regVars, opVars
  <2>2. \A t \in Scope : Registered(t)' => Registered(t)
    <3>1. CASE SpawnAttach(p)
      BY <3>1, AttachEffect DEF Registered
    <3>2. CASE ~SpawnAttach(p)
      BY <1>7, <3>2 DEF SpawnStep, SpawnLock, SpawnBackendOk, SpawnBackendErr,
         SpawnCheckOwners, SpawnOrphan, SpawnReturn, regVars, Registered
    <3> QED BY <3>1, <3>2
  <2>3. \A q \in Pid : spawnPc'[q] = "backend" => spawnPc[q] = "backend" \/ ~shuttingDown
    BY <1>7, Types DEF SpawnStep, SpawnLock, SpawnBackendOk, SpawnBackendErr,
       SpawnCheckOwners, SpawnAttach, SpawnOrphan, SpawnReturn, SpawnLeave, AdmitsSpawn
  <2>4. \A q \in Pid : Unreaped(q)' => Unreaped(q) \/ spawnPc[q] = "backend"
    <3>1. CASE SpawnBackendOk(p)
      BY <3>1, Types DEF SpawnBackendOk, Unreaped
    <3>2. CASE SpawnOrphan(p)
      BY <3>2, BackendForward DEF SpawnOrphan, OsForward
    <3>3. CASE ~SpawnBackendOk(p) /\ ~SpawnOrphan(p)
      BY <1>7, <3>3 DEF SpawnStep, SpawnLock, SpawnBackendErr, SpawnCheckOwners,
         SpawnAttach, SpawnReturn, osVars, Unreaped
    <3> QED BY <3>1, <3>2, <3>3
  <2> QED BY <1>0, <2>1, <2>2, <2>3, <2>4, QuietConcluded
<1>8. CASE DropOwners
  <2>1. /\ UNCHANGED <<serial, reports, completedScopes, call, result, todo, created,
                       operations, registry, os, spawnPc>>
        /\ shuttingDown => shuttingDown'
        /\ \A d \in Caller : ownersDropped' => ownersDropped \/ call[d].op # "shutdown"
                                               \/ call[d].pc \in {"idle", "done"}
    BY <1>8 DEF DropOwners, Free, regVars, opVars, callVars, spawnVars
  <2> QED BY <1>0, <2>1, QuietConcluded DEF Registered, Unreaped
<1> QED BY <1>2, <1>3, <1>4, <1>5, <1>6, <1>7, <1>8 DEF Next

-----------------------------------------------------------------------------
(* The calls of the program. *)

\* A call of c that commits no report and ends no shutdown.
LEMMA CallConcluded ==
  ASSUME Ended, NEW c \in Caller, NEW op, NEW s, NEW pc, CallAt(c, op, s, pc),
         UNCHANGED <<serial, created, os, spawnPc, ownersDropped>>,
         created \subseteq operations' \cup serial,
         shuttingDown => shuttingDown',
         \A t \in Scope : Registered(t)' => Registered(t),
         \A d \in Caller \ {c} : result'[d] = result[d] /\ todo'[d] = todo[d],
         ReportHistory',
         serial \ reports \subseteq serial \ reports',
         call[c].pc = "unregister" => registry'[call[c].scope].state = "Absent",
         pc \in {"retire", "remember"} => registry'[s].state = "Absent",
         pc = "recheck" => s \in serial,
         result'[c] = "UnknownScope" => s \in serial \ reports',
         result'[c] = "ShutdownOk" => result[c] = "ShutdownOk",
         ShutdownOf(c)'
  PROVE  Concluded'
<1>1. serial \subseteq Scope
  BY Types DEF Ended, Held
<1>2. \A d \in Caller \ {c} : /\ call'[d].op = call[d].op /\ call'[d].pc = call[d].pc
                              /\ call'[d].scope = call[d].scope
  BY DEF CallAt
<1>3. call'[c].op = op /\ call'[c].pc = pc /\ call'[c].scope = s
  BY DEF CallAt
<1>4. UnknownIsEvicted'
  <2>1. \A d \in Caller : result'[d] = "UnknownScope" =>
          \/ result[d] = "UnknownScope" /\ call'[d].scope = call[d].scope
          \/ call'[d].scope \in serial \ reports'
    BY <1>2, <1>3
  <2> QED BY <2>1, ConcludedFrames
<1>5. ScopeRetired'
  <2>1. \A d \in Caller : call[d].pc = "recheck" => call[d].scope \in serial
    BY DEF Ended, Concluded, ScopeRetired
  <2>2. \A d \in Caller :
          /\ call[d].pc = "unregister" =>
               \/ call'[d].pc = "unregister" /\ call'[d].scope = call[d].scope
               \/ registry'[call[d].scope].state = "Absent"
          /\ call'[d].pc \in {"retire", "remember"} =>
               \/ /\ call[d].pc \in {"retire", "remember"}
                  /\ call'[d].scope = call[d].scope
               \/ registry'[call'[d].scope].state = "Absent"
          /\ call'[d].pc = "recheck" => call'[d].scope \in serial
    BY <1>2, <1>3, <2>1
  <2> QED BY <1>1, <2>2, ConcludedFrames
<1>6. ShutdownLife'
  <2>1. \A d \in Caller \ {c} : ShutdownOf(d)'
    BY <1>2, ShutdownFrames
  <2> QED BY <2>1 DEF ShutdownLife
<1>7. ShutdownIsFinal'
  <2>1. \A d \in Caller : result'[d] = "ShutdownOk" => result[d] = "ShutdownOk"
    OBVIOUS
  <2> QED BY <2>1, ShutdownFrames DEF Unreaped
<1> QED BY <1>4, <1>5, <1>6, <1>7 DEF Concluded

\* A caller moves on inside terminate_scope or terminate_scope_operation.
LEMMA GotoConcluded ==
  ASSUME Ended, NEW c \in Caller, NEW pc \in ScopePc, Goto(c, pc),
         call[c].pc \in ScopePc,
         pc \in {"reports", "operation", "recheck"} => call[c].op = "terminate_scope",
         UNCHANGED <<serial, reports, completedScopes, created, os, spawnPc,
                     ownersDropped, shuttingDown, result, todo>>,
         created \subseteq operations' \cup serial,
         \A t \in Scope : Registered(t)' => Registered(t),
         pc \in CommitPc => call[c].pc \in CommitPc,
         call[c].pc = "unregister" => registry'[call[c].scope].state = "Absent",
         pc \in {"retire", "remember"} => registry'[call[c].scope].state = "Absent",
         pc = "recheck" => call[c].scope \in serial
  PROVE  Concluded'
<1> DEFINE s == call[c].scope
<1>1. CallAt(c, call[c].op, s, pc)
  <2>1. pc \in CallPc
    BY DEF ScopePc, CallPc
  <2> QED BY <2>1, CallMovesAt DEF Ended, Held
<1>2. ReportHistory'
  <2>1. \A d \in Caller : call'[d].pc \in CommitPc =>
          call[d].pc \in CommitPc /\ call'[d].scope = call[d].scope
    BY <1>1 DEF CallAt
  <2> QED BY <2>1, ConcludedFrames
<1>3. call'[c].op = call[c].op /\ call'[c].pc = pc /\ call'[c].scope = s
  BY <1>1 DEF CallAt
<1>4. ShutdownOf(c)'
  <2>1. ShutdownOf(c) /\ call[c].pc \notin {"idle", "done", "serial", "next"}
        /\ pc \notin {"idle", "done", "serial", "next"}
    BY DEF Ended, Concluded, ShutdownLife, ScopePc
  <2> QED BY <1>3, <2>1 DEF ShutdownOf
<1>5. result[c] = "UnknownScope" => s \in serial \ reports
  BY DEF Ended, Concluded, UnknownIsEvicted
<1> HIDE DEF s
<1> QED BY <1>1, <1>2, <1>4, <1>5, CallConcluded DEF s

\* terminate_scope_operation returns.
LEMMA ReturnConcluded ==
  ASSUME Ended, NEW c \in Caller, NEW res \in {"Report", "UnknownScope", "Error"},
         NEW rep, Return(c, res, rep), call[c].pc \in ScopePc \ {"unregister"},
         UNCHANGED <<serial, created, os, spawnPc, ownersDropped, shuttingDown,
                     operations, registry, todo>>,
         ReportHistory',
         serial \ reports \subseteq serial \ reports',
         res = "UnknownScope" => call[c].scope \in serial \ reports',
         call[c].op = "shutdown" /\ res = "Report" /\ AllVerified(rep) =>
           ~Registered(call[c].scope)
  PROVE  Concluded'
<1> DEFINE s == call[c].scope
           pc == IF call[c].op = "shutdown" THEN "next" ELSE "done"
<1>1. CallAt(c, call[c].op, s, pc)
  BY CallMovesAt DEF Ended, Held
<1>2. call'[c].op = call[c].op /\ call'[c].pc = pc /\ call'[c].scope = s
  BY <1>1 DEF CallAt
<1>3. \A d \in Caller : result'[d] =
        IF d # c THEN result[d]
        ELSE IF call[c].op # "shutdown" THEN res
        ELSE IF res = "Report" /\ AllVerified(rep) THEN result[c] ELSE "Unverified"
  <2>1. result \in [Caller -> CallResult]
    BY DEF Ended, Held, Blocks, CallInv, CallType
  <2>2. CASE call[c].op = "shutdown"
    <3>1. result' = [result EXCEPT ![c] =
                       IF res = "Report" /\ AllVerified(rep) THEN @ ELSE "Unverified"]
      BY <2>2 DEF Return
    <3> QED BY <2>1, <2>2, <3>1
  <2>3. CASE call[c].op # "shutdown"
    <3>1. result' = [result EXCEPT ![c] = res]
      BY <2>3 DEF Return
    <3> QED BY <2>1, <2>3, <3>1
  <2> QED BY <2>2, <2>3
<1>4. ShutdownOf(c) /\ call[c].pc \notin {"idle", "done", "serial", "next"}
  BY DEF Ended, Concluded, ShutdownLife, ScopePc
<1>5. ShutdownOf(c)'
  <2>1. CASE call[c].op = "shutdown"
    <3>1. result'[c] \in {"None", "Unverified"}
      BY <1>3, <1>4, <2>1 DEF ShutdownOf
    <3>2. ASSUME result'[c] = "None", NEW t \in Scope, Registered(t)
          PROVE  t \in todo[c]
      <4>1. /\ result[c] = "None" /\ res = "Report" /\ AllVerified(rep)
            /\ t # s
        BY <1>3, <2>1, <3>2
      <4> QED BY <1>4, <2>1, <3>2, <4>1 DEF ShutdownOf
    <3>3. \A t \in Scope : Registered(t)' => Registered(t)
      BY DEF Registered
    <3> QED BY <1>2, <1>4, <2>1, <3>1, <3>2, <3>3 DEF ShutdownOf
  <2>2. CASE call[c].op # "shutdown"
    BY <1>2, <1>3, <2>2 DEF ShutdownOf
  <2> QED BY <2>1, <2>2
<1>6. /\ result'[c] = "UnknownScope" => s \in serial \ reports'
      /\ result'[c] # "ShutdownOk"
  BY <1>3, <1>4 DEF ShutdownOf
<1>7. created \subseteq operations \cup serial
  BY DEF Ended, Concluded, ScopeRetired
<1>8. pc \notin {"retire", "remember", "recheck"}
  OBVIOUS
<1> HIDE DEF s, pc
<1> QED BY <1>1, <1>3, <1>5, <1>6, <1>7, <1>8, CallConcluded DEF Registered

\* A call begins, is cancelled, or ends with the outcome of its one process.
LEMMA EdgeConcluded ==
  ASSUME Ended, NEW c \in Caller,
         \/ \E s \in Scope : TerminateScopeCall(c, s)
         \/ \E p \in Pid : SingleCall(c, p) \/ SingleReturn(c, p)
         \/ ShutdownCall(c) \/ Cancel(c)
  PROVE  Concluded'
<1> USE DEF Ended, Held
<1>1. /\ UNCHANGED <<serial, reports, completedScopes, created, os, spawnPc,
                     ownersDropped, operations, registry>>
      /\ shuttingDown => shuttingDown'
      /\ call[c].pc # "unregister"
  BY DEF TerminateScopeCall, SingleCall, SingleReturn, ShutdownCall, Cancel, BeginCall,
     Free, osVars, regVars, opVars, flagVars, spawnVars
<1>2. result \in [Caller -> CallResult] /\ todo \in [Caller -> SUBSET Scope]
  BY DEF Blocks, CallInv, CallType
<1>3. \A d \in Caller \ {c} : result'[d] = result[d] /\ todo'[d] = todo[d]
  BY <1>2 DEF TerminateScopeCall, SingleCall, SingleReturn, ShutdownCall, Cancel,
     BeginCall
<1>4. created \subseteq operations' \cup serial
  BY <1>1 DEF Concluded, ScopeRetired
<1>5. result'[c] \notin {"UnknownScope", "ShutdownOk"}
  <2>1. CASE \E p \in Pid : SingleReturn(c, p)
    <3>1. PICK p \in Pid : result'[c] = subRes[c][p]
      BY <1>2, <2>1 DEF SingleReturn
    <3>2. subRes[c][p] \in SubResult
      BY Types
    <3> QED BY <3>1, <3>2 DEF SubResult, Outcome, VerifiedOutcome, UnverifiedOutcome,
            Unknown
  <2>2. CASE ~(\E p \in Pid : SingleReturn(c, p))
    BY <1>2, <2>2 DEF TerminateScopeCall, SingleCall, ShutdownCall, Cancel, BeginCall
  <2> QED BY <2>1, <2>2
<1>6. ASSUME NEW op, NEW s, NEW pc, CallAt(c, op, s, pc),
             pc \notin CommitPc \cup {"recheck"}, ShutdownOf(c)'
      PROVE  Concluded'
  <2>1. \A d \in Caller : call'[d].pc \in CommitPc =>
          call[d].pc \in CommitPc /\ call'[d].scope = call[d].scope
    BY <1>6 DEF CallAt
  <2>2. ReportHistory'
    BY <1>1, <2>1, ConcludedFrames
  <2>3. \A t \in Scope : Registered(t)' => Registered(t)
    BY <1>1 DEF Registered
  <2>4. pc \notin {"retire", "remember", "recheck"}
    BY <1>6 DEF CommitPc
  <2> QED BY <1>1, <1>3, <1>4, <1>5, <1>6, <2>2, <2>3, <2>4, CallConcluded
<1>7. CASE \E s \in Scope : TerminateScopeCall(c, s)
  <2>1. PICK s \in Scope : CallAt(c, "terminate_scope", s, "reports")
    BY <1>7, CallMovesAt DEF TerminateScopeCall
  <2>2. ShutdownOf(c)'
    BY <1>5, <2>1 DEF CallAt, ShutdownOf
  <2> QED BY <1>6, <2>1, <2>2 DEF CommitPc
<1>8. CASE \E p \in Pid : SingleCall(c, p)
  <2>1. PICK op \in {"terminate", "wait"} : CallAt(c, op, NoScope, "single")
    BY <1>8, CallMovesAt DEF SingleCall
  <2>2. ShutdownOf(c)'
    BY <1>5, <2>1 DEF CallAt, ShutdownOf
  <2> QED BY <1>6, <2>1, <2>2 DEF CommitPc
<1>9. CASE \E p \in Pid : SingleReturn(c, p)
  <2>1. "done" \in CallPc /\ Goto(c, "done")
    BY <1>9 DEF SingleReturn, CallPc
  <2>2. CallAt(c, call[c].op, call[c].scope, "done")
    BY <2>1, CallMovesAt
  <2>3. ShutdownOf(c)'
    BY <1>5, <2>2 DEF CallAt, ShutdownOf
  <2> QED BY <1>6, <2>2, <2>3 DEF CommitPc
<1>10. CASE ShutdownCall(c)
  <2>1. CallAt(c, "shutdown", NoScope, "serial")
    BY <1>10, CallMovesAt DEF ShutdownCall
  <2>2. shuttingDown' /\ ~ownersDropped' /\ result'[c] = "None"
    BY <1>1, <1>2, <1>10 DEF ShutdownCall, BeginCall
  <2>3. ShutdownOf(c)'
    BY <2>1, <2>2 DEF CallAt, ShutdownOf
  <2> QED BY <1>6, <2>1, <2>3 DEF CommitPc
<1>11. CASE Cancel(c)
  <2>1. CallAt(c, "none", NoScope, "idle")
    BY <1>11, Types DEF Cancel, CallAt
  <2>2. ShutdownOf(c)'
    BY <1>5, <2>1 DEF CallAt, ShutdownOf
  <2> QED BY <1>6, <2>1, <2>2 DEF CommitPc
<1> QED BY <1>7, <1>8, <1>9, <1>10, <1>11

\* The steps of a terminate_scope up to the commitment of its report.
LEMMA TerminatorConcluded ==
  ASSUME Ended, NEW c \in Caller,
         \/ TerminateScopeLookup(c) \/ ScopeLock(c) \/ ScopeSweep(c)
         \/ ScopeSweepErr(c) \/ ScopeSweepOk(c) \/ ScopeUnverified(c)
  PROVE  Concluded'
<1> USE DEF Ended, Held
<1> DEFINE s == call[c].scope
<1>1. /\ UNCHANGED <<serial, reports, completedScopes, created, os, spawnPc,
                     ownersDropped, shuttingDown, operations, todo>>
      /\ call[c].pc \in ScopePc \ CommitPc /\ s \in created /\ s \in Scope
  <2>1. call[c].pc \in ScopePc \ CommitPc
    BY DEF TerminateScopeLookup, ScopeLock, ScopeSettled, ScopeDrain, ScopeSweep,
       ScopeSweepErr, ScopeSweepOk, ScopeUnverified, ReobserveDone, ScopePc, CommitPc
  <2>2. s \in created /\ s \in Scope
    BY <2>1, Types DEF Responsible, CallLife
  <2>3. UNCHANGED <<serial, reports, completedScopes, created, os, spawnPc,
                    ownersDropped, shuttingDown, operations, todo>>
    BY DEF TerminateScopeLookup, ScopeLock, ScopeSettled, ScopeDrain, ScopeSweep,
       ScopeSweepErr, ScopeSweepOk, ScopeUnverified, osVars, regVars, opVars,
       flagVars, spawnVars
  <2> QED BY <2>1, <2>2, <2>3
<1>2. created \subseteq operations \cup serial
  BY DEF Concluded, ScopeRetired
<1>3. ASSUME NEW res \in {"Report", "UnknownScope", "Error"}, NEW rep,
             Return(c, res, rep), UNCHANGED registry,
             res = "UnknownScope" => s \in serial \ reports,
             call[c].op = "shutdown" /\ res = "Report" /\ AllVerified(rep) =>
               ~Registered(s)
      PROVE  Concluded'
  <2>1. ReportHistory'
    <3>1. CallAt(c, call[c].op, s, IF call[c].op = "shutdown" THEN "next" ELSE "done")
      BY <1>3, CallMovesAt
    <3>2. \A d \in Caller : call'[d].pc \in CommitPc =>
            call[d].pc \in CommitPc /\ call'[d].scope = call[d].scope
      BY <3>1 DEF CallAt, CommitPc
    <3> QED BY <1>1, <3>2, ConcludedFrames
  <2>2. call[c].pc \in ScopePc \ {"unregister"}
    BY <1>1 DEF CommitPc
  <2> QED BY <1>1, <1>3, <2>1, <2>2, ReturnConcluded
<1>4. ASSUME NEW pc \in ScopePc \ CommitPc, Goto(c, pc), UNCHANGED result,
             \A t \in Scope : Registered(t)' => Registered(t),
             pc \in {"reports", "operation", "recheck"} => call[c].op = "terminate_scope",
             pc = "recheck" => s \in serial
      PROVE  Concluded'
  <2>1. /\ call[c].pc # "unregister" /\ pc \notin {"retire", "remember"}
        /\ pc \in ScopePc /\ pc \notin CommitPc
    BY <1>1 DEF CommitPc
  <2> QED BY <1>1, <1>2, <1>4, <2>1, GotoConcluded
<1>5. CASE TerminateScopeLookup(c)
  <2>1. UNCHANGED registry
    BY <1>5 DEF TerminateScopeLookup, regVars
  <2>2. call[c].op = "terminate_scope"
    BY <1>5 DEF TerminateScopeLookup, Concluded, ShutdownLife, ShutdownOf
  <2>3. {"operation", "lock", "recheck"} \subseteq ScopePc \ CommitPc
    BY DEF ScopePc, CommitPc
  <2>4. \/ Return(c, "Report", serialReport[s])
        \/ Goto(c, "operation") /\ UNCHANGED result
        \/ Goto(c, "lock") /\ UNCHANGED result
        \/ Goto(c, "recheck") /\ UNCHANGED result /\ s \notin operations
        \/ call[c].pc = "recheck" /\ s \notin reports /\ Return(c, "UnknownScope", NoReport)
    BY <1>5 DEF TerminateScopeLookup
  <2>5. call[c].pc = "recheck" => s \in serial
    BY DEF Concluded, ScopeRetired
  <2>6. \A t \in Scope : Registered(t)' => Registered(t)
    BY <2>1 DEF Registered
  <2> HIDE DEF s
  <2>7. CASE Return(c, "Report", serialReport[s])
    BY <1>3, <2>1, <2>2, <2>7
  <2>8. CASE call[c].pc = "recheck" /\ s \notin reports /\ Return(c, "UnknownScope", NoReport)
    BY <1>3, <2>1, <2>5, <2>8
  <2>9. CASE UNCHANGED result /\ (Goto(c, "operation") \/ Goto(c, "lock"))
    BY <1>4, <2>2, <2>3, <2>6, <2>9
  <2>10. CASE Goto(c, "recheck") /\ UNCHANGED result /\ s \notin operations
    BY <1>1, <1>2, <1>4, <2>2, <2>3, <2>6, <2>10
  <2> QED BY <2>4, <2>7, <2>8, <2>9, <2>10
<1>6. CASE ScopeSettled(c)
  <2>1. UNCHANGED registry /\ holder[s] = NoTask /\ call[c].pc = "lock"
    BY <1>6 DEF ScopeSettled, regVars
  <2>2. ASSUME s \in serial PROVE ~Registered(s)
    <3> SUFFICES ASSUME Registered(s) PROVE FALSE
      OBVIOUS
    <3>1. PICK d \in Caller : call[d].pc = "unregister" /\ call[d].scope = s
      BY <2>2 DEF Concluded, ScopeRetired
    <3>2. holder[s] = d
      BY <3>1 DEF Responsible, Mutex, CommitPc
    <3> QED BY <2>1, <3>2, ScopeAssumption
  <2>3. reports \subseteq serial
    BY DEF Concluded, ReportHistory
  <2>4. s \in serial \/ Registered(s)
    BY <1>1 DEF Responsible, ScopeLife
  <2>5. s \in serial /\ Return(c, "Report", serialReport[s])
    BY <1>6, <2>3, <2>4 DEF ScopeSettled
  <2> QED BY <1>3, <2>1, <2>2, <2>5
<1>7. CASE ScopeDrain(c)
  <2>1. \A t \in Scope : Registered(t)' => Registered(t)
    <3>1. \A t \in Scope : registry'[t].state = "Draining" => registry[t].state # "Absent"
      BY <1>7, DrainEffect
    <3>2. \A t \in Scope : registry'[t].state # "Draining" =>
            registry'[t].state = registry[t].state
      BY <1>7, DrainEffect
    <3> QED BY <3>1, <3>2 DEF Registered
  <2>2. Goto(c, "join") /\ UNCHANGED result
    BY <1>7 DEF ScopeDrain
  <2> QED BY <1>4, <2>1, <2>2 DEF ScopePc, CommitPc
<1>8. CASE ScopeSweep(c) \/ ScopeSweepOk(c)
  <2>1. /\ UNCHANGED <<registry, result>>
        /\ Goto(c, "sweep") \/ Goto(c, "reobserve")
    BY <1>8 DEF ScopeSweep, ScopeSweepOk, regVars
  <2> QED BY <1>4, <2>1 DEF ScopePc, CommitPc, Registered
<1>9. CASE ScopeSweepErr(c)
  BY <1>3, <1>9 DEF ScopeSweepErr, regVars
<1>10. CASE ScopeUnverified(c)
  <2>1. Return(c, "Report", Reobserved(c)) /\ ~AllVerified(Reobserved(c))
        /\ UNCHANGED registry
    BY <1>10 DEF ScopeUnverified
  <2> QED BY <1>3, <2>1
<1> QED BY <1>5, <1>6, <1>7, <1>8, <1>9, <1>10 DEF ScopeLock

\* Remembering a report evicts the oldest one when the history is full.
LEMMA RememberHistory ==
  ASSUME Ended, NEW c \in Caller, ScopeRemember(c)
  PROVE  ReportHistory' /\ reports' \subseteq reports
<1> USE DEF Ended, Held, Concluded
<1> DEFINE s == call[c].scope
           n == Len(completedScopes)
           queue == Append(completedScopes, s)
           e == IF n = ReportBound THEN 1 ELSE 0
<1>1. /\ n \in Nat /\ n <= ReportBound /\ ReportBound \in Nat \ {0}
      /\ completedScopes \in Seq(Scope) /\ call[c].pc = "remember"
  BY BoundsAssumption, LenProperties DEF ReportHistory, Blocks, OpInv, OperationType,
     ScopeRemember
<1>2. /\ s \in Scope /\ s \in reports
      /\ \A i \in 1..n : completedScopes[i] # s
  BY <1>1, Types DEF ReportHistory, CommitPc, Responsible, CallLife
<1>3. /\ queue \in Seq(Scope) /\ Len(queue) = n + 1 /\ queue[n + 1] = s
      /\ \A i \in 1..n : queue[i] = completedScopes[i]
  BY <1>1, <1>2, AppendProperties
<1>4. /\ completedScopes' = SubSeq(queue, e + 1, n + 1)
      /\ reports' = reports \ {queue[i] : i \in 1..e}
      /\ UNCHANGED serial
  <2>1. (IF Len(queue) > ReportBound THEN Len(queue) - ReportBound ELSE 0) = e
    BY <1>1, <1>3
  <2> QED BY <1>3, <2>1 DEF ScopeRemember
<1>5. /\ e \in {0, 1} /\ e \in Nat /\ e <= n
      /\ (e = 1 <=> n = ReportBound)
      /\ {queue[i] : i \in 1..e} = IF e = 1 THEN {completedScopes[1]} ELSE {}
  <2>1. CASE n = ReportBound
    <3>1. e = 1 /\ 1 \in 1..n
      BY <1>1, <2>1
    <3>2. \A i \in 1..e : i = 1
      BY <3>1
    <3>3. {queue[i] : i \in 1..e} = {queue[1]} /\ queue[1] = completedScopes[1]
      BY <1>3, <3>1, <3>2
    <3> HIDE DEF e, queue
    <3>4. e <= n
      BY <1>1, <3>1
    <3> QED BY <2>1, <3>1, <3>3, <3>4
  <2>2. CASE n # ReportBound
    <3>1. e = 0 /\ 1..e = {}
      BY <2>2
    <3> HIDE DEF e, queue
    <3> QED BY <1>1, <2>2, <3>1
  <2> QED BY <2>1, <2>2
<1> HIDE DEF e
<1>6. /\ Len(completedScopes') = n + 1 - e
      /\ \A i \in 1..(n + 1 - e) : completedScopes'[i] = queue[i + e]
  <2>1. \A i \in (e + 1)..(n + 1) : queue[i] \in Scope
    BY <1>1, <1>3, <1>5, ElementOfSeq
  <2>2. /\ Len(SubSeq(queue, e + 1, n + 1)) = n + 1 - e
        /\ \A i \in 1..(n + 1 - e) : SubSeq(queue, e + 1, n + 1)[i] = queue[i + e]
    <3> HIDE DEF queue, n
    <3>1. /\ Len(SubSeq(queue, e + 1, n + 1)) =
               IF e + 1 <= n + 1 THEN n + 1 - (e + 1) + 1 ELSE 0
          /\ \A i \in 1..(n + 1 - (e + 1) + 1) :
               SubSeq(queue, e + 1, n + 1)[i] = queue[e + 1 + i - 1]
      BY <1>1, <1>5, <2>1, SubSeqProperties
    <3>2. e + 1 <= n + 1 /\ n + 1 - (e + 1) + 1 = n + 1 - e
      BY <1>1, <1>5
    <3>3. ASSUME NEW i \in 1..(n + 1 - e)
          PROVE  SubSeq(queue, e + 1, n + 1)[i] = queue[i + e]
      <4>1. e + 1 + i - 1 = i + e
        BY <1>1, <1>5
      <4> QED BY <3>1, <3>2, <4>1
    <3>4. Len(SubSeq(queue, e + 1, n + 1)) = n + 1 - e
      BY <3>1, <3>2
    <3> QED BY <3>3, <3>4
  <2> QED BY <1>4, <2>2
<1>7. \A i, j \in 1..n : completedScopes[i] = completedScopes[j] => i = j
  BY DEF ReportHistory
<1>8. \A i, j \in 1..(n + 1) : queue[i] = queue[j] => i = j
  BY <1>1, <1>2, <1>3, <1>7
<1>9. \A i \in 1..(n + 1) : queue[i] \in reports
  BY <1>1, <1>2, <1>3 DEF ReportHistory
<1>10. \A d \in Caller : call'[d].pc \in CommitPc =>
         /\ d # c /\ call[d].pc \in CommitPc /\ call'[d].scope = call[d].scope
  <2>1. CallAt(c, call[c].op, s, IF call[c].op = "shutdown" THEN "next" ELSE "done")
    BY CallMovesAt DEF ScopeRemember
  <2> QED BY <2>1 DEF CallAt, CommitPc
<1>11. \A d \in Caller : call'[d].pc \in CommitPc =>
         \A i \in 1..(n + 1) : call[d].scope # queue[i]
  <2> SUFFICES ASSUME NEW d \in Caller, call'[d].pc \in CommitPc,
                      NEW i \in 1..(n + 1), call[d].scope = queue[i]
               PROVE  FALSE
    OBVIOUS
  <2>1. i = n + 1
    BY <1>1, <1>3, <1>10 DEF ReportHistory
  <2>2. call[d].scope = call[c].scope
    BY <1>3, <2>1
  <2> QED BY <1>1, <1>10, <2>2, OneTerminator DEF CommitPc
<1> HIDE DEF queue, n, s
<1>12. e = 1 => reports' = reports \ {queue[1]}
  BY <1>1, <1>4, <1>5
<1>13. e = 0 => reports' = reports
  BY <1>4, <1>5
<1>14. \A d \in Caller : call'[d].pc \in CommitPc =>
         /\ call'[d].scope \in reports'
         /\ \A i \in 1..Len(completedScopes') : completedScopes'[i] # call'[d].scope
  <2> SUFFICES ASSUME NEW d \in Caller, call'[d].pc \in CommitPc
               PROVE  /\ call[d].scope \in reports'
                      /\ \A i \in 1..(n + 1 - e) : completedScopes'[i] # call[d].scope
    BY <1>6, <1>10
  <2>1. call[d].scope \in reports
    BY <1>10 DEF ReportHistory
  <2>2. 1 \in 1..(n + 1) /\ \A i \in 1..(n + 1 - e) : i + e \in 1..(n + 1)
    BY <1>1, <1>5
  <2> QED BY <1>5, <1>6, <1>11, <1>12, <1>13, <2>1, <2>2
<1>15. \A i \in 1..(n + 1 - e) : i + e \in 1..(n + 1) /\ (e = 1 => i + e # 1)
  BY <1>1, <1>5
<1>16. /\ \A i \in 1..Len(completedScopes') : completedScopes'[i] \in reports'
       /\ \A i, j \in 1..Len(completedScopes') :
            completedScopes'[i] = completedScopes'[j] => i = j
  <2>1. \A i, j \in 1..(n + 1 - e) :
          completedScopes'[i] = completedScopes'[j] => i + e = j + e
    BY <1>6, <1>8, <1>15
  <2>2. \A i, j \in 1..(n + 1 - e) : i + e = j + e => i = j
    BY <1>1, <1>5
  <2>3. 1 \in 1..(n + 1)
    BY <1>1
  <2>4. \A i \in 1..(n + 1 - e) : completedScopes'[i] \in reports'
    BY <1>5, <1>6, <1>8, <1>9, <1>12, <1>13, <1>15, <2>3
  <2> QED BY <1>6, <2>1, <2>2, <2>4
<1>17. Len(completedScopes') <= ReportBound
  BY <1>1, <1>5, <1>6
<1>18. serial' \ reports' # {} => Len(completedScopes') = ReportBound
  <2>1. CASE e = 1
    BY <1>1, <1>5, <1>6, <2>1
  <2>2. CASE e = 0
    BY <1>4, <1>5, <1>13, <2>2 DEF ReportHistory, n
  <2> QED BY <1>5, <2>1, <2>2
<1>19. IsFiniteSet(serial') /\ reports' \subseteq serial' /\ reports' \subseteq reports
  BY <1>4 DEF ReportHistory
<1> QED BY <1>14, <1>16, <1>17, <1>18, <1>19 DEF ReportHistory

\* From the commitment of a report to the return.
LEMMA CommitConcluded ==
  ASSUME Ended, NEW c \in Caller,
         ScopeUnregister(c) \/ ScopeRetire(c) \/ ScopeRemember(c)
  PROVE  Concluded'
<1> USE DEF Ended, Held
<1> DEFINE s == call[c].scope
<1>1. /\ UNCHANGED <<serial, created, os, spawnPc, ownersDropped, shuttingDown, todo>>
      /\ call[c].pc \in CommitPc
  BY DEF ScopeUnregister, ScopeRetire, ScopeRemember, osVars, regVars, opVars,
     flagVars, spawnVars, CommitPc
<1>2. s \in Scope /\ s \in serial
  BY <1>1, Types DEF Responsible, CallLife
<1>3. created \subseteq operations \cup serial
  BY DEF Concluded, ScopeRetired
<1>4. CASE ScopeUnregister(c)
  <2>1. /\ registry' = [registry EXCEPT ![s] = NoScopeEntry]
        /\ Goto(c, "retire")
        /\ UNCHANGED <<reports, completedScopes, operations, result>>
    BY <1>4 DEF ScopeUnregister, opVars
  <2>2. \A t \in Scope : registry'[t].state = IF t = s THEN "Absent" ELSE registry[t].state
    BY <1>2, <2>1, Types DEF NoScopeEntry
  <2>3. \A t \in Scope : Registered(t)' => Registered(t)
    BY <2>2 DEF Registered
  <2>4. registry'[s].state = "Absent"
    BY <1>2, <2>2
  <2> QED BY <1>1, <1>3, <2>1, <2>3, <2>4, GotoConcluded DEF ScopePc, CommitPc
<1>5. CASE ScopeRetire(c)
  <2>1. /\ operations' = operations \ {s}
        /\ call[c].pc = "retire" /\ Goto(c, "remember")
        /\ UNCHANGED <<registry, reports, completedScopes, result>>
    BY <1>5 DEF ScopeRetire
  <2>2. registry[s].state = "Absent"
    BY <2>1 DEF Concluded, ScopeRetired, Registered
  <2>3. created \subseteq operations' \cup serial
    BY <1>2, <1>3, <2>1
  <2> QED BY <1>1, <2>1, <2>2, <2>3, GotoConcluded DEF ScopePc, CommitPc, Registered
<1>6. CASE ScopeRemember(c)
  <2>1. /\ Return(c, "Report", serialReport[s]) /\ call[c].pc = "remember"
        /\ UNCHANGED <<operations, registry>>
    BY <1>6 DEF ScopeRemember, regVars
  <2>2. ReportHistory' /\ reports' \subseteq reports
    BY <1>6, RememberHistory
  <2>3. ~Registered(s)
    BY <2>1 DEF Concluded, ScopeRetired
  <2>4. call[c].pc \in ScopePc \ {"unregister"}
    BY <2>1 DEF ScopePc
  <2> QED BY <1>1, <2>1, <2>2, <2>3, <2>4, ReturnConcluded
<1> QED BY <1>4, <1>5, <1>6

\* The report is committed: the scope is in the history before it leaves the
\* registry.
LEMMA PublishConcluded ==
  ASSUME Ended, NEW c \in Caller, ScopePublish(c)
  PROVE  Concluded'
<1> USE DEF Ended, Held, Concluded
<1> DEFINE s == call[c].scope
<1>1. /\ serial' = serial \cup {s} /\ reports' = reports \cup {s}
      /\ call[c].pc = "reobserve" /\ Goto(c, "unregister")
      /\ UNCHANGED <<completedScopes, created, registry, operations, result, todo,
                     shuttingDown, ownersDropped, spawnPc, os>>
  BY DEF ScopePublish, CommitReport, ReobserveDone, osVars, flagVars, spawnVars
<1>2. CallAt(c, call[c].op, s, "unregister")
  BY <1>1, CallMovesAt DEF CallPc
<1>3. /\ \A d \in Caller \ {c} : /\ call'[d].op = call[d].op /\ call'[d].pc = call[d].pc
                                 /\ call'[d].scope = call[d].scope
      /\ call'[c].op = call[c].op /\ call'[c].pc = "unregister" /\ call'[c].scope = s
  BY <1>2 DEF CallAt
<1>4. s \notin serial /\ reports \subseteq serial
  BY <1>1 DEF Responsible, CallLife, DrainPc, ReportHistory
<1>5. serial' \ reports' = serial \ reports
  BY <1>1, <1>4
<1>6. ReportHistory'
  <2>1. IsFiniteSet(serial')
    BY <1>1, FS_AddElement DEF ReportHistory
  <2>2. ASSUME NEW d \in Caller, call'[d].pc \in CommitPc
        PROVE  /\ call'[d].scope \in reports'
               /\ \A i \in 1..Len(completedScopes) : completedScopes[i] # call'[d].scope
    <3>1. CASE d = c
      BY <1>1, <1>3, <1>4, <3>1 DEF ReportHistory
    <3>2. CASE d # c
      BY <1>1, <1>3, <2>2, <3>2 DEF ReportHistory
    <3> QED BY <3>1, <3>2
  <2>3. reports' \subseteq serial'
    BY <1>1, <1>4
  <2> QED BY <1>1, <1>5, <2>1, <2>2, <2>3 DEF ReportHistory
<1>7. ScopeRetired'
  <2>1. \A t \in serial' : Registered(t)' =>
          \E d \in Caller : call'[d].pc = "unregister" /\ call'[d].scope = t
    <3> SUFFICES ASSUME NEW t \in serial', Registered(t)'
                 PROVE  \E d \in Caller : call'[d].pc = "unregister" /\ call'[d].scope = t
      OBVIOUS
    <3>1. CASE t = s
      BY <1>3, <3>1
    <3>2. CASE t # s
      <4>1. t \in serial /\ Registered(t)
        BY <1>1, <3>2 DEF Registered
      <4>2. PICK d \in Caller : call[d].pc = "unregister" /\ call[d].scope = t
        BY <4>1 DEF ScopeRetired
      <4> QED BY <1>1, <1>3, <4>2
    <3> QED BY <3>1, <3>2
  <2>2. \A d \in Caller :
          /\ call'[d].pc \in {"retire", "remember"} =>
               registry'[call'[d].scope].state = "Absent"
          /\ call'[d].pc = "recheck" => call'[d].scope \in serial'
    BY <1>1, <1>3 DEF ScopeRetired, Registered
  <2>3. created' \subseteq operations' \cup serial'
    BY <1>1 DEF ScopeRetired
  <2> QED BY <2>1, <2>2, <2>3 DEF ScopeRetired, Registered
<1>8. UnknownIsEvicted'
  <2>1. \A d \in Caller : call'[d].scope = call[d].scope
    BY <1>3
  <2> QED BY <1>1, <1>5, <2>1 DEF UnknownIsEvicted
<1>9. ShutdownLife' /\ ShutdownIsFinal'
  <2>1. \A t \in Scope : Registered(t)' => Registered(t)
    BY <1>1 DEF Registered
  <2>2. \A d \in Caller \ {c} : ShutdownOf(d)'
    BY <1>1, <1>3, <2>1, ShutdownFrames
  <2>3. ShutdownOf(c)'
    <3>1. ShutdownOf(c)
      BY DEF ShutdownLife
    <3> QED BY <1>1, <1>3, <2>1, <3>1 DEF ShutdownOf
  <2>4. ShutdownIsFinal'
    BY <1>1, <2>1, ShutdownFrames DEF Unreaped
  <2> QED BY <2>2, <2>3, <2>4 DEF ShutdownLife
<1> QED BY <1>6, <1>7, <1>8, <1>9

\* A shutdown that met no failure and has no scope left leaves nothing alive.
LEMMA NothingLeft ==
  ASSUME Ended, ~ownersDropped, \A s \in Scope : ~Registered(s)
  PROVE  \A p \in Pid : ~Unreaped(p) /\ spawnPc[p] # "backend"
<1> USE DEF Ended, Held
<1> SUFFICES ASSUME NEW p \in Pid, Unreaped(p) \/ spawnPc[p] = "backend" PROVE FALSE
  OBVIOUS
<1>1. \A s \in Scope : ~IsOpen(registry[s]) /\ \A q \in Pid : ~Contains(registry[s], q)
  <2>1. \A s \in Scope : \A q \in Pid : ~Contains(registry[s], q)
    BY DEF Responsible, ScopeLife
  <2> QED BY <2>1 DEF Registered, IsOpen
<1>2. home[p] \in Scope \cup {NoScope} /\ created \subseteq Scope
  BY Types
<1>3. spawnPc[p] \notin {"backend", "check", "attach"}
  <2>1. spawnPc[p] # "idle" => home[p] \in Scope
    BY <1>2 DEF Responsible, SpawnLife
  <2> QED BY <1>1, <2>1 DEF Responsible, SpawnLife
<1>4. Unreaped(p)
  BY <1>3
<1>5. OwnedUntilReaped
  BY NothingLostMeansOwned
<1>6. ~Owned(p)
  <2>1. spawnPc[p] # "idle"
    BY <1>4 DEF Unreaped, Blocks, SpawnInv, SpawnFresh
  <2>2. home[p] \in Scope
    BY <1>2, <2>1 DEF Responsible, SpawnLife
  <2> QED BY <1>1, <2>2 DEF Owned
<1>7. spawnPc[p] = "orphan"
  BY <1>3, <1>4, <1>5, <1>6 DEF OwnedUntilReaped
<1> QED BY <1>7 DEF Responsible, SpawnLife

\* The steps of a shutdown of its own.
LEMMA ShutdownConcluded ==
  ASSUME Ended, NEW c \in Caller,
         ShutdownSnapshot(c) \/ ShutdownNext(c) \/ ShutdownReturn(c)
  PROVE  Concluded'
<1> USE DEF Ended, Held, Concluded
<1>1. /\ UNCHANGED <<serial, reports, completedScopes, created, os, spawnPc,
                     ownersDropped, shuttingDown, operations, registry>>
      /\ call[c].pc \in {"serial", "next"}
  BY DEF ShutdownSnapshot, ShutdownNext, ShutdownReturn, osVars, regVars, opVars,
     flagVars, spawnVars
<1>2. /\ ShutdownOf(c) /\ call[c].op = "shutdown" /\ shuttingDown /\ ~ownersDropped
      /\ result[c] \in {"None", "Unverified"}
  <2>1. ShutdownOf(c)
    BY DEF ShutdownLife
  <2> QED BY <1>1, <2>1 DEF ShutdownOf
<1>3. /\ result \in [Caller -> CallResult] /\ todo \in [Caller -> SUBSET Scope]
      /\ call \in [Caller -> CallRecord]
  BY DEF Blocks, CallInv, CallType
<1>4. created \subseteq operations' \cup serial /\ \A t \in Scope : Registered(t)' => Registered(t)
  BY <1>1 DEF ScopeRetired, Registered
<1>5. CASE ShutdownSnapshot(c)
  <2>1. /\ CallAt(c, call[c].op, call[c].scope, "next")
        /\ call[c].pc = "serial" /\ UNCHANGED result
    BY <1>5, CallMovesAt DEF ShutdownSnapshot, CallPc
  <2>2. \A d \in Caller : todo'[d] = IF d = c THEN {s \in Scope : Registered(s)} ELSE todo[d]
    BY <1>3, <1>5 DEF ShutdownSnapshot
  <2>3. call'[c].op = "shutdown" /\ call'[c].pc = "next"
    BY <1>2, <2>1 DEF CallAt
  <2>4. ShutdownOf(c)'
    BY <1>1, <1>2, <1>4, <2>1, <2>2, <2>3 DEF ShutdownOf
  <2>5. ReportHistory'
    <3>1. \A d \in Caller : call'[d].pc \in CommitPc =>
            call[d].pc \in CommitPc /\ call'[d].scope = call[d].scope
      BY <2>1 DEF CallAt, CommitPc
    <3> QED BY <1>1, <3>1, ConcludedFrames
  <2> QED BY <1>1, <1>2, <1>4, <2>1, <2>2, <2>4, <2>5, CallConcluded
<1>6. CASE ShutdownNext(c)
  <2>1. PICK s \in todo[c] :
          /\ todo' = [todo EXCEPT ![c] = @ \ {s}]
          /\ call' = [call EXCEPT ![c].scope = s, ![c].pc = "lock"]
    BY <1>6 DEF ShutdownNext
  <2>2. call[c].pc = "next" /\ UNCHANGED result
    BY <1>6 DEF ShutdownNext
  <2>3. CallAt(c, "shutdown", s, "lock")
    BY <1>2, <1>3, <2>1 DEF CallAt, CallRecord
  <2>4. \A d \in Caller : todo'[d] = IF d = c THEN todo[c] \ {s} ELSE todo[d]
    BY <1>3, <2>1
  <2>5. call'[c].op = "shutdown" /\ call'[c].pc = "lock" /\ call'[c].scope = s
    BY <2>3 DEF CallAt
  <2>6. ShutdownOf(c)'
    <3>1. ASSUME result'[c] = "None", NEW t \in Scope, Registered(t)'
          PROVE  t \in todo'[c] \/ t = s
      <4>1. t \in todo[c]
        BY <1>2, <1>4, <2>2, <3>1 DEF ShutdownOf
      <4> QED BY <2>4, <4>1
    <3> QED BY <1>1, <1>2, <2>2, <2>5, <3>1 DEF ShutdownOf
  <2>7. ReportHistory'
    <3>1. \A d \in Caller : call'[d].pc \in CommitPc =>
            call[d].pc \in CommitPc /\ call'[d].scope = call[d].scope
      BY <2>3 DEF CallAt, CommitPc
    <3> QED BY <1>1, <3>1, ConcludedFrames
  <2> QED BY <1>1, <1>2, <1>4, <2>2, <2>3, <2>4, <2>6, <2>7, CallConcluded
<1>7. CASE ShutdownReturn(c)
  <2>1. /\ CallAt(c, call[c].op, call[c].scope, "done")
        /\ call[c].pc = "next" /\ todo[c] = {} /\ UNCHANGED todo
    BY <1>7, CallMovesAt DEF ShutdownReturn, CallPc
  <2>2. \A d \in Caller : result'[d] =
          IF d = c THEN IF result[c] = "None" THEN "ShutdownOk" ELSE result[c]
          ELSE result[d]
    BY <1>3, <1>7 DEF ShutdownReturn
  <2>3. /\ \A d \in Caller \ {c} : /\ call'[d].op = call[d].op
                                   /\ call'[d].pc = call[d].pc
                                   /\ call'[d].scope = call[d].scope
        /\ call'[c].op = "shutdown" /\ call'[c].pc = "done"
        /\ call'[c].scope = call[c].scope
    BY <1>2, <2>1 DEF CallAt
  <2>4. ShutdownIsFinal'
    <3>1. CASE result[c] = "None"
      <4>1. \A s \in Scope : ~Registered(s)
        BY <1>2, <2>1, <3>1 DEF ShutdownOf
      <4>2. \A p \in Pid : ~Unreaped(p) /\ spawnPc[p] # "backend"
        BY <1>2, <4>1, NothingLeft
      <4> QED BY <1>1, <4>1, <4>2 DEF ShutdownIsFinal, Unreaped, Registered
    <3>2. CASE result[c] # "None"
      BY <1>1, <2>2, <3>2 DEF ShutdownIsFinal, Unreaped, Registered
    <3> QED BY <3>1, <3>2
  <2>5. ShutdownLife'
    <3>1. \A d \in Caller \ {c} : ShutdownOf(d)'
      BY <1>1, <1>4, <2>1, <2>2, <2>3, ShutdownFrames
    <3>2. ShutdownOf(c)'
      BY <1>1, <1>2, <2>3 DEF ShutdownOf
    <3> QED BY <3>1, <3>2 DEF ShutdownLife
  <2>6. ReportHistory'
    <3>1. \A d \in Caller : call'[d].pc \in CommitPc =>
            call[d].pc \in CommitPc /\ call'[d].scope = call[d].scope
      BY <2>3 DEF CommitPc
    <3> QED BY <1>1, <3>1, ConcludedFrames
  <2>7. ScopeRetired'
    <3>1. \A d \in Caller : call'[d].pc = "recheck" => call'[d].scope \in serial
      BY <2>3 DEF ScopeRetired
    <3>2. serial \subseteq Scope
      BY Types
    <3> QED BY <1>1, <1>4, <2>1, <2>3, <3>1, <3>2, ConcludedFrames
  <2>8. UnknownIsEvicted'
    BY <1>1, <1>2, <2>2, <2>3, ConcludedFrames
  <2> QED BY <2>4, <2>5, <2>6, <2>7, <2>8
<1> QED BY <1>5, <1>6, <1>7

\* A terminator joins a worker: only its own pending outcomes change.
LEMMA JoinConcluded ==
  ASSUME Ended, NEW c \in Caller, NEW p \in Pid, ScopeJoin(c, p)
  PROVE  Concluded'
<1>1. UNCHANGED <<serial, reports, completedScopes, call, result, todo, created,
                  operations, shuttingDown, ownersDropped, spawnPc, os, registry>>
  BY DEF ScopeJoin, osVars, opVars, flagVars, spawnVars, callVars
<1>2. created \subseteq operations \cup serial
  BY DEF Ended, Concluded, ScopeRetired
<1> QED BY <1>1, <1>2, QuietConcluded DEF Registered, Unreaped

LEMMA InitConcluded == Init => Concluded
<1> SUFFICES ASSUME Init PROVE Concluded
  OBVIOUS
<1>1. \A s \in Scope : ~Registered(s)
  BY DEF Init, Registered, NoScopeEntry
<1>2. ReportHistory
  <2>1. Len(completedScopes) = 0 /\ 1..Len(completedScopes) = {} /\ ReportBound \in Nat
    BY BoundsAssumption DEF Init
  <2> QED BY <2>1, FS_EmptySet DEF Init, ReportHistory, CommitPc
<1>3. ScopeRetired /\ UnknownIsEvicted
  BY DEF Init, ScopeRetired, UnknownIsEvicted
<1>4. ShutdownLife /\ ShutdownIsFinal
  BY <1>1 DEF Init, ShutdownLife, ShutdownOf, ShutdownIsFinal
<1> QED BY <1>2, <1>3, <1>4 DEF Concluded

LEMMA NextConcluded == Ended /\ [Next]_vars => Concluded'
<1> SUFFICES ASSUME Ended, [Next]_vars PROVE Concluded'
  OBVIOUS
<1>1. CASE \E c \in Caller : CallStep(c) \/ Cancel(c) \/ ShutdownCall(c)
             \/ (\E s \in Scope : TerminateScopeCall(c, s))
             \/ (\E p \in Pid : SingleCall(c, p))
  <2>1. PICK c \in Caller : CallStep(c) \/ Cancel(c) \/ ShutdownCall(c)
          \/ (\E s \in Scope : TerminateScopeCall(c, s))
          \/ (\E p \in Pid : SingleCall(c, p))
    BY <1>1
  <2>2. CASE \E p \in Pid : ScopeJoin(c, p)
    BY <2>2, JoinConcluded
  <2>3. CASE ScopePublish(c)
    BY <2>3, PublishConcluded
  <2>4. CASE ScopeUnregister(c) \/ ScopeRetire(c) \/ ScopeRemember(c)
    BY <2>4, CommitConcluded
  <2>5. CASE ShutdownSnapshot(c) \/ ShutdownNext(c) \/ ShutdownReturn(c)
    BY <2>5, ShutdownConcluded
  <2>6. CASE TerminateScopeLookup(c) \/ ScopeLock(c) \/ ScopeSweep(c)
             \/ ScopeSweepErr(c) \/ ScopeSweepOk(c) \/ ScopeUnverified(c)
    BY <2>6, TerminatorConcluded
  <2>7. CASE \/ \E s \in Scope : TerminateScopeCall(c, s)
             \/ \E p \in Pid : SingleCall(c, p) \/ SingleReturn(c, p)
             \/ ShutdownCall(c) \/ Cancel(c)
    BY <2>7, EdgeConcluded
  <2> QED BY <2>1, <2>2, <2>3, <2>4, <2>5, <2>6, <2>7 DEF CallStep
<1>2. CASE ~(\E c \in Caller : CallStep(c) \/ Cancel(c) \/ ShutdownCall(c)
               \/ (\E s \in Scope : TerminateScopeCall(c, s))
               \/ (\E p \in Pid : SingleCall(c, p)))
  BY <1>2, BackgroundConcluded
<1> QED BY <1>1, <1>2

LEMMA EndedInvariant == Spec => []Ended
<1>1. Init => Concluded
  BY InitConcluded
<1>2. Held /\ NothingLost /\ Concluded /\ [Next]_vars => Concluded'
  BY NextConcluded DEF Ended
<1>3. Spec => [](Held /\ NothingLost)
  BY LostInvariant
<1> QED BY <1>1, <1>2, <1>3, PTL DEF Spec, Ended

\* A report can be missing from the history only when the queue is full of
\* others: the queue injects its positions into the other committed scopes.
LEMMA EvictedMeansFull ==
  ASSUME ReportHistory, completedScopes \in Seq(Scope), NEW s \in serial \ reports
  PROVE  Cardinality(serial) > ReportBound
<1> DEFINE T == serial \ {s}
           f == [i \in 1..ReportBound |-> completedScopes[i]]
<1>1. ReportBound \in Nat \ {0} /\ Len(completedScopes) = ReportBound
  BY BoundsAssumption DEF ReportHistory
<1>2. IsFiniteSet(1..ReportBound) /\ Cardinality(1..ReportBound) = ReportBound
  BY <1>1, FS_Interval
<1>3. /\ IsFiniteSet(serial) /\ IsFiniteSet(T)
      /\ Cardinality(T) = Cardinality(serial) - 1
  BY FS_RemoveElement DEF ReportHistory
<1>4. Cardinality(serial) \in Nat /\ Cardinality(T) \in Nat
  BY <1>3, FS_CardinalityType
<1>5. f \in [1..ReportBound -> T]
  BY <1>1 DEF ReportHistory
<1>6. \A i, j \in 1..ReportBound : f[i] = f[j] => i = j
  BY <1>1 DEF ReportHistory
<1> HIDE DEF T, f
<1>7. ASSUME Cardinality(T) < Cardinality(1..ReportBound) PROVE FALSE
  <2> DEFINE S == 1..ReportBound
  <2>1. /\ IsFiniteSet(S) /\ IsFiniteSet(T) /\ Cardinality(T) < Cardinality(S)
        /\ f \in [S -> T] /\ \A i, j \in S : f[i] = f[j] => i = j
    BY <1>2, <1>3, <1>5, <1>6, <1>7
  <2> HIDE DEF S
  <2>2. \E i, j \in S : i # j /\ f[i] = f[j]
    BY <2>1, FS_PigeonHole
  <2> QED BY <2>1, <2>2
<1> QED BY <1>1, <1>2, <1>3, <1>4, <1>7

\* A terminator queued behind another one's operation mutex finds, when the
\* mutex is free, the committed report or the live scope.
THEOREM QueuedTerminatorIsAnswered == Spec => []QueuedTerminatorAnswered
<1>1. Held => QueuedTerminatorAnswered
  <2> SUFFICES ASSUME Held, NEW c \in Caller, call[c].pc = "lock"
               PROVE  call[c].scope \in serial \/ Registered(call[c].scope)
    BY DEF QueuedTerminatorAnswered
  <2>1. call[c].scope \in created /\ created \subseteq Scope
    BY Types DEF Held, Responsible, CallLife, ScopePc
  <2> QED BY <2>1 DEF Held, Responsible, ScopeLife
<1> QED BY <1>1, LostInvariant, PTL

\* No terminator meets a gap between the live scope and its report: a queued
\* one finds either, and UnknownScope is answered only for a scope whose report
\* was committed and evicted by more later reports than the history holds,
\* however the lookups interleave with the publication of the report.
THEOREM NoGapBeforeTheReport == Spec => []NoReportGap
<1>1. Ended => UnknownMeansEvicted
  <2> SUFFICES ASSUME Ended, NEW c \in Caller, result[c] = "UnknownScope"
               PROVE  /\ call[c].scope \in serial \ reports
                      /\ Cardinality(serial) > ReportBound
    BY DEF UnknownMeansEvicted
  <2>1. call[c].scope \in serial \ reports
    BY DEF Ended, Concluded, UnknownIsEvicted
  <2>2. completedScopes \in Seq(Scope)
    BY DEF Ended, Held, Blocks, OpInv, OperationType
  <2> QED BY <2>1, <2>2, EvictedMeansFull DEF Ended, Concluded
<1>2. UnknownMeansEvicted /\ QueuedTerminatorAnswered => NoReportGap
  BY DEF NoReportGap
<1> QED BY <1>1, <1>2, EndedInvariant, QueuedTerminatorIsAnswered, PTL

\* A shutdown that returned Ok is final: nothing the supervisor created is
\* alive, no spawn is on its way to the backend, no scope is registered, then
\* and in every later state.
THEOREM ShutdownEndsEverything == Spec => []ShutdownIsFinal
<1>1. Ended => ShutdownIsFinal
  BY DEF Ended, Concluded
<1> QED BY <1>1, EndedInvariant, PTL

\* Whichever of several racing calls publishes a report, and whatever waits
\* failed before: it covers every process the scope owned, what it and the
\* waiters call verified is reaped, no process has lost its owner, and no stale
\* failure is answered.
THEOREM RacingReportsAreComplete == Spec => []RacingReportIsComplete
<1>1. VerifiedMeansReaped /\ OwnedUntilReaped /\ ReportIsComplete /\ NoStaleFailure
        => RacingReportIsComplete
  BY DEF RacingReportIsComplete
<1> QED BY <1>1, VerifiedOutcomesAreEvidence, NoProcessIsLost, ReportsAreComplete,
        HistoryIsNotStale, PTL

-----------------------------------------------------------------------------
(* The supervisor implements ScopePromise. *)

\* At most one process ends in a step, and none is born.
OneEnds ==
  \/ \A q \in Pid : Unreaped(q)' = Unreaped(q) /\ IsReaped(q)' = IsReaped(q)
  \/ \E p \in Pid :
       Unreaped(p) /\ IsReaped(p)' /\ \A q \in Pid \ {p} : os'[q] = os[q]

\* No scope opens or closes that is not yet reported.
OpenStay ==
  \A s \in Scope \ serial : IsOpen(registry[s])' = IsOpen(registry[s])

\* No spawn gives up a child in the step.
SpawnsStay ==
  \A p \in Pid :
    spawnPc'[p] \in {"orphan", "failed"} <=> spawnPc[p] \in {"orphan", "failed"}

LEMMA BackendEndsOne ==
  ASSUME Blocks, NEW p \in Pid
  PROVE  /\ UNCHANGED os => OneEnds
         /\ WaitOk(p) \/ WaitErr(p) \/ OsStep(p) => OneEnds
<1>1. UNCHANGED os \/ WaitErr(p) => OneEnds
  BY DEF OneEnds, WaitErr, Unreaped, IsReaped
<1>2. OsStep(p) => OneEnds
  <2> SUFFICES ASSUME OsStep(p)
               PROVE  \A q \in Pid : Unreaped(q)' = Unreaped(q) /\ IsReaped(q)' = IsReaped(q)
    BY DEF OneEnds
  <2> QED BY Types DEF OsStep, OsExit, OsKill, Unreaped, IsReaped
<1>3. ASSUME WaitOk(p) PROVE OneEnds
  <2>1. /\ \A q \in Pid \ {p} : os'[q] = os[q]
        /\ os[p] \in OsState \ {"None", "Alive"}
        /\ os'[p] = IF os[p] \in {"Killed", "KillReaped"}
                    THEN "KillReaped" ELSE "ExitReaped"
    BY <1>3, Types DEF WaitOk
  <2>2. CASE Unreaped(p)
    BY <2>1, <2>2 DEF OneEnds, IsReaped
  <2>3. CASE ~Unreaped(p)
    BY <2>1, <2>3 DEF OneEnds, IsReaped, Unreaped, OsState
  <2> QED BY <2>2, <2>3
<1> QED BY <1>1, <1>2, <1>3

LEMMA ForwardStaysOpen == ASSUME RegistryForward PROVE OpenStay
BY DEF RegistryForward, ScopeEvolves, OpenStay, IsOpen

\* A process that exists was spawned into a created scope.
LEMMA UnreapedHasHome ==
  ASSUME Held, NEW p \in Pid, Unreaped(p)
  PROVE  home[p] \in created /\ home[p] \in Scope
<1>1. spawnPc[p] # "idle"
  BY DEF Held, Blocks, SpawnInv, SpawnFresh, Unreaped
<1>2. home[p] \in created
  BY <1>1 DEF Held, Responsible, SpawnLife
<1> QED BY <1>2, Types DEF Held

\* The promise sees nothing of a step but that a process may have ended.
LEMMA PromiseEnds ==
  ASSUME Held, OneEnds, OpenStay, SpawnsStay,
         UNCHANGED <<created, serial, home, ownersDropped>>
  PROVE  [Promise!Next]_(Promise!vars)
<1>1. UNCHANGED Phase
  BY DEF Phase, OpenStay
<1>2. CASE \A q \in Pid : Unreaped(q)' = Unreaped(q) /\ IsReaped(q)' = IsReaped(q)
  <2>1. UNCHANGED <<AliveIn, Abandoned, Reaped>>
    BY <1>2 DEF AliveIn, Abandoned, Reaped, Disowned, SpawnsStay
  <2> QED BY <1>1, <2>1 DEF Promise!vars
<1>3. ASSUME NEW p \in Pid, Unreaped(p), IsReaped(p)',
             \A q \in Pid \ {p} : os'[q] = os[q]
      PROVE  Promise!End(p)
  <2>1. home[p] \in Scope
    BY <1>3, UnreapedHasHome
  <2>2. p \in Promise!Live \cup Abandoned
    <3>1. p \in AliveIn[home[p]] \/ p \in Abandoned
      BY <1>3, <2>1 DEF AliveIn, Abandoned
    <3> QED BY <2>1, <3>1 DEF Promise!Live
  <2>3. ~Unreaped(p)'
    BY <1>3 DEF IsReaped, Unreaped
  <2>4. \A q \in Pid \ {p} :
          /\ Unreaped(q)' = Unreaped(q) /\ IsReaped(q)' = IsReaped(q)
          /\ Disowned(q)' = Disowned(q)
    BY <1>3 DEF IsReaped, Unreaped, Disowned, SpawnsStay
  <2>5. \A s \in Scope : AliveIn'[s] = AliveIn[s] \ {p}
    BY <2>3, <2>4 DEF AliveIn
  <2>6. AliveIn' = [s \in Scope |-> AliveIn[s] \ {p}]
    BY <2>5 DEF AliveIn
  <2>7. Abandoned' = Abandoned \ {p} /\ Reaped' = Reaped \cup {p}
    BY <1>3, <2>3, <2>4 DEF Abandoned, Disowned, Reaped
  <2> QED BY <1>1, <2>2, <2>6, <2>7 DEF Promise!End, Promise!Leave
<1> QED BY <1>2, <1>3 DEF OneEnds, Promise!Next

\* Nor of a spawn that leaves its process where it was.
LEMMA PromiseSpawns ==
  ASSUME Held, OpenStay, NEW p \in Pid, NEW pc,
         spawnPc' = [spawnPc EXCEPT ![p] = pc],
         UNCHANGED <<os, created, serial, ownersDropped>>,
         \A q \in Pid : home'[q] = home[q] \/ os[q] = "None",
         os[p] = "None" \/ (pc \in {"orphan", "failed"} <=>
                              spawnPc[p] \in {"orphan", "failed"})
  PROVE  UNCHANGED Promise!vars
<1>1. UNCHANGED Phase
  BY DEF Phase, OpenStay
<1>2. \A q \in Pid : /\ Unreaped(q)' = Unreaped(q) /\ IsReaped(q)' = IsReaped(q)
                     /\ Disowned(q)' = Disowned(q)
                     /\ home'[q] = home[q] \/ ~Unreaped(q)
  BY Types DEF Held, Unreaped, IsReaped, Disowned
<1>3. UNCHANGED <<AliveIn, Abandoned, Reaped>>
  BY <1>2 DEF AliveIn, Abandoned, Reaped
<1> QED BY <1>1, <1>3 DEF Promise!vars

\* A birth: the spawn holds the mutex of its scope, which is open.
LEMMA PromiseBirth ==
  ASSUME Held, NEW p \in Pid, SpawnBackendOk(p)
  PROVE  \E s \in Scope : Promise!Spawn(p, s)
<1> USE DEF Held
<1>1. /\ spawnPc[p] = "backend" /\ os[p] = "None"
      /\ UNCHANGED <<created, registry, serial, home, ownersDropped>>
      /\ \A q \in Pid : /\ os'[q] = IF q = p THEN "Alive" ELSE os[q]
                        /\ spawnPc'[q] = IF q = p THEN "check" ELSE spawnPc[q]
  BY Types DEF SpawnBackendOk, regVars, opVars, flagVars, Blocks, SpawnInv, SpawnFresh
<1> DEFINE s == home[p]
<1>2. s \in created /\ s \in Scope /\ IsOpen(registry[s]) /\ s \notin serial
  BY <1>1, Types DEF Responsible, SpawnLife, ScopeLife
<1>3. Phase[s] = "open" /\ UNCHANGED Phase
  BY <1>1, <1>2 DEF Phase
<1>4. /\ ~Unreaped(p) /\ ~IsReaped(p) /\ ~Disowned(p)
      /\ Unreaped(p)' /\ ~IsReaped(p)' /\ ~Disowned(p)'
  BY <1>1 DEF Unreaped, IsReaped, Disowned
<1>5. \A q \in Pid \ {p} :
        /\ Unreaped(q)' = Unreaped(q) /\ IsReaped(q)' = IsReaped(q)
        /\ Disowned(q)' = Disowned(q)
  BY <1>1 DEF Unreaped, IsReaped, Disowned
<1>6. p \notin Promise!Live \cup Reaped \cup Abandoned
  BY <1>4 DEF Promise!Live, AliveIn, Reaped, Abandoned
<1>7. \A t \in Scope : AliveIn'[t] = IF t = s THEN AliveIn[t] \cup {p} ELSE AliveIn[t]
  BY <1>1, <1>4, <1>5 DEF AliveIn
<1>8. AliveIn' = [AliveIn EXCEPT ![s] = @ \cup {p}]
  BY <1>2, <1>7 DEF AliveIn
<1>9. UNCHANGED <<Reaped, Abandoned>>
  BY <1>4, <1>5 DEF Reaped, Abandoned
<1> QED BY <1>1, <1>2, <1>3, <1>6, <1>8, <1>9 DEF Promise!Spawn

\* Only a spawn that finds no owner abandons its child, and it has killed it.
LEMMA PromiseAbandons ==
  ASSUME Held, NEW p \in Pid, SpawnCheckOwners(p)
  PROVE  Promise!Abandon(p) \/ UNCHANGED Promise!vars
<1> USE DEF Held
<1>1. /\ spawnPc[p] = "check"
      /\ UNCHANGED <<os, created, registry, serial, home, ownersDropped>>
  BY DEF SpawnCheckOwners, regVars, opVars, flagVars
<1>2. OpenStay
  BY <1>1 DEF OpenStay
<1>3. CASE ~ownersDropped
  <2>1. spawnPc' = [spawnPc EXCEPT ![p] = "attach"]
    BY <1>3 DEF SpawnCheckOwners
  <2> QED BY <1>1, <1>2, <2>1, PromiseSpawns
<1>4. CASE ownersDropped
  <2>1. \A q \in Pid : spawnPc'[q] = IF q = p THEN "orphan" ELSE spawnPc[q]
    BY <1>4, Types DEF SpawnCheckOwners
  <2>2. UNCHANGED <<Phase, Reaped>>
    BY <1>1, <1>2 DEF Phase, OpenStay, Reaped, IsReaped
  <2>3. \A q \in Pid :
          /\ Unreaped(q)' = Unreaped(q)
          /\ Disowned(q)' = (Disowned(q) \/ (q = p /\ Unreaped(p)))
    BY <1>1, <2>1 DEF Unreaped, Disowned
  <2>4. CASE ~Unreaped(p)
    <3>1. UNCHANGED <<AliveIn, Abandoned>>
      BY <1>1, <2>3, <2>4 DEF AliveIn, Abandoned
    <3> QED BY <1>1, <2>2, <3>1 DEF Promise!vars
  <2>5. CASE Unreaped(p)
    <3>1. home[p] \in Scope
      BY <2>5, UnreapedHasHome
    <3>2. p \in AliveIn[home[p]]
      BY <1>1, <2>5, <3>1 DEF AliveIn, Disowned
    <3>3. p \in Promise!Live
      BY <3>1, <3>2 DEF Promise!Live
    <3>4. \A s \in Scope : AliveIn'[s] = AliveIn[s] \ {p}
      BY <1>1, <2>3, <2>5 DEF AliveIn
    <3>5. AliveIn' = [s \in Scope |-> AliveIn[s] \ {p}]
      BY <3>4 DEF AliveIn
    <3>6. Abandoned' = Abandoned \cup {p}
      BY <2>3, <2>5 DEF Abandoned
    <3> QED
      BY <1>1, <1>4, <2>2, <3>3, <3>5, <3>6 DEF Promise!Abandon, Promise!Leave
  <2> QED BY <2>4, <2>5
<1> QED BY <1>3, <1>4

\* The steps of a scope's termination: it drains once, its report is committed
\* when nothing of it is left, and nothing else of them is seen.
LEMMA PromiseDrains ==
  ASSUME Held, NEW c \in Caller, ScopeDrain(c)
  PROVE  (\E s \in Scope : Promise!Drain(s)) \/ UNCHANGED Promise!vars
<1> USE DEF Held
<1> DEFINE s == call[c].scope
<1>1. UNCHANGED <<os, spawnPc, home, created, serial, ownersDropped>>
  BY DEF ScopeDrain, osVars, opVars, flagVars, spawnVars
<1>2. s \in Scope /\ s \in created /\ s \notin serial
  BY DrainEffect
<1>3. \A t \in Scope :
        IsOpen(registry[t])' = IF t = s THEN FALSE ELSE IsOpen(registry[t])
  <2>1. registry' = [registry EXCEPT ![s] = BeginScopeTermination(@)]
    BY DEF ScopeDrain
  <2>2. registry[s] \in Scopes /\ Shaped(registry[s])
    BY <1>2, Types DEF Responsible, RegistryShaped
  <2>3. ~IsOpen(BeginScopeTermination(registry[s]))
    BY <2>2, BeginTerminationEffect DEF IsOpen
  <2>4. \A t \in Scope :
          registry'[t] = IF t = s THEN BeginScopeTermination(registry[s]) ELSE registry[t]
    BY <1>2, <2>1, Types
  <2> QED BY <2>3, <2>4 DEF IsOpen
<1>4. UNCHANGED <<AliveIn, Reaped, Abandoned>>
  BY <1>1 DEF AliveIn, Reaped, Abandoned, Disowned, Unreaped, IsReaped
<1>5. \A t \in Scope : Phase'[t] = IF t = s THEN "draining" ELSE Phase[t]
  BY <1>1, <1>2, <1>3 DEF Phase
<1>6. Phase' = [Phase EXCEPT ![s] = "draining"]
  BY <1>2, <1>5 DEF Phase
<1>7. Phase[s] \in {"open", "draining"}
  BY <1>2 DEF Phase
<1>8. CASE Phase[s] = "open"
  BY <1>1, <1>2, <1>4, <1>6, <1>8 DEF Promise!Drain, Promise!Enter
<1>9. CASE Phase[s] = "draining"
  <2>1. UNCHANGED Phase
    BY <1>2, <1>6, <1>9 DEF Phase
  <2> QED BY <1>1, <1>4, <2>1 DEF Promise!vars
<1> QED BY <1>7, <1>8, <1>9

LEMMA PromiseReports ==
  ASSUME Held, Held', ReportIsComplete', NEW c \in Caller, ScopePublish(c)
  PROVE  \E s \in Scope : Promise!Report(s)
<1> USE DEF Held
<1> DEFINE s == call[c].scope
<1>1. /\ UNCHANGED <<os, spawnPc, home, created, registry, monPc, ownersDropped>>
      /\ serial' = serial \cup {s} /\ call[c].pc = "reobserve"
  BY DEF ScopePublish, ReobserveDone, CommitReport, osVars, flagVars, spawnVars, monVars
<1>2. s \in Scope /\ s \in created /\ s \notin serial /\ ~IsOpen(registry[s])
  BY <1>1, Types DEF Responsible, CallLife, DrainPc, ScopePc
<1>3. AliveIn[s] = {}
  <2> SUFFICES ASSUME NEW p \in Pid, home[p] = s, Unreaped(p), ~Disowned(p)
               PROVE  FALSE
    BY <1>2 DEF AliveIn
  <2>1. ~IsReaped(p)'
    BY <1>1 DEF Unreaped, IsReaped
  <2>2. monPc[p] = "none"
    BY <1>1, <2>1 DEF ReportIsComplete, ReportedScopeIsDead
  <2>3. spawnPc[p] \in {"check", "attach"}
    BY <2>2, Types DEF Disowned, Responsible, SpawnLife, Blocks, SpawnInv, SpawnFresh,
       Unreaped, SpawnPc
  <2> QED BY <1>2, <2>3 DEF Responsible, SpawnLife
<1>4. UNCHANGED <<AliveIn, Reaped, Abandoned>>
  BY <1>1 DEF AliveIn, Reaped, Abandoned, Disowned, Unreaped, IsReaped
<1>5. \A t \in Scope : Phase'[t] = IF t = s THEN "reported" ELSE Phase[t]
  BY <1>1, <1>2 DEF Phase
<1>6. Phase' = [Phase EXCEPT ![s] = "reported"] /\ Phase[s] = "draining"
  BY <1>2, <1>5 DEF Phase
<1> QED BY <1>1, <1>2, <1>3, <1>4, <1>6 DEF Promise!Report, Promise!Enter

\* What the other calls of the program leave alone.
LEMMA PromiseCalls ==
  ASSUME Held, NEW c \in Caller,
         \/ \E s \in Scope : TerminateScopeCall(c, s)
         \/ \E p \in Pid : SingleCall(c, p) \/ SingleReturn(c, p)
         \/ ShutdownCall(c) \/ TerminateScopeLookup(c) \/ ScopeSettled(c)
         \/ ScopeSweep(c) \/ ScopeSweepErr(c) \/ ScopeSweepOk(c)
         \/ ScopeUnverified(c) \/ ScopeUnregister(c)
         \/ ScopeRetire(c) \/ ScopeRemember(c)
         \/ ShutdownSnapshot(c) \/ ShutdownNext(c) \/ ShutdownReturn(c)
         \/ Cancel(c)
  PROVE  [Promise!Next]_(Promise!vars)
<1>1. UNCHANGED <<os, spawnPc, home, created, ownersDropped>>
  BY CallsAreQuiet DEF Held, ScopeLock
<1>2. UNCHANGED serial /\ OpenStay
  <2>1. CASE ScopeUnregister(c)
    <3>1. /\ UNCHANGED serial /\ call[c].scope \in serial
          /\ registry' = [registry EXCEPT ![call[c].scope] = NoScopeEntry]
      BY <2>1 DEF ScopeUnregister, opVars, Held, Responsible, CallLife, CommitPc
    <3> QED BY <3>1, Types DEF OpenStay, Held
  <2>2. CASE ~ScopeUnregister(c)
    <3>1. CASE \/ \E s \in Scope : TerminateScopeCall(c, s)
               \/ \E p \in Pid : SingleCall(c, p) \/ SingleReturn(c, p)
               \/ ShutdownCall(c) \/ TerminateScopeLookup(c) \/ ScopeSettled(c)
      BY <3>1 DEF TerminateScopeCall, SingleCall, SingleReturn, ShutdownCall,
         TerminateScopeLookup, ScopeSettled, regVars, opVars, OpenStay
    <3>2. CASE ScopeSweep(c) \/ ScopeSweepErr(c) \/ ScopeSweepOk(c) \/ ScopeUnverified(c)
      BY <3>2 DEF ScopeSweep, ScopeSweepErr, ScopeSweepOk, ScopeUnverified, regVars,
         opVars, OpenStay
    <3>3. CASE \/ ScopeRetire(c) \/ ScopeRemember(c) \/ ShutdownSnapshot(c)
               \/ ShutdownNext(c) \/ ShutdownReturn(c) \/ Cancel(c)
      BY <3>3 DEF ScopeRetire, ScopeRemember, ShutdownSnapshot, ShutdownNext,
         ShutdownReturn, Cancel, regVars, opVars, OpenStay
    <3> QED BY <2>2, <3>1, <3>2, <3>3
  <2> QED BY <2>1, <2>2
<1>3. OneEnds /\ SpawnsStay
  BY <1>1 DEF OneEnds, SpawnsStay, Unreaped, IsReaped
<1> QED BY <1>1, <1>2, <1>3, PromiseEnds

\* Every step of the supervisor is one of the promise, or is not seen there.
LEMMA NextPromise ==
  ASSUME Held, Held', ReportIsComplete', [Next]_vars
  PROVE  [Promise!Next]_(Promise!vars)
<1> USE DEF Held
<1>1. ASSUME UNCHANGED <<os, spawnPc, home, created, serial, registry, ownersDropped>>
      PROVE  [Promise!Next]_(Promise!vars)
  <2>1. OneEnds /\ OpenStay /\ SpawnsStay
    BY <1>1 DEF OneEnds, OpenStay, SpawnsStay, Unreaped, IsReaped
  <2> QED BY <1>1, <2>1, PromiseEnds
<1>2. CASE UNCHANGED vars
  BY <1>1, <1>2 DEF vars, osVars, regVars, opVars, flagVars, spawnVars
<1>3. ASSUME NEW s \in Scope, CreateScope(s) PROVE Promise!Open(s)
  <2>1. /\ s \notin created /\ ~ownersDropped /\ created' = created \cup {s}
        /\ registry' = [registry EXCEPT ![s] = NewScope]
        /\ UNCHANGED <<os, serial, spawnPc, home, ownersDropped>>
    BY <1>3 DEF CreateScope, AdmitsScope, osVars, flagVars, spawnVars
  <2>2. s \notin serial
    BY <2>1 DEF Responsible, ScopeLife
  <2>3. \A t \in Scope :
          IsOpen(registry[t])' = IF t = s THEN TRUE ELSE IsOpen(registry[t])
    BY <2>1, Types DEF IsOpen, NewScope
  <2>4. \A t \in Scope : Phase'[t] = IF t = s THEN "open" ELSE Phase[t]
    BY <2>1, <2>2, <2>3 DEF Phase
  <2>5. Phase' = [Phase EXCEPT ![s] = "open"] /\ Phase[s] = "none"
    BY <2>1, <2>4 DEF Phase
  <2>6. UNCHANGED <<AliveIn, Reaped, Abandoned>>
    BY <2>1 DEF AliveIn, Reaped, Abandoned, Disowned, Unreaped, IsReaped
  <2> QED BY <2>1, <2>5, <2>6 DEF Promise!Open, Promise!Enter
<1>4. ASSUME NEW p \in Pid, NEW s \in Scope, SpawnCall(p, s)
      PROVE  UNCHANGED Promise!vars
  <2>1. /\ os[p] = "None" /\ UNCHANGED <<os, created, registry, serial, ownersDropped>>
        /\ \A q \in Pid : home'[q] = home[q] \/ os[q] = "None"
    BY <1>4, Types DEF SpawnCall, osVars, regVars, opVars, flagVars, Blocks, SpawnInv,
       SpawnFresh
  <2>2. PICK pc : spawnPc' = [spawnPc EXCEPT ![p] = pc]
    BY <1>4 DEF SpawnCall
  <2> QED BY <2>1, <2>2, PromiseSpawns DEF OpenStay
<1>5. ASSUME NEW p \in Pid, OsStep(p) PROVE [Promise!Next]_(Promise!vars)
  <2>1. UNCHANGED <<created, registry, serial, home, spawnPc, ownersDropped>>
    BY <1>5 DEF OsStep, OsExit, OsKill, regVars, opVars, flagVars, spawnVars
  <2> QED BY <1>5, <2>1, BackendEndsOne, PromiseEnds DEF OpenStay, SpawnsStay
<1>6. ASSUME NEW p \in Pid, MonitorStep(p) PROVE [Promise!Next]_(Promise!vars)
  <2>1. UNCHANGED <<created, serial, home, spawnPc, ownersDropped>>
    BY <1>6 DEF MonitorStep, MonitorWait, MonitorRecord, MonitorNotify, MonitorPrune,
       regVars, opVars, flagVars, spawnVars
  <2>2. OneEnds
    BY <1>6, BackendEndsOne DEF MonitorStep, MonitorWait, MonitorRecord, MonitorNotify,
       MonitorPrune, osVars
  <2>3. OpenStay
    BY <1>6, MonitorBackground, ForwardStaysOpen DEF Background
  <2> QED BY <2>1, <2>2, <2>3, PromiseEnds DEF SpawnsStay
<1>7. ASSUME NEW c \in Caller, NEW p \in Pid, WorkerStep(c, p) \/ ScopeJoin(c, p)
      PROVE  [Promise!Next]_(Promise!vars)
  <2>1. OneEnds
    <3>1. CASE RetryWait(c, p)
      BY <3>1, BackendEndsOne DEF RetryWait
    <3>2. CASE \/ TerminateStart(c, p) \/ TerminateRequested(c, p)
               \/ TerminateObserved(c, p) \/ TerminateForce(c, p)
               \/ TerminateTimeout(c, p) \/ RetryForce(c, p) \/ RetryTimeout(c, p)
      BY <3>2, BackendEndsOne DEF TerminateStart, TerminateRequested, TerminateObserved,
         TerminateForce, TerminateTimeout, RetryForce, RetryTimeout, osVars
    <3>3. CASE \/ RetryRecord(c, p) \/ RetryNotify(c, p) \/ RetryPrune(c, p)
               \/ WorkerObserve(c, p) \/ WaitStart(c, p) \/ WaitObserved(c, p)
               \/ ReobserveTimeout(c, p) \/ ScopeJoin(c, p)
      BY <3>3, BackendEndsOne DEF RetryRecord, RetryNotify, RetryPrune, WorkerObserve,
         WaitStart, WaitObserved, ReobserveTimeout, ScopeJoin, osVars
    <3> QED BY <1>7, <3>1, <3>2, <3>3 DEF WorkerStep
  <2>2. OpenStay
    BY <1>7, WorkerBackground, ForwardStaysOpen DEF Background
  <2> QED BY <1>7, <2>1, <2>2, WorkerBackground, PromiseEnds DEF SpawnsStay
<1>8. ASSUME NEW p \in Pid, SpawnStep(p) PROVE [Promise!Next]_(Promise!vars)
  <2>1. CASE SpawnLock(p) \/ SpawnBackendErr(p) \/ SpawnReturn(p)
    <3>1. /\ UNCHANGED <<os, created, registry, serial, home, ownersDropped>>
          /\ os[p] = "None" \/ SpawnReturn(p)
      BY <2>1 DEF SpawnLock, SpawnBackendErr, SpawnReturn, osVars, regVars, flagVars,
         Blocks, SpawnInv, SpawnFresh
    <3>2. PICK pc : /\ spawnPc' = [spawnPc EXCEPT ![p] = pc]
                    /\ SpawnReturn(p) => pc = "ok" /\ spawnPc[p] = "attached"
      BY <2>1 DEF SpawnLock, SpawnBackendErr, SpawnReturn, SpawnLeave
    <3> QED BY <3>1, <3>2, PromiseSpawns DEF OpenStay
  <2>2. CASE SpawnBackendOk(p)
    BY <2>2, PromiseBirth DEF Promise!Next
  <2>3. CASE SpawnCheckOwners(p)
    BY <2>3, PromiseAbandons DEF Promise!Next
  <2>4. CASE SpawnAttach(p)
    <3>1. /\ spawnPc[p] = "attach" /\ spawnPc' = [spawnPc EXCEPT ![p] = "attached"]
          /\ UNCHANGED <<os, created, serial, home, ownersDropped>>
      BY <2>4, AttachEffect
    <3>2. OpenStay
      BY <2>4, AttachEffect DEF OpenStay, IsOpen
    <3> QED BY <3>1, <3>2, PromiseSpawns
  <2>5. CASE SpawnOrphan(p)
    <3>1. UNCHANGED <<created, registry, serial, home, ownersDropped>> /\ SpawnsStay
      BY <2>5, Types DEF SpawnOrphan, SpawnLeave, SpawnsStay, regVars, flagVars
    <3>2. OneEnds
      BY <2>5, BackendEndsOne DEF SpawnOrphan
    <3> QED BY <3>1, <3>2, PromiseEnds DEF OpenStay
  <2> QED BY <1>8, <2>1, <2>2, <2>3, <2>4, <2>5 DEF SpawnStep
<1>9. ASSUME NEW c \in Caller,
             \/ CallStep(c) /\ ~(\E p \in Pid : ScopeJoin(c, p))
             \/ \E s \in Scope : TerminateScopeCall(c, s)
             \/ \E p \in Pid : SingleCall(c, p)
             \/ ShutdownCall(c) \/ Cancel(c)
      PROVE  [Promise!Next]_(Promise!vars)
  <2>1. CASE ScopeDrain(c)
    BY <2>1, PromiseDrains DEF Promise!Next
  <2>2. CASE ScopePublish(c)
    BY <2>2, PromiseReports DEF Promise!Next
  <2>3. CASE ~ScopeDrain(c) /\ ~ScopePublish(c)
    BY <1>9, <2>3, PromiseCalls DEF CallStep, ScopeLock
  <2> QED BY <2>1, <2>2, <2>3
<1>10. CASE DropOwners
  <2>1. UNCHANGED <<os, spawnPc, home, created, serial, registry>>
    BY <1>10 DEF DropOwners, regVars, opVars, spawnVars
  <2>2. CASE UNCHANGED ownersDropped
    BY <1>1, <2>1, <2>2
  <2>3. CASE ownersDropped' = TRUE
    <3>1. UNCHANGED <<Phase, AliveIn, Reaped, Abandoned>>
      BY <2>1 DEF Phase, AliveIn, Reaped, Abandoned, Disowned, Unreaped, IsReaped
    <3> QED BY <2>3, <3>1 DEF Promise!Drop, Promise!Next
  <2> QED BY <1>10, <2>2, <2>3 DEF DropOwners
<1>11. ASSUME NEW s \in Scope, CreateScope(s) PROVE [Promise!Next]_(Promise!vars)
  BY <1>3, <1>11 DEF Promise!Next
<1> QED
  BY <1>2, <1>4, <1>5, <1>6, <1>7, <1>8, <1>9, <1>10, <1>11 DEF Next, CallStep

\* The supervisor implements ScopePromise, for any number of scopes, processes
\* and callers, whatever fails or is cancelled: processes are born into open
\* scopes only, a scope drains once and is reported when nothing of it is left,
\* and no process is abandoned as long as the supervisor has an owner.
THEOREM ScopesKeepPromise == Spec => KeepsPromise
<1>1. Init => Promise!Init
  BY DEF Init, Promise!Init, Phase, AliveIn, Reaped, Abandoned, Disowned, Unreaped,
     IsReaped
<1>2. Held /\ Held' /\ ReportIsComplete' /\ [Next]_vars => [Promise!Next]_(Promise!vars)
  BY NextPromise
<1>3. Spec => []Held
  BY EvidenceInvariant DEF Held
<1> QED BY <1>1, <1>2, <1>3, ReportsAreComplete, PTL DEF Spec, KeepsPromise, Promise!Spec
=============================================================================
