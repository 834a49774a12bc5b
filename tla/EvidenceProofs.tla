--------------------------- MODULE EvidenceProofs ---------------------------
(***************************************************************************)
(* What is known of a process, and where first, for every value of the     *)
(* constants: the registry is the first to know of a verified exit, no     *)
(* corrected failure is answered, and nothing that a drained scope owned   *)
(* is missing from its report.                                             *)
(*                                                                         *)
(* The inductive invariant is Evidence, on top of IndInv and Responsible.  *)
(* Every step moves the registry in the same way (RegistryMoves) but for   *)
(* the processes whose exit it records; what a part of Evidence asks of    *)
(* the rest of a step is in EvidenceFrames.                                *)
(***************************************************************************)
EXTENDS OwnershipProofs

Evidence == RegistryLeads /\ Accounted /\ NoStaleFailure

Early == {"none", "wait", "record", "recordFailed"}

\* The registry in a step that records exits for the processes of rec only:
\* it lists what it listed and what is attached to an open scope, forgets
\* verified exits only, except in a committed scope, and changes none.
RegistryMoves(rec) ==
  \A s \in Scope, p \in Pid :
    /\ Contains(registry[s], p)' =>
         \/ Contains(registry[s], p)
         \/ IsOpen(registry[s]) /\ monPc[p] = "none"
    /\ Contains(registry[s], p) =>
         \/ Contains(registry[s], p)'
         \/ registry[s].processes[p].exit \in VerifiedOutcome
         \/ s \in serial
    /\ Contains(registry[s], p)' /\ p \notin rec =>
         registry'[s].processes[p].exit = registry[s].processes[p].exit
    /\ registry[s].processes[p].exit \in VerifiedOutcome =>
         registry'[s].processes[p] \in {registry[s].processes[p], NoProcess}

\* A process with a monitor keeps its scope; a monitor that has recorded has
\* recorded.
MonitorsMove ==
  \A p \in Pid : /\ monPc[p] # "none" => monPc'[p] # "none" /\ home'[p] = home[p]
                 /\ monPc'[p] \in Early => monPc[p] \in Early

\* What is settled stays settled.
Advances == \A p \in Pid : Settled(p) => Settled(p)'

\* Until a scope's report is committed its pending outcomes are not lost.
PendingKept ==
  \A s \in Scope \ serial, p \in Pid :
    pending[s][p] # NoExit => pending'[s][p] # NoExit

\* What Responsible says of a process that is listed.
LEMMA ListedFacts ==
  ASSUME Responsible, NEW s \in Scope, NEW p \in Pid
  PROVE  /\ Contains(registry[s], p) =>
              home[p] = s /\ monPc[p] # "none" /\ Owned(p)
         /\ Contains(registry[s], p) => RecordedExit(p) = registry[s].processes[p].exit
         /\ ~Contains(registry[s], p) => registry[s].processes[p].exit = NoExit
<1>1. Contains(registry[s], p) => home[p] = s /\ monPc[p] # "none"
  BY DEF Responsible, SpawnLife
<1>2. ~Contains(registry[s], p) => registry[s].processes[p].exit = NoExit
  BY DEF Responsible, RegistryShaped, Shaped, Contains
<1> QED BY <1>1, <1>2 DEF Owned, RecordedExit

LEMMA MovesAdvance ==
  ASSUME Responsible, Responsible', NEW rec \in SUBSET Pid, RegistryMoves(rec),
         MonitorsMove
  PROVE  Advances
<1> SUFFICES ASSUME NEW p \in Pid, Settled(p) PROVE Settled(p)'
  BY DEF Advances
<1>1. monPc'[p] # "none" /\ home'[p] = home[p] /\ monPc[p] # "none"
  BY DEF MonitorsMove, Settled
<1>2. ASSUME Owned(p)' PROVE RecordedExit(p)' \in VerifiedOutcome
  <2>1. home[p] \in Scope /\ Contains(registry[home[p]], p)'
    BY <1>1, <1>2 DEF Owned
  <2>2. registry'[home[p]].processes[p].state # "Absent"
    BY <1>1, <2>1 DEF Contains
  <2>3. Contains(registry[home[p]], p)
    BY <1>1, <2>1, <2>2 DEF RegistryMoves, Contains
  <2>4. registry[home[p]].processes[p].exit \in VerifiedOutcome
    BY <2>1, <2>3 DEF Settled, Owned, RecordedExit
  <2>5. registry'[home[p]].processes[p] = registry[home[p]].processes[p]
    BY <2>1, <2>2, <2>4 DEF RegistryMoves, NoProcess
  <2> QED BY <1>1, <2>4, <2>5 DEF RecordedExit
<1> QED BY <1>1, <1>2 DEF Settled

\* What each part of Evidence asks of a step.
LEMMA EvidenceFrames ==
  ASSUME Blocks, Responsible, Responsible', Evidence,
         NEW rec \in SUBSET Pid, RegistryMoves(rec), MonitorsMove
  PROVE  /\ UNCHANGED waiters => WaitersFollow' /\ SlotVerified'
         /\ /\ \A p \in Pid : TryGet(waiters, p)' \in UnverifiedOutcome =>
                 p \notin rec /\ Owned(p) /\ RecordedExit(p) \in UnverifiedOutcome
            => NoStaleFailure'
         /\ UNCHANGED monExit => MonitorsFollow'
         /\ UNCHANGED pending => PendingFollows' /\ PendingKept
         /\ UNCHANGED <<subFut, subObs, subRes>> => WorkersFollow'
         /\ /\ \A p \in rec : monPc'[p] \notin Early
            /\ \A c \in Caller, p \in Pid : subPc'[c][p] \in QuarantinePc =>
                 subPc[c][p] \in QuarantinePc \/ monPc[p] \notin Early
            => MonitorFirst'
         /\ UNCHANGED <<subPc, subRes>> => RetryVerified'
         /\ UNCHANGED serial /\ (\A p \in rec : home[p] \notin serial) =>
              CommittedSettled'
         /\ /\ UNCHANGED <<serial, serialReport>>
            /\ \A s \in serial : owed'[s] = owed[s]
            => ReportCoversDrainedProcesses'
         /\ /\ UNCHANGED <<serial, owed>> /\ PendingKept
            /\ \A s \in Scope : IsOpen(registry[s]) => IsOpen(registry[s])'
            /\ \A p \in rec : home[p] \in Scope =>
                 IsOpen(registry'[home[p]]) \/ pending'[home[p]][p] # NoExit
            => DrainRecorded'
         /\ /\ PendingKept
            /\ \A c \in Caller : call'[c].pc \in DrainPc =>
                 /\ call[c].pc \in DrainPc
                 /\ call'[c].pc = call[c].pc /\ call'[c].scope = call[c].scope
                 /\ call[c].pc = "join" => \A p \in Pid :
                      subPc[c][p] # "idle" =>
                        \/ subPc'[c][p] # "idle"
                        \/ pending'[call[c].scope][p] # NoExit
            => DrainTracked'
<1> USE DEF Evidence, RegistryLeads, Accounted
<1>1. Advances
  BY MovesAdvance
<1>2. UNCHANGED waiters => WaitersFollow' /\ SlotVerified'
  BY <1>1 DEF Advances, WaitersFollow, SlotVerified, TryGet
<1>3. ASSUME \A p \in Pid : TryGet(waiters, p)' \in UnverifiedOutcome =>
               p \notin rec /\ Owned(p) /\ RecordedExit(p) \in UnverifiedOutcome
      PROVE  NoStaleFailure'
  <2> SUFFICES ASSUME NEW p \in Pid, TryGet(waiters, p)' \in UnverifiedOutcome
               PROVE  Owned(p)' /\ RecordedExit(p)' \in UnverifiedOutcome
    BY DEF NoStaleFailure
  <2> DEFINE s == home[p]
  <2>1. /\ s \in Scope /\ Contains(registry[s], p) /\ p \notin rec
        /\ registry[s].processes[p].exit \in UnverifiedOutcome
    BY <1>3 DEF Owned, RecordedExit
  <2>2. home'[p] = s
    BY <2>1, ListedFacts DEF MonitorsMove
  <2>3. s \notin serial
    BY <2>1, OutcomeKinds DEF CommittedSettled
  <2>4. /\ registry'[s].processes[p].state # "Absent"
        /\ registry'[s].processes[p].exit = registry[s].processes[p].exit
    BY <2>1, <2>2, <2>3, OutcomeKinds DEF RegistryMoves, Contains
  <2> HIDE DEF s
  <2> QED BY <2>1, <2>2, <2>4 DEF Owned, RecordedExit, Contains
<1>4. UNCHANGED monExit => MonitorsFollow'
  BY <1>1 DEF Advances, MonitorsFollow
<1>5. UNCHANGED pending => PendingFollows' /\ PendingKept
  BY <1>1 DEF Advances, PendingFollows, PendingKept
<1>6. UNCHANGED <<subFut, subObs, subRes>> => WorkersFollow'
  BY <1>1 DEF Advances, WorkersFollow
<1>7. ASSUME \A p \in rec : monPc'[p] \notin Early,
             \A c \in Caller, p \in Pid : subPc'[c][p] \in QuarantinePc =>
               subPc[c][p] \in QuarantinePc \/ monPc[p] \notin Early
      PROVE  MonitorFirst'
  <2> SUFFICES ASSUME NEW p \in Pid, monPc'[p] \in Early
               PROVE  /\ Owned(p)' => RecordedExit(p)' = NoExit
                      /\ \A c \in Caller : subPc'[c][p] \notin QuarantinePc
    BY DEF MonitorFirst, Early
  <2>1. monPc[p] \in Early /\ p \notin rec
    BY <1>7 DEF MonitorsMove
  <2>2. \A c \in Caller : subPc'[c][p] \notin QuarantinePc
    BY <1>7, <2>1 DEF MonitorFirst, Early
  <2>3. ASSUME Owned(p)' PROVE RecordedExit(p)' = NoExit
    <3> DEFINE s == home'[p]
    <3>1. s \in Scope /\ registry'[s].processes[p].state # "Absent"
      BY <2>3 DEF Owned, Contains
    <3>2. registry'[s].processes[p].exit = registry[s].processes[p].exit
      BY <2>1, <3>1 DEF RegistryMoves, Contains
    <3>3. registry[s].processes[p].exit = NoExit
      BY <2>1, <3>1, ListedFacts DEF MonitorFirst, Early
    <3> HIDE DEF s
    <3> QED BY <3>2, <3>3 DEF RecordedExit, s
  <2> QED BY <2>2, <2>3
<1>8. UNCHANGED <<subPc, subRes>> => RetryVerified'
  BY DEF RetryVerified
<1>9. ASSUME UNCHANGED serial, \A p \in rec : home[p] \notin serial
      PROVE  CommittedSettled'
  <2> SUFFICES ASSUME NEW s \in serial, NEW p \in Pid, Contains(registry'[s], p)
               PROVE  registry'[s].processes[p].exit \in VerifiedOutcome
    BY <1>9 DEF CommittedSettled
  <2>1. s \in Scope /\ ~IsOpen(registry[s])
    BY Types DEF Responsible, ScopeLife
  <2>2. Contains(registry[s], p)
    BY <2>1 DEF RegistryMoves
  <2>3. p \notin rec
    BY <1>9, <2>1, <2>2, ListedFacts
  <2> QED BY <2>1, <2>2, <2>3 DEF CommittedSettled, RegistryMoves
<1>10. /\ UNCHANGED <<serial, serialReport>>
       /\ \A s \in serial : owed'[s] = owed[s]
       => ReportCoversDrainedProcesses'
  BY DEF ReportCoversDrainedProcesses
<1>11. ASSUME UNCHANGED <<serial, owed>>, PendingKept,
              \A s \in Scope : IsOpen(registry[s]) => IsOpen(registry[s])',
              \A p \in rec : home[p] \in Scope =>
                IsOpen(registry'[home[p]]) \/ pending'[home[p]][p] # NoExit
       PROVE  DrainRecorded'
  <2> SUFFICES ASSUME NEW s \in Scope \ serial, NEW p \in Pid
               PROVE  /\ p \in owed[s] => \/ Contains(registry'[s], p)
                                          \/ pending'[s][p] # NoExit
                      /\ /\ ~IsOpen(registry'[s])
                         /\ registry'[s].processes[p].exit # NoExit
                         => pending'[s][p] # NoExit
    BY <1>11 DEF DrainRecorded
  <2>1. ASSUME p \in owed[s], ~Contains(registry'[s], p)
        PROVE  pending'[s][p] # NoExit
    <3>1. ~IsOpen(registry[s])
      BY <2>1 DEF Responsible, ScopeLife
    <3>2. Contains(registry[s], p) =>
            registry[s].processes[p].exit \in VerifiedOutcome
      BY <2>1 DEF RegistryMoves
    <3> QED
      BY <1>11, <2>1, <3>1, <3>2, OutcomeKinds DEF DrainRecorded, PendingKept
  <2>2. ASSUME ~IsOpen(registry'[s]), registry'[s].processes[p].exit # NoExit
        PROVE  pending'[s][p] # NoExit
    <3>1. Contains(registry'[s], p)
      BY <2>2 DEF Responsible, RegistryShaped, Shaped, Contains
    <3>2. Contains(registry[s], p) /\ ~IsOpen(registry[s])
      BY <1>11, <2>2, <3>1 DEF RegistryMoves
    <3>3. CASE p \in rec
      BY <1>11, <2>2, <3>2, <3>3, ListedFacts
    <3>4. CASE p \notin rec
      BY <1>11, <2>2, <3>1, <3>2, <3>4 DEF RegistryMoves, DrainRecorded, PendingKept
    <3> QED BY <3>3, <3>4
  <2> QED BY <2>1, <2>2
<1>12. ASSUME PendingKept,
              \A c \in Caller : call'[c].pc \in DrainPc =>
                /\ call[c].pc \in DrainPc
                /\ call'[c].pc = call[c].pc /\ call'[c].scope = call[c].scope
                /\ call[c].pc = "join" => \A p \in Pid :
                     subPc[c][p] # "idle" =>
                       \/ subPc'[c][p] # "idle"
                       \/ pending'[call[c].scope][p] # NoExit
       PROVE  DrainTracked'
  <2> SUFFICES ASSUME NEW c \in Caller, NEW p \in Pid, call'[c].pc \in DrainPc,
                      Contains(registry'[call'[c].scope], p)
               PROVE  \/ pending'[call'[c].scope][p] # NoExit
                      \/ call'[c].pc = "join" /\ subPc'[c][p] # "idle"
    BY DEF DrainTracked
  <2> DEFINE s == call[c].scope
  <2>1. /\ call[c].pc \in DrainPc /\ call'[c].pc = call[c].pc /\ call'[c].scope = s
        /\ call[c].pc = "join" => (subPc[c][p] # "idle" =>
             subPc'[c][p] # "idle" \/ pending'[s][p] # NoExit)
    BY <1>12
  <2>2. s \in Scope /\ s \notin serial /\ ~IsOpen(registry[s])
    BY <2>1, Types DEF Responsible, CallLife, DrainPc, ScopePc
  <2> HIDE DEF s
  <2>3. Contains(registry[s], p)
    BY <2>1, <2>2 DEF RegistryMoves
  <2>4. pending[s][p] # NoExit \/ (call[c].pc = "join" /\ subPc[c][p] # "idle")
    BY <2>1, <2>3 DEF DrainTracked, s
  <2> QED BY <1>12, <2>1, <2>2, <2>4 DEF PendingKept
<1> QED
  BY <1>2, <1>3, <1>4, <1>5, <1>6, <1>7, <1>8, <1>9, <1>10, <1>11, <1>12

-----------------------------------------------------------------------------
(* The registry in the steps that record no exit. *)

\* What is left alone, or only moves forward, moves as it should.
LEMMA EvolveMoves ==
  ASSUME Blocks, Responsible, NEW rec \in SUBSET Pid, RegistryForward,
         \A s \in Scope, p \in Pid :
           Contains(registry[s], p)' /\ p \notin rec =>
             registry'[s].processes[p].exit = registry[s].processes[p].exit
  PROVE  /\ RegistryMoves(rec)
         /\ \A s \in Scope : IsOpen(registry[s]) => IsOpen(registry[s])'
BY DEF RegistryForward, ScopeEvolves, RegistryMoves, IsOpen

LEMMA StillMoves ==
  ASSUME Blocks, Responsible, UNCHANGED registry
  PROVE  /\ RegistryMoves({})
         /\ \A s \in Scope : IsOpen(registry[s]) => IsOpen(registry[s])'
<1>1. RegistryForward
  BY RegistryKept DEF Responsible
<1> QED BY <1>1, EvolveMoves

LEMMA MonitorsStill ==
  ASSUME UNCHANGED <<monPc, home>>
  PROVE  MonitorsMove
BY DEF MonitorsMove

\* The methods that record nothing, applied to p's entry in its own scope.
LEMMA MethodMoves ==
  ASSUME Blocks, Responsible, NEW p \in Pid,
         NEW next \in {RequestTermination(registry[home[p]], p),
                       EscalateTermination(registry[home[p]], p),
                       Prune(registry[home[p]], p)},
         registry' = [registry EXCEPT ![home[p]] = next]
  PROVE  /\ RegistryMoves({})
         /\ \A s \in Scope : IsOpen(registry[s]) => IsOpen(registry[s])'
<1>1. CASE home[p] \notin Scope
  <2>1. registry' = registry
    BY <1>1, Types
  <2> QED BY <2>1, StillMoves
<1>2. CASE home[p] \in Scope
  <2> DEFINE s == home[p]
             scope == registry[s]
  <2>1. s \in Scope /\ scope \in Scopes /\ Shaped(scope)
    BY <1>2, Types DEF Responsible, RegistryShaped
  <2>2. /\ \A q \in Pid : scope.processes[q] \in Process
        /\ scope.processes \in [Pid -> Process]
        /\ scope.processes[p].exit = NoExit <=> scope.processes[p].state # "Reaped"
    BY <2>1, ScopeFields DEF Shaped
  <2>3. next \in Scopes /\ ScopeEvolves(scope, next) /\ Shaped(next)
    BY <2>1, ScopeMethodTypes, ScopeForward
  <2>4. \A q \in Pid : Contains(next, q) =>
          next.processes[q].exit = scope.processes[q].exit
    <3>1. CASE next = RequestTermination(scope, p)
      <4>1. next.processes = [scope.processes EXCEPT ![p] =
                                RequestGraceful(scope.processes[p])]
        BY <2>1, <3>1, ScopeFields DEF RequestTermination
      <4> QED BY <2>2, <4>1, ProcessForward
    <3>2. CASE next = EscalateTermination(scope, p)
      <4>1. next.processes = [scope.processes EXCEPT ![p] =
                                EscalateToForce(scope.processes[p])]
        BY <2>1, <3>2, ScopeFields DEF EscalateTermination
      <4> QED BY <2>2, <4>1, ProcessForward
    <3>3. CASE next = Prune(scope, p)
      <4>1. \/ next = scope
            \/ next.processes = [scope.processes EXCEPT ![p] = NoProcess]
        BY <2>1, <3>3, ScopeFields DEF Prune
      <4>2. NoProcess.state = "Absent"
        BY DEF NoProcess
      <4> QED BY <2>2, <4>1, <4>2 DEF Contains
    <3> QED BY <3>1, <3>2, <3>3
  <2> HIDE DEF scope
  <2>5. \A t \in Scope : registry'[t] = IF t = s THEN next ELSE registry[t]
    BY <2>1, Types
  <2>6. RegistryForward
    BY <2>1, <2>3, RegistryKept DEF scope, Responsible
  <2>7. \A t \in Scope, q \in Pid : Contains(registry'[t], q) =>
          registry'[t].processes[q].exit = registry[t].processes[q].exit
    BY <2>4, <2>5 DEF scope
  <2> QED BY <2>6, <2>7, EvolveMoves
<1> QED BY <1>1, <1>2

-----------------------------------------------------------------------------
(* The workers. *)

\* A worker's move, seen from every worker.
SubAt(c, p, pc, fut, obs, res) ==
  \A d \in Caller, q \in Pid :
    /\ subPc'[d][q] = IF d = c /\ q = p THEN pc ELSE subPc[d][q]
    /\ subFut'[d][q] = IF d = c /\ q = p THEN fut ELSE subFut[d][q]
    /\ subObs'[d][q] = IF d = c /\ q = p THEN obs ELSE subObs[d][q]
    /\ subRes'[d][q] = IF d = c /\ q = p THEN res ELSE subRes[d][q]

LEMMA SubMovesAt ==
  ASSUME Blocks, NEW c \in Caller, NEW p \in Pid
  PROVE  /\ \A res : SubDone(c, p, res) =>
              SubAt(c, p, "done", Unregistered, Unregistered, res)
         /\ \A pc : SubStep(c, p, pc) =>
              SubAt(c, p, pc, subFut[c][p], subObs[c][p], subRes[c][p])
         /\ SubReset(c, p) =>
              SubAt(c, p, "idle", subFut[c][p], subObs[c][p], "None")
<1>1. /\ subPc \in [Caller -> [Pid -> SubPc]]
      /\ subFut \in [Caller -> [Pid -> Receiver]]
      /\ subObs \in [Caller -> [Pid -> Receiver]]
      /\ subRes \in [Caller -> [Pid -> SubResult]]
  BY Types
<1>2. ASSUME NEW res, SubDone(c, p, res)
      PROVE  SubAt(c, p, "done", Unregistered, Unregistered, res)
  BY <1>1, <1>2 DEF SubDone, SubAt
<1>3. ASSUME NEW pc, SubStep(c, p, pc)
      PROVE  SubAt(c, p, pc, subFut[c][p], subObs[c][p], subRes[c][p])
  BY <1>1, <1>3 DEF SubStep, SubAt
<1>4. ASSUME SubReset(c, p)
      PROVE  SubAt(c, p, "idle", subFut[c][p], subObs[c][p], "None")
  BY <1>1, <1>4 DEF SubReset, SubAt
<1> QED BY <1>2, <1>3, <1>4

\* wait leaves every published exit alone.
LEMMA WaitSlotKeeps ==
  ASSUME NEW w \in WaiterRecord, NEW p \in Pid
  PROVE  \A q \in Pid :
           /\ TryGet(WaitSlot(w, p), q) \in {TryGet(w, q), NoExit}
           /\ WaitSlot(w, p).entries[q].kind = "Completed" =>
                WaitSlot(w, p).entries[q] = w.entries[q]
<1>1. w.entries \in [Pid -> Slot]
  BY DEF WaiterRecord
<1>2. CASE w.entries[p].kind = "None"
  <2>1. WaitSlot(w, p).entries =
          [w.entries EXCEPT ![p] = [kind |-> "Pending", exit |-> NoExit]]
    BY <1>2 DEF WaitSlot, WaiterRecord
  <2> QED BY <1>1, <2>1 DEF TryGet
<1>3. CASE w.entries[p].kind # "None"
  BY <1>3 DEF WaitSlot
<1> QED BY <1>2, <1>3

\* A worker that records and publishes nothing: what it holds that is verified
\* is settled, and it enters quarantine only after the monitor has recorded.
LEMMA WorkerEvidenceKept ==
  ASSUME Blocks, Responsible, Responsible', Evidence, RegistryMoves({}), MonitorsMove,
         \A s \in Scope : IsOpen(registry[s]) => IsOpen(registry[s])',
         UNCHANGED <<monExit, pending, serial, serialReport, owed, call>>,
         NEW c \in Caller, NEW p \in Pid,
         UNCHANGED waiters \/ waiters' = WaitSlot(waiters, p),
         NEW pc \in SubPc \ {"idle"}, NEW fut, NEW obs, NEW res,
         SubAt(c, p, pc, fut, obs, res),
         pc \in QuarantinePc => subPc[c][p] \in QuarantinePc \/ monPc[p] \notin Early,
         fut \in VerifiedOutcome => Settled(p),
         obs \in VerifiedOutcome => Settled(p),
         res \in VerifiedOutcome => Settled(p),
         pc \in {"qNotify", "qPrune", "qDone"} => res \in VerifiedOutcome
  PROVE  Evidence'
<1> USE DEF Evidence, RegistryLeads, Accounted
<1>1. Advances
  BY MovesAdvance
<1>2. \A q \in Pid :
        /\ TryGet(waiters, q)' \in {TryGet(waiters, q), NoExit}
        /\ waiters'.entries[q].kind = "Completed" =>
             waiters'.entries[q] = waiters.entries[q]
  BY Types, WaitSlotKeeps
<1>3. WaitersFollow' /\ SlotVerified'
  BY <1>1, <1>2, OutcomeKinds DEF WaitersFollow, SlotVerified, Advances, TryGet
<1>4. NoStaleFailure'
  BY <1>2, EvidenceFrames, OutcomeKinds DEF NoStaleFailure
<1>5. WorkersFollow'
  BY <1>1 DEF WorkersFollow, SubAt, Advances
<1>6. RetryVerified'
  BY DEF RetryVerified, SubAt
<1>7. MonitorFirst'
  <2>1. \A d \in Caller, q \in Pid : subPc'[d][q] \in QuarantinePc =>
          subPc[d][q] \in QuarantinePc \/ monPc[q] \notin Early
    BY DEF SubAt
  <2> QED BY <2>1, EvidenceFrames
<1>8. MonitorsFollow' /\ PendingFollows' /\ PendingKept
  BY EvidenceFrames
<1>9. CommittedSettled' /\ ReportCoversDrainedProcesses' /\ DrainRecorded'
  BY <1>8, EvidenceFrames
<1>10. DrainTracked'
  <2>1. \A d \in Caller, q \in Pid : subPc[d][q] # "idle" => subPc'[d][q] # "idle"
    BY DEF SubAt
  <2> QED BY <1>8, <2>1, EvidenceFrames
<1> QED BY <1>3, <1>4, <1>5, <1>6, <1>7, <1>8, <1>9, <1>10

\* Whoever answers a verified exit, history or registry, the process is settled.
LEMMA AnswersAreSettled ==
  ASSUME Blocks, Responsible, Evidence, NEW p \in Pid
  PROVE  /\ TryGet(waiters, p) \in VerifiedOutcome => Settled(p)
         /\ Owned(p) /\ RecordedExit(p) \in VerifiedOutcome => Settled(p)
         /\ TerminateLookup(p) \in VerifiedOutcome => Settled(p)
         /\ TerminateLookup(p) = NoExit => Owned(p)
         /\ WaitLookup(p) \in VerifiedOutcome => Settled(p)
         /\ Owned(p) /\ RecordedExit(p) # NoExit => monPc[p] \notin Early
<1>1. TryGet(waiters, p) \in VerifiedOutcome => Settled(p)
  BY DEF Evidence, RegistryLeads, WaitersFollow
<1>2. Owned(p) => monPc[p] # "none"
  BY ListedFacts DEF Owned
<1>3. Owned(p) /\ RecordedExit(p) \in VerifiedOutcome => Settled(p)
  BY <1>2 DEF Settled
<1>4. /\ TerminateLookup(p) \in VerifiedOutcome => Settled(p)
      /\ TerminateLookup(p) = NoExit => Owned(p)
      /\ WaitLookup(p) \in VerifiedOutcome => Settled(p)
  BY <1>1, <1>3, OutcomeKinds DEF TerminateLookup, WaitLookup
<1>5. Owned(p) /\ RecordedExit(p) # NoExit => monPc[p] \notin Early
  BY DEF Evidence, RegistryLeads, MonitorFirst, Early
<1> QED BY <1>1, <1>3, <1>4, <1>5

\* The steps of terminate and wait that neither record nor publish.
LEMMA QuietWorkerEvidence ==
  ASSUME Blocks, Responsible, Responsible', Evidence, NEW c \in Caller, NEW p \in Pid,
         WorkerStep(c, p), ~RetryRecord(c, p), ~RetryNotify(c, p)
  PROVE  Evidence'
<1>1. UNCHANGED <<home, call, serial, owed, monPc, monExit>>
  BY WorkerBackground
<1>2. MonitorsMove
  BY <1>1, MonitorsStill
<1>3. /\ subFut[c][p] \in VerifiedOutcome => Settled(p)
      /\ subObs[c][p] \in VerifiedOutcome => Settled(p)
      /\ subRes[c][p] \in VerifiedOutcome => Settled(p)
      /\ subPc[c][p] \in {"qNotify", "qPrune", "qDone"} =>
           subRes[c][p] \in VerifiedOutcome
  BY DEF Evidence, RegistryLeads, WorkersFollow, RetryVerified
<1>4. /\ {"requested", "grace", "force", "qGrace", "qErr", "qForce", "qRecord",
          "observing", "done", "start"} \subseteq SubPc \ {"idle"}
      /\ QuarantinePc = {"qGrace", "qErr", "qForce", "qRecord", "qNotify", "qPrune",
                         "qDone"}
      /\ Unregistered \notin VerifiedOutcome /\ Unknown \notin VerifiedOutcome
      /\ "ReapFailed" \notin VerifiedOutcome /\ "WaitTimedOut" \notin VerifiedOutcome
      /\ NoExit \notin VerifiedOutcome
  BY DEF SubPc, QuarantinePc, Unregistered, Unknown, VerifiedOutcome, NoExit
<1> HIDE DEF QuarantinePc
<1>5. ASSUME UNCHANGED <<registry, pending, serialReport, waiters>>,
             NEW pc \in SubPc \ {"idle"}, NEW fut, NEW obs, NEW res,
             SubAt(c, p, pc, fut, obs, res),
             pc \in QuarantinePc =>
               subPc[c][p] \in QuarantinePc \/ monPc[p] \notin Early,
             fut \in VerifiedOutcome => Settled(p),
             obs \in VerifiedOutcome => Settled(p),
             res \in VerifiedOutcome => Settled(p),
             pc \notin {"qNotify", "qPrune", "qDone"}
      PROVE  Evidence'
  BY <1>1, <1>2, <1>5, StillMoves, WorkerEvidenceKept
<1>6. CASE TerminateStart(c, p)
  <2>1. UNCHANGED <<pending, serialReport>>
    BY <1>6 DEF TerminateStart, opVars
  <2>2. CASE TerminateLookup(p) # NoExit
    <3>1. UNCHANGED <<registry, waiters>>
      BY <1>6, <2>2 DEF TerminateStart
    <3>2. SubAt(c, p, "done", Unregistered, Unregistered, TerminateLookup(p))
      BY <1>6, <2>2, SubMovesAt DEF TerminateStart
    <3> QED BY <1>4, <1>5, <2>1, <3>1, <3>2, AnswersAreSettled
  <2>3. CASE TerminateLookup(p) = NoExit
    <3>1. /\ registry' = [registry EXCEPT ![home[p]] =
                            RequestTermination(registry[home[p]], p)]
          /\ waiters' = WaitSlot(waiters, p)
          /\ UNCHANGED <<subObs, subRes>>
      BY <1>6, <2>3 DEF TerminateStart
    <3>2. /\ RegistryMoves({})
          /\ \A s \in Scope : IsOpen(registry[s]) => IsOpen(registry[s])'
      BY <3>1, MethodMoves
    <3>3. CASE RecordedExit(p) = NoExit
      <4>1. SubAt(c, p, "requested", TryGet(waiters, p), subObs[c][p], subRes[c][p])
        BY <1>6, <2>3, <3>1, <3>3, Types DEF TerminateStart, SubAt
      <4> QED
        BY <1>1, <1>2, <1>3, <1>4, <2>1, <3>1, <3>2, <4>1, AnswersAreSettled,
           WorkerEvidenceKept
    <3>4. CASE RecordedExit(p) # NoExit
      <4>1. SubAt(c, p, "qGrace", subFut[c][p], subObs[c][p], subRes[c][p])
        BY <1>6, <2>3, <3>1, <3>4, Types DEF TerminateStart, SubAt
      <4>2. monPc[p] \notin Early
        BY <2>3, <3>4, AnswersAreSettled
      <4> QED
        BY <1>1, <1>2, <1>3, <1>4, <2>1, <3>1, <3>2, <4>1, <4>2, WorkerEvidenceKept
    <3> QED BY <3>3, <3>4
  <2> QED BY <2>2, <2>3
<1>7. CASE TerminateRequested(c, p)
  <2>1. UNCHANGED <<registry, pending, serialReport, waiters>>
    BY <1>7 DEF TerminateRequested, regVars, opVars
  <2>2. CASE /\ TryGet(waiters, p) \in VerifiedOutcome
             /\ SubDone(c, p, TryGet(waiters, p))
    BY <1>4, <1>5, <2>1, <2>2, SubMovesAt, AnswersAreSettled
  <2>3. CASE /\ TryGet(waiters, p) \in UnverifiedOutcome
             /\ subPc' = [subPc EXCEPT ![c][p] = "qGrace"]
             /\ subFut' = [subFut EXCEPT ![c][p] = Unregistered]
             /\ UNCHANGED <<subObs, subRes>>
    <3>1. SubAt(c, p, "qGrace", Unregistered, subObs[c][p], subRes[c][p])
      BY <2>3, Types DEF SubAt
    <3>2. Owned(p) /\ RecordedExit(p) # NoExit
      BY <2>3, OutcomeKinds DEF Evidence, NoStaleFailure
    <3> QED BY <1>3, <1>4, <1>5, <2>1, <3>1, <3>2, AnswersAreSettled
  <2>4. CASE SubStep(c, p, "grace")
    BY <1>3, <1>4, <1>5, <2>1, <2>4, SubMovesAt
  <2> QED BY <1>7, <2>2, <2>3, <2>4 DEF TerminateRequested
<1>8. CASE TerminateObserved(c, p) \/ WaitObserved(c, p)
  <2>1. UNCHANGED <<registry, pending, serialReport, waiters>>
    BY <1>8 DEF TerminateObserved, WaitObserved, regVars, opVars
  <2>2. SubAt(c, p, "done", Unregistered, Unregistered, subFut[c][p])
    BY <1>8, SubMovesAt DEF TerminateObserved, WaitObserved
  <2> QED BY <1>3, <1>4, <1>5, <2>1, <2>2
<1>9. CASE TerminateForce(c, p)
  <2>1. /\ UNCHANGED <<pending, serialReport, waiters>>
        /\ registry' = [registry EXCEPT ![home[p]] =
                          EscalateTermination(registry[home[p]], p)]
    BY <1>9 DEF TerminateForce, opVars
  <2>2. SubAt(c, p, "force", subFut[c][p], subObs[c][p], subRes[c][p])
    BY <1>9, SubMovesAt DEF TerminateForce
  <2>3. /\ RegistryMoves({})
        /\ \A s \in Scope : IsOpen(registry[s]) => IsOpen(registry[s])'
    BY <2>1, MethodMoves
  <2> QED
    BY <1>1, <1>2, <1>3, <1>4, <2>1, <2>2, <2>3, WorkerEvidenceKept
<1>10. CASE TerminateTimeout(c, p) \/ RetryTimeout(c, p)
  <2>1. UNCHANGED <<registry, pending, serialReport, waiters>>
    BY <1>10 DEF TerminateTimeout, RetryTimeout, regVars, opVars
  <2>2. SubAt(c, p, "done", Unregistered, Unregistered, "WaitTimedOut")
    BY <1>10, SubMovesAt DEF TerminateTimeout, RetryTimeout
  <2> QED BY <1>4, <1>5, <2>1, <2>2
<1>11. CASE RetryWait(c, p)
  <2>1. UNCHANGED <<registry, pending, serialReport, waiters>>
    BY <1>11 DEF RetryWait, regVars, opVars
  <2>2. CASE SubDone(c, p, "ReapFailed")
    BY <1>4, <1>5, <2>1, <2>2, SubMovesAt
  <2>3. ASSUME NEW pc \in {"qRecord", "qErr"}, SubStep(c, p, pc) PROVE Evidence'
    <3>1. SubAt(c, p, pc, subFut[c][p], subObs[c][p], subRes[c][p])
      BY <2>3, SubMovesAt
    <3>2. subPc[c][p] \in QuarantinePc
      BY <1>4, <1>11 DEF RetryWait
    <3> QED BY <1>3, <1>4, <1>5, <2>1, <3>1, <3>2
  <2> QED BY <1>11, <2>2, <2>3 DEF RetryWait
<1>12. CASE RetryForce(c, p)
  <2>1. UNCHANGED <<registry, pending, serialReport, waiters>>
    BY <1>12 DEF RetryForce, regVars, opVars
  <2>2. SubAt(c, p, "qForce", subFut[c][p], subObs[c][p], subRes[c][p])
    BY <1>12, SubMovesAt DEF RetryForce
  <2>3. subPc[c][p] \in QuarantinePc
    BY <1>4, <1>12 DEF RetryForce
  <2> QED BY <1>3, <1>4, <1>5, <2>1, <2>2, <2>3
<1>13. CASE RetryPrune(c, p)
  <2>1. UNCHANGED <<pending, serialReport, waiters>>
    BY <1>13 DEF RetryPrune, opVars
  <2>2. SubAt(c, p, "done", Unregistered, Unregistered, subRes[c][p])
    BY <1>13, SubMovesAt DEF RetryPrune
  <2>3. /\ RegistryMoves({})
        /\ \A s \in Scope : IsOpen(registry[s]) => IsOpen(registry[s])'
    BY <1>13, MethodMoves, StillMoves DEF RetryPrune
  <2> QED
    BY <1>1, <1>2, <1>3, <1>4, <2>1, <2>2, <2>3, WorkerEvidenceKept
<1>14. CASE WorkerObserve(c, p)
  <2>1. UNCHANGED <<registry, pending, serialReport, waiters>>
    BY <1>14 DEF WorkerObserve, regVars, opVars
  <2>2. CASE subObs[c][p] \in VerifiedOutcome
    <3>1. SubAt(c, p, "done", Unregistered, Unregistered, subObs[c][p])
      BY <1>14, <2>2, SubMovesAt DEF WorkerObserve
    <3> QED BY <1>3, <1>4, <1>5, <2>1, <3>1
  <2>3. CASE subObs[c][p] \notin VerifiedOutcome
    <3>1. SubAt(c, p, subPc[c][p], subFut[c][p], Unregistered, subRes[c][p])
      BY <1>14, <2>3, Types DEF WorkerObserve, SubAt
    <3>2. /\ subPc[c][p] \in SubPc \ {"idle"}
          /\ subPc[c][p] \notin {"qNotify", "qPrune", "qDone"}
      BY <1>4, <1>14 DEF WorkerObserve
    <3> QED BY <1>3, <1>4, <1>5, <2>1, <3>1, <3>2
  <2> QED BY <2>2, <2>3
<1>15. CASE WaitStart(c, p)
  <2>1. UNCHANGED <<registry, pending, serialReport>>
    BY <1>15 DEF WaitStart, regVars, opVars
  <2>2. CASE WaitLookup(p) # NoExit
    <3>1. PICK res \in {subRes[c][p], WaitLookup(p)} : SubDone(c, p, res)
      BY <1>15, <2>2 DEF WaitStart
    <3>2. UNCHANGED waiters
      BY <1>15, <2>2 DEF WaitStart
    <3> QED BY <1>3, <1>4, <1>5, <2>1, <3>1, <3>2, SubMovesAt, AnswersAreSettled
  <2>3. CASE WaitLookup(p) = NoExit
    <3>1. /\ waiters' = WaitSlot(waiters, p)
          /\ subFut' = [subFut EXCEPT ![c][p] = TryGet(waiters, p)]
          /\ subPc' = [subPc EXCEPT ![c][p] = "observing"]
          /\ UNCHANGED <<subObs, subRes>>
      BY <1>15, <2>3 DEF WaitStart
    <3>2. SubAt(c, p, "observing", TryGet(waiters, p), subObs[c][p], subRes[c][p])
      BY <3>1, Types DEF SubAt
    <3> QED
      BY <1>1, <1>2, <1>3, <1>4, <2>1, <3>1, <3>2, StillMoves, AnswersAreSettled,
         WorkerEvidenceKept
  <2> QED BY <2>2, <2>3
<1>16. CASE ReobserveTimeout(c, p)
  <2>1. UNCHANGED <<registry, pending, serialReport, waiters>>
    BY <1>16 DEF ReobserveTimeout, regVars, opVars
  <2>2. SubAt(c, p, "done", Unregistered, Unregistered, subRes[c][p])
    BY <1>16, SubMovesAt DEF ReobserveTimeout
  <2> QED BY <1>3, <1>4, <1>5, <2>1, <2>2
<1> QED
  BY <1>6, <1>7, <1>8, <1>9, <1>10, <1>11, <1>12, <1>13, <1>14, <1>15, <1>16
     DEF WorkerStep

-----------------------------------------------------------------------------
(* Publication. *)

\* The slots after a publication: a completed one is the old one, or holds the
\* verified exit just published.
LEMMA SignalSlots ==
  ASSUME NEW w \in WaiterRecord, NEW p \in Pid, NEW exit \in Outcome
  PROVE  \A q \in Pid :
           LET slot == SignalExit(w, p, exit).entries[q] IN
           \/ slot = NoSlot
           \/ slot = w.entries[q] /\ (q = p => slot.kind = "Completed")
           \/ q = p /\ slot.exit = exit
              /\ (slot.kind = "Completed" => exit \in VerifiedOutcome)
<1> DEFINE kind == IF exit \in VerifiedOutcome THEN "Completed" ELSE "Pending"
           slot == [kind |-> kind, exit |-> exit]
           queue == IF TryGet(w, p) # NoExit THEN w.completed
                    ELSE Append(w.completed, p)
           next == [entries |-> [w.entries EXCEPT ![p] = slot], completed |-> queue]
<1>1. w.completed \in Seq(Pid) /\ w.entries \in [Pid -> Slot]
  BY DEF WaiterRecord
<1>2. slot \in Slot /\ slot.exit = exit
      /\ (slot.kind = "Completed" => exit \in VerifiedOutcome)
  BY DEF Slot, OptOutcome
<1> HIDE DEF kind, slot
<1>3. queue \in Seq(Pid)
  BY <1>1, AppendProperties
<1> HIDE DEF queue
<1>4. /\ next \in WaiterRecord
      /\ \A q \in Pid : next.entries[q] = IF q = p THEN slot ELSE w.entries[q]
  BY <1>1, <1>2, <1>3 DEF WaiterRecord
<1>5. \/ SignalExit(w, p, exit) = w /\ w.entries[p].kind = "Completed"
      \/ SignalExit(w, p, exit) = Evict(next)
  BY DEF SignalExit, slot, kind, queue
<1> HIDE DEF next
<1>6. \A q \in Pid : Evict(next).entries[q] \in {next.entries[q], NoSlot}
  BY <1>4, EvictType
<1> QED BY <1>2, <1>4, <1>5, <1>6

LEMMA SignalEffect ==
  ASSUME Blocks, NEW p \in Pid, NEW exit \in Outcome, SignalAll(p, exit)
  PROVE  /\ \A q \in Pid : TryGet(waiters, q)' \in
              {TryGet(waiters, q), NoExit} \cup (IF q = p THEN {exit} ELSE {})
         /\ SlotVerified => SlotVerified'
         /\ SlotVerified /\ exit \in VerifiedOutcome =>
              TryGet(waiters, p)' \in VerifiedOutcome \cup {NoExit}
         /\ \A c \in Caller, q \in Pid :
              /\ subFut'[c][q] \in {subFut[c][q]} \cup (IF q = p THEN {exit} ELSE {})
              /\ subObs'[c][q] \in {subObs[c][q]} \cup (IF q = p THEN {exit} ELSE {})
<1>1. waiters' = SignalExit(waiters, p, exit) /\ waiters \in WaiterRecord
  BY Types DEF SignalAll
<1>2. \A q \in Pid :
        \/ waiters'.entries[q] = NoSlot
        \/ /\ waiters'.entries[q] = waiters.entries[q]
           /\ q = p => waiters'.entries[q].kind = "Completed"
        \/ /\ q = p /\ waiters'.entries[q].exit = exit
           /\ waiters'.entries[q].kind = "Completed" => exit \in VerifiedOutcome
  BY <1>1, SignalSlots
<1>3. NoSlot.kind = "None" /\ NoSlot.exit = NoExit
  BY DEF NoSlot
<1>4. \A q \in Pid : TryGet(waiters, q)' \in
        {TryGet(waiters, q), NoExit} \cup (IF q = p THEN {exit} ELSE {})
  BY <1>2, <1>3 DEF TryGet
<1>5. SlotVerified => SlotVerified'
  BY <1>2, <1>3 DEF SlotVerified, TryGet
<1>6. SlotVerified /\ exit \in VerifiedOutcome =>
        TryGet(waiters, p)' \in VerifiedOutcome \cup {NoExit}
  BY <1>2, <1>3 DEF SlotVerified, TryGet
<1>7. \A c \in Caller, q \in Pid :
        /\ subFut'[c][q] = IF q = p THEN ReceiverAfter(waiters, p, exit, subFut[c][q])
                           ELSE subFut[c][q]
        /\ subObs'[c][q] = IF q = p THEN ReceiverAfter(waiters, p, exit, subObs[c][q])
                           ELSE subObs[c][q]
  <2>1. /\ subFut \in [Caller -> [Pid -> Receiver]]
        /\ subObs \in [Caller -> [Pid -> Receiver]]
    BY Types
  <2> QED BY <2>1 DEF SignalAll
<1>8. \A c \in Caller, q \in Pid :
        /\ subFut'[c][q] \in {subFut[c][q]} \cup (IF q = p THEN {exit} ELSE {})
        /\ subObs'[c][q] \in {subObs[c][q]} \cup (IF q = p THEN {exit} ELSE {})
  BY <1>7, ReceiverAfterValue
<1> QED BY <1>4, <1>5, <1>6, <1>8

\* A settled exit is published without anybody being ahead of the registry.
LEMMA SignalFollows ==
  ASSUME Blocks, Evidence, Advances, NEW p \in Pid, NEW exit \in Outcome,
         SignalAll(p, exit), exit \in VerifiedOutcome => Settled(p)'
  PROVE  /\ WaitersFollow' /\ SlotVerified'
         /\ \A c \in Caller, q \in Pid :
              /\ subFut'[c][q] \in VerifiedOutcome => Settled(q)'
              /\ subObs'[c][q] \in VerifiedOutcome => Settled(q)'
<1> USE DEF Evidence, RegistryLeads
<1>1. SlotVerified'
  BY SignalEffect
<1>2. WaitersFollow'
  BY SignalEffect, OutcomeKinds DEF WaitersFollow, Advances
<1>3. ASSUME NEW c \in Caller, NEW q \in Pid
      PROVE  /\ subFut'[c][q] \in VerifiedOutcome => Settled(q)'
             /\ subObs'[c][q] \in VerifiedOutcome => Settled(q)'
  <2>1. /\ subFut'[c][q] \in {subFut[c][q]} \cup (IF q = p THEN {exit} ELSE {})
        /\ subObs'[c][q] \in {subObs[c][q]} \cup (IF q = p THEN {exit} ELSE {})
    BY SignalEffect
  <2>2. /\ subFut[c][q] \in VerifiedOutcome => Settled(q)'
        /\ subObs[c][q] \in VerifiedOutcome => Settled(q)'
    BY DEF WorkersFollow, Advances
  <2> QED BY <2>1, <2>2
<1> QED BY <1>1, <1>2, <1>3

\* The dispatch of a correction repeats what is settled.
LEMMA RetryNotifyEvidence ==
  ASSUME Blocks, Responsible, Responsible', Evidence, NEW c \in Caller, NEW p \in Pid,
         RetryNotify(c, p)
  PROVE  Evidence'
<1> USE DEF Evidence, RegistryLeads, Accounted
<1>1. /\ UNCHANGED <<registry, pending, home, monPc, monExit, call, serial,
                     serialReport, owed, subRes>>
      /\ subPc[c][p] = "qNotify" /\ subPc' = [subPc EXCEPT ![c][p] = "qPrune"]
      /\ SignalAll(p, subRes[c][p])
  BY DEF RetryNotify, regVars, opVars, spawnVars, monVars, callVars
<1>2. /\ RegistryMoves({}) /\ MonitorsMove
      /\ \A s \in Scope : IsOpen(registry[s]) => IsOpen(registry[s])'
  BY <1>1, StillMoves, MonitorsStill
<1>3. Advances
  BY <1>2, MovesAdvance
<1>4. subRes[c][p] \in VerifiedOutcome /\ subRes[c][p] \in Outcome
  BY <1>1, OutcomeKinds DEF RetryVerified
<1>5. Settled(p)'
  BY <1>3, <1>4 DEF WorkersFollow, Advances
<1>6. \A d \in Caller, q \in Pid :
        subPc'[d][q] = IF d = c /\ q = p THEN "qPrune" ELSE subPc[d][q]
  BY <1>1, Types
<1>7. WaitersFollow' /\ SlotVerified' /\ WorkersFollow'
  BY <1>1, <1>3, <1>4, <1>5, SignalFollows DEF WorkersFollow, Advances
<1>8. NoStaleFailure'
  <2>1. \A q \in Pid : TryGet(waiters, q)' \in UnverifiedOutcome =>
          TryGet(waiters, q) \in UnverifiedOutcome
    BY <1>1, <1>4, SignalEffect, OutcomeKinds
  <2> QED BY <1>2, <2>1, EvidenceFrames DEF NoStaleFailure
<1>9. MonitorFirst' /\ RetryVerified'
  <2>1. "qPrune" \in QuarantinePc /\ "qNotify" \in QuarantinePc
    BY DEF QuarantinePc
  <2> QED BY <1>1, <1>2, <1>4, <1>6, <2>1, EvidenceFrames DEF RetryVerified
<1>10. MonitorsFollow' /\ PendingFollows' /\ PendingKept
  BY <1>1, <1>2, EvidenceFrames
<1>11. CommittedSettled' /\ ReportCoversDrainedProcesses' /\ DrainRecorded'
  BY <1>1, <1>2, <1>10, EvidenceFrames
<1>12. DrainTracked'
  BY <1>1, <1>2, <1>6, <1>10, EvidenceFrames
<1> QED BY <1>7, <1>8, <1>9, <1>10, <1>11, <1>12

-----------------------------------------------------------------------------
(* Recording. *)

\* record_reaped, by a monitor after record_exit or by a retry: p is recorded,
\* nothing else changes.
LEMMA RecordingMoves ==
  ASSUME Blocks, Responsible, NEW p \in Pid, Owned(p), NEW exit \in Outcome,
         NEW before \in {registry[home[p]], RecordExit(registry[home[p]], p)},
         registry' = [registry EXCEPT ![home[p]] = RecordReaped(before, p, exit)]
  PROVE  /\ home[p] \in Scope
         /\ RegistryMoves({p})
         /\ \A s \in Scope : IsOpen(registry'[s]) = IsOpen(registry[s])
         /\ Contains(registry'[home[p]], p)
         /\ registry'[home[p]].processes[p].exit # NoExit
         /\ exit \in VerifiedOutcome =>
              registry'[home[p]].processes[p].exit \in VerifiedOutcome
<1> DEFINE s == home[p]
           scope == registry[s]
           next == RecordReaped(before, p, exit)
<1>1. s \in Scope /\ scope \in Scopes /\ Shaped(scope) /\ Contains(scope, p)
  BY Types DEF Owned, Responsible, RegistryShaped
<1>2. /\ before \in Scopes /\ Shaped(before) /\ ScopeEvolves(scope, before)
      /\ Contains(before, p) /\ before.state = scope.state
      /\ \A q \in Pid : before.processes[q].exit = scope.processes[q].exit
  <2>1. CASE before = scope
    BY <1>1, <2>1, ScopeForward
  <2>2. CASE before = RecordExit(scope, p)
    <3>1. before \in Scopes /\ Shaped(before) /\ ScopeEvolves(scope, before)
      BY <1>1, <2>2, ScopeMethodTypes, ScopeForward
    <3>2. /\ before.state = scope.state
          /\ before.processes = [scope.processes EXCEPT ![p] =
                                   MarkExited(scope.processes[p])]
      BY <1>1, <2>2, ScopeFields DEF RecordExit
    <3>3. /\ scope.processes \in [Pid -> Process]
          /\ scope.processes[p] \in Process
          /\ scope.processes[p].exit = NoExit <=> scope.processes[p].state # "Reaped"
      BY <1>1, ScopeFields DEF Shaped
    <3>4. /\ MarkExited(scope.processes[p]).exit = scope.processes[p].exit
          /\ MarkExited(scope.processes[p]).state = "Absent" <=>
               scope.processes[p].state = "Absent"
      BY <3>3, ProcessForward
    <3> QED BY <1>1, <3>1, <3>2, <3>3, <3>4 DEF Contains
  <2> QED BY <2>1, <2>2
<1> HIDE DEF scope
<1>3. /\ next \in Scopes /\ ScopeEvolves(before, next) /\ Shaped(next)
      /\ Contains(next, p) /\ next.processes[p].exit # NoExit
      /\ exit \in VerifiedOutcome => next.processes[p].exit \in VerifiedOutcome
      /\ \A q \in Pid \ {p} : next.processes[q] = before.processes[q]
  BY <1>2, RecordReapedType, RecordReapedForward DEF OptOutcome
<1> HIDE DEF next
<1>4. /\ ScopeEvolves(scope, next) /\ IsOpen(next) = IsOpen(scope)
      /\ \A q \in Pid \ {p} : next.processes[q].exit = scope.processes[q].exit
  BY <1>2, <1>3 DEF ScopeEvolves, Contains, NoProcess, IsOpen
<1>5. \A t \in Scope : registry'[t] = IF t = s THEN next ELSE registry[t]
  BY <1>1, Types DEF next
<1>6. RegistryForward
  <2>1. registry' = [registry EXCEPT ![s] = next]
    BY DEF next
  <2> QED BY <1>1, <1>3, <1>4, <2>1, RegistryKept DEF scope, Responsible
<1>7. RegistryMoves({p})
  <2>1. \A t \in Scope, q \in Pid : q \notin {p} =>
          registry'[t].processes[q].exit = registry[t].processes[q].exit
    BY <1>4, <1>5 DEF scope
  <2> QED BY <1>6, <2>1, EvolveMoves
<1> QED BY <1>1, <1>3, <1>4, <1>5, <1>7 DEF scope

LEMMA PendingAfterMonitorAt ==
  ASSUME Blocks, NEW p \in Pid, home[p] \in Scope, NEW exit,
         pending' = PendingAfterMonitor(home[p], p, exit)
  PROVE  \A s \in Scope, q \in Pid : pending'[s][q] =
           IF s = home[p] /\ q = p /\ ~IsOpen(registry[s]) THEN exit
           ELSE pending[s][q]
<1>1. /\ pending \in [Scope -> Report]
      /\ \A s \in Scope : pending[s] \in [Pid -> OptOutcome]
  BY Types DEF Report
<1>2. CASE IsOpen(registry[home[p]])
  BY <1>1, <1>2 DEF PendingAfterMonitor
<1>3. CASE ~IsOpen(registry[home[p]])
  <2>1. pending' = [pending EXCEPT ![home[p]][p] = exit]
    BY <1>3 DEF PendingAfterMonitor
  <2> QED BY <1>1, <1>3, <2>1
<1> QED BY <1>2, <1>3

\* What both recorders leave behind: p is settled if the exit is verified, a
\* draining scope has its outcome, and no failure was recorded as verified
\* before.
LEMMA RecordingEvidence ==
  ASSUME Blocks, Responsible, Responsible', Evidence, NEW p \in Pid, Owned(p),
         NEW exit \in Outcome,
         NEW before \in {registry[home[p]], RecordExit(registry[home[p]], p)},
         registry' = [registry EXCEPT ![home[p]] = RecordReaped(before, p, exit)],
         pending' = PendingAfterMonitor(home[p], p, exit),
         RecordedExit(p) \notin VerifiedOutcome,
         MonitorsMove, monPc'[p] \notin Early,
         UNCHANGED <<call, serial, serialReport, owed>>,
         \A c \in Caller, q \in Pid :
           subPc[c][q] # "idle" /\ call[c].pc \in DrainPc => subPc'[c][q] # "idle",
         \A c \in Caller, q \in Pid : subPc'[c][q] \in QuarantinePc =>
           subPc[c][q] \in QuarantinePc
  PROVE  /\ RegistryMoves({p}) /\ Advances
         /\ exit \in VerifiedOutcome => Settled(p)'
         /\ PendingFollows' /\ MonitorFirst' /\ CommittedSettled'
         /\ ReportCoversDrainedProcesses' /\ DrainRecorded' /\ DrainTracked'
<1> USE DEF Evidence, RegistryLeads, Accounted
<1> DEFINE s == home[p]
<1>1. /\ s \in Scope /\ RegistryMoves({p})
      /\ \A t \in Scope : IsOpen(registry'[t]) = IsOpen(registry[t])
      /\ Contains(registry'[s], p)
      /\ registry'[s].processes[p].exit # NoExit
      /\ exit \in VerifiedOutcome => registry'[s].processes[p].exit \in VerifiedOutcome
  BY RecordingMoves
<1>2. Advances
  BY <1>1, MovesAdvance
<1>3. monPc[p] # "none" /\ monPc'[p] # "none" /\ home'[p] = s
  BY ListedFacts DEF Owned, MonitorsMove
<1>4. exit \in VerifiedOutcome => Settled(p)'
  BY <1>1, <1>3 DEF Settled, Owned, RecordedExit
<1>5. \A t \in Scope, q \in Pid : pending'[t][q] =
        IF t = s /\ q = p /\ ~IsOpen(registry[t]) THEN exit ELSE pending[t][q]
  BY <1>1, PendingAfterMonitorAt
<1>6. PendingFollows'
  BY <1>2, <1>4, <1>5 DEF PendingFollows, Advances
<1>7. PendingKept
  BY <1>5, OutcomeKinds DEF PendingKept
<1>8. s \notin serial
  BY <1>1 DEF CommittedSettled, Owned, RecordedExit
<1>9. MonitorFirst'
  BY <1>1, EvidenceFrames
<1>10. CommittedSettled' /\ ReportCoversDrainedProcesses'
  BY <1>1, <1>8, EvidenceFrames
<1>11. DrainRecorded'
  <2>1. IsOpen(registry'[s]) \/ pending'[s][p] # NoExit
    BY <1>1, <1>5, OutcomeKinds
  <2>2. \A t \in Scope : IsOpen(registry[t]) => IsOpen(registry[t])'
    BY <1>1
  <2> QED BY <1>1, <1>7, <2>1, <2>2, EvidenceFrames
<1>12. DrainTracked'
  BY <1>1, <1>7, EvidenceFrames
<1> QED BY <1>1, <1>2, <1>4, <1>6, <1>9, <1>10, <1>11, <1>12

\* record_recovered_exit: the correction of a failure, or the repetition of
\* what was recorded first.
LEMMA RetryRecordEvidence ==
  ASSUME Blocks, Responsible, Responsible', Evidence, NEW c \in Caller, NEW p \in Pid,
         RetryRecord(c, p)
  PROVE  Evidence'
<1> USE DEF Evidence, RegistryLeads, Accounted
<1>1. /\ UNCHANGED <<home, monPc, monExit, call, serial, serialReport, owed>>
      /\ subPc[c][p] = "qRecord"
  BY DEF RetryRecord, opVars, spawnVars, monVars, callVars
<1>2. MonitorsMove
  BY <1>1, MonitorsStill
<1>3. PICK exit \in VerifiedOutcome, pc \in {"idle", "qNotify", "qDone"},
           res \in VerifiedOutcome \cup {"None"} :
        /\ SignalAll(p, exit)
        /\ subRes' = [subRes EXCEPT ![c][p] = res]
        /\ subPc' = [subPc EXCEPT ![c][p] = pc]
        /\ pc = "idle" => call[c].pc = "idle"
        /\ pc # "idle" => res = exit
        /\ res \in {exit, "None"}
        /\ \/ /\ Owned(p) /\ RecordedExit(p) \notin VerifiedOutcome
              /\ registry' = [registry EXCEPT ![home[p]] =
                                RecordReaped(registry[home[p]], p, exit)]
              /\ pending' = PendingAfterMonitor(home[p], p, exit)
           \/ /\ Owned(p) => RecordedExit(p) \in VerifiedOutcome
              /\ UNCHANGED <<registry, pending>>
  <2> DEFINE known == IF Owned(p) THEN RecordedExit(p) ELSE NoExit
             outcome == IF RawKilled(p) THEN "ForcedRequired" ELSE "GracefulSuccess"
             exit == IF known \in VerifiedOutcome THEN known ELSE outcome
             records == Owned(p) /\ known \notin VerifiedOutcome
             res == IF call[c].pc = "idle" THEN "None" ELSE exit
             pc == IF call[c].pc = "idle" THEN "idle"
                   ELSE IF records THEN "qNotify" ELSE "qDone"
  <2>1. exit \in VerifiedOutcome /\ res \in VerifiedOutcome \cup {"None"}
        /\ pc \in {"idle", "qNotify", "qDone"}
    BY DEF VerifiedOutcome
  <2>2. /\ SignalAll(p, exit)
        /\ subRes' = [subRes EXCEPT ![c][p] = res]
        /\ subPc' = [subPc EXCEPT ![c][p] = pc]
        /\ records => /\ registry' = [registry EXCEPT ![home[p]] =
                                        RecordReaped(registry[home[p]], p, exit)]
                      /\ pending' = PendingAfterMonitor(home[p], p, exit)
        /\ ~records => UNCHANGED <<registry, pending>>
    BY DEF RetryRecord
  <2>3. /\ pc = "idle" => call[c].pc = "idle"
        /\ pc # "idle" => res = exit
        /\ res \in {exit, "None"}
        /\ records <=> (Owned(p) /\ RecordedExit(p) \notin VerifiedOutcome)
    OBVIOUS
  <2> HIDE DEF exit, res, pc, records
  <2>4. \/ /\ Owned(p) /\ RecordedExit(p) \notin VerifiedOutcome
           /\ registry' = [registry EXCEPT ![home[p]] =
                             RecordReaped(registry[home[p]], p, exit)]
           /\ pending' = PendingAfterMonitor(home[p], p, exit)
        \/ /\ Owned(p) => RecordedExit(p) \in VerifiedOutcome
           /\ UNCHANGED <<registry, pending>>
    BY <2>2, <2>3
  <2> QED BY <2>1, <2>2, <2>3, <2>4
<1>4. exit \in Outcome /\ exit \notin UnverifiedOutcome /\ "None" \notin VerifiedOutcome
  BY OutcomeKinds
<1>5. \A d \in Caller, q \in Pid :
        /\ subPc'[d][q] = IF d = c /\ q = p THEN pc ELSE subPc[d][q]
        /\ subRes'[d][q] = IF d = c /\ q = p THEN res ELSE subRes[d][q]
  BY <1>3, Types
<1>6. monPc[p] \notin Early
  BY <1>1 DEF MonitorFirst, Early, QuarantinePc
<1>7. /\ \A d \in Caller, q \in Pid :
           subPc[d][q] # "idle" /\ call[d].pc \in DrainPc => subPc'[d][q] # "idle"
      /\ \A d \in Caller, q \in Pid : subPc'[d][q] \in QuarantinePc =>
           subPc[d][q] \in QuarantinePc
  BY <1>1, <1>3, <1>5 DEF DrainPc, QuarantinePc
<1>8. /\ RegistryMoves({p}) /\ Advances /\ Settled(p)'
      /\ PendingFollows' /\ MonitorFirst' /\ CommittedSettled'
      /\ ReportCoversDrainedProcesses' /\ DrainRecorded' /\ DrainTracked'
  <2>1. CASE /\ Owned(p) /\ RecordedExit(p) \notin VerifiedOutcome
             /\ registry' = [registry EXCEPT ![home[p]] =
                               RecordReaped(registry[home[p]], p, exit)]
             /\ pending' = PendingAfterMonitor(home[p], p, exit)
    <3>1. monPc'[p] \notin Early
      BY <1>1, <1>6
    <3> QED BY <1>1, <1>2, <1>4, <1>7, <2>1, <3>1, RecordingEvidence
  <2>2. CASE /\ Owned(p) => RecordedExit(p) \in VerifiedOutcome
             /\ UNCHANGED <<registry, pending>>
    <3>1. /\ RegistryMoves({})
          /\ \A t \in Scope : IsOpen(registry[t]) => IsOpen(registry[t])'
      BY <2>2, StillMoves
    <3>2. Advances /\ RegistryMoves({p})
      BY <1>2, <3>1, MovesAdvance DEF RegistryMoves
    <3>3. Settled(p)'
      BY <1>6, <2>2, <3>2 DEF Settled, Advances, Early
    <3>4. PendingFollows' /\ PendingKept
      BY <1>2, <2>2, <3>1, EvidenceFrames
    <3>5. MonitorFirst' /\ CommittedSettled' /\ ReportCoversDrainedProcesses'
          /\ DrainRecorded'
      BY <1>1, <1>2, <1>7, <3>1, <3>4, EvidenceFrames
    <3>6. DrainTracked'
      BY <1>1, <1>2, <1>7, <3>1, <3>4, EvidenceFrames
    <3> QED BY <3>2, <3>3, <3>4, <3>5, <3>6
  <2> QED BY <1>3, <2>1, <2>2
<1>9. WaitersFollow' /\ SlotVerified' /\ WorkersFollow'
  <2>1. /\ WaitersFollow' /\ SlotVerified'
        /\ \A d \in Caller, q \in Pid :
             /\ subFut'[d][q] \in VerifiedOutcome => Settled(q)'
             /\ subObs'[d][q] \in VerifiedOutcome => Settled(q)'
    BY <1>3, <1>4, <1>8, SignalFollows
  <2> QED BY <1>3, <1>4, <1>5, <1>8, <2>1 DEF WorkersFollow, Advances
<1>10. MonitorsFollow'
  BY <1>1, <1>2, <1>8, EvidenceFrames
<1>11. RetryVerified'
  BY <1>1, <1>3, <1>5 DEF RetryVerified
<1>12. NoStaleFailure'
  <2>1. TryGet(waiters, p)' \notin UnverifiedOutcome
    BY <1>3, <1>4, SignalEffect, OutcomeKinds
  <2>2. \A q \in Pid \ {p} : TryGet(waiters, q)' \in UnverifiedOutcome =>
          TryGet(waiters, q) \in UnverifiedOutcome
    BY <1>3, <1>4, SignalEffect, OutcomeKinds
  <2>3. \A q \in Pid : TryGet(waiters, q)' \in UnverifiedOutcome =>
          q \notin {p} /\ Owned(q) /\ RecordedExit(q) \in UnverifiedOutcome
    BY <2>1, <2>2 DEF NoStaleFailure
  <2> QED BY <1>2, <1>8, <2>3, EvidenceFrames
<1> QED BY <1>8, <1>9, <1>10, <1>11, <1>12

-----------------------------------------------------------------------------
(* The steps that touch neither history nor outcomes nor workers. *)

LEMMA OtherEvidenceKept ==
  ASSUME Blocks, Responsible, Responsible', Evidence, RegistryMoves({}), MonitorsMove,
         \A s \in Scope : IsOpen(registry[s]) => IsOpen(registry[s])',
         UNCHANGED <<waiters, monExit, pending, subPc, subFut, subObs, subRes,
                     serial, serialReport, owed>>,
         \A c \in Caller : call'[c].pc \in DrainPc =>
           call'[c].pc = call[c].pc /\ call'[c].scope = call[c].scope
  PROVE  Evidence'
<1> USE DEF Evidence, RegistryLeads, Accounted
<1>1. WaitersFollow' /\ SlotVerified' /\ MonitorsFollow' /\ PendingFollows'
      /\ PendingKept /\ WorkersFollow' /\ RetryVerified' /\ CommittedSettled'
      /\ ReportCoversDrainedProcesses'
  BY EvidenceFrames
<1>2. MonitorFirst' /\ DrainRecorded'
  BY <1>1, EvidenceFrames
<1>3. NoStaleFailure'
  BY EvidenceFrames DEF NoStaleFailure
<1>4. DrainTracked'
  BY <1>1, EvidenceFrames
<1> QED BY <1>1, <1>2, <1>3, <1>4

LEMMA CreateMoves ==
  ASSUME Blocks, Responsible, NEW s \in Scope, CreateScope(s)
  PROVE  /\ RegistryMoves({})
         /\ \A t \in Scope : IsOpen(registry[t]) => IsOpen(registry[t])'
<1>1. \A t \in Scope : registry'[t] = IF t = s THEN NewScope ELSE registry[t]
  BY Types DEF CreateScope
<1>2. /\ NewScope.state = "Open"
      /\ \A p \in Pid : NewScope.processes[p] = NoProcess
      /\ NoProcess.state = "Absent"
  BY DEF NewScope, NoProcesses, NoProcess
<1>3. \A p \in Pid : /\ ~Contains(registry[s], p)
                     /\ registry[s].processes[p].exit = NoExit
  BY ListedFacts DEF CreateScope, Responsible, ScopeLife
<1> QED BY <1>1, <1>2, <1>3, OutcomeKinds DEF RegistryMoves, Contains, IsOpen

LEMMA AttachMoves ==
  ASSUME Blocks, Responsible, NEW p \in Pid, SpawnAttach(p)
  PROVE  /\ RegistryMoves({}) /\ MonitorsMove
         /\ \A t \in Scope : IsOpen(registry[t]) => IsOpen(registry[t])'
<1>1. /\ spawnPc[p] = "attach" /\ home[p] \in Scope
      /\ IsOpen(registry[home[p]]) /\ monPc[p] = "none"
      /\ monPc' = [monPc EXCEPT ![p] = "wait"] /\ UNCHANGED home
      /\ \A s \in Scope :
           /\ registry'[s].state = registry[s].state
           /\ \A q \in Pid : registry'[s].processes[q] =
                IF s = home[p] /\ q = p THEN RunningProcess
                ELSE registry[s].processes[q]
  BY AttachEffect
<1>2. RunningProcess.exit = NoExit
  BY DEF RunningProcess
<1>3. ~Contains(registry[home[p]], p) /\ registry[home[p]].processes[p].exit = NoExit
  BY <1>1, ListedFacts
<1>4. MonitorsMove
  BY <1>1, Types DEF MonitorsMove, Early
<1> QED
  BY <1>1, <1>2, <1>3, <1>4, OutcomeKinds DEF RegistryMoves, Contains, IsOpen

\* Scope creation, the spawn worker, the system, the drop.
LEMMA SpawnEvidence ==
  ASSUME Blocks, Responsible, Responsible', Evidence,
         \/ \E s \in Scope : CreateScope(s)
         \/ \E p \in Pid, s \in Scope : SpawnCall(p, s)
         \/ \E p \in Pid : OsStep(p) \/ SpawnStep(p)
         \/ DropOwners
         \/ UNCHANGED vars
  PROVE  Evidence'
<1>1. CASE \E s \in Scope : CreateScope(s)
  <2>1. UNCHANGED <<waiters, monExit, pending, subPc, subFut, subObs, subRes,
                    serial, serialReport, owed, call, monPc, home>>
    BY <1>1 DEF CreateScope, monVars, spawnVars, callVars, subVars
  <2> QED BY <1>1, <2>1, CreateMoves, MonitorsStill, OtherEvidenceKept
<1>2. CASE \E p \in Pid, s \in Scope : SpawnCall(p, s)
  <2>1. UNCHANGED <<waiters, monExit, pending, subPc, subFut, subObs, subRes,
                    serial, serialReport, owed, call, monPc, registry>>
    BY <1>2 DEF SpawnCall, monVars, regVars, opVars, callVars, subVars
  <2>2. MonitorsMove
    BY <1>2, <2>1, Types DEF SpawnCall, MonitorsMove, Responsible, SpawnLife
  <2> QED BY <2>1, <2>2, StillMoves, OtherEvidenceKept
<1>3. CASE (\E p \in Pid : OsStep(p)) \/ DropOwners \/ UNCHANGED vars
  <2>1. UNCHANGED <<waiters, monExit, pending, subPc, subFut, subObs, subRes,
                    serial, serialReport, owed, call, monPc, home, registry>>
    BY <1>3 DEF OsStep, OsExit, OsKill, DropOwners, vars, monVars, regVars, opVars,
       spawnVars, callVars, subVars
  <2> QED BY <2>1, StillMoves, MonitorsStill, OtherEvidenceKept
<1>4. ASSUME NEW p \in Pid, SpawnAttach(p) PROVE Evidence'
  <2>1. UNCHANGED <<waiters, monExit, pending, subPc, subFut, subObs, subRes,
                    serial, serialReport, owed, call>>
    BY <1>4 DEF SpawnAttach, opVars, callVars, subVars
  <2> QED BY <1>4, <2>1, AttachMoves, OtherEvidenceKept
<1>5. ASSUME NEW p \in Pid, SpawnStep(p), ~SpawnAttach(p) PROVE Evidence'
  <2>1. UNCHANGED <<waiters, monExit, pending, subPc, subFut, subObs, subRes,
                    serial, serialReport, owed, call, monPc, home, registry>>
    BY <1>5 DEF SpawnStep, SpawnLock, SpawnBackendOk, SpawnBackendErr,
       SpawnCheckOwners, SpawnOrphan, SpawnReturn, monVars, regVars, opVars,
       callVars, subVars
  <2> QED BY <2>1, StillMoves, MonitorsStill, OtherEvidenceKept
<1> QED BY <1>1, <1>2, <1>3, <1>4, <1>5

-----------------------------------------------------------------------------
(* The monitor. *)

LEMMA MonitorEvidenceKept ==
  ASSUME Blocks, Responsible, Responsible', Evidence, NEW p \in Pid, MonitorStep(p)
  PROVE  Evidence'
<1> USE DEF Evidence, RegistryLeads, Accounted
<1>1. UNCHANGED <<home, call, serial, serialReport, owed, subPc, subRes>>
  BY DEF MonitorStep, MonitorWait, MonitorRecord, MonitorNotify, MonitorPrune,
     opVars, spawnVars, callVars, subVars
<1>2. ASSUME NEW pc, monPc' = [monPc EXCEPT ![p] = pc], monPc[p] # "none", pc # "none",
             pc \in Early => monPc[p] \in Early
      PROVE  MonitorsMove
  BY <1>1, <1>2, Types DEF MonitorsMove
<1>3. CASE MonitorWait(p)
  <2>1. UNCHANGED <<registry, waiters, monExit, pending, subFut, subObs>>
    BY <1>3 DEF MonitorWait, regVars, subVars
  <2>2. MonitorsMove
    BY <1>2, <1>3 DEF MonitorWait, Early
  <2> QED BY <1>1, <2>1, <2>2, StillMoves, OtherEvidenceKept
<1>4. CASE MonitorPrune(p)
  <2>1. /\ UNCHANGED <<waiters, monExit, pending, subFut, subObs>>
        /\ registry' = [registry EXCEPT ![home[p]] = Prune(registry[home[p]], p)]
    BY <1>4 DEF MonitorPrune, subVars
  <2>2. MonitorsMove
    BY <1>2, <1>4 DEF MonitorPrune, Early
  <2>3. /\ RegistryMoves({})
        /\ \A s \in Scope : IsOpen(registry[s]) => IsOpen(registry[s])'
    BY <2>1, MethodMoves
  <2> QED BY <1>1, <2>1, <2>2, <2>3, OtherEvidenceKept
<1>5. CASE MonitorRecord(p)
  <2>1. UNCHANGED <<waiters, subFut, subObs>>
    BY <1>5 DEF MonitorRecord, subVars
  <2>2. /\ monPc[p] \in {"record", "recordFailed"}
        /\ \E pc \in {"notify", "done"} : monPc' = [monPc EXCEPT ![p] = pc]
    BY <1>5, Zenon DEF MonitorRecord
  <2>3. MonitorsMove /\ monPc'[p] \notin Early /\ monPc[p] \in Early
    BY <1>2, <2>2, Types DEF Early
  <2>4. CASE ~Owned(p)
    <3>1. UNCHANGED <<registry, monExit, pending>>
      BY <1>5, <2>4 DEF MonitorRecord
    <3> QED BY <1>1, <2>1, <2>3, <3>1, StillMoves, OtherEvidenceKept
  <2>5. CASE Owned(p)
    <3> DEFINE outcome == MonitorOutcome(p)
               exited == RecordExit(registry[home[p]], p)
    <3>1. /\ registry' = [registry EXCEPT ![home[p]] = RecordReaped(exited, p, outcome)]
          /\ pending' = PendingAfterMonitor(home[p], p, outcome)
          /\ monExit' = [monExit EXCEPT ![p] = outcome]
      BY <1>5, <2>5, Zenon DEF MonitorRecord
    <3>2. outcome \in Outcome
      BY <1>5, MonitorOutcomeEvidence DEF MonitorRecord
    <3>3. RecordedExit(p) = NoExit
      BY <2>3, <2>5 DEF MonitorFirst, Early
    <3> HIDE DEF outcome, exited
    <3>4. /\ RegistryMoves({p}) /\ Advances
          /\ outcome \in VerifiedOutcome => Settled(p)'
          /\ PendingFollows' /\ MonitorFirst' /\ CommittedSettled'
          /\ ReportCoversDrainedProcesses' /\ DrainRecorded' /\ DrainTracked'
      BY <1>1, <2>3, <2>5, <3>1, <3>2, <3>3, OutcomeKinds, RecordingEvidence
         DEF exited
    <3>5. MonitorsFollow'
      <4>1. \A q \in Pid : monExit'[q] = IF q = p THEN outcome ELSE monExit[q]
        BY <3>1, Types
      <4> QED BY <3>4, <4>1 DEF MonitorsFollow, Advances
    <3>6. WaitersFollow' /\ SlotVerified' /\ WorkersFollow' /\ RetryVerified'
      BY <1>1, <2>1, <2>3, <3>4, EvidenceFrames
    <3>7. NoStaleFailure'
      <4>1. \A q \in Pid : TryGet(waiters, q)' \in UnverifiedOutcome =>
              q \notin {p} /\ Owned(q) /\ RecordedExit(q) \in UnverifiedOutcome
        BY <2>1, <3>3, OutcomeKinds DEF NoStaleFailure
      <4> QED BY <2>3, <3>4, <4>1, EvidenceFrames
    <3> QED BY <3>4, <3>5, <3>6, <3>7
  <2> QED BY <2>4, <2>5
<1>6. CASE MonitorNotify(p)
  <2>1. UNCHANGED <<registry, monExit, pending>> /\ monPc[p] = "notify"
    BY <1>6 DEF MonitorNotify, regVars
  <2>2. /\ monPc[p] # "none"
        /\ \E pc \in {"prune", "done"} : monPc' = [monPc EXCEPT ![p] = pc]
    BY <1>6, Zenon DEF MonitorNotify
  <2>3. MonitorsMove
    BY <1>2, <2>2 DEF Early
  <2>4. /\ RegistryMoves({})
        /\ \A s \in Scope : IsOpen(registry[s]) => IsOpen(registry[s])'
    BY <2>1, StillMoves
  <2>5. CASE ~Notifies(p, monExit[p])
    <3>1. UNCHANGED <<waiters, subFut, subObs>>
      BY <1>6, <2>5 DEF MonitorNotify
    <3> QED BY <1>1, <2>1, <2>3, <2>4, <3>1, OtherEvidenceKept
  <2>6. CASE Notifies(p, monExit[p])
    <3>1. SignalAll(p, monExit[p])
      BY <1>6, <2>6 DEF MonitorNotify
    <3>2. monExit[p] \in Outcome
      BY <2>1 DEF Blocks, MonInv, MonitorReady
    <3>3. Advances
      BY <2>3, <2>4, MovesAdvance
    <3>4. monExit[p] \in VerifiedOutcome => Settled(p)'
      BY <3>3 DEF MonitorsFollow, Advances
    <3>5. WaitersFollow' /\ SlotVerified' /\ WorkersFollow'
      BY <1>1, <3>1, <3>2, <3>3, <3>4, SignalFollows DEF WorkersFollow, Advances
    <3>6. NoStaleFailure'
      <4>1. \A q \in Pid : TryGet(waiters, q)' \in UnverifiedOutcome =>
              Owned(q) /\ RecordedExit(q) \in UnverifiedOutcome
        BY <2>6, <3>1, <3>2, SignalEffect, OutcomeKinds DEF NoStaleFailure, Notifies
      <4> QED BY <2>3, <2>4, <4>1, EvidenceFrames
    <3>7. MonitorsFollow' /\ PendingFollows' /\ PendingKept /\ RetryVerified'
          /\ CommittedSettled' /\ ReportCoversDrainedProcesses'
      BY <1>1, <2>1, <2>3, <2>4, EvidenceFrames
    <3>8. MonitorFirst' /\ DrainRecorded'
      BY <1>1, <2>3, <2>4, <3>7, EvidenceFrames
    <3>9. DrainTracked'
      BY <1>1, <2>3, <2>4, <3>7, EvidenceFrames
    <3> QED BY <3>5, <3>6, <3>7, <3>8, <3>9
  <2> QED BY <2>5, <2>6
<1> QED BY <1>3, <1>4, <1>5, <1>6 DEF MonitorStep

-----------------------------------------------------------------------------
(* Calls. *)

\* A committed scope is removed: nothing of it is unverified.
LEMMA UnregisterMoves ==
  ASSUME Blocks, Responsible, Evidence, NEW c \in Caller, ScopeUnregister(c)
  PROVE  /\ RegistryMoves({})
         /\ \A t \in Scope : IsOpen(registry[t]) => IsOpen(registry[t])'
<1> DEFINE s == call[c].scope
<1>1. /\ s \in Scope /\ s \in serial /\ ~IsOpen(registry[s])
      /\ registry' = [registry EXCEPT ![s] = NoScopeEntry]
  BY Types DEF ScopeUnregister, Responsible, CallLife, CommitPc, ScopeLife
<1> HIDE DEF s
<1>2. \A t \in Scope : registry'[t] = IF t = s THEN NoScopeEntry ELSE registry[t]
  BY <1>1, Types
<1>3. /\ \A p \in Pid : NoScopeEntry.processes[p] = NoProcess
      /\ NoProcess.state = "Absent"
  BY DEF NoScopeEntry, NoProcesses, NoProcess
<1> QED BY <1>1, <1>2, <1>3 DEF RegistryMoves, Contains, IsOpen

\* The calls that leave the workers and the outcomes alone.
LEMMA PlainCallEvidence ==
  ASSUME Blocks, Responsible, Responsible', Evidence, NEW c \in Caller,
         \/ \E s \in Scope : TerminateScopeCall(c, s)
         \/ ShutdownCall(c) \/ TerminateScopeLookup(c) \/ ScopeSettled(c)
         \/ ScopeSweepErr(c) \/ ScopeUnregister(c) \/ ScopeRemember(c)
         \/ ShutdownSnapshot(c) \/ ShutdownNext(c) \/ ShutdownReturn(c)
  PROVE  Evidence'
<1>1. UNCHANGED <<waiters, monExit, pending, subPc, subFut, subObs, subRes, serial,
                  serialReport, owed, monPc, home>>
  BY DEF TerminateScopeCall, ShutdownCall, TerminateScopeLookup, ScopeSettled,
     ScopeSweepErr, ScopeUnregister, ScopeRemember, ShutdownSnapshot,
     ShutdownNext, ShutdownReturn, monVars, regVars, opVars, spawnVars, subVars
<1>2. PICK op, where, pc : CallAt(c, op, where, pc) /\ pc \notin DrainPc
  <2>1. /\ {"operation", "lock", "recheck", "retire", "next", "done"} \subseteq CallPc
        /\ {"operation", "lock", "recheck", "retire", "next", "done", "reports",
             "serial"} \cap DrainPc = {}
    BY DEF CallPc, DrainPc
  <2>2. CASE (\E s \in Scope : TerminateScopeCall(c, s)) \/ ShutdownCall(c)
    BY <2>1, <2>2, CallMovesAt DEF TerminateScopeCall, ShutdownCall
  <2>3. CASE ScopeSettled(c) \/ ScopeSweepErr(c) \/ ScopeRemember(c)
    BY <2>1, <2>3, CallMovesAt DEF ScopeSettled, ScopeSweepErr, ScopeRemember
  <2>4. CASE TerminateScopeLookup(c)
    BY <2>1, <2>4, CallMovesAt DEF TerminateScopeLookup
  <2>5. CASE ScopeUnregister(c) \/ ShutdownSnapshot(c) \/ ShutdownReturn(c)
    BY <2>1, <2>5, CallMovesAt DEF ScopeUnregister, ShutdownSnapshot,
       ShutdownReturn
  <2>6. CASE ShutdownNext(c)
    <3>1. PICK s \in todo[c] : call' = [call EXCEPT ![c].scope = s, ![c].pc = "lock"]
      BY <2>6 DEF ShutdownNext
    <3>2. \A d \in Caller : call[d] \in CallRecord
      BY Types
    <3>3. CallAt(c, call[c].op, s, "lock")
      BY <3>1, <3>2, Types DEF CallAt, CallRecord
    <3> QED BY <2>1, <3>3
  <2> QED BY <2>2, <2>3, <2>4, <2>5, <2>6
<1>3. \A d \in Caller : call'[d].pc \in DrainPc =>
        call'[d].pc = call[d].pc /\ call'[d].scope = call[d].scope
  BY <1>2 DEF CallAt
<1>4. /\ RegistryMoves({})
      /\ \A s \in Scope : IsOpen(registry[s]) => IsOpen(registry[s])'
  <2>1. CASE ScopeUnregister(c)
    BY <2>1, UnregisterMoves
  <2>2. CASE ~ScopeUnregister(c)
    <3>1. UNCHANGED registry
      BY <2>2 DEF TerminateScopeCall, ShutdownCall, TerminateScopeLookup,
         ScopeSettled, ScopeSweepErr, ScopeRemember, ShutdownSnapshot,
         ShutdownNext, ShutdownReturn, regVars
    <3> QED BY <3>1, StillMoves
  <2> QED BY <2>1, <2>2
<1> QED BY <1>1, <1>3, <1>4, MonitorsStill, OtherEvidenceKept

\* The calls that start or stop workers, or hand on their outcomes.
LEMMA CallEvidenceKept ==
  ASSUME Blocks, Responsible, Responsible', Evidence,
         UNCHANGED <<registry, monPc, home, waiters, monExit, serial, serialReport,
                     owed>>,
         \A d \in Caller, q \in Pid :
           /\ subFut'[d][q] \in {subFut[d][q], Unregistered}
           /\ subObs'[d][q] \in {subObs[d][q], Unregistered}
           /\ subRes'[d][q] \in VerifiedOutcome => Settled(q)
           /\ subPc'[d][q] \in QuarantinePc => subPc[d][q] \in QuarantinePc
           /\ subPc'[d][q] \in {"qNotify", "qPrune", "qDone"} =>
                subPc'[d][q] = subPc[d][q] /\ subRes'[d][q] = subRes[d][q],
         \A s \in Scope, q \in Pid : pending'[s][q] \in VerifiedOutcome => Settled(q),
         PendingKept, DrainTracked'
  PROVE  Evidence'
<1> USE DEF Evidence, RegistryLeads, Accounted
<1>1. /\ RegistryMoves({}) /\ MonitorsMove
      /\ \A s \in Scope : IsOpen(registry[s]) => IsOpen(registry[s])'
  BY StillMoves, MonitorsStill
<1>2. Advances
  BY <1>1, MovesAdvance
<1>3. WorkersFollow'
  BY <1>2, OutcomeKinds DEF WorkersFollow, Advances
<1>4. PendingFollows' /\ RetryVerified'
  BY <1>2 DEF PendingFollows, RetryVerified, Advances
<1>5. WaitersFollow' /\ SlotVerified' /\ MonitorsFollow' /\ CommittedSettled'
      /\ ReportCoversDrainedProcesses' /\ MonitorFirst' /\ DrainRecorded'
  BY <1>1, EvidenceFrames
<1>6. NoStaleFailure'
  BY <1>1, EvidenceFrames DEF NoStaleFailure
<1> QED BY <1>3, <1>4, <1>5, <1>6

\* DrainTracked where no terminator goes on and nothing it tracks changes.
LEMMA TrackedKept ==
  ASSUME Blocks, Responsible, Evidence, UNCHANGED registry, PendingKept,
         \A d \in Caller : call'[d].pc \in DrainPc =>
           /\ call[d].pc \in DrainPc /\ call'[d].scope = call[d].scope
           /\ \A q \in Pid :
                \/ call'[d].pc = call[d].pc /\ subPc'[d][q] = subPc[d][q]
                \/ call[d].pc # "join" \/ subPc[d][q] = "idle"
                \/ pending'[call[d].scope][q] # NoExit
  PROVE  DrainTracked'
<1> SUFFICES ASSUME NEW d \in Caller, NEW q \in Pid, call'[d].pc \in DrainPc,
                    Contains(registry'[call'[d].scope], q)
             PROVE  \/ pending'[call'[d].scope][q] # NoExit
                    \/ call'[d].pc = "join" /\ subPc'[d][q] # "idle"
  BY DEF DrainTracked
<1> DEFINE s == call[d].scope
<1>1. /\ call[d].pc \in DrainPc /\ call'[d].scope = s
      /\ \/ call'[d].pc = call[d].pc /\ subPc'[d][q] = subPc[d][q]
         \/ call[d].pc # "join" \/ subPc[d][q] = "idle"
         \/ pending'[s][q] # NoExit
  OBVIOUS
<1>2. s \in Scope /\ s \notin serial
  BY <1>1, Types DEF Responsible, CallLife, DrainPc, ScopePc
<1>3. pending[s][q] # NoExit \/ (call[d].pc = "join" /\ subPc[d][q] # "idle")
  BY <1>1 DEF Evidence, Accounted, DrainTracked
<1> HIDE DEF s
<1> QED BY <1>1, <1>2, <1>3 DEF PendingKept

\* Retiring a scope drops the outcomes of a committed report.
LEMMA RetireEvidence ==
  ASSUME Blocks, Responsible, Responsible', Evidence, NEW c \in Caller, ScopeRetire(c)
  PROVE  Evidence'
<1> DEFINE s == call[c].scope
<1>1. /\ UNCHANGED <<registry, monPc, home, waiters, monExit, serial, serialReport,
                     owed, subPc, subFut, subObs, subRes>>
      /\ call[c].pc = "retire" /\ pending' = [pending EXCEPT ![s] = NoReport]
  BY DEF ScopeRetire, spawnVars, monVars, subVars
<1>2. s \in Scope /\ s \in serial
  BY <1>1, Types DEF Responsible, CallLife, CommitPc
<1>3. CallAt(c, call[c].op, s, "remember")
  BY CallMovesAt DEF ScopeRetire, CallPc
<1> HIDE DEF s
<1>4. \A t \in Scope : pending'[t] = IF t = s THEN NoReport ELSE pending[t]
  BY <1>1, Types
<1>5. /\ \A t \in Scope, q \in Pid : pending'[t][q] \in VerifiedOutcome => Settled(q)
      /\ PendingKept
  BY <1>2, <1>4, OutcomeKinds DEF NoReport, PendingKept, Evidence, RegistryLeads,
     PendingFollows
<1>6. \A d \in Caller : call'[d].pc \in DrainPc =>
        call'[d].pc = call[d].pc /\ call'[d].scope = call[d].scope
  BY <1>3 DEF CallAt, DrainPc
<1>7. DrainTracked'
  BY <1>1, <1>5, <1>6, TrackedKept
<1>8. \A d \in Caller, q \in Pid : subRes'[d][q] \in VerifiedOutcome => Settled(q)
  BY <1>1 DEF Evidence, RegistryLeads, WorkersFollow
<1> QED BY <1>1, <1>5, <1>7, <1>8, CallEvidenceKept

\* terminate and wait of a single process, and cancellation.
LEMMA SingleEvidence ==
  ASSUME Blocks, Responsible, Responsible', Evidence, NEW c \in Caller,
         \/ \E p \in Pid : SingleCall(c, p) \/ SingleReturn(c, p)
         \/ Cancel(c)
  PROVE  Evidence'
<1>1. UNCHANGED <<registry, monPc, home, waiters, monExit, serial, serialReport,
                  owed, pending>>
  BY DEF SingleCall, SingleReturn, Cancel, regVars, opVars, spawnVars, monVars
<1>2. \A d \in Caller : call'[d].pc \in DrainPc =>
        /\ d # c /\ call'[d].pc = call[d].pc /\ call'[d].scope = call[d].scope
  <2>1. CASE \E p \in Pid : SingleCall(c, p)
    <3>1. CallAt(c, "terminate", NoScope, "single") \/ CallAt(c, "wait", NoScope, "single")
      BY <2>1, CallMovesAt DEF SingleCall
    <3> QED BY <3>1 DEF CallAt, DrainPc
  <2>2. CASE \E p \in Pid : SingleReturn(c, p)
    <3>1. "done" \in CallPc /\ Goto(c, "done")
      BY <2>2 DEF SingleReturn, CallPc
    <3>2. CallAt(c, call[c].op, call[c].scope, "done")
      BY <3>1, CallMovesAt
    <3> QED BY <3>2 DEF CallAt, DrainPc
  <2>3. CASE Cancel(c)
    <3>1. CallAt(c, "none", NoScope, "idle")
      BY <2>3, Types DEF Cancel, CallAt
    <3> QED BY <3>1 DEF CallAt, DrainPc
  <2> QED BY <2>1, <2>2, <2>3
<1>3. \A d \in Caller, q \in Pid :
        /\ subFut'[d][q] \in {subFut[d][q], Unregistered}
        /\ subObs'[d][q] \in {subObs[d][q], Unregistered}
        /\ subRes'[d][q] \in {subRes[d][q], "None"}
        /\ subPc'[d][q] \in {subPc[d][q], "start", "observe", "idle"}
        /\ subPc'[d][q] = subPc[d][q] /\ subPc[d][q] # "qRecord" =>
             subRes'[d][q] = subRes[d][q] \/ subPc[d][q] = "idle"
        /\ d # c => subPc'[d][q] = subPc[d][q]
  <2>1. CASE \E p \in Pid : SingleCall(c, p)
    BY <2>1, Types DEF SingleCall
  <2>2. CASE \E p \in Pid : SingleReturn(c, p)
    <3>1. PICK p \in Pid :
            SubAt(c, p, "idle", subFut[c][p], subObs[c][p], "None")
      BY <2>2, SubMovesAt DEF SingleReturn
    <3> QED BY <3>1 DEF SubAt
  <2>3. CASE Cancel(c)
    <3>1. \A d \in Caller, q \in Pid :
            /\ subPc'[d][q] = IF d = c /\ subPc[c][q] # "qRecord"
                              THEN "idle" ELSE subPc[d][q]
            /\ subRes'[d][q] = IF d = c THEN "None" ELSE subRes[d][q]
            /\ subFut'[d][q] = IF d = c THEN Unregistered ELSE subFut[d][q]
            /\ subObs'[d][q] = IF d = c THEN Unregistered ELSE subObs[d][q]
      BY <2>3, Types DEF Cancel
    <3> QED BY <3>1
  <2> QED BY <2>1, <2>2, <2>3
<1>4. PendingKept
  BY <1>1 DEF PendingKept
<1>5. DrainTracked'
  BY <1>1, <1>2, <1>3, <1>4, TrackedKept
<1>6. \A d \in Caller, q \in Pid :
        /\ subRes'[d][q] \in VerifiedOutcome => Settled(q)
        /\ subPc'[d][q] \in QuarantinePc => subPc[d][q] \in QuarantinePc
        /\ subPc'[d][q] \in {"qNotify", "qPrune", "qDone"} =>
             subPc'[d][q] = subPc[d][q] /\ subRes'[d][q] = subRes[d][q]
  BY <1>3, OutcomeKinds DEF QuarantinePc, Evidence, RegistryLeads, WorkersFollow
<1>7. \A s \in Scope, q \in Pid : pending'[s][q] \in VerifiedOutcome => Settled(q)
  BY <1>1 DEF Evidence, RegistryLeads, PendingFollows
<1> QED BY <1>1, <1>3, <1>4, <1>5, <1>6, <1>7, CallEvidenceKept

\* A worker's outcome is merged into the pending outcomes.
LEMMA JoinEvidence ==
  ASSUME Blocks, Responsible, Responsible', Evidence, NEW c \in Caller, NEW p \in Pid,
         ScopeJoin(c, p)
  PROVE  Evidence'
<1> DEFINE s == call[c].scope
           outcome == JoinOutcome(subRes[c][p])
<1>1. /\ UNCHANGED <<registry, monPc, home, waiters, monExit, serial, serialReport,
                     owed, call>>
      /\ call[c].pc = "join" /\ subPc[c][p] = "done"
      /\ pending' = [pending EXCEPT ![s][p] = Merge(outcome, @)]
  BY DEF ScopeJoin, opVars, spawnVars, monVars, callVars
<1>2. s \in Scope
  BY <1>1, Types DEF Responsible, CallLife, ScopePc
<1>3. SubAt(c, p, "idle", subFut[c][p], subObs[c][p], "None")
  BY SubMovesAt DEF ScopeJoin
<1>4. /\ outcome \in Outcome
      /\ outcome \in VerifiedOutcome => Settled(p)
  <2>1. subRes[c][p] \in Outcome \cup {Unknown}
    BY <1>1 DEF Blocks, ReadyInv, WorkerReady
  <2>2. "ProcessDisappeared" \in Outcome /\ "ProcessDisappeared" \notin VerifiedOutcome
    BY DEF Outcome, VerifiedOutcome, UnverifiedOutcome
  <2> QED BY <2>1, <2>2 DEF JoinOutcome, Evidence, RegistryLeads, WorkersFollow
<1> HIDE DEF s, outcome
<1>5. \A t \in Scope, q \in Pid : pending'[t][q] =
        IF t = s /\ q = p THEN Merge(outcome, pending[s][p]) ELSE pending[t][q]
  BY <1>1, <1>2, Types DEF Report
<1>6. /\ \A t \in Scope, q \in Pid : pending'[t][q] \in VerifiedOutcome => Settled(q)
      /\ PendingKept /\ pending'[s][p] # NoExit
  BY <1>2, <1>4, <1>5, OutcomeKinds DEF Merge, PendingKept, Evidence, RegistryLeads,
     PendingFollows
<1>7. DrainTracked'
  BY <1>1, <1>3, <1>6, TrackedKept DEF SubAt, s
<1>8. \A d \in Caller, q \in Pid :
        /\ subRes'[d][q] \in VerifiedOutcome => Settled(q)
        /\ subPc'[d][q] \in QuarantinePc => subPc[d][q] \in QuarantinePc
        /\ subPc'[d][q] \in {"qNotify", "qPrune", "qDone"} =>
             subPc'[d][q] = subPc[d][q] /\ subRes'[d][q] = subRes[d][q]
        /\ subFut'[d][q] = subFut[d][q] /\ subObs'[d][q] = subObs[d][q]
  BY <1>3, OutcomeKinds DEF SubAt, QuarantinePc, Evidence, RegistryLeads, WorkersFollow
<1> QED BY <1>1, <1>6, <1>7, <1>8, CallEvidenceKept

\* The sweep starts, or it succeeds and unverified outcomes are observed again.
LEMMA SweepEvidence ==
  ASSUME Blocks, Responsible, Responsible', Evidence, NEW c \in Caller,
         ScopeSweep(c) \/ ScopeSweepOk(c)
  PROVE  Evidence'
<1>1. /\ UNCHANGED <<registry, monPc, home, waiters, monExit, serial, serialReport,
                     owed, pending, subFut, subObs>>
  BY DEF ScopeSweep, ScopeSweepOk, regVars, opVars, spawnVars, monVars, subVars
<1>2. PendingKept
  BY <1>1 DEF PendingKept
<1>3. \A d \in Caller : call'[d].pc \in DrainPc =>
        /\ call[d].pc \in DrainPc /\ call'[d].scope = call[d].scope
        /\ d # c => call'[d].pc = call[d].pc
  <2>1. {"sweep", "reobserve"} \subseteq CallPc /\ call[c].pc \in DrainPc
    BY DEF CallPc, DrainPc, ScopeSweep, ScopeSweepOk
  <2>2. \/ CallAt(c, call[c].op, call[c].scope, "sweep")
        \/ CallAt(c, call[c].op, call[c].scope, "reobserve")
    BY <2>1, CallMovesAt DEF ScopeSweep, ScopeSweepOk
  <2> QED BY <2>1, <2>2 DEF CallAt
<1>4. /\ \A d \in Caller, q \in Pid :
           /\ subRes'[d][q] \in VerifiedOutcome => subRes[d][q] \in VerifiedOutcome
           /\ subPc'[d][q] \in QuarantinePc =>
                subPc'[d][q] = subPc[d][q] /\ subRes'[d][q] = subRes[d][q]
           /\ d # c => subPc'[d][q] = subPc[d][q]
      /\ call[c].pc = "join" => \A q \in Pid : subPc[c][q] = "idle"
  <2>1. CASE ScopeSweep(c)
    BY <2>1 DEF ScopeSweep, subVars
  <2>2. CASE ScopeSweepOk(c)
    <3>1. \A d \in Caller, q \in Pid :
            /\ subPc'[d][q] \in IF d = c THEN {"observe", "idle"} ELSE {subPc[d][q]}
            /\ subRes'[d][q] \in IF d = c THEN UnverifiedOutcome \cup {"None"}
                                 ELSE {subRes[d][q]}
      BY <2>2, Types DEF ScopeSweepOk
    <3>2. call[c].pc = "sweep"
      BY <2>2 DEF ScopeSweepOk
    <3>3. "None" \notin VerifiedOutcome /\ UnverifiedOutcome \cap VerifiedOutcome = {}
      BY OutcomeKinds
    <3>4. \A d \in Caller, q \in Pid :
            subRes'[d][q] \in VerifiedOutcome => subRes[d][q] \in VerifiedOutcome
      BY <3>1, <3>3
    <3> QED BY <3>1, <3>2, <3>4 DEF QuarantinePc
  <2> QED BY <2>1, <2>2
<1>5. DrainTracked'
  BY <1>1, <1>2, <1>3, <1>4, TrackedKept
<1>6. /\ \A d \in Caller, q \in Pid : subRes'[d][q] \in VerifiedOutcome => Settled(q)
      /\ \A s \in Scope, q \in Pid : pending'[s][q] \in VerifiedOutcome => Settled(q)
  BY <1>1, <1>4 DEF Evidence, RegistryLeads, WorkersFollow, PendingFollows
<1>7. {"qNotify", "qPrune", "qDone"} \subseteq QuarantinePc
  BY DEF QuarantinePc
<1> QED BY <1>1, <1>2, <1>4, <1>5, <1>6, <1>7, CallEvidenceKept

\* What a finished re-observation leaves in the pending outcomes.
LEMMA ReobservedOutcomes ==
  ASSUME Blocks, Responsible, Evidence, NEW c \in Caller, ReobserveDone(c)
  PROVE  LET s == call[c].scope IN
         /\ s \in Scope \ serial /\ call[c].pc = "reobserve"
         /\ \A t \in Scope : pending'[t] = IF t = s THEN Reobserved(c) ELSE pending[t]
         /\ \A q \in Pid :
              /\ Reobserved(c)[q] \in VerifiedOutcome => Settled(q)
              /\ pending[s][q] # NoExit => Reobserved(c)[q] # NoExit
              /\ pending[s][q] \in VerifiedOutcome => Reobserved(c)[q] = pending[s][q]
         /\ \A d \in Caller, q \in Pid :
              /\ subPc'[d][q] = IF d = c THEN "idle" ELSE subPc[d][q]
              /\ subRes'[d][q] = IF d = c THEN "None" ELSE subRes[d][q]
<1> DEFINE s == call[c].scope
<1>1. call[c].pc = "reobserve" /\ s \in Scope \ serial
  BY Types DEF ReobserveDone, Responsible, CallLife, ScopePc, DrainPc
<1>2. \A d \in Caller, q \in Pid :
        /\ subPc'[d][q] = IF d = c THEN "idle" ELSE subPc[d][q]
        /\ subRes'[d][q] = IF d = c THEN "None" ELSE subRes[d][q]
  BY Types DEF ReobserveDone
<1>3. \A t \in Scope : pending'[t] = IF t = s THEN Reobserved(c) ELSE pending[t]
  BY <1>1, Types DEF ReobserveDone
<1>4. \A q \in Pid : subPc[c][q] = "done" => subRes[c][q] \in Outcome
  BY <1>1 DEF Blocks, ReadyInv, CallReady
<1>5. \A q \in Pid : Reobserved(c)[q] = IF subPc[c][q] = "done"
                                       THEN Merge(subRes[c][q], pending[s][q])
                                       ELSE pending[s][q]
  BY DEF Reobserved
<1>6. \A q \in Pid :
        /\ Reobserved(c)[q] \in VerifiedOutcome => Settled(q)
        /\ pending[s][q] # NoExit => Reobserved(c)[q] # NoExit
        /\ pending[s][q] \in VerifiedOutcome => Reobserved(c)[q] = pending[s][q]
  BY <1>1, <1>4, <1>5, OutcomeKinds DEF Merge, Evidence, RegistryLeads, PendingFollows,
     WorkersFollow
<1> QED BY <1>1, <1>2, <1>3, <1>6

LEMMA UnverifiedEvidence ==
  ASSUME Blocks, Responsible, Responsible', Evidence, NEW c \in Caller,
         ScopeUnverified(c)
  PROVE  Evidence'
<1>1. /\ UNCHANGED <<registry, monPc, home, waiters, monExit, serial, serialReport,
                     owed, subFut, subObs>>
      /\ ReobserveDone(c)
  BY DEF ScopeUnverified, spawnVars, monVars
<1> DEFINE s == call[c].scope
<1>2. /\ s \in Scope \ serial
      /\ \A t \in Scope : pending'[t] = IF t = s THEN Reobserved(c) ELSE pending[t]
      /\ \A q \in Pid :
           /\ Reobserved(c)[q] \in VerifiedOutcome => Settled(q)
           /\ pending[s][q] # NoExit => Reobserved(c)[q] # NoExit
      /\ \A d \in Caller, q \in Pid :
           /\ subPc'[d][q] = IF d = c THEN "idle" ELSE subPc[d][q]
           /\ subRes'[d][q] = IF d = c THEN "None" ELSE subRes[d][q]
  BY <1>1, ReobservedOutcomes
<1>3. CallAt(c, call[c].op, s, IF call[c].op = "shutdown" THEN "next" ELSE "done")
  BY CallMovesAt DEF ScopeUnverified
<1>4. \A d \in Caller : call'[d].pc \in DrainPc =>
        d # c /\ call'[d].pc = call[d].pc /\ call'[d].scope = call[d].scope
  BY <1>3 DEF CallAt, DrainPc
<1> HIDE DEF s
<1>5. /\ \A t \in Scope, q \in Pid : pending'[t][q] \in VerifiedOutcome => Settled(q)
      /\ PendingKept
  BY <1>2 DEF PendingKept, Evidence, RegistryLeads, PendingFollows
<1>6. DrainTracked'
  BY <1>1, <1>2, <1>4, <1>5, TrackedKept
<1>7. \A d \in Caller, q \in Pid :
        /\ subRes'[d][q] \in VerifiedOutcome => Settled(q)
        /\ subPc'[d][q] \in QuarantinePc => subPc[d][q] \in QuarantinePc
        /\ subPc'[d][q] \in {"qNotify", "qPrune", "qDone"} =>
             subPc'[d][q] = subPc[d][q] /\ subRes'[d][q] = subRes[d][q]
  BY <1>2, OutcomeKinds DEF QuarantinePc, Evidence, RegistryLeads, WorkersFollow
<1> QED BY <1>1, <1>5, <1>6, <1>7, CallEvidenceKept

\* A committed report is the whole truth about what its scope still lists or
\* ever owed.
LEMMA PublishEvidence ==
  ASSUME Blocks, Responsible, Responsible', Evidence, NEW c \in Caller,
         ScopePublish(c)
  PROVE  Evidence'
<1> USE DEF Evidence, RegistryLeads, Accounted
<1> DEFINE s == call[c].scope
           rep == Reobserved(c)
<1>1. /\ UNCHANGED <<registry, monPc, home, waiters, monExit, owed, subFut, subObs>>
      /\ ReobserveDone(c) /\ AllVerified(rep)
      /\ serial' = serial \cup {s}
      /\ serialReport' = [serialReport EXCEPT ![s] = rep]
  BY DEF ScopePublish, CommitReport, spawnVars, monVars
<1>2. /\ s \in Scope \ serial /\ call[c].pc = "reobserve"
      /\ \A t \in Scope : pending'[t] = IF t = s THEN rep ELSE pending[t]
      /\ \A q \in Pid :
           /\ rep[q] \in VerifiedOutcome => Settled(q)
           /\ pending[s][q] # NoExit => rep[q] # NoExit
      /\ \A d \in Caller, q \in Pid :
           /\ subPc'[d][q] = IF d = c THEN "idle" ELSE subPc[d][q]
           /\ subRes'[d][q] = IF d = c THEN "None" ELSE subRes[d][q]
  BY <1>1, ReobservedOutcomes
<1>3. CallAt(c, call[c].op, s, "unregister")
  BY CallMovesAt DEF ScopePublish, CallPc
<1>4. \A d \in Caller : call'[d].pc \in DrainPc =>
        d # c /\ call'[d].pc = call[d].pc /\ call'[d].scope = call[d].scope
  BY <1>3 DEF CallAt, DrainPc
<1>5. \A q \in Pid : Contains(registry[s], q) => pending[s][q] # NoExit
  BY <1>2 DEF DrainTracked, DrainPc
<1> HIDE DEF s, rep
<1>6. \A q \in Pid : pending[s][q] # NoExit => rep[q] \in VerifiedOutcome
  BY <1>1, <1>2 DEF AllVerified
<1>7. /\ \A t \in Scope, q \in Pid : pending'[t][q] \in VerifiedOutcome => Settled(q)
      /\ PendingKept
  BY <1>2 DEF PendingKept, PendingFollows
<1>8. /\ RegistryMoves({}) /\ MonitorsMove
      /\ \A t \in Scope : IsOpen(registry[t]) => IsOpen(registry[t])'
  BY <1>1, StillMoves, MonitorsStill
<1>9. Advances
  BY <1>8, MovesAdvance
<1>10. PendingFollows'
  BY <1>7, <1>9 DEF PendingFollows, Advances
<1>11. WorkersFollow' /\ RetryVerified'
  <2>1. "None" \notin VerifiedOutcome
    BY OutcomeKinds
  <2>2. WorkersFollow'
    BY <1>1, <1>2, <1>9, <2>1 DEF WorkersFollow, Advances
  <2> QED BY <1>2, <2>2 DEF RetryVerified
<1>12. WaitersFollow' /\ SlotVerified' /\ MonitorsFollow'
  BY <1>1, <1>8, EvidenceFrames
<1>13. MonitorFirst'
  <2>1. \A d \in Caller, q \in Pid : subPc'[d][q] \in QuarantinePc =>
          subPc[d][q] \in QuarantinePc
    BY <1>2 DEF QuarantinePc
  <2> QED BY <1>8, <2>1, EvidenceFrames
<1>14. NoStaleFailure'
  BY <1>1, <1>8, EvidenceFrames DEF NoStaleFailure
<1>15. CommittedSettled'
  <2> SUFFICES ASSUME NEW t \in serial', NEW q \in Pid, Contains(registry[t], q)
               PROVE  registry[t].processes[q].exit \in VerifiedOutcome
    BY <1>1 DEF CommittedSettled
  <2>1. CASE t \in serial
    BY <2>1 DEF CommittedSettled
  <2>2. CASE t = s
    BY <1>2, <1>5, <1>6, <2>2, ListedFacts DEF Settled
  <2> QED BY <1>1, <2>1, <2>2
<1>16. ReportCoversDrainedProcesses'
  <2> SUFFICES ASSUME NEW t \in serial', NEW q \in Pid, q \in owed[t]
               PROVE  serialReport'[t][q] \in VerifiedOutcome
    BY <1>1 DEF ReportCoversDrainedProcesses
  <2>1. serial \subseteq Scope /\ serialReport \in [Scope -> Report]
    BY DEF Blocks, OpInv, OperationType
  <2>2. CASE t \in serial
    BY <1>1, <1>2, <2>1, <2>2 DEF ReportCoversDrainedProcesses
  <2>3. CASE t = s
    <3>1. pending[s][q] # NoExit
      BY <1>2, <1>5, <2>3 DEF DrainRecorded
    <3> QED BY <1>1, <1>2, <1>6, <2>1, <2>3, <3>1
  <2> QED BY <1>1, <2>2, <2>3
<1>17. DrainRecorded'
  <2>1. \A t \in Scope \ serial' : t \in Scope \ serial /\ pending'[t] = pending[t]
    BY <1>1, <1>2
  <2> QED BY <1>1, <2>1 DEF DrainRecorded
<1>18. DrainTracked'
  BY <1>1, <1>2, <1>4, <1>7, TrackedKept
<1> QED BY <1>10, <1>11, <1>12, <1>13, <1>14, <1>15, <1>16, <1>17, <1>18

\* The slots and receivers that a drain registers hold what history holds.
LEMMA DrainSlots ==
  ASSUME Blocks, Responsible, NEW c \in Caller, ScopeDrain(c)
  PROVE  LET s == call[c].scope IN
         /\ \A q \in Pid :
              /\ TryGet(waiters, q)' \in {TryGet(waiters, q), NoExit}
              /\ waiters'.entries[q].kind = "Completed" =>
                   waiters'.entries[q] = waiters.entries[q]
         /\ \A d \in Caller, q \in Pid :
              /\ subObs'[d][q] \in {subObs[d][q], TryGet(waiters, q), Unregistered}
              /\ d # c => subPc'[d][q] = subPc[d][q] /\ subRes'[d][q] = subRes[d][q]
              /\ subPc'[c][q] \in {"done", "start", "idle"}
              /\ Contains(registry[s], q) => subPc'[c][q] # "idle"
              /\ subRes'[c][q] \in {"None", registry[s].processes[q].exit}
         /\ \A t \in Scope, q \in Pid : pending'[t][q] =
              IF t = s /\ pending[s][q] = NoExit THEN registry[s].processes[q].exit
              ELSE pending[t][q]
<1> DEFINE s == call[c].scope
           ids == ProcessIds(registry[s])
           live == {p \in ids : registry[s].processes[p].exit = NoExit}
           over == {p \in ids : registry[s].processes[p].exit \in VerifiedOutcome}
<1>1. /\ pending' = [pending EXCEPT ![s] = CaptureExits(s)]
      /\ waiters' = [waiters EXCEPT !.entries = [p \in Pid |->
                       IF p \in live THEN WaitSlot(waiters, p).entries[p]
                       ELSE waiters.entries[p]]]
      /\ subObs' = [subObs EXCEPT ![c] = [p \in Pid |->
                      IF p \in live THEN TryGet(waiters, p) ELSE Unregistered]]
      /\ subPc' = [subPc EXCEPT ![c] = [p \in Pid |->
                     IF p \in over THEN "done" ELSE IF p \in ids THEN "start" ELSE "idle"]]
      /\ subRes' = [subRes EXCEPT ![c] = [p \in Pid |->
                      IF p \in over THEN registry[s].processes[p].exit ELSE "None"]]
  BY DEF ScopeDrain
<1>2. s \in Scope
  BY DrainEffect
<1>3. \A q \in Pid : q \in ids <=> Contains(registry[s], q)
  BY DEF ProcessIds
<1> HIDE DEF s, ids, live, over
<1>4. waiters \in WaiterRecord
  BY Types
<1>5. \A q \in Pid : waiters'.entries[q] = IF q \in live THEN WaitSlot(waiters, q).entries[q]
                                          ELSE waiters.entries[q]
  BY <1>1, <1>4 DEF WaiterRecord
<1>6. \A q \in Pid :
        /\ TryGet(waiters, q)' \in {TryGet(waiters, q), NoExit}
        /\ waiters'.entries[q].kind = "Completed" =>
             waiters'.entries[q] = waiters.entries[q]
  BY <1>4, <1>5, WaitSlotKeeps DEF TryGet
<1>7. \A d \in Caller, q \in Pid :
        /\ subObs'[d][q] \in {subObs[d][q], TryGet(waiters, q), Unregistered}
        /\ d # c => subPc'[d][q] = subPc[d][q] /\ subRes'[d][q] = subRes[d][q]
  BY <1>1, Types
<1>8. \A q \in Pid :
        /\ subPc'[c][q] \in {"done", "start", "idle"}
        /\ Contains(registry[s], q) => subPc'[c][q] # "idle"
        /\ subRes'[c][q] \in {"None", registry[s].processes[q].exit}
  BY <1>1, <1>3, Types
<1>9. \A t \in Scope, q \in Pid : pending'[t][q] =
        IF t = s /\ pending[s][q] = NoExit THEN registry[s].processes[q].exit
        ELSE pending[t][q]
  BY <1>1, <1>2, Types DEF CaptureExits
<1> QED BY <1>6, <1>7, <1>8, <1>9 DEF s

LEMMA DrainEvidence ==
  ASSUME Blocks, Responsible, Responsible', Evidence, NEW c \in Caller, ScopeDrain(c)
  PROVE  Evidence'
<1> USE DEF Evidence, RegistryLeads, Accounted
<1> DEFINE s == call[c].scope
<1>1. /\ s \in Scope /\ s \notin serial
      /\ CallAt(c, call[c].op, s, "join")
      /\ \A t \in Scope :
           /\ owed'[t] = IF t = s THEN owed[t] \cup ProcessIds(registry[s])
                         ELSE owed[t]
           /\ registry'[t].state = IF t = s /\ registry[t].state = "Open"
                                   THEN "Draining" ELSE registry[t].state
           /\ \A p \in Pid :
                /\ Contains(registry[t], p)' = Contains(registry[t], p)
                /\ registry'[t].processes[p].exit = registry[t].processes[p].exit
                /\ registry[t].processes[p].exit # NoExit =>
                     registry'[t].processes[p] = registry[t].processes[p]
      /\ UNCHANGED <<serial, serialReport, home, monPc, monExit, subFut>>
  BY DrainEffect
<1>2. /\ \A q \in Pid :
           /\ TryGet(waiters, q)' \in {TryGet(waiters, q), NoExit}
           /\ waiters'.entries[q].kind = "Completed" =>
                waiters'.entries[q] = waiters.entries[q]
      /\ \A d \in Caller, q \in Pid :
           /\ subObs'[d][q] \in {subObs[d][q], TryGet(waiters, q), Unregistered}
           /\ d # c => subPc'[d][q] = subPc[d][q] /\ subRes'[d][q] = subRes[d][q]
           /\ subPc'[c][q] \in {"done", "start", "idle"}
           /\ Contains(registry[s], q) => subPc'[c][q] # "idle"
           /\ subRes'[c][q] \in {"None", registry[s].processes[q].exit}
      /\ \A t \in Scope, q \in Pid : pending'[t][q] =
           IF t = s /\ pending[s][q] = NoExit THEN registry[s].processes[q].exit
           ELSE pending[t][q]
  BY DrainSlots
<1> HIDE DEF s
<1>3. \A q \in Pid : registry[s].processes[q].exit \in VerifiedOutcome => Settled(q)
  BY <1>1, OutcomeKinds, ListedFacts DEF Settled
<1>4. RegistryMoves({}) /\ MonitorsMove
  <2>1. MonitorsMove
    BY <1>1, MonitorsStill
  <2> QED BY <1>1, <2>1, OutcomeKinds DEF RegistryMoves
<1>5. Advances
  BY <1>4, MovesAdvance
<1>6. \A q \in Pid : TryGet(waiters, q)' # NoExit => TryGet(waiters, q)' = TryGet(waiters, q)
  BY <1>2
<1>7. WaitersFollow' /\ SlotVerified'
  <2>1. WaitersFollow'
    BY <1>5, <1>6, OutcomeKinds DEF WaitersFollow, Advances
  <2> QED BY <1>2, <2>1 DEF SlotVerified, TryGet
<1>8. NoStaleFailure'
  BY <1>4, <1>6, OutcomeKinds, EvidenceFrames DEF NoStaleFailure
<1>9. MonitorsFollow' /\ CommittedSettled'
  BY <1>1, <1>4, EvidenceFrames
<1>10. PendingFollows' /\ PendingKept
  <2>1. \A t \in Scope, q \in Pid : pending'[t][q] \in VerifiedOutcome => Settled(q)
    BY <1>2, <1>3 DEF PendingFollows
  <2> QED BY <1>2, <1>5, <2>1 DEF PendingFollows, PendingKept, Advances
<1>11. WorkersFollow'
  <2>1. /\ "None" \notin VerifiedOutcome /\ NoExit \notin VerifiedOutcome
        /\ Unregistered \notin VerifiedOutcome
    BY OutcomeKinds
  <2>2. \A d \in Caller, q \in Pid : subRes'[d][q] \in VerifiedOutcome => Settled(q)
    BY <1>2, <1>3, <2>1 DEF WorkersFollow
  <2>3. \A d \in Caller, q \in Pid : subObs'[d][q] \in VerifiedOutcome => Settled(q)
    BY <1>2, <2>1 DEF WorkersFollow, WaitersFollow
  <2> QED BY <1>1, <1>5, <2>2, <2>3 DEF WorkersFollow, Advances
<1>12. MonitorFirst' /\ RetryVerified'
  <2>1. \A d \in Caller, q \in Pid : subPc'[d][q] \in QuarantinePc =>
          d # c /\ subPc'[d][q] = subPc[d][q]
    BY <1>2 DEF QuarantinePc
  <2>2. MonitorFirst'
    BY <1>4, <2>1, EvidenceFrames
  <2> QED BY <1>2, <2>1, <2>2 DEF RetryVerified, QuarantinePc
<1>13. ReportCoversDrainedProcesses'
  <2>1. \A t \in serial : owed'[t] = owed[t]
    BY <1>1, Types
  <2> QED BY <1>1, <2>1 DEF ReportCoversDrainedProcesses
<1>14. DrainRecorded'
  <2> SUFFICES ASSUME NEW t \in Scope \ serial, NEW q \in Pid
               PROVE  /\ q \in owed'[t] => \/ Contains(registry[t], q)'
                                           \/ pending'[t][q] # NoExit
                      /\ /\ ~IsOpen(registry'[t])
                         /\ registry'[t].processes[q].exit # NoExit
                         => pending'[t][q] # NoExit
    BY <1>1 DEF DrainRecorded
  <2>1. q \in owed'[t] => q \in owed[t] \/ Contains(registry[t], q)
    BY <1>1 DEF ProcessIds
  <2>2. q \in owed[t] => Contains(registry[t], q) \/ pending[t][q] # NoExit
    BY DEF DrainRecorded
  <2>3. /\ Contains(registry[t], q) => Contains(registry[t], q)'
        /\ registry'[t].processes[q].exit = registry[t].processes[q].exit
        /\ pending[t][q] # NoExit => pending'[t][q] # NoExit
    BY <1>1, <1>10 DEF PendingKept
  <2>4. ASSUME ~IsOpen(registry'[t]), registry'[t].processes[q].exit # NoExit
        PROVE  pending'[t][q] # NoExit
    <3>1. CASE t = s
      BY <1>2, <2>3, <2>4, <3>1
    <3>2. CASE t # s
      BY <1>1, <2>3, <2>4, <3>2 DEF DrainRecorded, IsOpen
    <3> QED BY <3>1, <3>2
  <2> QED BY <2>1, <2>2, <2>3, <2>4
<1>15. DrainTracked'
  <2> SUFFICES ASSUME NEW d \in Caller, NEW q \in Pid, call'[d].pc \in DrainPc,
                      Contains(registry'[call'[d].scope], q)
               PROVE  \/ pending'[call'[d].scope][q] # NoExit
                      \/ call'[d].pc = "join" /\ subPc'[d][q] # "idle"
    BY DEF DrainTracked
  <2>1. CASE d = c
    BY <1>1, <1>2, <2>1 DEF CallAt
  <2>2. CASE d # c
    <3> DEFINE t == call[d].scope
    <3>1. call[d].pc \in DrainPc /\ call'[d].pc = call[d].pc /\ call'[d].scope = t
      BY <1>1, <2>2 DEF CallAt
    <3>2. t \in Scope \ serial
      BY <3>1, Types DEF Responsible, CallLife, ScopePc, DrainPc
    <3>3. Contains(registry[t], q)
      BY <1>1, <3>1, <3>2
    <3>4. pending[t][q] # NoExit \/ (call[d].pc = "join" /\ subPc[d][q] # "idle")
      BY <3>1, <3>3 DEF DrainTracked
    <3> HIDE DEF t
    <3> QED BY <1>2, <1>10, <2>2, <3>1, <3>2, <3>4 DEF PendingKept
  <2> QED BY <2>1, <2>2
<1> QED BY <1>7, <1>8, <1>9, <1>10, <1>11, <1>12, <1>13, <1>14, <1>15

-----------------------------------------------------------------------------
(* Evidence is an invariant. *)

LEMMA InitEvidence == Init => Evidence
<1> SUFFICES ASSUME Init PROVE Evidence
  OBVIOUS
<1> USE DEF Init
<1>1. \A s \in Scope, p \in Pid : ~Contains(registry[s], p)
  BY DEF NoScopeEntry, NoProcesses, NoProcess, Contains
<1>2. /\ NoExit \notin Outcome /\ Unregistered \notin Outcome /\ "None" \notin Outcome
      /\ VerifiedOutcome \subseteq Outcome /\ UnverifiedOutcome \subseteq Outcome
  BY OutcomeKinds
<1>3. \A p \in Pid : TryGet(waiters, p) = NoExit /\ waiters.entries[p].kind = "None"
  BY DEF NoWaiters, NoSlot, TryGet
<1>4. \A s \in Scope, p \in Pid : pending[s][p] = NoExit
  BY DEF NoReport
<1>5. WaitersFollow /\ MonitorsFollow /\ PendingFollows /\ WorkersFollow
  BY <1>2, <1>3, <1>4 DEF WaitersFollow, MonitorsFollow, PendingFollows, WorkersFollow
<1>6. MonitorFirst /\ RetryVerified /\ SlotVerified
  BY <1>1, <1>3, ScopeAssumption DEF MonitorFirst, RetryVerified, SlotVerified, Owned,
     QuarantinePc
<1>7. CommittedSettled /\ ReportCoversDrainedProcesses /\ DrainTracked
  BY DEF CommittedSettled, ReportCoversDrainedProcesses, DrainTracked, DrainPc
<1>8. DrainRecorded
  BY DEF DrainRecorded, IsOpen, NoScopeEntry, NoProcesses, NoProcess
<1>9. NoStaleFailure
  BY <1>2, <1>3 DEF NoStaleFailure
<1> QED BY <1>5, <1>6, <1>7, <1>8, <1>9 DEF Evidence, RegistryLeads, Accounted

LEMMA NextEvidence ==
  Blocks /\ Responsible /\ Evidence /\ [Next]_vars => Evidence'
<1> SUFFICES ASSUME Blocks, Responsible, Evidence, [Next]_vars PROVE Evidence'
  OBVIOUS
<1>1. Responsible'
  BY NextResponsible
<1>2. CASE UNCHANGED vars \/ DropOwners \/ \E s \in Scope : CreateScope(s)
  BY <1>1, <1>2, SpawnEvidence
<1>3. CASE \E p \in Pid, s \in Scope : SpawnCall(p, s)
  BY <1>1, <1>3, SpawnEvidence
<1>4. CASE \E p \in Pid : OsStep(p) \/ SpawnStep(p)
  BY <1>1, <1>4, SpawnEvidence
<1>5. ASSUME NEW p \in Pid, MonitorStep(p) PROVE Evidence'
  BY <1>1, <1>5, MonitorEvidenceKept
<1>6. ASSUME NEW c \in Caller, NEW p \in Pid, WorkerStep(c, p) PROVE Evidence'
  BY <1>1, <1>6, QuietWorkerEvidence, RetryRecordEvidence, RetryNotifyEvidence
<1>7. ASSUME NEW c \in Caller,
             \/ (\E s \in Scope : TerminateScopeCall(c, s))
             \/ (\E p \in Pid : SingleCall(c, p))
             \/ ShutdownCall(c) \/ Cancel(c)
      PROVE  Evidence'
  BY <1>1, <1>7, PlainCallEvidence, SingleEvidence
<1>8. ASSUME NEW c \in Caller, CallStep(c) PROVE Evidence'
  <2>1. CASE \E p \in Pid : ScopeJoin(c, p) \/ SingleReturn(c, p)
    BY <1>1, <2>1, JoinEvidence, SingleEvidence
  <2>2. CASE ScopeSweep(c) \/ ScopeSweepOk(c) \/ ScopeUnverified(c) \/ ScopePublish(c)
    BY <1>1, <2>2, SweepEvidence, UnverifiedEvidence, PublishEvidence
  <2>3. CASE ScopeDrain(c) \/ ScopeRetire(c)
    BY <1>1, <2>3, DrainEvidence, RetireEvidence
  <2>4. CASE \/ TerminateScopeLookup(c) \/ ScopeSettled(c) \/ ScopeSweepErr(c)
             \/ ScopeUnregister(c) \/ ScopeRemember(c)
             \/ ShutdownSnapshot(c) \/ ShutdownNext(c) \/ ShutdownReturn(c)
    BY <1>1, <2>4, PlainCallEvidence
  <2> QED BY <1>8, <2>1, <2>2, <2>3, <2>4 DEF CallStep, ScopeLock
<1> QED BY <1>2, <1>3, <1>4, <1>5, <1>6, <1>7, <1>8 DEF Next

LEMMA EvidenceInvariant == Spec => [](Blocks /\ Responsible /\ Evidence)
<1>1. Init => Blocks /\ Responsible /\ Evidence
  BY InitBlocks, InitResponsible, InitEvidence
<1>2. /\ Blocks /\ Responsible /\ Evidence /\ [Next]_vars
      => (Blocks /\ Responsible /\ Evidence)'
  BY NextBlocks, NextResponsible, NextEvidence
<1> QED BY <1>1, <1>2, PTL DEF Spec

\* The registry is the first to know of a verified exit: what waiter history, a
\* monitor's event, the pending outcomes, a receiver or a worker holds was
\* recorded there before, and what a retry publishes is verified.
THEOREM RegistryIsFirst == Spec => []RegistryLeads
<1>1. Evidence => RegistryLeads
  BY DEF Evidence
<1> QED BY <1>1, EvidenceInvariant, PTL

\* WaitNotifierHandler never publishes a failure that the registry has
\* corrected, and record_recovered_exit replaces the one it corrects under the
\* registry lock: while try_get answers an unverified exit, the process is
\* still quarantined.
THEOREM HistoryIsNotStale == Spec => []NoStaleFailure
<1>1. Evidence => NoStaleFailure
  BY DEF Evidence
<1> QED BY <1>1, EvidenceInvariant, PTL
=============================================================================
