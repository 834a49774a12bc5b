--------------------------- MODULE OperatorLemmas ---------------------------
(***************************************************************************)
(* What the operators of ProcessScope and WaiterHistory return: types, and *)
(* which exits they may introduce.  The proofs about Waiters and Supervisor *)
(* cite these and do not look inside the operators again.                  *)
(***************************************************************************)
EXTENDS WaiterHistory, SequenceTheorems, TLAPS

\* Eviction keeps a slot or clears it, and keeps a well-formed queue.
LEMMA EvictType ==
  ASSUME NEW w \in WaiterRecord
  PROVE  /\ Evict(w) \in WaiterRecord
         /\ \A q \in Pid : Evict(w).entries[q] \in {w.entries[q], NoSlot}
<1> DEFINE excess == IF Len(w.completed) > HistoryBound
                     THEN Len(w.completed) - HistoryBound ELSE 0
           rest == SubSeq(w.completed, excess + 1, Len(w.completed))
<1>1. w.completed \in Seq(Pid) /\ w.entries \in [Pid -> Slot]
  BY DEF WaiterRecord
<1>2. Len(w.completed) \in Nat /\ excess \in Nat
  BY <1>1, HistoryBoundAssumption, LenProperties
<1>3. \A i \in excess + 1 .. Len(w.completed) : w.completed[i] \in Pid
  BY <1>1, <1>2, ElementOfSeq
<1>4. rest \in Seq(Pid)
  <2> HIDE DEF excess
  <2> QED BY <1>2, <1>3, SubSeqProperties
<1>5. NoSlot \in Slot
  BY DEF NoSlot, Slot, OptOutcome
<1>6. Evict(w) = [entries   |-> Evict(w).entries, completed |-> rest]
  BY DEF Evict
<1>7. /\ Evict(w).entries \in [Pid -> Slot]
      /\ \A q \in Pid : Evict(w).entries[q] \in {w.entries[q], NoSlot}
  BY <1>1, <1>5 DEF Evict
<1> QED
  <2> HIDE DEF rest
  <2> QED BY <1>4, <1>6, <1>7 DEF WaiterRecord

\* Registering a receiver publishes nothing.
LEMMA WaitSlotType ==
  ASSUME NEW w \in WaiterRecord, NEW p \in Pid
  PROVE  /\ WaitSlot(w, p) \in WaiterRecord
         /\ \A q \in Pid : TryGet(WaitSlot(w, p), q) \in {TryGet(w, q), NoExit}
         /\ TryGet(w, p) \in OptOutcome
BY DEF WaiterRecord, WaitSlot, TryGet, Slot, NoSlot, OptOutcome, Outcome,
       VerifiedOutcome, UnverifiedOutcome

\* Publishing an exit of p changes what try_get answers for p to that exit, or
\* clears slots; nothing else.
LEMMA SignalExitType ==
  ASSUME NEW w \in WaiterRecord, NEW p \in Pid, NEW exit \in Outcome
  PROVE  /\ SignalExit(w, p, exit) \in WaiterRecord
         /\ \A q \in Pid : TryGet(SignalExit(w, p, exit), q) \in
              {TryGet(w, q), NoExit} \cup (IF q = p THEN {exit} ELSE {})
<1> DEFINE kind == IF exit \in VerifiedOutcome THEN "Completed" ELSE "Pending"
           next == [entries   |-> [w.entries EXCEPT ![p] =
                                     [kind |-> kind, exit |-> exit]],
                    completed |-> IF TryGet(w, p) # NoExit THEN w.completed
                                  ELSE Append(w.completed, p)]
<1>1. w.completed \in Seq(Pid) /\ w.entries \in [Pid -> Slot]
  BY DEF WaiterRecord
<1>2. [kind |-> kind, exit |-> exit] \in Slot
  BY DEF Slot, OptOutcome
<1>3. next \in WaiterRecord
  <2> HIDE DEF kind
  <2> QED BY <1>1, <1>2, AppendProperties DEF WaiterRecord
<1>4. SignalExit(w, p, exit) \in {w, Evict(next)}
  BY DEF SignalExit
<1>5. \A q \in Pid : next.entries[q].exit = IF q = p THEN exit ELSE w.entries[q].exit
  BY <1>1
<1>6. \A q \in Pid : Evict(next).entries[q] \in {next.entries[q], NoSlot}
  <2> HIDE DEF next
  <2> QED BY <1>3, EvictType
<1>7. Evict(next) \in WaiterRecord
  <2> HIDE DEF next
  <2> QED BY <1>3, EvictType
<1>8. \A q \in Pid : TryGet(Evict(next), q) \in
        {TryGet(w, q), NoExit} \cup (IF q = p THEN {exit} ELSE {})
  <2> SUFFICES ASSUME NEW q \in Pid
               PROVE  \/ Evict(next).entries[q].exit = w.entries[q].exit
                      \/ Evict(next).entries[q].exit = NoExit
                      \/ q = p /\ Evict(next).entries[q].exit = exit
    BY DEF TryGet
  <2> HIDE DEF next
  <2>1. Evict(next).entries[q] = next.entries[q] \/ Evict(next).entries[q] = NoSlot
    BY <1>6
  <2>2. NoSlot.exit = NoExit
    BY DEF NoSlot
  <2> QED BY <1>5, <2>1, <2>2
<1> QED
  <2> HIDE DEF next
  <2> QED BY <1>4, <1>7, <1>8

\* A receiver sees the exit that is published, or what it saw before.
LEMMA ReceiverAfterValue ==
  ASSUME NEW w, NEW p, NEW exit, NEW seen
  PROVE  ReceiverAfter(w, p, exit, seen) \in {exit, seen}
BY DEF ReceiverAfter

-----------------------------------------------------------------------------
\* The exits of an aggregate, and how each method may change them.
LEMMA ScopeTypes ==
  /\ NoScopeEntry \in Scopes /\ NewScope \in Scopes
  /\ \A p \in Pid : /\ NoScopeEntry.processes[p].exit = NoExit
                    /\ NewScope.processes[p].exit = NoExit
BY DEF NoScopeEntry, NewScope, NoProcesses, NoProcess, Scopes, Process,
       ScopeState, ProcessLifecycle, OptOutcome

\* The methods of Process take processes to processes.
LEMMA ProcessTypes ==
  ASSUME NEW process \in Process
  PROVE  /\ RequestGraceful(process) \in Process
         /\ RequestGraceful(process).exit = process.exit
         /\ EscalateToForce(process) \in Process
         /\ EscalateToForce(process).exit = process.exit
         /\ MarkExited(process) \in Process
         /\ MarkExited(process).exit = process.exit
         /\ \A exit \in OptOutcome :
              /\ MarkReaped(process, exit) \in Process
              /\ MarkReaped(process, exit).exit \in {process.exit, exit}
BY DEF Process, RequestGraceful, EscalateToForce, MarkExited, MarkReaped,
       ProcessLifecycle

\* The methods that record no exit.
LEMMA ScopeMethodTypes ==
  ASSUME NEW scope \in Scopes, NEW p \in Pid
  PROVE  /\ AttachSpawned(scope, p) \in Scopes
         /\ RequestTermination(scope, p) \in Scopes
         /\ EscalateTermination(scope, p) \in Scopes
         /\ BeginScopeTermination(scope) \in Scopes
         /\ RecordExit(scope, p) \in Scopes
         /\ Prune(scope, p) \in Scopes
         /\ \A q \in Pid :
              LET before == scope.processes[q].exit IN
              /\ AttachSpawned(scope, p).processes[q].exit \in {before, NoExit}
              /\ RequestTermination(scope, p).processes[q].exit = before
              /\ EscalateTermination(scope, p).processes[q].exit = before
              /\ BeginScopeTermination(scope).processes[q].exit = before
              /\ RecordExit(scope, p).processes[q].exit = before
              /\ Prune(scope, p).processes[q].exit \in {before, NoExit}
<1>1. /\ scope.state \in ScopeState \cup {"Absent"}
      /\ scope.processes \in [Pid -> Process]
      /\ scope = [state |-> scope.state, processes |-> scope.processes]
  BY DEF Scopes
<1>2. RunningProcess \in Process /\ RunningProcess.exit = NoExit
  BY DEF RunningProcess, Process, ProcessLifecycle, OptOutcome
<1>3. NoProcess \in Process /\ NoProcess.exit = NoExit
  BY DEF NoProcess, Process, ProcessLifecycle, OptOutcome
<1>4. \A q \in Pid :
        /\ RequestGraceful(scope.processes[q]) \in Process
        /\ RequestGraceful(scope.processes[q]).exit = scope.processes[q].exit
        /\ EscalateToForce(scope.processes[q]) \in Process
        /\ EscalateToForce(scope.processes[q]).exit = scope.processes[q].exit
        /\ MarkExited(scope.processes[q]) \in Process
        /\ MarkExited(scope.processes[q]).exit = scope.processes[q].exit
  BY <1>1, ProcessTypes
<1>5. /\ AttachSpawned(scope, p) \in Scopes
      /\ \A q \in Pid : AttachSpawned(scope, p).processes[q].exit
                          \in {scope.processes[q].exit, NoExit}
  BY <1>1, <1>2 DEF AttachSpawned, Scopes
<1>6. /\ RequestTermination(scope, p) \in Scopes
      /\ \A q \in Pid : RequestTermination(scope, p).processes[q].exit
                          = scope.processes[q].exit
  BY <1>1, <1>4 DEF RequestTermination, Scopes
<1>7. /\ EscalateTermination(scope, p) \in Scopes
      /\ \A q \in Pid : EscalateTermination(scope, p).processes[q].exit
                          = scope.processes[q].exit
  BY <1>1, <1>4 DEF EscalateTermination, Scopes
<1>8. /\ BeginScopeTermination(scope) \in Scopes
      /\ \A q \in Pid : BeginScopeTermination(scope).processes[q].exit
                          = scope.processes[q].exit
  BY <1>1, <1>4 DEF BeginScopeTermination, Scopes, ScopeState
<1>9. /\ RecordExit(scope, p) \in Scopes
      /\ \A q \in Pid : RecordExit(scope, p).processes[q].exit
                          = scope.processes[q].exit
  BY <1>1, <1>4 DEF RecordExit, Scopes
<1>10. /\ Prune(scope, p) \in Scopes
       /\ \A q \in Pid : Prune(scope, p).processes[q].exit
                           \in {scope.processes[q].exit, NoExit}
  BY <1>1, <1>3 DEF Prune, Scopes
<1> QED BY <1>5, <1>6, <1>7, <1>8, <1>9, <1>10

\* record_reaped introduces no exit but the one it is given, for its process.
LEMMA RecordReapedType ==
  ASSUME NEW scope \in Scopes, NEW p \in Pid, NEW exit \in OptOutcome
  PROVE  /\ RecordReaped(scope, p, exit) \in Scopes
         /\ \A q \in Pid : RecordReaped(scope, p, exit).processes[q].exit \in
              {scope.processes[q].exit} \cup (IF q = p THEN {exit} ELSE {})
<1> DEFINE reaped == [scope EXCEPT !.processes[p] = MarkReaped(@, exit)]
<1>1. /\ scope.state \in ScopeState \cup {"Absent"}
      /\ scope.processes \in [Pid -> Process]
      /\ scope = [state |-> scope.state, processes |-> scope.processes]
  BY DEF Scopes
<1>2. /\ MarkReaped(scope.processes[p], exit) \in Process
      /\ MarkReaped(scope.processes[p], exit).exit
           \in {scope.processes[p].exit, exit}
  BY <1>1, ProcessTypes
<1>3. /\ reaped \in Scopes
      /\ \A q \in Pid : reaped.processes[q].exit \in
           {scope.processes[q].exit} \cup (IF q = p THEN {exit} ELSE {})
  BY <1>1, <1>2 DEF Scopes
<1>4. RecordReaped(scope, p, exit) \in {reaped, [reaped EXCEPT !.state = "Closed"]}
  BY DEF RecordReaped
<1>5. /\ [reaped EXCEPT !.state = "Closed"] \in Scopes
      /\ [reaped EXCEPT !.state = "Closed"].processes = reaped.processes
  <2> HIDE DEF reaped
  <2> QED BY <1>3 DEF Scopes, ScopeState
<1> QED
  <2> HIDE DEF reaped
  <2> QED BY <1>3, <1>4, <1>5
=============================================================================
